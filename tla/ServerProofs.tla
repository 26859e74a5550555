------------------------------ MODULE ServerProofs ------------------------------
(***************************************************************************)
(* Proofs about Server, for all ports, connections, threads and bounds:    *)
(* types, that every listener always has one accept under way, and that    *)
(* two threads never run handlers of one session.                          *)
(***************************************************************************)
EXTENDS Server, SequenceTheorems, TLAPS

-----------------------------------------------------------------------------
(* A listener's strand has on_accept only, a session's has all the others.  *)

SessionOps == {"on_read", "job", "send"}

HandlersOf(s) ==
    IF s \in Listeners THEN [op : {"on_accept"}, socket : Conns \cup {None}]
                       ELSE [op : SessionOps]

KindsOK == \A s \in Strands : work[s] \in Seq(HandlersOf(s))

Queued(s) == \E i \in 1 .. Len(ready) : ready[i] = s
Held(s) == \E t \in Threads : thread[t] = s

(* A strand with handlers is in one place: once in the queue, or on one     *)
(* thread; one without is nowhere.                                          *)
PlacesOK ==
    /\ \A t, u \in Threads : thread[t] = thread[u] => t = u \/ thread[t] = None
    /\ \A i, j \in 1 .. Len(ready) : ready[i] = ready[j] => i = j
    /\ \A s \in Strands : ~(Queued(s) /\ Held(s))
    /\ \A s \in Strands : work[s] = <<>> => ~Queued(s) /\ ~Held(s)

ServerInv == TypeOK /\ KindsOK /\ AlwaysListening /\ PlacesOK

LEMMA StrandsAre ==
    /\ \A l \in Listeners : l \in Strands /\ l \notin Conns /\ l # None
    /\ \A c \in Conns : c \in Strands /\ c \notin Listeners /\ c # None
    /\ \A s \in Strands : s \in Listeners \/ s \in Conns
    /\ None \notin Strands
  BY NamesAssumption DEF Strands

LEMMA HandlersAreTasks ==
    \A s \in Strands : \A h \in HandlersOf(s) : h \in Tasks
  BY DEF HandlersOf, Tasks, SessionOps

LEMMA EmptyLen == \A S : \A q \in Seq(S) : (q = <<>> <=> Len(q) = 0) /\ Len(q) \in Nat
  BY EmptySeq, LenProperties

-----------------------------------------------------------------------------
(* What happens to the queue and the strands.                               *)

(* A handler is posted.                                                     *)
LEMMA PostPlaces ==
    ASSUME ServerInv, NEW s \in Strands, NEW task, Post(s, task), thread' = thread,
           task \in HandlersOf(s)
    PROVE  /\ PlacesOK' /\ KindsOK'
           /\ work' \in [Strands -> Seq(Tasks)] /\ ready' \in Seq(Strands)
           /\ work' = [work EXCEPT ![s] = Append(@, task)]
  <1>1. /\ work \in [Strands -> Seq(Tasks)] /\ ready \in Seq(Strands)
        /\ work' = [work EXCEPT ![s] = Append(@, task)]
    BY DEF ServerInv, TypeOK, Post
  <1>2. task \in Tasks BY HandlersAreTasks
  <1>3. work[s] \in Seq(Tasks) /\ work[s] \in Seq(HandlersOf(s))
    BY <1>1 DEF ServerInv, KindsOK
  <1>4. Append(work[s], task) \in Seq(Tasks) /\ Append(work[s], task) # <<>>
    BY <1>2, <1>3, AppendProperties
  <1>5. Append(work[s], task) \in Seq(HandlersOf(s))
    BY <1>3, AppendProperties
  <1>6. work' \in [Strands -> Seq(Tasks)] BY <1>1, <1>4
  <1>7. KindsOK'
    <2>1. ASSUME NEW r \in Strands PROVE work'[r] \in Seq(HandlersOf(r)')
      <3>1. HandlersOf(r)' = HandlersOf(r) BY DEF HandlersOf
      <3> QED BY <3>1, <1>1, <1>5 DEF ServerInv, KindsOK
    <2> QED BY <2>1 DEF KindsOK
  <1>8. \A r \in Strands : work'[r] = <<>> => r # s /\ work[r] = <<>>
    BY <1>1, <1>4
  <1>9. CASE work[s] # <<>>
    <2>1. ready' = ready BY <1>9 DEF Post
    <2>2. PlacesOK' BY <2>1, <1>8 DEF PlacesOK, Queued, Held, ServerInv
    <2> QED BY <2>1, <2>2, <1>1, <1>6, <1>7
  <1>10. CASE work[s] = <<>>
    <2>1. ready' = Append(ready, s) BY <1>10 DEF Post
    <2>2. /\ ready' \in Seq(Strands) /\ Len(ready') = Len(ready) + 1
          /\ Len(ready) \in Nat
          /\ \A i \in 1 .. Len(ready) : ready'[i] = ready[i]
          /\ ready'[Len(ready) + 1] = s
      BY <1>1, <2>1, AppendProperties, LenProperties
    <2>3. ~Queued(s) /\ ~Held(s) BY <1>10 DEF ServerInv, PlacesOK
    <2>4. \A i \in 1 .. Len(ready') :
             \/ i \in 1 .. Len(ready) /\ ready'[i] = ready[i]
             \/ i = Len(ready) + 1 /\ ready'[i] = s
      BY <2>2
    <2>5. \A r \in Strands : Queued(r)' => Queued(r) \/ r = s
      BY <2>4 DEF Queued
    <2>6. \A r \in Strands : Held(r)' <=> Held(r) BY DEF Held
    <2>7. \A i, j \in 1 .. Len(ready') : ready'[i] = ready'[j] => i = j
      BY <2>2, <2>3, <2>4 DEF ServerInv, PlacesOK, Queued
    <2>8. PlacesOK'
      BY <2>3, <2>5, <2>6, <2>7, <1>8 DEF PlacesOK, ServerInv
    <2> QED BY <2>2, <2>8, <1>1, <1>6, <1>7
  <1> QED BY <1>9, <1>10

(* A thread takes the first strand of the queue.                            *)
LEMMA TakeStep == ASSUME ServerInv, NEW t \in Threads, Take(t) PROVE ServerInv'
  <1>1. /\ ready \in Seq(Strands) /\ ready # <<>> /\ ready' = Tail(ready)
        /\ thread \in [Threads -> Strands \cup {None}]
        /\ thread[t] = None
        /\ thread' = [thread EXCEPT ![t] = Head(ready)]
        /\ UNCHANGED <<accepting, conn, reading, work, stuck, requests, errors>>
    BY DEF ServerInv, TypeOK, Take
  <1>2. /\ Head(ready) \in Strands /\ ready' \in Seq(Strands)
        /\ Len(ready) \in Nat /\ Len(ready) > 0 /\ Len(ready') = Len(ready) - 1
        /\ \A i \in 1 .. Len(ready') : ready'[i] = ready[i + 1]
        /\ Head(ready) = ready[1]
    BY <1>1, HeadTailProperties, EmptyLen
  <1>3. TypeOK' BY <1>1, <1>2 DEF ServerInv, TypeOK
  <1>4. KindsOK'
    <2>1. \A s \in Strands : HandlersOf(s)' = HandlersOf(s) BY DEF HandlersOf
    <2> QED BY <1>1, <2>1 DEF ServerInv, KindsOK
  <1>5. AlwaysListening' BY <1>1 DEF ServerInv, AlwaysListening
  <1>6. PICK s : s = ready[1] OBVIOUS
  <1>7. Queued(s) /\ ~Held(s) /\ s \in Strands /\ s # None /\ work[s] # <<>>
    BY <1>2, <1>6, StrandsAre DEF Queued, ServerInv, PlacesOK
  <1>8. \A i \in 1 .. Len(ready') : i + 1 \in 1 .. Len(ready) /\ ready'[i] = ready[i + 1]
    BY <1>2
  <1>9. ASSUME NEW i \in 1 .. Len(ready') PROVE ready'[i] # s
    <2>1. i + 1 # 1 /\ 1 \in 1 .. Len(ready) BY <1>2
    <2> QED BY <2>1, <1>6, <1>8 DEF ServerInv, PlacesOK
  <1>10. \A r \in Strands : Queued(r)' => Queued(r) /\ r # s
    BY <1>8, <1>9 DEF Queued
  <1>11. \A r \in Strands : Held(r)' => Held(r) \/ r = s
    BY <1>1, <1>2, <1>6 DEF Held
  <1>12. \A u, v \in Threads : thread'[u] = thread'[v] => u = v \/ thread'[u] = None
    BY <1>1, <1>2, <1>6, <1>7 DEF Held, ServerInv, PlacesOK
  <1>13. ASSUME NEW i \in 1 .. Len(ready'), NEW j \in 1 .. Len(ready'),
                ready'[i] = ready'[j]
         PROVE  i = j
    <2>1. i + 1 = j + 1 BY <1>8, <1>13 DEF ServerInv, PlacesOK
    <2> QED BY <2>1, <1>2
  <1>14. PlacesOK'
    BY <1>1, <1>7, <1>10, <1>11, <1>12, <1>13 DEF ServerInv, PlacesOK
  <1> QED BY <1>3, <1>4, <1>5, <1>14 DEF ServerInv

(* A handler returns, having posted others to its strand.                   *)
LEMMA ReturnPlaces ==
    ASSUME ServerInv, NEW t \in Threads, NEW s \in Strands, thread[t] = s,
           work[s] # <<>>, NEW posted \in Seq(HandlersOf(s)), Return(t, posted)
    PROVE  /\ PlacesOK' /\ KindsOK'
           /\ work' \in [Strands -> Seq(Tasks)] /\ ready' \in Seq(Strands)
           /\ thread' \in [Threads -> Strands \cup {None}]
           /\ work' = [work EXCEPT ![s] = Tail(work[s]) \o posted]
  <1>1. /\ work \in [Strands -> Seq(Tasks)] /\ ready \in Seq(Strands)
        /\ thread \in [Threads -> Strands \cup {None}]
        /\ s # None
    BY StrandsAre DEF ServerInv, TypeOK
  <1>2. PICK left : left = Tail(work[s]) \o posted OBVIOUS
  <1>3. /\ work' = [work EXCEPT ![s] = left]
        /\ \/ left # <<>> /\ UNCHANGED <<thread, ready>>
           \/ /\ thread' = [thread EXCEPT ![t] = None]
              /\ ready' = IF left = <<>> THEN ready ELSE Append(ready, s)
    BY <1>2 DEF Return
  <1>4. left \in Seq(HandlersOf(s))
    <2>1. work[s] \in Seq(HandlersOf(s)) BY DEF ServerInv, KindsOK
    <2>2. Tail(work[s]) \in Seq(HandlersOf(s)) BY <2>1, HeadTailProperties
    <2> QED BY <2>2, <1>2, ConcatProperties
  <1>5. left \in Seq(Tasks)
    <2>1. \A i \in 1 .. Len(left) : left[i] \in Tasks
      BY <1>4, ElementOfSeq, HandlersAreTasks
    <2> QED BY <2>1, <1>4, IsASeq, SeqDef
  <1>6. work' \in [Strands -> Seq(Tasks)] BY <1>1, <1>3, <1>5
  <1>7. KindsOK'
    <2>1. ASSUME NEW r \in Strands PROVE work'[r] \in Seq(HandlersOf(r)')
      <3>1. HandlersOf(r)' = HandlersOf(r) BY DEF HandlersOf
      <3> QED BY <3>1, <1>1, <1>3, <1>4 DEF ServerInv, KindsOK
    <2> QED BY <2>1 DEF KindsOK
  <1>8. work' = [work EXCEPT ![s] = Tail(work[s]) \o posted] BY <1>2, <1>3
  <1>9. Held(s) /\ ~Queued(s) BY DEF Held, ServerInv, PlacesOK
  <1>10. CASE left # <<>> /\ UNCHANGED <<thread, ready>>
    <2>1. \A r \in Strands : work'[r] = <<>> => work[r] = <<>>
      BY <1>1, <1>3, <1>10
    <2>2. PlacesOK' BY <2>1, <1>10 DEF PlacesOK, Queued, Held, ServerInv
    <2> QED BY <2>2, <1>1, <1>6, <1>7, <1>8, <1>10
  <1>11. CASE /\ thread' = [thread EXCEPT ![t] = None]
              /\ ready' = IF left = <<>> THEN ready ELSE Append(ready, s)
    <2>1. thread' \in [Threads -> Strands \cup {None}] BY <1>1, <1>11
    <2>2. \A u, v \in Threads : thread'[u] = thread'[v] => u = v \/ thread'[u] = None
      BY <1>1, <1>11 DEF ServerInv, PlacesOK
    <2>3. \A r \in Strands : Held(r)' => Held(r) /\ r # s
      <3>1. ASSUME NEW r \in Strands, NEW u \in Threads, thread'[u] = r
            PROVE  thread[u] = r /\ r # s
        <4>1. r # None BY StrandsAre
        <4>2. u # t BY <3>1, <4>1, <1>1, <1>11
        <4>3. thread[u] = r BY <3>1, <4>2, <1>1, <1>11
        <4> QED BY <4>1, <4>2, <4>3 DEF ServerInv, PlacesOK
      <3> QED BY <3>1 DEF Held
    <2>4. CASE left = <<>>
      <3>1. ready' = ready BY <2>4, <1>11
      <3>2. \A r \in Strands : Queued(r)' => Queued(r) /\ r # s
        BY <3>1, <1>9 DEF Queued
      <3>3. \A r \in Strands : work'[r] = <<>> => r = s \/ work[r] = <<>>
        BY <1>1, <1>3
      <3>4. PlacesOK'
        BY <2>2, <2>3, <3>1, <3>2, <3>3 DEF PlacesOK, ServerInv
      <3> QED BY <2>1, <3>1, <3>4, <1>1, <1>6, <1>7, <1>8
    <2>5. CASE left # <<>>
      <3>1. ready' = Append(ready, s) BY <2>5, <1>11
      <3>2. /\ ready' \in Seq(Strands) /\ Len(ready') = Len(ready) + 1
            /\ Len(ready) \in Nat
            /\ \A i \in 1 .. Len(ready) : ready'[i] = ready[i]
            /\ ready'[Len(ready) + 1] = s
        BY <1>1, <3>1, AppendProperties, LenProperties
      <3>3. \A i \in 1 .. Len(ready') :
               \/ i \in 1 .. Len(ready) /\ ready'[i] = ready[i]
               \/ i = Len(ready) + 1 /\ ready'[i] = s
        BY <3>2
      <3>4. \A r \in Strands : Queued(r)' => Queued(r) \/ r = s
        BY <3>3 DEF Queued
      <3>5. \A i, j \in 1 .. Len(ready') : ready'[i] = ready'[j] => i = j
        BY <3>2, <3>3, <1>9 DEF ServerInv, PlacesOK, Queued
      <3>6. \A r \in Strands : work'[r] = <<>> => r # s /\ work[r] = <<>>
        BY <2>5, <1>1, <1>3
      <3>7. PlacesOK'
        BY <2>2, <2>3, <3>4, <3>5, <3>6 DEF PlacesOK, ServerInv
      <3> QED BY <2>1, <3>2, <3>7, <1>1, <1>6, <1>7, <1>8
    <2> QED BY <2>4, <2>5
  <1> QED BY <1>3, <1>10, <1>11

-----------------------------------------------------------------------------
(* The other actions.                                                       *)

LEMMA InitHolds == Init => ServerInv
  <1> SUFFICES ASSUME Init PROVE ServerInv OBVIOUS
  <1>1. TypeOK
    <2>1. None \in Strands \cup {None} /\ <<>> \in Seq(Tasks) /\ <<>> \in Seq(Strands)
      OBVIOUS
    <2>2. 0 \in 0 .. MaxRequests /\ 0 \in 0 .. MaxErrors BY CountsAssumption
    <2> QED BY <2>1, <2>2 DEF Init, TypeOK
  <1>2. KindsOK
    <2>1. \A s \in Strands : <<>> \in Seq(HandlersOf(s)) OBVIOUS
    <2> QED BY <2>1 DEF Init, KindsOK
  <1>3. AlwaysListening BY StrandsAre DEF Init, AlwaysListening
  <1>4. PlacesOK
    <2>1. Len(ready) = 0 BY DEF Init
    <2>2. \A s \in Strands : ~Queued(s) BY <2>1 DEF Queued
    <2>3. \A s \in Strands : ~Held(s) BY StrandsAre DEF Held, Init
    <2>4. \A t \in Threads : thread[t] = None BY DEF Init
    <2> QED BY <2>1, <2>2, <2>3, <2>4 DEF PlacesOK
  <1> QED BY <1>1, <1>2, <1>3, <1>4 DEF ServerInv

(* Nothing but clients changes.                                             *)
LEMMA ClientStep ==
    ASSUME ServerInv, NEW c \in Conns, Connect(c) \/ GiveUp(c) PROVE ServerInv'
  <1>1. TypeOK' BY DEF ServerInv, TypeOK, Connect, GiveUp
  <1>2. UNCHANGED <<accepting, work, ready, thread>> BY DEF Connect, GiveUp
  <1>3. \A s : HandlersOf(s)' = HandlersOf(s) BY DEF HandlersOf
  <1>4. KindsOK' BY <1>2, <1>3 DEF ServerInv, KindsOK
  <1>5. AlwaysListening' /\ PlacesOK'
    BY <1>2 DEF ServerInv, AlwaysListening, PlacesOK, Queued, Held
  <1> QED BY <1>1, <1>4, <1>5 DEF ServerInv

(* A completed or failed accept queues on_accept on the idle listener.      *)
LEMMA AcceptStep ==
    ASSUME ServerInv, NEW l \in Listeners, AcceptCompletes(l) \/ AcceptFails(l)
    PROVE  ServerInv'
  <1>1. PICK c \in Conns \cup {None} : Post(l, OnAccept(c))
    BY DEF AcceptCompletes, AcceptFails
  <1>2. l \in Strands /\ OnAccept(c) \in HandlersOf(l)
    BY StrandsAre DEF HandlersOf, OnAccept
  <1>3. /\ accepting' = [accepting EXCEPT ![l] = FALSE] /\ accepting[l]
        /\ UNCHANGED <<reading, thread, stuck, requests>>
    BY DEF AcceptCompletes, AcceptFails
  <1>4. /\ PlacesOK' /\ KindsOK'
        /\ work' \in [Strands -> Seq(Tasks)] /\ ready' \in Seq(Strands)
        /\ work' = [work EXCEPT ![l] = Append(@, OnAccept(c))]
    BY <1>1, <1>2, <1>3, PostPlaces
  <1>5. conn' \in [Conns -> {"absent", "backlog", "accepted", "open", "gone"}]
    BY DEF ServerInv, TypeOK, AcceptCompletes, AcceptFails
  <1>6. errors' \in 0 .. MaxErrors
    BY CountsAssumption DEF ServerInv, TypeOK, AcceptCompletes, AcceptFails
  <1>7. TypeOK' BY <1>3, <1>4, <1>5, <1>6 DEF ServerInv, TypeOK
  <1>8. AlwaysListening'
    <2>1. work[l] = <<>> BY <1>3 DEF ServerInv, AlwaysListening
    <2>2. work'[l] = <<OnAccept(c)>>
      BY <2>1, <1>2, <1>4 DEF ServerInv, TypeOK
    <2>3. accepting'[l] = FALSE /\ Len(work'[l]) = 1
      BY <2>2, <1>3 DEF ServerInv, TypeOK
    <2>4. ASSUME NEW k \in Listeners, k # l
          PROVE  accepting'[k] = accepting[k] /\ work'[k] = work[k]
      BY <2>4, <1>3, <1>4, StrandsAre DEF ServerInv, TypeOK
    <2> QED BY <2>3, <2>4 DEF ServerInv, AlwaysListening
  <1> QED BY <1>4, <1>7, <1>8 DEF ServerInv

(* What only a session's strand sees leaves the listeners as they are.      *)
LEMMA OthersListen ==
    ASSUME ServerInv, NEW s \in Conns, NEW q, work' = [work EXCEPT ![s] = q],
           accepting' = accepting
    PROVE  AlwaysListening'
  <1>1. ASSUME NEW l \in Listeners PROVE work'[l] = work[l]
    BY StrandsAre DEF ServerInv, TypeOK
  <1> QED BY <1>1 DEF ServerInv, AlwaysListening

LEMMA ArriveStep ==
    ASSUME ServerInv, NEW c \in Conns, RequestArrives(c) PROVE ServerInv'
  <1>1. c \in Strands /\ Task("on_read") \in HandlersOf(c)
    BY StrandsAre DEF HandlersOf, Task, SessionOps
  <1>2. /\ Post(c, Task("on_read"))
        /\ UNCHANGED <<accepting, conn, thread, stuck, errors>>
    BY DEF RequestArrives
  <1>3. /\ PlacesOK' /\ KindsOK'
        /\ work' \in [Strands -> Seq(Tasks)] /\ ready' \in Seq(Strands)
        /\ work' = [work EXCEPT ![c] = Append(@, Task("on_read"))]
    BY <1>1, <1>2, PostPlaces
  <1>4. requests' \in [Conns -> 0 .. MaxRequests]
    BY CountsAssumption DEF ServerInv, TypeOK, RequestArrives
  <1>5. reading' \in [Conns -> BOOLEAN] BY DEF ServerInv, TypeOK, RequestArrives
  <1>6. TypeOK' BY <1>2, <1>3, <1>4, <1>5 DEF ServerInv, TypeOK
  <1>7. work' = [work EXCEPT ![c] = Append(work[c], Task("on_read"))] BY <1>3
  <1>8. AlwaysListening' BY <1>2, <1>7, OthersListen
  <1> QED BY <1>3, <1>6, <1>8 DEF ServerInv

(* What a handler's kind says of the strand it runs on.                     *)
LEMMA RunsWhere ==
    ASSUME ServerInv, NEW t \in Threads, NEW op, Runs(t, op)
    PROVE  /\ thread[t] \in Strands /\ work[thread[t]] # <<>>
           /\ op \in SessionOps => thread[t] \in Conns
           /\ op = "on_accept" =>
                 /\ thread[t] \in Listeners
                 /\ Head(work[thread[t]]).socket \in Conns \cup {None}
  <1>1. thread[t] \in Strands /\ work[thread[t]] # <<>>
    BY DEF Runs, ServerInv, TypeOK
  <1>2. Head(work[thread[t]]) \in HandlersOf(thread[t])
    BY <1>1, HeadTailProperties DEF ServerInv, KindsOK
  <1>3. Head(work[thread[t]]).op = op BY DEF Runs
  <1> QED BY <1>1, <1>2, <1>3, StrandsAre DEF HandlersOf, SessionOps

LEMMA OnAcceptStep ==
    ASSUME ServerInv, NEW t \in Threads, RunOnAccept(t) PROVE ServerInv'
  <1>1. PICK s : s = thread[t] OBVIOUS
  <1>2. s \in Listeners /\ s \in Strands /\ work[s] # <<>>
    BY <1>1, RunsWhere DEF RunOnAccept
  <1>3. <<>> \in Seq(HandlersOf(s)) OBVIOUS
  <1>4. /\ Return(t, <<>>) /\ UNCHANGED <<stuck, requests, errors>>
        /\ accepting' = [accepting EXCEPT ![s] = TRUE]
    BY <1>1 DEF RunOnAccept
  <1>5. /\ PlacesOK' /\ KindsOK'
        /\ work' \in [Strands -> Seq(Tasks)] /\ ready' \in Seq(Strands)
        /\ thread' \in [Threads -> Strands \cup {None}]
        /\ work' = [work EXCEPT ![s] = Tail(work[s]) \o <<>>]
    BY <1>1, <1>2, <1>3, <1>4, ReturnPlaces
  <1>6. /\ conn' \in [Conns -> {"absent", "backlog", "accepted", "open", "gone"}]
        /\ reading' \in [Conns -> BOOLEAN]
    BY DEF RunOnAccept, ServerInv, TypeOK
  <1>7. TypeOK' BY <1>4, <1>5, <1>6 DEF ServerInv, TypeOK
  <1>8. AlwaysListening'
    <2>1. accepting[s] \in BOOLEAN /\ work[s] \in Seq(Tasks)
      BY <1>2 DEF ServerInv, TypeOK
    <2>2. Len(work[s]) = 1 BY <1>2, <2>1 DEF ServerInv, AlwaysListening
    <2>3. Tail(work[s]) \in Seq(Tasks) /\ Len(Tail(work[s])) = 0
      BY <2>1, <2>2, <1>2, HeadTailProperties
    <2>4. Tail(work[s]) \o <<>> = <<>> BY <2>3, EmptyLen, ConcatEmptySeq
    <2>5. accepting'[s] /\ work'[s] = <<>>
      BY <2>4, <1>2, <1>4, <1>5 DEF ServerInv, TypeOK
    <2>6. ASSUME NEW k \in Listeners, k # s
          PROVE  accepting'[k] = accepting[k] /\ work'[k] = work[k]
      BY <2>6, <1>4, <1>5, StrandsAre DEF ServerInv, TypeOK
    <2> QED BY <2>5, <2>6 DEF ServerInv, AlwaysListening
  <1> QED BY <1>5, <1>7, <1>8 DEF ServerInv

(* Handlers of a session, which only read on and post to their own strand.  *)
LEMMA SessionStep ==
    ASSUME ServerInv, NEW t \in Threads, NEW op \in SessionOps, Runs(t, op),
           NEW posted \in {<<>>, <<Task("job")>>, <<Task("send")>>},
           Return(t, posted), reading' \in [Conns -> BOOLEAN],
           UNCHANGED <<accepting, conn, stuck, requests, errors>>
    PROVE  ServerInv'
  <1>1. PICK s : s = thread[t] OBVIOUS
  <1>2. s \in Conns /\ s \in Strands /\ work[s] # <<>> BY <1>1, RunsWhere
  <1>3. posted \in Seq(HandlersOf(s))
    <2>1. Task("job") \in HandlersOf(s) /\ Task("send") \in HandlersOf(s)
      BY <1>2, StrandsAre DEF HandlersOf, Task, SessionOps
    <2>2. CASE posted = <<>> BY <2>2
    <2>3. CASE posted = <<Task("job")>>
      <3>1. \A S : \A x \in S : <<x>> \in Seq(S) OBVIOUS
      <3> QED BY <2>1, <2>3, <3>1, Zenon
    <2>4. CASE posted = <<Task("send")>>
      <3>1. \A S : \A x \in S : <<x>> \in Seq(S) OBVIOUS
      <3> QED BY <2>1, <2>4, <3>1, Zenon
    <2> QED BY <2>2, <2>3, <2>4
  <1>4. /\ PlacesOK' /\ KindsOK'
        /\ work' \in [Strands -> Seq(Tasks)] /\ ready' \in Seq(Strands)
        /\ thread' \in [Threads -> Strands \cup {None}]
        /\ work' = [work EXCEPT ![s] = Tail(work[s]) \o posted]
    BY <1>1, <1>2, <1>3, ReturnPlaces
  <1>5. TypeOK' BY <1>4 DEF ServerInv, TypeOK
  <1>6. AlwaysListening' BY <1>2, <1>4, OthersListen
  <1> QED BY <1>4, <1>5, <1>6 DEF ServerInv

LEMMA RunSessionStep ==
    ASSUME ServerInv, NEW t \in Threads, RunOnRead(t) \/ RunJob(t) \/ RunSend(t)
    PROVE  ServerInv'
  <1>1. reading \in [Conns -> BOOLEAN] BY DEF ServerInv, TypeOK
  <1>2. CASE RunOnRead(t)
    BY <1>1, <1>2, SessionStep DEF RunOnRead, SessionOps
  <1>3. CASE RunJob(t) BY <1>1, <1>3, SessionStep DEF RunJob, SessionOps
  <1>4. CASE RunSend(t)
    <2>1. reading' \in [Conns -> BOOLEAN] BY <1>1, <1>4 DEF RunSend
    <2>2. PICK posted \in {<<>>, <<Task("job")>>, <<Task("send")>>} : Return(t, posted)
      BY <1>4 DEF RunSend
    <2> QED BY <1>4, <2>1, <2>2, SessionStep DEF RunSend, SessionOps
  <1> QED BY <1>2, <1>3, <1>4

LEMMA HangStep ==
    ASSUME ServerInv, NEW t \in Threads, JobHangs(t) PROVE ServerInv'
  <1>1. stuck' \subseteq Threads BY DEF ServerInv, TypeOK, JobHangs
  <1>2. UNCHANGED <<accepting, conn, reading, work, ready, thread, requests, errors>>
    BY DEF JobHangs
  <1>3. TypeOK' BY <1>1, <1>2 DEF ServerInv, TypeOK
  <1>4. \A s : HandlersOf(s)' = HandlersOf(s) BY DEF HandlersOf
  <1>5. KindsOK' BY <1>2, <1>4 DEF ServerInv, KindsOK
  <1>6. AlwaysListening' /\ PlacesOK'
    BY <1>2 DEF ServerInv, AlwaysListening, PlacesOK, Queued, Held
  <1> QED BY <1>3, <1>5, <1>6 DEF ServerInv

LEMMA StutterStep == ASSUME ServerInv, UNCHANGED vars PROVE ServerInv'
  <1>1. TypeOK' BY DEF ServerInv, TypeOK, vars
  <1>2. \A s : HandlersOf(s)' = HandlersOf(s) BY DEF HandlersOf
  <1>3. KindsOK' BY <1>2 DEF ServerInv, KindsOK, vars
  <1>4. AlwaysListening' /\ PlacesOK'
    BY DEF ServerInv, AlwaysListening, PlacesOK, Queued, Held, vars
  <1> QED BY <1>1, <1>3, <1>4 DEF ServerInv

LEMMA ServerHolds == Spec => []ServerInv
  <1>1. ServerInv /\ [Next]_vars => ServerInv'
    BY ClientStep, AcceptStep, ArriveStep, TakeStep, OnAcceptStep, RunSessionStep,
       HangStep, StutterStep
       DEF Next, Run
  <1> QED BY <1>1, InitHolds, PTL DEF Spec

-----------------------------------------------------------------------------
(* The variables of the server keep their types.                            *)
THEOREM TypeCorrect == Spec => []TypeOK
  <1>1. ServerInv => TypeOK BY DEF ServerInv
  <1> QED BY <1>1, ServerHolds, PTL

(* However accepts fail and sessions hang, each listener has one accept     *)
(* under way (do_accept, which on_accept calls on every path).              *)
THEOREM NeverStopsListening == Spec => []AlwaysListening
  <1>1. ServerInv => AlwaysListening BY DEF ServerInv
  <1> QED BY <1>1, ServerHolds, PTL

(* However many threads there are, no two run handlers of one strand.       *)
THEOREM OneThreadPerSession == Spec => []StrandsSerial
  <1>1. ServerInv => StrandsSerial BY DEF ServerInv, PlacesOK, StrandsSerial
  <1> QED BY <1>1, ServerHolds, PTL

=============================================================================
