--------------------------- MODULE WssSessionProofs ---------------------------
(***************************************************************************)
(* Proofs about WssSession: its type invariant, and the bounds on what can *)
(* hold a session, for every set of requests and every number of them.     *)
(***************************************************************************)
EXTENDS WssSession, Integers, TLAPS

-----------------------------------------------------------------------------
(* Facts about the strand: a queue that loses its head and gains a tail.    *)

LEMMA StrandType ==
    ASSUME NEW S, NEW q \in Seq(S), NEW hs \in Seq(S), q # <<>>
    PROVE  /\ Head(q) \in S
           /\ Head(q) = q[1]
           /\ Tail(q) \o hs \in Seq(S)
           /\ Len(Tail(q) \o hs) = Len(q) - 1 + Len(hs)
           /\ Len(q) \in Nat \ {0}
  OBVIOUS

(* What was queued behind the head stays queued.                            *)
LEMMA StrandKeeps ==
    ASSUME NEW S, NEW q \in Seq(S), NEW hs \in Seq(S), q # <<>>,
           NEW i \in DOMAIN q, i # 1
    PROVE  /\ i - 1 \in DOMAIN (Tail(q) \o hs)
           /\ (Tail(q) \o hs)[i - 1] = q[i]
  OBVIOUS

(* What is queued was queued before or has just been posted.                *)
LEMMA StrandElements ==
    ASSUME NEW S, NEW q \in Seq(S), NEW hs \in Seq(S), q # <<>>,
           NEW i \in DOMAIN (Tail(q) \o hs)
    PROVE  \/ \E k \in DOMAIN q : (Tail(q) \o hs)[i] = q[k]
           \/ \E k \in DOMAIN hs : (Tail(q) \o hs)[i] = hs[k]
  <1> DEFINE n == Len(q) - 1
  <1>1. CASE i <= n
    <2>1. i + 1 \in DOMAIN q /\ (Tail(q) \o hs)[i] = q[i + 1]
      BY <1>1
    <2> QED BY <2>1
  <1>2. CASE i > n
    <2>1. i - n \in DOMAIN hs /\ (Tail(q) \o hs)[i] = hs[i - n]
      BY <1>2
    <2> QED BY <2>1
  <1> QED BY <1>1, <1>2

-----------------------------------------------------------------------------
(* Types.                                                                   *)

LEMMA FinishType ==
    ASSUME TypeOK, strand # <<>>, NEW hs \in Seq(Handlers), Finish(hs)
    PROVE  strand' \in Seq(Handlers) /\ Current \in Handlers
  BY StrandType DEF TypeOK, Finish, Current

LEMMA ReadType ==
    ASSUME TypeOK, do_read
    PROVE  /\ reader' \in {"none", "busy", "done"}
           /\ buffer_' \in {"empty", "partial", "whole", "torn"}
           /\ leaked' \in Nat
  BY DEF TypeOK, do_read

LEMMA SendType ==
    ASSUME TypeOK, NEW tag \in ReplyTags, NEW n \in Nat, send_envelope(tag, n)
    PROVE  /\ writer' \in {"none", "busy", "done"}
           /\ outgoing' \in IF writer' = "none" THEN {NoReply} ELSE Replies
           /\ parkedWrite' \in Replies \cup {NoReply}
           /\ leaked' \in Nat
  BY DEF TypeOK, send_envelope, Reply, Replies

LEMMA HandlerType ==
    ASSUME NEW n \in Nat
    PROVE  /\ \A a \in {"ok", "error"} : /\ Handler("on_accept", a, n) \in Handlers
                                       /\ Handler("on_write", a, n) \in Handlers
           /\ \A a \in RequestKinds \cup {"error"} : Handler("on_read", a, n) \in Handlers
           /\ \A a \in JobKinds : Handler("job", a, n) \in Handlers
           /\ \A a \in ReplyTags : /\ Handler("send", a, n) \in Handlers
                                  /\ Handler("send_folder", a, n) \in Handlers
  BY DEF Handler, Handlers

LEMMA HandlerOp ==
    ASSUME NEW op, NEW a, NEW n
    PROVE  Handler(op, a, n).op = op
  BY DEF Handler

LEMMA JobsType ==
    /\ JobKinds \subseteq RequestKinds /\ "list" \in JobKinds /\ "buckets" \in JobKinds
    /\ \A k \in JobKinds : JobEnds[k] \subseteq ReplyTags \cup {"silent"}
  BY DEF JobKinds, JobEnds, RequestKinds, ReplyTags,
         handle_user_bucket, handle_add_file, handle_list_request, handle_delete_file,
         handle_files_ids_request, handle_file_path, handle_path_inf_request,
         handle_rewrite_file

LEMMA TypeInit == Init => TypeOK
  <1> SUFFICES ASSUME Init PROVE TypeOK
    OBVIOUS
  <1>1. strand \in Seq(Handlers) /\ sent \in Seq(Replies)
    BY DEF Init
  <1>2. peerGone \in BOOLEAN
    BY Zenon DEF Init
  <1>3. received \in 0 .. MaxRequests
    BY BoundAssumption DEF BoundAssumption, Init
  <1>4. leaked \in Nat /\ forks \in Nat
    BY DEF Init
  <1>5. /\ outgoing \in IF writer = "none" THEN {NoReply} ELSE Replies
        /\ parkedWrite \in Replies \cup {NoReply}
    BY Zenon DEF Init
  <1>6. /\ handshake \in {"pending", "done"}
        /\ reader \in {"none", "busy", "done"}
        /\ buffer_ \in {"empty", "partial", "whole", "torn"}
        /\ writer \in {"none", "busy", "done"}
    BY DEF Init
  <1> QED BY <1>1, <1>2, <1>3, <1>4, <1>5, <1>6, Zenon DEF TypeOK

LEMMA AppendType ==
    ASSUME TypeOK, NEW h \in Handlers, strand' = Append(strand, h)
    PROVE  strand' \in Seq(Handlers)
  BY DEF TypeOK

LEMMA TypeCompletions ==
    ASSUME TypeOK,
           \/ AcceptCompletes \/ ChunkArrives \/ MessageArrives \/ ReadFails
           \/ WriteCompletes \/ WriteFails \/ ControlFrameAnswered \/ PeerCloses
    PROVE  TypeOK'
  <1> USE DEF readVars, writeVars, peerVars
  <1>1. CASE AcceptCompletes
    <2>1. strand' \in Seq(Handlers)
      BY <1>1, HandlerType, AppendType DEF AcceptCompletes
    <2>2. handshake' \in {"pending", "done"}
      BY <1>1 DEF AcceptCompletes
    <2> QED BY <1>1, <2>1, <2>2, Zenon DEF TypeOK, AcceptCompletes
  <1>2. CASE ChunkArrives
    <2>1. buffer_' \in {"empty", "partial", "whole", "torn"}
      BY <1>2 DEF ChunkArrives
    <2> QED BY <1>2, <2>1, Zenon DEF TypeOK, ChunkArrives
  <1>3. CASE MessageArrives
    <2>1. received' \in 0 .. MaxRequests /\ received + 1 \in Nat
      BY <1>3, BoundAssumption DEF MessageArrives, TypeOK, BoundAssumption
    <2>2. strand' \in Seq(Handlers)
      BY <1>3, <2>1, HandlerType, AppendType, RequestsAssumption
      DEF MessageArrives, RequestsAssumption
    <2>3. /\ reader' \in {"none", "busy", "done"}
          /\ buffer_' \in {"empty", "partial", "whole", "torn"}
      BY <1>3 DEF MessageArrives
    <2> QED BY <1>3, <2>1, <2>2, <2>3, Zenon DEF TypeOK, MessageArrives
  <1>4. CASE ReadFails
    <2>1. received \in Nat
      BY BoundAssumption DEF TypeOK, BoundAssumption
    <2>2. strand' \in Seq(Handlers)
      BY <1>4, <2>1, HandlerType, AppendType DEF ReadFails
    <2>3. reader' \in {"none", "busy", "done"}
      BY <1>4 DEF ReadFails
    <2> QED BY <1>4, <2>2, <2>3, Zenon DEF TypeOK, ReadFails
  <1>5. CASE WriteCompletes
    <2>1. outgoing \in Replies /\ outgoing.req \in Nat
      BY <1>5 DEF TypeOK, WriteCompletes, Replies
    <2>2. strand' \in Seq(Handlers)
      BY <1>5, <2>1, HandlerType, AppendType DEF WriteCompletes
    <2>3. sent' \in Seq(Replies)
      BY <1>5, <2>1 DEF TypeOK, WriteCompletes
    <2>4. outgoing' \in IF writer' = "none" THEN {NoReply} ELSE Replies
      BY <1>5, <2>1 DEF WriteCompletes
    <2>5. writer' \in {"none", "busy", "done"}
      BY <1>5 DEF WriteCompletes
    <2> QED BY <1>5, <2>2, <2>3, <2>4, <2>5, Zenon DEF TypeOK, WriteCompletes
  <1>6. CASE WriteFails
    <2>1. outgoing \in Replies /\ outgoing.req \in Nat
      BY <1>6 DEF TypeOK, WriteFails, Replies
    <2>2. strand' \in Seq(Handlers)
      BY <1>6, <2>1, HandlerType, AppendType DEF WriteFails
    <2>3. outgoing' \in IF writer' = "none" THEN {NoReply} ELSE Replies
      BY <1>6, <2>1 DEF WriteFails
    <2>4. writer' \in {"none", "busy", "done"}
      BY <1>6 DEF WriteFails
    <2> QED BY <1>6, <2>2, <2>3, <2>4, Zenon DEF TypeOK, WriteFails
  <1>7. CASE ControlFrameAnswered
    <2>1. parkedWrite \in Replies
      BY <1>7 DEF ControlFrameAnswered, TypeOK
    <2>2. /\ outgoing' \in IF writer' = "none" THEN {NoReply} ELSE Replies
          /\ writer' \in {"none", "busy", "done"}
          /\ parkedWrite' \in Replies \cup {NoReply}
      BY <1>7, <2>1 DEF ControlFrameAnswered
    <2> QED BY <1>7, <2>2, Zenon DEF TypeOK, ControlFrameAnswered
  <1>8. CASE PeerCloses
    <2>1. peerGone' \in BOOLEAN
      BY <1>8, Zenon DEF PeerCloses
    <2>2. outgoing' \in IF writer' = "none" THEN {NoReply} ELSE Replies
      BY <1>8, Zenon DEF PeerCloses, TypeOK
    <2> QED BY <1>8, <2>1, <2>2, Zenon DEF TypeOK, PeerCloses
  <1> QED BY <1>1, <1>2, <1>3, <1>4, <1>5, <1>6, <1>7, <1>8

LEMMA TypeHandlers ==
    ASSUME TypeOK, RunHandler
    PROVE  TypeOK'
  <1> USE DEF readVars, writeVars, peerVars
  <1>0. ASSUME NEW op, Running(op)
        PROVE  /\ strand # <<>> /\ Current \in Handlers /\ Current.op = op
               /\ <<>> \in Seq(Handlers)
               /\ \A h \in Handlers : <<h>> \in Seq(Handlers)
    BY <1>0, StrandType DEF TypeOK, Running, Current
  <1>1. CASE RunOnAccept
    <2>1. strand' \in Seq(Handlers)
      BY <1>0, <1>1, FinishType DEF RunOnAccept
    <2>2. /\ reader' \in {"none", "busy", "done"}
          /\ buffer_' \in {"empty", "partial", "whole", "torn"}
          /\ leaked' \in Nat
      BY <1>1, ReadType, Zenon DEF RunOnAccept, TypeOK
    <2> QED BY <1>1, <2>1, <2>2, Zenon DEF TypeOK, RunOnAccept
  <1>2. CASE RunOnRead
    <2>1. Current \in Handlers /\ Current.op = "on_read" /\ strand # <<>>
      BY <1>0, <1>2 DEF RunOnRead
    <2>2. Current.arg \in RequestKinds \cup {"error"} /\ Current.req \in Nat
      BY <2>1 DEF Handlers
    <2>3. reader' \in {"none", "busy", "done"}
      BY <1>2 DEF RunOnRead
    <2>4. PICK kind \in FramesRead(Current.arg) :
             IF kind \in {"error", "text", "garbage"}
             THEN Finish(<<>>) /\ UNCHANGED <<writeVars, leaked, forks>>
             ELSE dispatch_protobuf_message(kind, Current.req)
      BY <1>2, Zenon DEF RunOnRead
    <2>5. CASE Finish(<<>>) /\ UNCHANGED <<writeVars, leaked, forks>>
      <3>1. strand' \in Seq(Handlers)
        BY <1>0, <1>2, <2>5, FinishType DEF RunOnRead
      <3> QED BY <1>2, <2>3, <2>5, <3>1, Zenon DEF TypeOK, RunOnRead
    <2>6. CASE dispatch_protobuf_message(kind, Current.req)
      <3>1. CASE kind \in JobKinds \ {"buckets"} /\ Finish(<<Handler("job", kind, Current.req)>>)
                 /\ UNCHANGED <<writeVars, leaked, forks>>
        <4>1. strand' \in Seq(Handlers)
          BY <1>0, <1>2, <2>2, <3>1, FinishType, HandlerType DEF RunOnRead
        <4> QED BY <1>2, <2>3, <3>1, <4>1, Zenon DEF TypeOK, RunOnRead
      <3>2. CASE /\ Finish(<<Handler("job", "buckets", Current.req)>>)
                 /\ send_envelope("unhandled", Current.req)
                 /\ forks' = forks + 1
        <4>1. strand' \in Seq(Handlers)
          BY <1>0, <1>2, <2>2, <3>2, FinishType, HandlerType, JobsType DEF RunOnRead
        <4>2. forks' \in Nat
          BY <3>2 DEF TypeOK
        <4>3. "unhandled" \in ReplyTags
          BY DEF ReplyTags
        <4> QED BY <1>2, <2>2, <2>3, <3>2, <4>1, <4>2, <4>3, SendType, Zenon
                DEF TypeOK, RunOnRead
      <3>3. CASE /\ Finish(<<>>)
                 /\ \E tag \in {"unhandled", "wrongType"} : send_envelope(tag, Current.req)
                 /\ UNCHANGED forks
        <4>1. strand' \in Seq(Handlers)
          BY <1>0, <1>2, <3>3, FinishType DEF RunOnRead
        <4>2. {"unhandled", "wrongType"} \subseteq ReplyTags
          BY DEF ReplyTags
        <4>3. PICK tag \in ReplyTags : send_envelope(tag, Current.req)
          BY <3>3, <4>2, Zenon
        <4> QED BY <1>2, <2>2, <2>3, <3>3, <4>1, <4>3, SendType, Zenon
                DEF TypeOK, RunOnRead
      <3> QED BY <2>6, <3>1, <3>2, <3>3, Zenon DEF dispatch_protobuf_message
    <2> QED BY <2>4, <2>5, <2>6, Zenon
  <1>3. CASE RunJob
    <2>1. Current \in Handlers /\ Current.op = "job" /\ strand # <<>>
      BY <1>0, <1>3 DEF RunJob
    <2>2. Current.arg \in JobKinds /\ Current.req \in Nat
      BY <2>1 DEF Handlers
    <2>3. PICK end \in JobEnds[Current.arg] :
             Finish(CASE end = "silent" -> <<>>
                      [] end = "folder" -> <<Handler("send_folder", end, Current.req)>>
                      [] OTHER          -> <<Handler("send", end, Current.req)>>)
      BY <1>3, Zenon DEF RunJob
    <2>4. end \in ReplyTags \cup {"silent"}
      BY <2>2, <2>3, JobsType
    <2>5. CASE end = "silent"
      <3>1. Finish(<<>>)
        BY <2>3, <2>5
      <3> QED BY <1>0, <1>3, <3>1, FinishType, Zenon DEF TypeOK, RunJob
    <2>6. CASE end = "folder"
      <3>1. Finish(<<Handler("send_folder", end, Current.req)>>)
        BY <2>3, <2>6
      <3>2. strand' \in Seq(Handlers)
        BY <1>0, <1>3, <2>2, <2>4, <2>6, <3>1, FinishType, HandlerType DEF RunJob
      <3> QED BY <1>3, <3>2, Zenon DEF TypeOK, RunJob
    <2>7. CASE end \notin {"silent", "folder"}
      <3>1. Finish(<<Handler("send", end, Current.req)>>)
        BY <2>3, <2>7
      <3>2. strand' \in Seq(Handlers)
        BY <1>0, <1>3, <2>2, <2>4, <2>7, <3>1, FinishType, HandlerType DEF RunJob
      <3> QED BY <1>3, <3>2, Zenon DEF TypeOK, RunJob
    <2> QED BY <2>5, <2>6, <2>7
  <1>4. CASE RunSend
    <2>1. Current \in Handlers /\ Current.op = "send" /\ strand # <<>>
      BY <1>0, <1>4 DEF RunSend
    <2>2. Current.arg \in ReplyTags /\ Current.req \in Nat
      BY <2>1 DEF Handlers
    <2>3. strand' \in Seq(Handlers)
      BY <1>0, <1>4, FinishType DEF RunSend
    <2> QED BY <1>4, <2>2, <2>3, SendType, Zenon DEF TypeOK, RunSend
  <1>5. CASE RunSendFolder
    <2>1. Current \in Handlers /\ Current.op = "send_folder" /\ strand # <<>>
      BY <1>0, <1>5 DEF RunSendFolder
    <2>2. Current.req \in Nat /\ "folder" \in ReplyTags
      BY <2>1 DEF Handlers, ReplyTags
    <2>3. strand' \in Seq(Handlers)
      BY <1>0, <1>5, <2>2, FinishType, HandlerType, JobsType DEF RunSendFolder
    <2>4. forks' \in Nat
      BY <1>5 DEF RunSendFolder, TypeOK
    <2> QED BY <1>5, <2>2, <2>3, <2>4, SendType, Zenon DEF TypeOK, RunSendFolder
  <1>6. CASE RunOnWrite
    <2>1. strand' \in Seq(Handlers)
      BY <1>0, <1>6, FinishType DEF RunOnWrite
    <2>2. /\ reader' \in {"none", "busy", "done"}
          /\ buffer_' \in {"empty", "partial", "whole", "torn"}
          /\ leaked' \in Nat
      BY <1>6, ReadType, Zenon DEF RunOnWrite, TypeOK
    <2>3. /\ writer' \in {"none", "busy", "done"}
          /\ outgoing' \in IF writer' = "none" THEN {NoReply} ELSE Replies
      BY <1>6 DEF RunOnWrite
    <2> QED BY <1>6, <2>1, <2>2, <2>3, Zenon DEF TypeOK, RunOnWrite
  <1> QED BY <1>1, <1>2, <1>3, <1>4, <1>5, <1>6 DEF RunHandler

LEMMA TypeStep == TypeOK /\ [Next]_vars => TypeOK'
  <1> SUFFICES ASSUME TypeOK, [Next]_vars PROVE TypeOK'
    OBVIOUS
  <1>1. CASE UNCHANGED vars
    BY <1>1, Zenon DEF vars, TypeOK
  <1>2. CASE RunHandler
    BY <1>2, TypeHandlers
  <1>3. CASE Next /\ ~RunHandler
    BY <1>3, TypeCompletions, Zenon DEF Next
  <1> QED BY <1>1, <1>2, <1>3

(* Every variable keeps its type: whatever the peer sends and in whichever  *)
(* order reads, writes, jobs and replies meet.                              *)
THEOREM TypeCorrect == Spec => []TypeOK
  BY TypeInit, TypeStep, PTL DEF Spec

-----------------------------------------------------------------------------
(* Counting what holds a session.                                           *)

nAccept == Count(handshake = "pending")
nStrand == Len(strand)
nRead   == Count(reader = "busy")
nWrite  == Count(writer = "busy")
nParked == Count(parkedWrite # NoReply)

Bounds == ContinuationsBounded /\ LossesBounded

LEMMA Counts ==
    ASSUME TypeOK
    PROVE  /\ nAccept \in 0 .. 1 /\ nRead \in 0 .. 1 /\ nWrite \in 0 .. 1 /\ nParked \in 0 .. 1
           /\ nStrand \in Nat /\ leaked \in Nat /\ forks \in Nat
           /\ Live = nAccept + nStrand + nRead + nWrite
           /\ Dead = nParked + leaked
           /\ Live \in Nat /\ Dead \in Nat
  <1>1. nStrand \in Nat /\ leaked \in Nat /\ forks \in Nat
    BY DEF TypeOK, nStrand
  <1>2. /\ nAccept \in 0 .. 1 /\ nRead \in 0 .. 1
        /\ nWrite \in 0 .. 1 /\ nParked \in 0 .. 1
    BY DEF nAccept, nRead, nWrite, nParked, Count
  <1>3. Live = nAccept + nStrand + nRead + nWrite /\ Dead = nParked + leaked
    BY Zenon DEF Live, Dead, nAccept, nStrand, nRead, nWrite, nParked
  <1> QED BY <1>1, <1>2, <1>3

(* The counts after a step, from what the step does to each of their parts. *)
LEMMA LiveStep ==
    ASSUME TypeOK, NEW a \in Int, NEW l \in Int, NEW r \in Int, NEW w \in Int,
           nAccept' = nAccept + a, nStrand' = nStrand + l,
           nRead' = nRead + r, nWrite' = nWrite + w
    PROVE  Live' = Live + a + l + r + w
  <1>1. Live' = nAccept' + nStrand' + nRead' + nWrite'
    BY Zenon DEF Live, nAccept, nStrand, nRead, nWrite
  <1>2. Live' = (nAccept + a) + (nStrand + l) + (nRead + r) + (nWrite + w)
    BY <1>1, Zenon
  <1> QED BY <1>2, Counts

LEMMA DeadStep ==
    ASSUME TypeOK, NEW p \in Int, NEW k \in Int,
           nParked' = nParked + p, leaked' = leaked + k
    PROVE  Dead' = Dead + p + k
  <1>1. Dead' = nParked' + leaked'
    BY Zenon DEF Dead, nParked
  <1>2. Dead' = (nParked + p) + (leaked + k)
    BY <1>1, Zenon
  <1> QED BY <1>2, Counts

(* The bounds hold after a step that moves an operation or a handler from   *)
(* one place to another, ends it, or loses it while another one is live.    *)
LEMMA BoundsStep ==
    ASSUME TypeOK, Bounds, NEW v \in Int, NEW d \in Int, NEW f \in Nat,
           Live' = Live + v, Dead' = Dead + d, forks' = forks + f,
           v + d <= f,
           d <= 0 \/ (d <= 1 /\ Live >= 2)
    PROVE  Bounds'
  <1>1. Live + Dead <= 1 + forks /\ Dead <= forks
    BY Zenon DEF Bounds, ContinuationsBounded, LossesBounded
  <1>2. (Live + v) + (Dead + d) <= 1 + (forks + f) /\ Dead + d <= forks + f
    BY <1>1, Counts
  <1>3. Live' + Dead' <= 1 + forks' /\ Dead' <= forks'
    BY <1>2, Zenon
  <1> QED BY <1>3, Zenon DEF Bounds, ContinuationsBounded, LossesBounded

(* What a step does to each count: the handshake, the handlers, the reader, *)
(* the writer, the parked write, the lost operations and the forks.         *)
Changes(a, l, r, w, p, k, f) ==
    /\ nAccept' = nAccept + a /\ nStrand' = nStrand + l
    /\ nRead' = nRead + r     /\ nWrite' = nWrite + w
    /\ nParked' = nParked + p /\ leaked' = leaked + k /\ forks' = forks + f

LEMMA ChangesStep ==
    ASSUME TypeOK, Bounds,
           NEW a \in Int, NEW l \in Int, NEW r \in Int, NEW w \in Int,
           NEW p \in Int, NEW k \in Int, NEW f \in Nat,
           Changes(a, l, r, w, p, k, f),
           a + l + r + w + p + k <= f,
           p + k <= 0 \/ (p + k <= 1 /\ Live >= 2)
    PROVE  Bounds'
  <1>1. Live' = Live + a + l + r + w
    BY LiveStep DEF Changes
  <1>2. Dead' = Dead + p + k
    BY DeadStep DEF Changes
  <1>3. Live' = Live + (a + l + r + w) /\ Dead' = Dead + (p + k) /\ forks' = forks + f
    BY <1>1, <1>2, Counts DEF Changes
  <1> QED BY <1>3, BoundsStep

LEMMA ReadCounts ==
    ASSUME TypeOK, do_read
    PROVE  \/ nRead = 0 /\ nRead' = nRead + 1 /\ leaked' = leaked + 0
           \/ nRead' = nRead + 0 /\ leaked' = leaked + 1 /\ reader # "none"
  BY DEF TypeOK, do_read, nRead, Count

LEMMA SendCounts ==
    ASSUME TypeOK, NEW tag \in ReplyTags, NEW n \in Nat, send_envelope(tag, n)
    PROVE  \/ /\ nWrite' = nWrite + 1 /\ nParked' = nParked + 0 /\ leaked' = leaked + 0
           \/ /\ nWrite' = nWrite + 0 /\ writer # "none"
              /\ \/ nParked' = nParked + 1 /\ leaked' = leaked + 0
                 \/ nParked' = nParked + 0 /\ leaked' = leaked + 1
           \/ nWrite' = nWrite + 0 /\ nParked' = nParked + 0 /\ leaked' = leaked + 0
  <1>0. CASE UNCHANGED <<writer, outgoing, parkedWrite, leaked>>
    BY <1>0 DEF nWrite, nParked, Count, TypeOK
  <1>1. CASE writer = "none" /\ ~UNCHANGED <<writer, outgoing, parkedWrite, leaked>>
    BY <1>1 DEF send_envelope, nWrite, nParked, Count, TypeOK
  <1>2. CASE writer # "none" /\ ~UNCHANGED <<writer, outgoing, parkedWrite, leaked>>
    <2>1. writer' = writer /\ parkedWrite' = Reply(tag, n)
          /\ leaked' = IF parkedWrite = NoReply THEN leaked ELSE leaked + 1
      BY <1>2 DEF send_envelope
    <2>2. Reply(tag, n) # NoReply
      BY DEF Reply, NoReply, ReplyTags
    <2> QED BY <1>2, <2>1, <2>2 DEF nWrite, nParked, Count, TypeOK
  <1> QED BY <1>0, <1>1, <1>2

(* What a group of variables counts stays when the group stays.             *)
LEMMA CountsSame ==
    ASSUME TypeOK
    PROVE  /\ UNCHANGED handshake => nAccept' = nAccept + 0
           /\ UNCHANGED reader => nRead' = nRead + 0
           /\ UNCHANGED writer => nWrite' = nWrite + 0
           /\ UNCHANGED parkedWrite => nParked' = nParked + 0
           /\ UNCHANGED leaked => leaked' = leaked + 0
           /\ UNCHANGED forks => forks' = forks + 0
  BY DEF TypeOK, nAccept, nRead, nWrite, nParked, Count

(* The handlers of the strand when one has run and posted hs.               *)
LEMMA FinishCounts ==
    ASSUME TypeOK, strand # <<>>, NEW hs \in Seq(Handlers), Finish(hs)
    PROVE  /\ nStrand' = nStrand - 1 + Len(hs)
           /\ nStrand >= 1
           /\ \A op : Queued(op) /\ Current.op # op => Queued(op)' /\ nStrand >= 2
  <1>1. Len(strand') = Len(strand) - 1 + Len(hs) /\ Len(strand) \in Nat \ {0}
        /\ Current = strand[1]
    BY StrandType DEF TypeOK, Finish, Current
  <1>2. ASSUME NEW op, Queued(op), Current.op # op
        PROVE  Queued(op)' /\ nStrand >= 2
    <2>1. PICK i \in DOMAIN strand : strand[i].op = op
      BY <1>2 DEF Queued
    <2>2. i # 1
      BY <1>1, <1>2, <2>1
    <2>3. i - 1 \in DOMAIN strand' /\ strand'[i - 1] = strand[i]
      BY <2>2, StrandKeeps DEF TypeOK, Finish
    <2>4. nStrand >= 2
      BY <2>2 DEF TypeOK, nStrand
    <2> QED BY <2>1, <2>3, <2>4 DEF Queued
  <1> QED BY <1>1, <1>2 DEF nStrand

LEMMA AppendCounts ==
    ASSUME TypeOK, NEW h \in Handlers, strand' = Append(strand, h)
    PROVE  /\ nStrand' = nStrand + 1
           /\ Queued(h.op)'
           /\ \A op : Queued(op) => Queued(op)'
  <1>1. /\ nStrand' = nStrand + 1
        /\ DOMAIN strand \subseteq DOMAIN strand'
        /\ \A i \in DOMAIN strand : strand'[i] = strand[i]
        /\ Len(strand) + 1 \in DOMAIN strand' /\ strand'[Len(strand) + 1] = h
    BY DEF TypeOK, nStrand
  <1> QED BY <1>1, Zenon DEF Queued

-----------------------------------------------------------------------------
(* The inductive invariant.                                                 *)

LEMMA ChainsInit == Init => ChainsInv
  BY DEF Init, ChainsInv, CompletionsQueued, ContinuationsBounded, LossesBounded,
         Live, Dead, Count

LEMMA ChainsCompletions ==
    ASSUME TypeOK, ChainsInv,
           \/ AcceptCompletes \/ ChunkArrives \/ MessageArrives \/ ReadFails
           \/ WriteCompletes \/ WriteFails \/ ControlFrameAnswered \/ PeerCloses
    PROVE  ChainsInv'
  <1> USE DEF readVars, writeVars, peerVars
  <1>0. Bounds /\ CompletionsQueued
    BY DEF ChainsInv, Bounds
  <1>1. CASE AcceptCompletes
    <2>1. PICK h \in Handlers : strand' = Append(strand, h) /\ h.op = "on_accept"
      BY <1>1, HandlerType, HandlerOp DEF AcceptCompletes
    <2>2. nAccept' = nAccept + (-1)
      BY <1>1 DEF AcceptCompletes, nAccept, Count
    <2>3. Changes(-1, 1, 0, 0, 0, 0, 0)
      BY <1>1, <2>1, <2>2, AppendCounts, CountsSame DEF AcceptCompletes, Changes
    <2>4. Bounds'
      BY <1>0, <2>3, ChangesStep
    <2>5. CompletionsQueued'
      BY <1>0, <1>1, <2>1, AppendCounts DEF AcceptCompletes, CompletionsQueued
    <2> QED BY <2>4, <2>5 DEF Bounds, ChainsInv
  <1>2. CASE ChunkArrives
    <2>1. Changes(0, 0, 0, 0, 0, 0, 0)
      BY <1>2, CountsSame DEF ChunkArrives, Changes, TypeOK, nStrand
    <2>2. Bounds'
      BY <1>0, <2>1, ChangesStep
    <2>3. CompletionsQueued'
      BY <1>0, <1>2 DEF ChunkArrives, CompletionsQueued, Queued
    <2> QED BY <2>2, <2>3 DEF Bounds, ChainsInv
  <1>3. CASE MessageArrives
    <2>1. PICK h \in Handlers : strand' = Append(strand, h) /\ h.op = "on_read"
      BY <1>3, HandlerType, HandlerOp, RequestsAssumption, BoundAssumption
      DEF MessageArrives, TypeOK, RequestsAssumption, BoundAssumption
    <2>2. nRead' = nRead + (-1)
      BY <1>3 DEF MessageArrives, nRead, Count
    <2>3. Changes(0, 1, -1, 0, 0, 0, 0)
      BY <1>3, <2>1, <2>2, AppendCounts, CountsSame DEF MessageArrives, Changes
    <2>4. Bounds'
      BY <1>0, <2>3, ChangesStep
    <2>5. CompletionsQueued'
      BY <1>0, <1>3, <2>1, AppendCounts DEF MessageArrives, CompletionsQueued
    <2> QED BY <2>4, <2>5 DEF Bounds, ChainsInv
  <1>4. CASE ReadFails
    <2>1. PICK h \in Handlers : strand' = Append(strand, h) /\ h.op = "on_read"
      BY <1>4, HandlerType, HandlerOp, BoundAssumption
      DEF ReadFails, TypeOK, BoundAssumption
    <2>2. nRead' = nRead + (-1)
      BY <1>4 DEF ReadFails, nRead, Count
    <2>3. Changes(0, 1, -1, 0, 0, 0, 0)
      BY <1>4, <2>1, <2>2, AppendCounts, CountsSame DEF ReadFails, Changes
    <2>4. Bounds'
      BY <1>0, <2>3, ChangesStep
    <2>5. CompletionsQueued'
      BY <1>0, <1>4, <2>1, AppendCounts DEF ReadFails, CompletionsQueued
    <2> QED BY <2>4, <2>5 DEF Bounds, ChainsInv
  <1>5. CASE WriteCompletes
    <2>1. PICK h \in Handlers : strand' = Append(strand, h) /\ h.op = "on_write"
      BY <1>5, HandlerType, HandlerOp DEF WriteCompletes, TypeOK, Replies
    <2>2. nWrite' = nWrite + (-1)
      BY <1>5 DEF WriteCompletes, nWrite, Count
    <2>3. Changes(0, 1, 0, -1, 0, 0, 0)
      BY <1>5, <2>1, <2>2, AppendCounts, CountsSame DEF WriteCompletes, Changes
    <2>4. Bounds'
      BY <1>0, <2>3, ChangesStep
    <2>5. CompletionsQueued'
      BY <1>0, <1>5, <2>1, AppendCounts DEF WriteCompletes, CompletionsQueued
    <2> QED BY <2>4, <2>5 DEF Bounds, ChainsInv
  <1>6. CASE WriteFails
    <2>1. PICK h \in Handlers : strand' = Append(strand, h) /\ h.op = "on_write"
      BY <1>6, HandlerType, HandlerOp DEF WriteFails, TypeOK, Replies
    <2>2. nWrite' = nWrite + (-1)
      BY <1>6 DEF WriteFails, nWrite, Count
    <2>3. Changes(0, 1, 0, -1, 0, 0, 0)
      BY <1>6, <2>1, <2>2, AppendCounts, CountsSame DEF WriteFails, Changes
    <2>4. Bounds'
      BY <1>0, <2>3, ChangesStep
    <2>5. CompletionsQueued'
      BY <1>0, <1>6, <2>1, AppendCounts DEF WriteFails, CompletionsQueued
    <2> QED BY <2>4, <2>5 DEF Bounds, ChainsInv
  <1>7. CASE ControlFrameAnswered
    <2>1. nWrite' = nWrite + 1 /\ nParked' = nParked + (-1)
      BY <1>7 DEF ControlFrameAnswered, nWrite, nParked, Count
    <2>2. Changes(0, 0, 0, 1, -1, 0, 0)
      BY <1>7, <2>1, CountsSame DEF ControlFrameAnswered, Changes, TypeOK, nStrand
    <2>3. Bounds'
      BY <1>0, <2>2, ChangesStep
    <2>4. CompletionsQueued'
      BY <1>0, <1>7 DEF ControlFrameAnswered, CompletionsQueued, Queued
    <2> QED BY <2>3, <2>4 DEF Bounds, ChainsInv
  <1>8. CASE PeerCloses
    <2>1. Changes(0, 0, 0, 0, 0, 0, 0)
      BY <1>8, CountsSame DEF PeerCloses, Changes, TypeOK, nStrand
    <2>2. Bounds'
      BY <1>0, <2>1, ChangesStep
    <2>3. CompletionsQueued'
      BY <1>0, <1>8 DEF PeerCloses, CompletionsQueued, Queued
    <2> QED BY <2>2, <2>3 DEF Bounds, ChainsInv
  <1> QED BY <1>1, <1>2, <1>3, <1>4, <1>5, <1>6, <1>7, <1>8

(* A handler that meets a pending operation is not the only one alive: the  *)
(* operation is, or its handler, which is queued.                           *)
LEMMA OtherLive ==
    ASSUME TypeOK, CompletionsQueued, NEW op, Running(op), NEW hs \in Seq(Handlers), Finish(hs)
    PROVE  /\ op # "on_read" /\ reader # "none" => Live >= 2
           /\ op # "on_write" /\ writer # "none" => Live >= 2
  <1>1. /\ nStrand >= 1
        /\ \A o : Queued(o) /\ o # op => nStrand >= 2
    BY FinishCounts, Zenon DEF Running, Current
  <1>2. reader = "busy" => nRead = 1
    BY DEF nRead, Count
  <1>3. writer = "busy" => nWrite = 1
    BY DEF nWrite, Count
  <1>4. nStrand >= 2 \/ nRead = 1 \/ nWrite = 1 => Live >= 2
    BY <1>1, Counts
  <1>5. ASSUME op # "on_read", reader # "none" PROVE Live >= 2
    BY <1>1, <1>2, <1>4, <1>5 DEF CompletionsQueued, TypeOK
  <1>6. ASSUME op # "on_write", writer # "none" PROVE Live >= 2
    BY <1>1, <1>3, <1>4, <1>6 DEF CompletionsQueued, TypeOK
  <1> QED BY <1>5, <1>6

(* The same by parts, for a handler that sends a reply: what it does to the *)
(* handshake, the strand, the reader and the forks, and what the sending    *)
(* does to the writer, the parked write and the lost operations.            *)
Moves(l, r, f) ==
    /\ nAccept' = nAccept + 0 /\ nStrand' = nStrand + l
    /\ nRead' = nRead + r     /\ forks' = forks + f

Paid(l, r, f) == l \in Int /\ r \in Int /\ f \in Nat /\ l + 1 + r <= f

Sends(w, p, k) ==
    nWrite' = nWrite + w /\ nParked' = nParked + p /\ leaked' = leaked + k

LEMMA SendKeeps ==
    ASSUME TypeOK, Bounds, CompletionsQueued,
           NEW op, Running(op), op # "on_write", NEW hs \in Seq(Handlers), Finish(hs),
           NEW tag \in ReplyTags, NEW n \in Nat, send_envelope(tag, n),
           NEW l, NEW r, NEW f, Moves(l, r, f), Paid(l, r, f)
    PROVE  Bounds'
  <1>1. \/ Sends(1, 0, 0) \/ Sends(0, 0, 0)
        \/ writer # "none" /\ (Sends(0, 1, 0) \/ Sends(0, 0, 1))
    BY SendCounts, Zenon DEF Sends
  <1>2. writer # "none" => Live >= 2
    BY OtherLive, Zenon
  <1>3. ASSUME NEW w, NEW p, NEW k, Sends(w, p, k)
        PROVE  Changes(0, l, r, w, p, k, f)
    BY <1>3, Zenon DEF Moves, Sends, Changes
  <1> l \in Int /\ r \in Int /\ f \in Nat /\ l + 1 + r <= f
    BY DEF Paid
  <1>4. CASE Sends(1, 0, 0)
    <2>1. Changes(0, l, r, 1, 0, 0, f)
      BY <1>3, <1>4
    <2> QED BY <2>1, ChangesStep
  <1>5. CASE writer # "none" /\ Sends(0, 1, 0)
    <2>1. Changes(0, l, r, 0, 1, 0, f)
      BY <1>3, <1>5
    <2>2. Live >= 2
      BY <1>2, <1>5
    <2>3. 0 + l + r + 0 + 1 + 0 <= f /\ {0, 1} \subseteq Int
      OBVIOUS
    <2>4. 1 + 0 <= 0 \/ (1 + 0 <= 1 /\ Live >= 2)
      BY <2>2
    <2> QED BY <2>1, <2>3, <2>4, ChangesStep, Zenon
  <1>6. CASE writer # "none" /\ Sends(0, 0, 1)
    <2>1. Changes(0, l, r, 0, 0, 1, f)
      BY <1>3, <1>6
    <2>2. Live >= 2
      BY <1>2, <1>6
    <2>3. 0 + l + r + 0 + 0 + 1 <= f /\ {0, 1} \subseteq Int
      OBVIOUS
    <2>4. 0 + 1 <= 0 \/ (0 + 1 <= 1 /\ Live >= 2)
      BY <2>2
    <2> QED BY <2>1, <2>3, <2>4, ChangesStep, Zenon
  <1>7. CASE Sends(0, 0, 0)
    <2>1. Changes(0, l, r, 0, 0, 0, f)
      BY <1>3, <1>7
    <2> QED BY <2>1, ChangesStep
  <1> QED BY <1>1, <1>4, <1>5, <1>6, <1>7

(* And for a handler that calls do_read.                                    *)
Stays(l, w) ==
    /\ nAccept' = nAccept + 0 /\ nStrand' = nStrand + l
    /\ nWrite' = nWrite + w   /\ nParked' = nParked + 0 /\ forks' = forks + 0

Reads(r, k) == nRead' = nRead + r /\ leaked' = leaked + k

LEMMA ReadKeeps ==
    ASSUME TypeOK, Bounds, CompletionsQueued,
           NEW op, Running(op), op # "on_read", Finish(<<>>), do_read,
           NEW w \in Int, Stays(-1, w), w <= 0
    PROVE  Bounds'
  <1>1. Reads(1, 0) \/ (reader # "none" /\ Reads(0, 1))
    BY ReadCounts, Zenon DEF Reads
  <1>2. reader # "none" => Live >= 2
    <2>1. <<>> \in Seq(Handlers)
      OBVIOUS
    <2> QED BY <2>1, OtherLive, Zenon
  <1>3. ASSUME NEW r, NEW k, Reads(r, k)
        PROVE  Changes(0, -1, r, w, 0, k, 0)
    BY <1>3, Zenon DEF Stays, Reads, Changes
  <1>4. CASE Reads(1, 0)
    <2>1. Changes(0, -1, 1, w, 0, 0, 0)
      BY <1>3, <1>4
    <2> QED BY <2>1, ChangesStep
  <1>5. CASE reader # "none" /\ Reads(0, 1)
    <2>1. Changes(0, -1, 0, w, 0, 1, 0)
      BY <1>3, <1>5
    <2> QED BY <1>2, <1>5, <2>1, ChangesStep
  <1> QED BY <1>1, <1>4, <1>5

(* The handler that runs is no longer queued, any other one still is.       *)
NoneCompletes(op) ==
    /\ reader' = "done" => reader = "done" /\ op # "on_read"
    /\ writer' = "done" => writer = "done" /\ op # "on_write"

LEMMA QueuedKept ==
    ASSUME TypeOK, CompletionsQueued, NEW op, Running(op),
           NEW hs \in Seq(Handlers), Finish(hs),
           NoneCompletes(op)
    PROVE  CompletionsQueued'
  <1>1. \A o : Queued(o) /\ o # op => Queued(o)'
    BY FinishCounts, Zenon DEF Running, Current
  <1> QED BY <1>1, Zenon DEF CompletionsQueued, NoneCompletes

(* A handler leaves the strand and posts one or none.                       *)
LEMMA StrandMoves ==
    ASSUME TypeOK, strand # <<>>
    PROVE  /\ Finish(<<>>) => nStrand' = nStrand + (-1)
           /\ \A h \in Handlers : Finish(<<h>>) => nStrand' = nStrand + 0
  <1>1. ASSUME Finish(<<>>) PROVE nStrand' = nStrand + (-1)
    <2>1. <<>> \in Seq(Handlers) /\ Len(<<>>) = 0
      OBVIOUS
    <2>2. nStrand' = nStrand - 1 + Len(<<>>)
      BY <1>1, <2>1, FinishCounts
    <2> QED BY <2>1, <2>2, Counts
  <1>2. ASSUME NEW h \in Handlers, Finish(<<h>>) PROVE nStrand' = nStrand + 0
    <2>1. <<h>> \in Seq(Handlers) /\ Len(<<h>>) = 1
      OBVIOUS
    <2>2. nStrand' = nStrand - 1 + Len(<<h>>)
      BY <1>2, <2>1, FinishCounts
    <2> QED BY <2>1, <2>2, Counts
  <1> QED BY <1>1, <1>2

LEMMA PaidMoves ==
    /\ Paid(-1, 0, 0) /\ Paid(-1, -1, 0) /\ Paid(0, 0, 1) /\ Paid(0, -1, 1)
  BY DEF Paid

LEMMA ChainsHandlers ==
    ASSUME TypeOK, ChainsInv, RunHandler
    PROVE  ChainsInv'
  <1> USE DEF readVars, writeVars, peerVars
  <1>0. Bounds /\ CompletionsQueued /\ <<>> \in Seq(Handlers)
    BY DEF ChainsInv, Bounds
  <1>a. ASSUME NEW op, Running(op)
        PROVE  /\ strand # <<>> /\ Current \in Handlers /\ Current.op = op
               /\ \A h \in Handlers : <<h>> \in Seq(Handlers)
    BY <1>a, StrandType DEF TypeOK, Running, Current
  <1>1. CASE RunOnAccept
    <2>1. /\ Running("on_accept") /\ Finish(<<>>) /\ nStrand' = nStrand + (-1)
          /\ UNCHANGED <<handshake, writer, parkedWrite, forks>>
      BY <1>1, <1>a, StrandMoves DEF RunOnAccept
    <2>2. CASE do_read
      <3>1. Stays(-1, 0)
        BY <2>1, CountsSame DEF Stays
      <3>2. Bounds'
        BY <1>0, <2>1, <2>2, <3>1, ReadKeeps
      <3>c. NoneCompletes("on_accept")
        BY <1>0, <2>1, <2>2 DEF NoneCompletes, do_read
      <3>3. CompletionsQueued'
        BY <1>0, <2>1, <2>2, <3>c, QueuedKept
      <3> QED BY <3>2, <3>3 DEF Bounds, ChainsInv
    <2>3. CASE UNCHANGED <<reader, buffer_, leaked>>
      <3>1. Changes(0, -1, 0, 0, 0, 0, 0)
        BY <2>1, <2>3, CountsSame DEF Changes
      <3>2. Bounds'
        BY <1>0, <3>1, ChangesStep
      <3>c. NoneCompletes("on_accept")
        BY <1>0, <2>1, <2>3 DEF NoneCompletes
      <3>3. CompletionsQueued'
        BY <1>0, <2>1, <2>3, <3>c, QueuedKept
      <3> QED BY <3>2, <3>3 DEF Bounds, ChainsInv
    <2> QED BY <1>1, <2>2, <2>3 DEF RunOnAccept
  <1>2. CASE RunOnRead
    <2>1. /\ Running("on_read") /\ reader' = "none"
          /\ UNCHANGED <<handshake, buffer_, peerGone, received, sent>>
      BY <1>2 DEF RunOnRead
    <2>2. Current.req \in Nat
      BY <1>a, <2>1 DEF Handlers
    <2>3. nRead' = nRead + 0 \/ nRead' = nRead + (-1)
      BY <2>1 DEF nRead, Count
    <2>4. PICK kind \in FramesRead(Current.arg) :
             IF kind \in {"error", "text", "garbage"}
             THEN Finish(<<>>) /\ UNCHANGED <<writeVars, leaked, forks>>
             ELSE dispatch_protobuf_message(kind, Current.req)
      BY <1>2, Zenon DEF RunOnRead
    <2>5. CASE Finish(<<>>) /\ UNCHANGED <<writeVars, leaked, forks>>
      <3>1. Changes(0, -1, 0, 0, 0, 0, 0) \/ Changes(0, -1, -1, 0, 0, 0, 0)
        BY <1>a, <2>1, <2>3, <2>5, StrandMoves, CountsSame DEF Changes
      <3>2. Bounds'
        BY <1>0, <3>1, ChangesStep
      <3>c. NoneCompletes("on_read")
        BY <1>0, <2>1, <2>5 DEF NoneCompletes
      <3>3. CompletionsQueued'
        BY <1>0, <2>1, <2>5, <3>c, QueuedKept
      <3> QED BY <3>2, <3>3 DEF Bounds, ChainsInv
    <2>6. CASE dispatch_protobuf_message(kind, Current.req)
      <3>1. CASE kind \in JobKinds /\ Finish(<<Handler("job", kind, Current.req)>>)
                 /\ UNCHANGED <<writeVars, leaked, forks>>
        <4>1. Handler("job", kind, Current.req) \in Handlers
          BY <2>2, <3>1, HandlerType
        <4>2. Changes(0, 0, 0, 0, 0, 0, 0) \/ Changes(0, 0, -1, 0, 0, 0, 0)
          BY <1>a, <2>1, <2>3, <3>1, <4>1, StrandMoves, CountsSame DEF Changes
        <4>3. Bounds'
          BY <1>0, <4>2, ChangesStep
        <4>c. NoneCompletes("on_read")
          BY <1>0, <1>a, <2>1, <3>1, <4>1 DEF NoneCompletes
        <4>4. CompletionsQueued'
          BY <1>0, <1>a, <2>1, <3>1, <4>1, <4>c, QueuedKept
        <4> QED BY <4>3, <4>4 DEF Bounds, ChainsInv
      <3>2. CASE /\ Finish(<<Handler("job", "buckets", Current.req)>>)
                 /\ send_envelope("unhandled", Current.req)
                 /\ forks' = forks + 1
        <4>1. /\ Handler("job", "buckets", Current.req) \in Handlers
              /\ "unhandled" \in ReplyTags
          BY <2>2, HandlerType, JobsType DEF ReplyTags
        <4>2. Moves(0, 0, 1) \/ Moves(0, -1, 1)
          BY <1>a, <2>1, <2>3, <3>2, <4>1, StrandMoves, CountsSame DEF Moves
        <4>3. Bounds'
          BY <1>0, <1>a, <2>1, <2>2, <3>2, <4>1, <4>2, PaidMoves, SendKeeps
        <4>4. writer' = "done" => writer = "done"
          BY <3>2 DEF send_envelope
        <4>c. NoneCompletes("on_read")
          BY <1>0, <1>a, <2>1, <3>2, <4>1, <4>4 DEF NoneCompletes
        <4>5. CompletionsQueued'
          BY <1>0, <1>a, <2>1, <3>2, <4>1, <4>4, <4>c, QueuedKept
        <4> QED BY <4>3, <4>5 DEF Bounds, ChainsInv
      <3>3. CASE /\ Finish(<<>>)
                 /\ \E tag \in {"unhandled", "wrongType"} : send_envelope(tag, Current.req)
                 /\ UNCHANGED forks
        <4>1. PICK tag \in ReplyTags : send_envelope(tag, Current.req)
          BY <3>3 DEF ReplyTags
        <4>2. Moves(-1, 0, 0) \/ Moves(-1, -1, 0)
          BY <1>a, <2>1, <2>3, <3>3, StrandMoves, CountsSame DEF Moves
        <4>3. Bounds'
          BY <1>0, <2>1, <2>2, <3>3, <4>1, <4>2, PaidMoves, SendKeeps
        <4>4. writer' = "done" => writer = "done"
          BY <4>1 DEF send_envelope
        <4>c. NoneCompletes("on_read")
          BY <1>0, <2>1, <3>3, <4>4 DEF NoneCompletes
        <4>5. CompletionsQueued'
          BY <1>0, <2>1, <3>3, <4>4, <4>c, QueuedKept
        <4> QED BY <4>3, <4>5 DEF Bounds, ChainsInv
      <3> QED BY <2>6, <3>1, <3>2, <3>3, Zenon DEF dispatch_protobuf_message
    <2> QED BY <2>4, <2>5, <2>6, Zenon
  <1>3. CASE RunJob
    <2>1. /\ Running("job")
          /\ UNCHANGED <<handshake, reader, writer, parkedWrite, leaked, forks>>
      BY <1>3 DEF RunJob
    <2>2. Current.arg \in JobKinds /\ Current.req \in Nat
      BY <1>a, <2>1 DEF Handlers
    <2>3. PICK end \in JobEnds[Current.arg] :
             Finish(CASE end = "silent" -> <<>>
                      [] end = "folder" -> <<Handler("send_folder", end, Current.req)>>
                      [] OTHER          -> <<Handler("send", end, Current.req)>>)
      BY <1>3, Zenon DEF RunJob
    <2>4. end \in ReplyTags \cup {"silent"}
      BY <2>2, <2>3, JobsType
    <2>5. CASE Finish(<<>>)
      <3>1. Changes(0, -1, 0, 0, 0, 0, 0)
        BY <1>a, <2>1, <2>5, StrandMoves, CountsSame DEF Changes
      <3>2. Bounds'
        BY <1>0, <3>1, ChangesStep
      <3>c. NoneCompletes("job")
        BY <1>0, <2>1, <2>5 DEF NoneCompletes
      <3>3. CompletionsQueued'
        BY <1>0, <2>1, <2>5, <3>c, QueuedKept
      <3> QED BY <3>2, <3>3 DEF Bounds, ChainsInv
    <2>6. CASE \E h \in Handlers : Finish(<<h>>)
      <3>0. PICK h \in Handlers : Finish(<<h>>)
        BY <2>6
      <3>1. Changes(0, 0, 0, 0, 0, 0, 0)
        BY <1>a, <2>1, <3>0, StrandMoves, CountsSame DEF Changes
      <3>2. Bounds'
        BY <1>0, <3>1, ChangesStep
      <3>c. NoneCompletes("job")
        BY <1>0, <1>a, <2>1, <3>0 DEF NoneCompletes
      <3>3. CompletionsQueued'
        BY <1>0, <1>a, <2>1, <3>0, <3>c, QueuedKept
      <3> QED BY <3>2, <3>3 DEF Bounds, ChainsInv
    <2>7. end \in ReplyTags => /\ Handler("send_folder", end, Current.req) \in Handlers
                               /\ Handler("send", end, Current.req) \in Handlers
      BY <2>2, HandlerType
    <2> QED BY <2>3, <2>4, <2>5, <2>6, <2>7
  <1>4. CASE RunSend
    <2>1. /\ Running("send") /\ Finish(<<>>) /\ send_envelope(Current.arg, Current.req)
          /\ UNCHANGED <<handshake, reader, forks>>
      BY <1>4 DEF RunSend
    <2>2. Current.arg \in ReplyTags /\ Current.req \in Nat
      BY <1>a, <2>1 DEF Handlers
    <2>3. Moves(-1, 0, 0)
      BY <1>a, <2>1, StrandMoves, CountsSame DEF Moves
    <2>4. Bounds'
      BY <1>0, <2>1, <2>2, <2>3, PaidMoves, SendKeeps
    <2>5. writer' = "done" => writer = "done"
      BY <2>1 DEF send_envelope
    <2>c. NoneCompletes("send")
      BY <1>0, <2>1, <2>5 DEF NoneCompletes
    <2>6. CompletionsQueued'
      BY <1>0, <2>1, <2>5, <2>c, QueuedKept
    <2> QED BY <2>4, <2>6 DEF Bounds, ChainsInv
  <1>5. CASE RunSendFolder
    <2>1. /\ Running("send_folder") /\ Finish(<<Handler("job", "list", Current.req)>>)
          /\ send_envelope("folder", Current.req)
          /\ forks' = forks + 1 /\ UNCHANGED <<handshake, reader>>
      BY <1>5 DEF RunSendFolder
    <2>2. Current.req \in Nat /\ "folder" \in ReplyTags
      BY <1>a, <2>1 DEF Handlers, ReplyTags
    <2>3. Handler("job", "list", Current.req) \in Handlers
      BY <2>2, HandlerType, JobsType
    <2>4. Moves(0, 0, 1)
      BY <1>a, <2>1, <2>3, StrandMoves, CountsSame DEF Moves
    <2>5. Bounds'
      BY <1>0, <1>a, <2>1, <2>2, <2>3, <2>4, PaidMoves, SendKeeps
    <2>6. writer' = "done" => writer = "done"
      BY <2>1 DEF send_envelope
    <2>c. NoneCompletes("send_folder")
      BY <1>0, <1>a, <2>1, <2>3, <2>6 DEF NoneCompletes
    <2>7. CompletionsQueued'
      BY <1>0, <1>a, <2>1, <2>3, <2>6, <2>c, QueuedKept
    <2> QED BY <2>5, <2>7 DEF Bounds, ChainsInv
  <1>6. CASE RunOnWrite
    <2>1. /\ Running("on_write") /\ Finish(<<>>) /\ nStrand' = nStrand + (-1)
          /\ writer' = "none" /\ UNCHANGED <<handshake, parkedWrite, forks>>
      BY <1>6, <1>a, StrandMoves DEF RunOnWrite
    <2>2. nWrite' = nWrite + 0 \/ nWrite' = nWrite + (-1)
      BY <2>1 DEF nWrite, Count
    <2>3. CASE do_read
      <3>1. Stays(-1, 0) \/ Stays(-1, -1)
        BY <2>1, <2>2, CountsSame DEF Stays
      <3>2. Bounds'
        BY <1>0, <2>1, <2>3, <3>1, ReadKeeps
      <3>c. NoneCompletes("on_write")
        BY <1>0, <2>1, <2>3 DEF NoneCompletes, do_read
      <3>3. CompletionsQueued'
        BY <1>0, <2>1, <2>3, <3>c, QueuedKept
      <3> QED BY <3>2, <3>3 DEF Bounds, ChainsInv
    <2>4. CASE UNCHANGED <<reader, buffer_, leaked>>
      <3>1. Changes(0, -1, 0, 0, 0, 0, 0) \/ Changes(0, -1, 0, -1, 0, 0, 0)
        BY <2>1, <2>2, <2>4, CountsSame DEF Changes
      <3>2. Bounds'
        BY <1>0, <3>1, ChangesStep
      <3>c. NoneCompletes("on_write")
        BY <1>0, <2>1, <2>4 DEF NoneCompletes
      <3>3. CompletionsQueued'
        BY <1>0, <2>1, <2>4, <3>c, QueuedKept
      <3> QED BY <3>2, <3>3 DEF Bounds, ChainsInv
    <2> QED BY <1>6, <2>3, <2>4 DEF RunOnWrite
  <1> QED BY <1>1, <1>2, <1>3, <1>4, <1>5, <1>6 DEF RunHandler

-----------------------------------------------------------------------------
(* Until something forks no message is torn.                                *)

WholeInv == forks = 0 => buffer_ # "torn"

(* The inductive invariant gives one operation at a time.                   *)
LEMMA OneOperationHolds ==
    ASSUME TypeOK, ChainsInv, WholeInv
    PROVE  OneOperation
  <1> SUFFICES ASSUME forks = 0
               PROVE  Live <= 1 /\ Dead = 0 /\ buffer_ # "torn"
    BY DEF OneOperation
  <1>1. buffer_ # "torn"
    BY DEF WholeInv
  <1>2. Live + Dead <= 1 + forks /\ Dead <= forks
    BY DEF ChainsInv, ContinuationsBounded, LossesBounded
  <1> QED BY <1>1, <1>2, Counts

(* While one operation at a time holds the session a handler finds no read  *)
(* pending, so that do_read tears nothing.                                  *)
LEMMA ReadWhole ==
    ASSUME TypeOK, CompletionsQueued, Live <= 1, NEW op, Running(op), op # "on_read",
           Finish(<<>>), do_read
    PROVE  buffer_' # "torn"
  <1>1. <<>> \in Seq(Handlers)
    OBVIOUS
  <1>2. reader # "none" => Live >= 2
    BY <1>1, OtherLive, Zenon
  <1>3. reader = "none"
    BY <1>2, Counts
  <1> QED BY <1>3 DEF do_read

(* No step takes a fork back.                                               *)
LEMMA ForksGrow ==
    ASSUME TypeOK, [Next]_vars
    PROVE  forks' = forks \/ forks' = forks + 1
  <1> USE DEF vars, readVars, writeVars, peerVars
  <1>1. CASE RunOnRead
    <2>1. PICK kind \in FramesRead(Current.arg) :
             \/ UNCHANGED forks
             \/ dispatch_protobuf_message(kind, Current.req)
      BY <1>1 DEF RunOnRead
    <2> QED BY <2>1 DEF dispatch_protobuf_message
  <1>2. CASE ~RunOnRead
    BY <1>2 DEF Next, RunHandler, AcceptCompletes, ChunkArrives, MessageArrives, ReadFails,
       WriteCompletes, WriteFails, ControlFrameAnswered, PeerCloses, RunOnAccept, RunJob,
       RunSend, RunSendFolder, RunOnWrite
  <1> QED BY <1>1, <1>2

LEMMA WholeStep ==
    ASSUME TypeOK, ChainsInv, WholeInv, [Next]_vars
    PROVE  WholeInv'
  <1> SUFFICES ASSUME forks' = 0 PROVE buffer_' # "torn"
    BY DEF WholeInv
  <1> USE DEF readVars, writeVars, peerVars
  <1>0. forks = 0 /\ buffer_ # "torn"
    BY ForksGrow DEF WholeInv, TypeOK
  <1>1. Live <= 1 /\ CompletionsQueued
    BY <1>0, OneOperationHolds DEF OneOperation, ChainsInv
  <1>2. CASE RunOnAccept
    <2>1. Running("on_accept") /\ Finish(<<>>)
      BY <1>2 DEF RunOnAccept
    <2> QED BY <1>0, <1>1, <1>2, <2>1, ReadWhole DEF RunOnAccept
  <1>3. CASE RunOnWrite
    <2>1. Running("on_write") /\ Finish(<<>>)
      BY <1>3 DEF RunOnWrite
    <2> QED BY <1>0, <1>1, <1>3, <2>1, ReadWhole DEF RunOnWrite
  <1>4. CASE UNCHANGED vars
    BY <1>0, <1>4 DEF vars
  <1>5. CASE Next /\ ~RunOnAccept /\ ~RunOnWrite
    BY <1>0, <1>5 DEF Next, RunHandler, AcceptCompletes, ChunkArrives, MessageArrives,
       ReadFails, WriteCompletes, WriteFails, ControlFrameAnswered, PeerCloses, RunOnRead,
       RunJob, RunSend, RunSendFolder
  <1> QED BY <1>2, <1>3, <1>4, <1>5

-----------------------------------------------------------------------------
SessionInv == TypeOK /\ ChainsInv /\ WholeInv

LEMMA SessionInvInductive == Spec => []SessionInv
  <1>1. Init => SessionInv
    <2>1. Init => WholeInv
      BY DEF Init, WholeInv
    <2> QED BY <2>1, TypeInit, ChainsInit DEF SessionInv
  <1>2. SessionInv /\ [Next]_vars => SessionInv'
    <2> SUFFICES ASSUME SessionInv, [Next]_vars PROVE SessionInv'
      OBVIOUS
    <2>1. TypeOK /\ ChainsInv /\ WholeInv
      BY DEF SessionInv
    <2>2. TypeOK'
      BY <2>1, TypeStep
    <2>3. ChainsInv'
      <3>1. CASE UNCHANGED vars
        BY <2>1, <3>1, Zenon DEF vars, ChainsInv, CompletionsQueued, ContinuationsBounded,
           LossesBounded, Live, Dead, Queued, Count
      <3>2. CASE RunHandler
        BY <2>1, <3>2, ChainsHandlers
      <3>3. CASE Next /\ ~RunHandler
        BY <2>1, <3>3, ChainsCompletions, Zenon DEF Next
      <3> QED BY <3>1, <3>2, <3>3
    <2> QED BY <2>1, <2>2, <2>3, WholeStep DEF SessionInv
  <1> QED BY <1>1, <1>2, PTL DEF Spec

(* What holds a session is at most one chain of handlers and one more for   *)
(* every time a handler has started two (wssSession.hpp:118-121,            *)
(* wssSession.cpp:680-696, 767-782, 808-822), however requests follow.      *)
THEOREM ChainsBounded == Spec => []ContinuationsBounded
  BY SessionInvInductive, PTL DEF SessionInv, ChainsInv

(* No session loses more operations than it has forked.                     *)
THEOREM LossesAreForks == Spec => []LossesBounded
  BY SessionInvInductive, PTL DEF SessionInv, ChainsInv

(* Until something forks a session has one operation or handler at a time,  *)
(* loses none and reads every message whole.                                *)
THEOREM OneOperationAtATime == Spec => []OneOperation
  <1>1. SessionInv => OneOperation
    BY OneOperationHolds DEF SessionInv
  <1> QED BY <1>1, SessionInvInductive, PTL

-----------------------------------------------------------------------------
(* The order of the replies.                                                *)

(* No reply has the number of the request read last, or a later one.        *)
Unanswered == \A i \in DOMAIN sent : sent[i].req < received

(* The handlers that have a request to answer.                              *)
Answering(h) ==
    h.op \in {"job", "send", "send_folder"} \/ (h.op = "on_read" /\ h.arg # "error")

(* Replies are in order and to what has been read; whoever is about to reply *)
(* replies to the request read last, which has no reply yet.                *)
OrderInv ==
    forks = 0 =>
       /\ RepliesInOrder
       /\ \A i \in DOMAIN sent : sent[i].req <= received
       /\ \A k \in DOMAIN strand :
             Answering(strand[k]) => strand[k].req = received /\ Unanswered
       /\ writer = "busy" => outgoing.req = received /\ Unanswered

LEMMA OrderInit == Init => OrderInv
  BY DEF Init, OrderInv, RepliesInOrder

(* While one operation at a time holds the session, a pending one is it.    *)
LEMMA PendingAlone ==
    ASSUME TypeOK, Live <= 1, Dead = 0
    PROVE  /\ reader = "busy" => strand = <<>> /\ writer # "busy"
           /\ writer = "busy" => strand = <<>>
           /\ parkedWrite = NoReply
  <1>1. /\ reader = "busy" => nRead = 1
        /\ writer = "busy" => nWrite = 1
        /\ parkedWrite # NoReply => nParked = 1
    BY DEF nRead, nWrite, nParked, Count
  <1>2. /\ nRead = 1 => nStrand = 0 /\ nWrite = 0
        /\ nWrite = 1 => nStrand = 0
        /\ nParked = 0
    BY Counts
  <1>3. nStrand = 0 => strand = <<>>
    BY DEF TypeOK, nStrand
  <1> QED BY <1>1, <1>2, <1>3

(* What a handler leaves in the strand: what waited behind it and what it   *)
(* has posted.                                                              *)
LEMMA FinishLeaves ==
    ASSUME TypeOK, strand # <<>>, NEW hs \in Seq(Handlers), Finish(hs),
           NEW i \in DOMAIN strand'
    PROVE  \/ \E k \in DOMAIN strand : strand'[i] = strand[k]
           \/ \E k \in DOMAIN hs : strand'[i] = hs[k]
  <1>1. strand \in Seq(Handlers) /\ strand' = Tail(strand) \o hs
    BY DEF TypeOK, Finish
  <1>2. i \in DOMAIN (Tail(strand) \o hs)
    BY <1>1
  <1>3. \/ \E k \in DOMAIN strand : (Tail(strand) \o hs)[i] = strand[k]
        \/ \E k \in DOMAIN hs : (Tail(strand) \o hs)[i] = hs[k]
    BY <1>1, <1>2, StrandElements
  <1> QED BY <1>1, <1>3

(* A step that neither reads nor replies keeps the order: those who are     *)
(* about to reply were before, or took over from one who was.               *)
LEMMA OrderKept ==
    ASSUME TypeOK, OrderInv, forks' = forks,
           UNCHANGED <<sent, received>>,
           \A i \in DOMAIN strand' :
              Answering(strand'[i]) =>
                 \/ \E k \in DOMAIN strand : strand'[i] = strand[k]
                 \/ forks = 0 => strand'[i].req = received /\ Unanswered,
           writer' = "busy" =>
              \/ writer = "busy" /\ outgoing' = outgoing
              \/ forks = 0 => outgoing'.req = received /\ Unanswered
    PROVE  OrderInv'
  <1> SUFFICES ASSUME forks' = 0
               PROVE  /\ RepliesInOrder'
                      /\ \A i \in DOMAIN sent' : sent'[i].req <= received'
                      /\ \A k \in DOMAIN strand' :
                            Answering(strand'[k]) => strand'[k].req = received' /\ Unanswered'
                      /\ writer' = "busy" => outgoing'.req = received' /\ Unanswered'
    BY DEF OrderInv, Answering
  <1>1. /\ RepliesInOrder
        /\ \A i \in DOMAIN sent : sent[i].req <= received
        /\ \A k \in DOMAIN strand :
              Answering(strand[k]) => strand[k].req = received /\ Unanswered
        /\ writer = "busy" => outgoing.req = received /\ Unanswered
    BY DEF OrderInv
  <1>2. Unanswered => Unanswered'
    BY DEF Unanswered
  <1>3. RepliesInOrder'
    BY <1>1 DEF RepliesInOrder
  <1> QED BY <1>1, <1>2, <1>3

LEMMA OrderCompletions ==
    ASSUME TypeOK, ChainsInv, WholeInv, OrderInv,
           \/ AcceptCompletes \/ ChunkArrives \/ MessageArrives \/ ReadFails
           \/ WriteCompletes \/ WriteFails \/ ControlFrameAnswered \/ PeerCloses
    PROVE  OrderInv'
  <1> USE DEF readVars, writeVars, peerVars
  <1>0. forks = 0 => Live <= 1 /\ Dead = 0
    BY OneOperationHolds DEF OneOperation
  <1>a. ASSUME NEW h \in Handlers, ~Answering(h), strand' = Append(strand, h),
               NEW i \in DOMAIN strand', Answering(strand'[i])
        PROVE  \E k \in DOMAIN strand : strand'[i] = strand[k]
    BY <1>a DEF TypeOK
  <1>b. received \in Nat /\ outgoing.req \in Nat
    BY BoundAssumption DEF TypeOK, BoundAssumption, Replies, NoReply
  <1>c. /\ \A a, n : ~Answering(Handler("on_accept", a, n))
        /\ \A n : ~Answering(Handler("on_read", "error", n))
        /\ \A a, n : ~Answering(Handler("on_write", a, n))
    BY DEF Answering, Handler
  <1>1. CASE AcceptCompletes
    <2>1. PICK h \in Handlers : strand' = Append(strand, h) /\ ~Answering(h)
      BY <1>1, <1>c, HandlerType DEF AcceptCompletes
    <2>2. /\ forks' = forks /\ UNCHANGED <<sent, received>>
          /\ writer' = "busy" => writer = "busy" /\ outgoing' = outgoing
      BY <1>1 DEF AcceptCompletes
    <2> QED BY <1>a, <2>1, <2>2, OrderKept
  <1>2. CASE ChunkArrives \/ PeerCloses
    <2>1. /\ forks' = forks /\ UNCHANGED <<sent, received, strand>>
          /\ writer' = "busy" => writer = "busy" /\ outgoing' = outgoing
      BY <1>2 DEF ChunkArrives, PeerCloses
    <2> QED BY <2>1, OrderKept
  <1>3. CASE MessageArrives
    <2> SUFFICES ASSUME forks' = 0
                 PROVE  /\ RepliesInOrder'
                        /\ \A i \in DOMAIN sent' : sent'[i].req <= received'
                        /\ \A k \in DOMAIN strand' :
                              Answering(strand'[k]) => strand'[k].req = received' /\ Unanswered'
                        /\ writer' = "busy" => outgoing'.req = received' /\ Unanswered'
      BY DEF OrderInv, Answering
    <2>1. forks = 0 /\ UNCHANGED <<sent, writer>> /\ received' = received + 1
          /\ reader = "busy"
      BY <1>3 DEF MessageArrives
    <2>2. strand = <<>> /\ writer # "busy"
      BY <1>0, <2>1, PendingAlone
    <2>3. RepliesInOrder /\ \A i \in DOMAIN sent : sent[i].req <= received
      BY <2>1 DEF OrderInv
    <2>4. RepliesInOrder'
      BY <2>1, <2>3 DEF RepliesInOrder
    <2>5. \A i \in DOMAIN sent : sent[i].req \in Nat
      <3>1. \A i \in DOMAIN sent : sent[i] \in Replies
        BY DEF TypeOK
      <3> QED BY <3>1 DEF Replies
    <2>6. Unanswered' /\ \A i \in DOMAIN sent' : sent'[i].req <= received'
      BY <1>b, <2>1, <2>3, <2>5 DEF Unanswered
    <2>7. PICK kind \in Requests :
             strand' = Append(strand, Handler("on_read", kind, received + 1))
      BY <1>3 DEF MessageArrives
    <2>8. \A k \in DOMAIN strand' : strand'[k].req = received'
      BY <2>1, <2>2, <2>7 DEF Handler
    <2> QED BY <2>1, <2>2, <2>4, <2>6, <2>8
  <1>4. CASE ReadFails
    <2>1. PICK h \in Handlers : strand' = Append(strand, h) /\ ~Answering(h)
      BY <1>4, <1>b, <1>c, HandlerType DEF ReadFails
    <2>2. /\ forks' = forks /\ UNCHANGED <<sent, received>>
          /\ writer' = "busy" => writer = "busy" /\ outgoing' = outgoing
      BY <1>4 DEF ReadFails
    <2> QED BY <1>a, <2>1, <2>2, OrderKept
  <1>5. CASE WriteCompletes
    <2> SUFFICES ASSUME forks' = 0
                 PROVE  /\ RepliesInOrder'
                        /\ \A i \in DOMAIN sent' : sent'[i].req <= received'
                        /\ \A k \in DOMAIN strand' : ~Answering(strand'[k])
                        /\ writer' # "busy"
      BY DEF OrderInv, Answering
    <2>1. forks = 0 /\ writer = "busy" /\ writer' = "done" /\ received' = received
          /\ sent' = Append(sent, outgoing)
      BY <1>5 DEF WriteCompletes
    <2>2. strand = <<>>
      BY <1>0, <2>1, PendingAlone
    <2>3. /\ RepliesInOrder /\ outgoing.req = received
          /\ \A i \in DOMAIN sent : sent[i].req < received
      BY <2>1 DEF OrderInv, Unanswered
    <2>4. /\ Len(sent) \in Nat /\ Len(sent') = Len(sent) + 1
          /\ DOMAIN sent' = 1 .. Len(sent') /\ DOMAIN sent = 1 .. Len(sent)
          /\ \A i \in DOMAIN sent : sent'[i] = sent[i] /\ sent[i] \in Replies
          /\ sent'[Len(sent')] = outgoing
      BY <2>1 DEF TypeOK
    <2>5. \A i \in DOMAIN sent' : sent'[i].req <= received'
      <3>1. \A i \in DOMAIN sent : sent[i].req \in Nat
        BY <2>4 DEF Replies
      <3> QED BY <1>b, <2>1, <2>3, <2>4, <3>1
    <2>6. ASSUME NEW i \in DOMAIN sent', NEW j \in DOMAIN sent', i < j
          PROVE  sent'[i].req < sent'[j].req
      <3>1. CASE j = Len(sent')
        <4>1. i \in DOMAIN sent
          BY <2>4, <2>6, <3>1
        <4> QED BY <2>3, <2>4, <3>1, <4>1
      <3>2. CASE j # Len(sent')
        <4>1. i \in DOMAIN sent /\ j \in DOMAIN sent
          BY <2>4, <2>6, <3>2
        <4> QED BY <2>1, <2>3, <2>4, <2>6, <4>1 DEF RepliesInOrder
      <3> QED BY <3>1, <3>2
    <2>7. \A k \in DOMAIN strand' : ~Answering(strand'[k])
      <3>1. strand' = Append(strand, Handler("on_write", "ok", outgoing.req))
        BY <1>5 DEF WriteCompletes
      <3>2. \A k \in DOMAIN strand' : strand'[k] = Handler("on_write", "ok", outgoing.req)
        BY <2>2, <3>1
      <3> QED BY <1>c, <3>2
    <2> QED BY <2>1, <2>5, <2>6, <2>7 DEF RepliesInOrder
  <1>6. CASE WriteFails
    <2>1. PICK h \in Handlers : strand' = Append(strand, h) /\ ~Answering(h)
      BY <1>6, <1>b, <1>c, HandlerType DEF WriteFails
    <2>2. /\ forks' = forks /\ UNCHANGED <<sent, received>> /\ writer' # "busy"
      BY <1>6 DEF WriteFails
    <2> QED BY <1>a, <2>1, <2>2, OrderKept
  <1>7. CASE ControlFrameAnswered
    <2>1. /\ forks' = forks /\ UNCHANGED <<sent, received, strand>>
          /\ parkedWrite # NoReply
      BY <1>7 DEF ControlFrameAnswered
    <2>2. forks # 0
      BY <1>0, <2>1, PendingAlone
    <2> QED BY <2>1, <2>2, OrderKept
  <1> QED BY <1>1, <1>2, <1>3, <1>4, <1>5, <1>6, <1>7

(* The handler that runs is the request that is answered, if it answers one. *)
LEMMA CurrentAnswers ==
    ASSUME TypeOK, OrderInv, strand # <<>>
    PROVE  /\ Current \in Handlers
           /\ forks = 0 /\ Answering(Current) => Current.req = received /\ Unanswered
  <1>1. Current = strand[1] /\ 1 \in DOMAIN strand /\ Current \in Handlers
    BY DEF TypeOK, Current
  <1> QED BY <1>1, Zenon DEF OrderInv

(* A handler writes nothing, or the reply to its own request.               *)
WritesOwn ==
    writer' = "busy" =>
       \/ writer = "busy" /\ outgoing' = outgoing
       \/ forks = 0 => Answering(Current) /\ outgoing'.req = Current.req

LEMMA OrderHandler ==
    ASSUME TypeOK, OrderInv, strand # <<>>, NEW hs \in Seq(Handlers), Finish(hs),
           UNCHANGED <<forks, sent, received>>, WritesOwn,
           \A k \in DOMAIN hs :
              Answering(hs[k]) => Answering(Current) /\ hs[k].req = Current.req
    PROVE  OrderInv'
  <1>1. forks = 0 /\ Answering(Current) => Current.req = received /\ Unanswered
    BY CurrentAnswers
  <1>2. ASSUME NEW i \in DOMAIN strand', Answering(strand'[i])
        PROVE  \/ \E k \in DOMAIN strand : strand'[i] = strand[k]
               \/ forks = 0 => strand'[i].req = received /\ Unanswered
    BY <1>1, <1>2, FinishLeaves
  <1>3. writer' = "busy" =>
           \/ writer = "busy" /\ outgoing' = outgoing
           \/ forks = 0 => outgoing'.req = received /\ Unanswered
    BY <1>1 DEF WritesOwn
  <1> QED BY <1>2, <1>3, OrderKept

LEMMA OrderEnds ==
    ASSUME TypeOK, OrderInv, strand # <<>>, Finish(<<>>),
           forks' = forks, sent' = sent, received' = received, WritesOwn
    PROVE  OrderInv'
  <1>1. <<>> \in Seq(Handlers) /\ DOMAIN <<>> = {}
    OBVIOUS
  <1>2. \A k \in DOMAIN <<>> :
           Answering(<<>>[k]) => Answering(Current) /\ <<>>[k].req = Current.req
    BY <1>1
  <1> QED BY <1>1, <1>2, OrderHandler

LEMMA OrderPosts ==
    ASSUME TypeOK, OrderInv, strand # <<>>, NEW h \in Handlers, Finish(<<h>>),
           forks' = forks, sent' = sent, received' = received, WritesOwn,
           Answering(Current), h.req = Current.req
    PROVE  OrderInv'
  <1> DEFINE hs == <<h>>
  <1>1. hs \in Seq(Handlers) /\ \A k \in DOMAIN hs : hs[k] = h
    OBVIOUS
  <1>2. \A k \in DOMAIN hs :
           Answering(hs[k]) => Answering(Current) /\ hs[k].req = Current.req
    BY <1>1
  <1>3. Finish(hs)
    OBVIOUS
  <1> HIDE DEF hs
  <1> QED BY <1>1, <1>2, <1>3, OrderHandler

(* A reply that is sent is written at once, no other being pending.         *)
LEMMA SendNow ==
    ASSUME TypeOK, NEW tag, NEW n, send_envelope(tag, n)
    PROVE  writer' = "busy" => \/ writer = "busy" /\ outgoing' = outgoing
                               \/ outgoing'.req = n
  BY DEF send_envelope, Reply

LEMMA OrderHandlers ==
    ASSUME TypeOK, OrderInv, RunHandler
    PROVE  OrderInv'
  <1> USE DEF readVars, writeVars, peerVars
  <1>a. ASSUME NEW op, Running(op)
        PROVE  strand # <<>> /\ Current \in Handlers /\ Current.op = op
    BY <1>a, StrandType DEF TypeOK, Running, Current
  <1>f. ASSUME forks' = forks + 1 PROVE OrderInv'
    <2>1. forks' # 0
      BY <1>f DEF TypeOK
    <2> QED BY <2>1 DEF OrderInv
  <1>1. CASE RunOnAccept \/ RunOnWrite
    <2>1. /\ strand # <<>> /\ Finish(<<>>)
          /\ forks' = forks /\ sent' = sent /\ received' = received
      BY <1>1 DEF RunOnAccept, RunOnWrite, Running
    <2>2. WritesOwn
      BY <1>1 DEF RunOnAccept, RunOnWrite, WritesOwn
    <2> QED BY <2>1, <2>2, OrderEnds
  <1>2. CASE RunOnRead
    <2>1. Running("on_read") /\ sent' = sent /\ received' = received
      BY <1>2 DEF RunOnRead
    <2>2. strand # <<>> /\ Current.req \in Nat
      BY <1>a, <2>1 DEF Handlers
    <2>3. PICK kind \in FramesRead(Current.arg) :
             IF kind \in {"error", "text", "garbage"}
             THEN Finish(<<>>) /\ UNCHANGED <<writeVars, leaked, forks>>
             ELSE dispatch_protobuf_message(kind, Current.req)
      BY <1>2, Zenon DEF RunOnRead
    <2>4. CASE Finish(<<>>) /\ UNCHANGED <<writeVars, leaked, forks>>
      <3>1. WritesOwn /\ forks' = forks
        BY <2>4 DEF WritesOwn
      <3> QED BY <2>1, <2>2, <2>4, <3>1, OrderEnds
    <2>5. CASE /\ kind \notin {"error", "text", "garbage"}
               /\ dispatch_protobuf_message(kind, Current.req)
      <3>0. Answering(Current)
        <4>1. Current.arg # "error"
          BY <2>3, <2>5 DEF FramesRead
        <4> QED BY <1>a, <2>1, <4>1 DEF Answering
      <3>1. CASE kind \in JobKinds /\ Finish(<<Handler("job", kind, Current.req)>>)
                 /\ UNCHANGED <<writeVars, leaked, forks>>
        <4>1. Handler("job", kind, Current.req) \in Handlers
          BY <2>2, <3>1, HandlerType
        <4>2. Handler("job", kind, Current.req).req = Current.req
          BY DEF Handler
        <4>3. WritesOwn /\ forks' = forks
          BY <3>1 DEF WritesOwn
        <4> QED BY <2>1, <2>2, <3>0, <3>1, <4>1, <4>2, <4>3, OrderPosts
      <3>2. CASE forks' = forks + 1
        BY <1>f, <3>2
      <3>3. CASE /\ Finish(<<>>)
                 /\ \E tag : send_envelope(tag, Current.req)
                 /\ UNCHANGED forks
        <4>1. WritesOwn
          BY <3>0, <3>3, SendNow DEF WritesOwn
        <4> QED BY <2>1, <2>2, <3>3, <4>1, OrderEnds
      <3> QED BY <2>5, <3>1, <3>2, <3>3, Zenon DEF dispatch_protobuf_message
    <2> QED BY <2>3, <2>4, <2>5, Zenon
  <1>3. CASE RunJob
    <2>1. /\ Running("job") /\ forks' = forks /\ sent' = sent /\ received' = received
          /\ writer' = writer /\ outgoing' = outgoing
      BY <1>3 DEF RunJob
    <2>2. /\ strand # <<>> /\ Current.arg \in JobKinds /\ Current.req \in Nat
          /\ Answering(Current) /\ WritesOwn
      BY <1>a, <2>1 DEF Handlers, Answering, WritesOwn
    <2>3. PICK end \in JobEnds[Current.arg] :
             Finish(CASE end = "silent" -> <<>>
                      [] end = "folder" -> <<Handler("send_folder", end, Current.req)>>
                      [] OTHER          -> <<Handler("send", end, Current.req)>>)
      BY <1>3, Zenon DEF RunJob
    <2>4. end \in ReplyTags \cup {"silent"}
      BY <2>2, <2>3, JobsType
    <2>5. CASE Finish(<<>>)
      BY <2>1, <2>2, <2>5, OrderEnds
    <2>6. CASE \E h \in Handlers : h.req = Current.req /\ Finish(<<h>>)
      BY <2>1, <2>2, <2>6, OrderPosts
    <2>7. end \in ReplyTags => /\ Handler("send_folder", end, Current.req) \in Handlers
                               /\ Handler("send", end, Current.req) \in Handlers
      BY <2>2, HandlerType
    <2>8. \A op : Handler(op, end, Current.req).req = Current.req
      BY DEF Handler
    <2> QED BY <2>3, <2>4, <2>5, <2>6, <2>7, <2>8
  <1>4. CASE RunSend
    <2>1. /\ Running("send") /\ Finish(<<>>) /\ send_envelope(Current.arg, Current.req)
          /\ forks' = forks /\ sent' = sent /\ received' = received
      BY <1>4 DEF RunSend
    <2>2. strand # <<>> /\ Answering(Current)
      BY <1>a, <2>1 DEF Answering
    <2>3. WritesOwn
      BY <2>1, <2>2, SendNow DEF WritesOwn
    <2> QED BY <2>1, <2>2, <2>3, OrderEnds
  <1>5. CASE RunSendFolder
    BY <1>f, <1>5 DEF RunSendFolder
  <1> QED BY <1>1, <1>2, <1>3, <1>4, <1>5 DEF RunHandler

(* Until something forks the replies come in the order of their requests,   *)
(* one each: the request a handler answers is the one read last, since the  *)
(* next is read only when its reply is written.                             *)
THEOREM RepliesKeepOrder == Spec => []RepliesInOrder
  <1>1. SessionInv /\ OrderInv /\ [Next]_vars => OrderInv'
    <2> SUFFICES ASSUME SessionInv, OrderInv, [Next]_vars PROVE OrderInv'
      OBVIOUS
    <2>1. CASE UNCHANGED vars
      <3>1. /\ forks' = forks /\ UNCHANGED <<sent, received, strand>>
            /\ writer' = "busy" => writer = "busy" /\ outgoing' = outgoing
        BY <2>1 DEF vars
      <3> QED BY <3>1, OrderKept DEF SessionInv
    <2>2. CASE RunHandler
      BY <2>2, OrderHandlers DEF SessionInv
    <2>3. CASE Next /\ ~RunHandler
      BY <2>3, OrderCompletions, Zenon DEF Next, SessionInv
    <2> QED BY <2>1, <2>2, <2>3
  <1>2. OrderInv => RepliesInOrder
    BY DEF OrderInv, RepliesInOrder
  <1> QED BY <1>1, <1>2, OrderInit, SessionInvInductive, PTL DEF Spec

=============================================================================
