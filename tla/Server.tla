--------------------------------- MODULE Server ---------------------------------
(***************************************************************************)
(* The accept loops and the threads of src/src/main.cpp: two listeners and *)
(* the sessions they start share threads_count threads that run one        *)
(* io_context.  Every listener and every session has a strand; its         *)
(* handlers run one at a time, on whichever thread is free.  A session's   *)
(* jobs block their thread inside the one mongocxx::client of              *)
(* src/src/database.hpp, some of them for ever: no call has a timeout.     *)
(*                                                                         *)
(* What the handlers of a session do is in HttpSession and WssSession;     *)
(* here a session reads, runs a job, sends, and now and then starts a      *)
(* second chain of handlers.                                               *)
(***************************************************************************)
EXTENDS Naturals, Sequences, FiniteSets

CONSTANTS
    Listeners,          \* the ports
    Conns,              \* connections that clients open
    PortOf,             \* the port each is made to
    threads_count,
    None,
    MaxRequests,        \* bound: requests of a connection
    MaxStuck,           \* bound: store calls that never return
    MaxErrors           \* bound: accepts that fail

ASSUME PortAssumption == PortOf \in [Conns -> Listeners]
ASSUME NamesAssumption == Listeners \cap Conns = {} /\ None \notin Listeners \cup Conns
ASSUME CountsAssumption ==
    threads_count \in Nat \ {0} /\ MaxRequests \in Nat /\ MaxStuck \in Nat /\ MaxErrors \in Nat

(* Deviation for a mutant: main does not run the io_context itself.         *)
Threads_NoMain == 1 .. threads_count - 1

(* main is thread 0 and starts the others.                                  *)
Threads == 0 .. threads_count - 1

Strands == Listeners \cup Conns

VARIABLES
    accepting,      \* the listener's async_accept is pending
    conn,           \* what became of each connection
    reading,        \* the session's async_read is pending
    work,           \* handlers queued on each strand, the running one first
    ready,          \* the queue of the io_context: strands that may run
    thread,         \* the strand each thread runs
    stuck,          \* threads whose store call never returns
    requests,       \* requests each connection has made
    errors          \* accepts that failed

vars == <<accepting, conn, reading, work, ready, thread, stuck, requests, errors>>

Tasks ==
    [op : {"on_accept"}, socket : Conns \cup {None}]
    \cup [op : {"on_read", "job", "send"}]

OnAccept(c) == [op |-> "on_accept", socket |-> c]
Task(op) == [op |-> op]

Init ==
    /\ accepting = [l \in Listeners |-> TRUE]
    /\ conn = [c \in Conns |-> "absent"]
    /\ reading = [c \in Conns |-> FALSE]
    /\ work = [s \in Strands |-> <<>>]
    /\ ready = <<>>
    /\ thread = [t \in Threads |-> None]
    /\ stuck = {}
    /\ requests = [c \in Conns |-> 0]
    /\ errors = 0

-----------------------------------------------------------------------------
(* Deviation for a mutant: sockets are accepted without a strand, so that   *)
(* every handler is queued for the threads as it is.                        *)
Post_NoStrand(s, task) ==
    /\ work' = [work EXCEPT ![s] = Append(@, task)]
    /\ ready' = Append(ready, s)

(* A handler queued on an idle strand makes the strand ready.               *)
Post(s, task) ==
    /\ work' = [work EXCEPT ![s] = Append(@, task)]
    /\ ready' = IF work[s] = <<>> THEN Append(ready, s) ELSE ready

Connect(c) ==
    /\ conn[c] = "absent"
    /\ conn' = [conn EXCEPT ![c] = "backlog"]
    /\ UNCHANGED <<accepting, reading, work, ready, thread, stuck, requests, errors>>

(* A client gives up before its connection is accepted.                     *)
GiveUp(c) ==
    /\ conn[c] = "backlog"
    /\ conn' = [conn EXCEPT ![c] = "gone"]
    /\ UNCHANGED <<accepting, reading, work, ready, thread, stuck, requests, errors>>

AcceptCompletes(l) ==
    /\ accepting[l]
    /\ accepting' = [accepting EXCEPT ![l] = FALSE]
    /\ \E c \in Conns :
          /\ PortOf[c] = l /\ conn[c] = "backlog"
          /\ conn' = [conn EXCEPT ![c] = "accepted"]
          /\ Post(l, OnAccept(c))
    /\ UNCHANGED <<reading, thread, stuck, requests, errors>>

(* For want of descriptors, or because the peer is gone already.            *)
AcceptFails(l) ==
    /\ accepting[l]
    /\ errors < MaxErrors
    /\ errors' = errors + 1
    /\ accepting' = [accepting EXCEPT ![l] = FALSE]
    /\ Post(l, OnAccept(None))
    /\ UNCHANGED <<conn, reading, thread, stuck, requests>>

RequestArrives(c) ==
    /\ reading[c]
    /\ requests[c] < MaxRequests
    /\ requests' = [requests EXCEPT ![c] = @ + 1]
    /\ reading' = [reading EXCEPT ![c] = FALSE]
    /\ Post(c, Task("on_read"))
    /\ UNCHANGED <<accepting, conn, thread, stuck, errors>>

-----------------------------------------------------------------------------
(* The threads.                                                             *)

Take(t) ==
    /\ thread[t] = None
    /\ ready # <<>>
    /\ thread' = [thread EXCEPT ![t] = Head(ready)]
    /\ ready' = Tail(ready)
    /\ UNCHANGED <<accepting, conn, reading, work, stuck, requests, errors>>

Runs(t, op) ==
    /\ thread[t] # None
    /\ t \notin stuck
    /\ work[thread[t]] # <<>>
    /\ Head(work[thread[t]]).op = op

(* The handler returns, having posted others to its strand.  The thread     *)
(* goes on with the strand, or the strand queues up again behind others.    *)
Return(t, posted) ==
    LET s == thread[t]
        left == Tail(work[s]) \o posted
    IN  /\ work' = [work EXCEPT ![s] = left]
        /\ \/ left # <<>> /\ UNCHANGED <<thread, ready>>
           \/ /\ thread' = [thread EXCEPT ![t] = None]
              /\ ready' = IF left = <<>> THEN ready ELSE Append(ready, s)

(* Deviation for a mutant: an error ends the accept loop.                   *)
RunOnAccept_StopsOnError(t) ==
    /\ Runs(t, "on_accept")
    /\ LET c == Head(work[thread[t]]).socket
       IN  \/ /\ c # None
              /\ conn' = [conn EXCEPT ![c] = "open"]
              /\ reading' = [reading EXCEPT ![c] = TRUE]
              /\ accepting' = [accepting EXCEPT ![thread[t]] = TRUE]
           \/ c = None /\ UNCHANGED <<conn, reading, accepting>>
    /\ Return(t, <<>>)
    /\ UNCHANGED <<stuck, requests, errors>>

(* on_accept: a session is started, unless there was an error, and in       *)
(* either case the next accept.                                             *)
RunOnAccept(t) ==
    /\ Runs(t, "on_accept")
    /\ LET c == Head(work[thread[t]]).socket
       IN  \/ /\ c # None
              /\ conn' = [conn EXCEPT ![c] = "open"]
              /\ reading' = [reading EXCEPT ![c] = TRUE]
           \/ c = None /\ UNCHANGED <<conn, reading>>
    /\ accepting' = [accepting EXCEPT ![thread[t]] = TRUE]
    /\ Return(t, <<>>)
    /\ UNCHANGED <<stuck, requests, errors>>

RunOnRead(t) ==
    /\ Runs(t, "on_read")
    /\ Return(t, <<Task("job")>>)
    /\ UNCHANGED <<accepting, conn, reading, stuck, requests, errors>>

(* The job's calls to the stores, which have blocked the thread, return.    *)
RunJob(t) ==
    /\ Runs(t, "job")
    /\ Return(t, <<Task("send")>>)
    /\ UNCHANGED <<accepting, conn, reading, stuck, requests, errors>>

(* A call to a store never returns.                                         *)
JobHangs(t) ==
    /\ Runs(t, "job")
    /\ Cardinality(stuck) < MaxStuck
    /\ stuck' = stuck \cup {t}
    /\ UNCHANGED <<accepting, conn, reading, work, ready, thread, requests, errors>>

(* The reply is sent and the next request read; the reply of a WebSocket    *)
(* session that announces a folder also lists it, which is another job.     *)
RunSend(t) ==
    /\ Runs(t, "send")
    /\ reading' = [reading EXCEPT ![thread[t]] = TRUE]
    /\ \/ Return(t, <<>>)
       \/ /\ ~reading[thread[t]]
          /\ Return(t, <<Task("job")>>)
    /\ UNCHANGED <<accepting, conn, stuck, requests, errors>>

-----------------------------------------------------------------------------
Run(t) == RunOnAccept(t) \/ RunOnRead(t) \/ RunJob(t) \/ RunSend(t)

Next ==
    \/ \E c \in Conns : Connect(c) \/ GiveUp(c) \/ RequestArrives(c)
    \/ \E l \in Listeners : AcceptCompletes(l) \/ AcceptFails(l)
    \/ \E t \in Threads : Take(t) \/ Run(t) \/ JobHangs(t)

(* Threads never leave io_context::run; the kernel reports connections.     *)
Fairness ==
    /\ \A t \in Threads : WF_vars(Take(t)) /\ WF_vars(Run(t))
    /\ \A l \in Listeners : WF_vars(AcceptCompletes(l))

Spec == Init /\ [][Next]_vars
FairSpec == Spec /\ Fairness

-----------------------------------------------------------------------------
TypeOK ==
    /\ accepting \in [Listeners -> BOOLEAN]
    /\ conn \in [Conns -> {"absent", "backlog", "accepted", "open", "gone"}]
    /\ reading \in [Conns -> BOOLEAN]
    /\ work \in [Strands -> Seq(Tasks)]
    /\ ready \in Seq(Strands)
    /\ thread \in [Threads -> Strands \cup {None}]
    /\ stuck \subseteq Threads
    /\ requests \in [Conns -> 0 .. MaxRequests]
    /\ errors \in 0 .. MaxErrors

(* Every listener has one accept under way, whatever has failed: it is      *)
(* pending, or its handler is queued or running.                            *)
AlwaysListening ==
    \A l \in Listeners :
       IF accepting[l] THEN work[l] = <<>> ELSE Len(work[l]) = 1

(* Two threads never run handlers of one session, so that its buffer_ and   *)
(* its stream need no lock (make_strand, main.cpp:65).                      *)
StrandsSerial ==
    \A t, u \in Threads : thread[t] = thread[u] => t = u \/ thread[t] = None

(* Connections are accepted although other sessions hang in a store.        *)
Accepted ==
    \A c \in Conns : conn[c] = "backlog" ~> conn[c] \in {"open", "gone"}

(* What is queued in a session is done, unless one of its own calls hangs.  *)
Served ==
    \A c \in Conns :
       work[c] # <<>> ~> \/ work[c] = <<>>
                         \/ \E t \in stuck : thread[t] = c

=============================================================================
