------------------------------ MODULE HttpSession ------------------------------
(***************************************************************************)
(* One HTTP session: requests and responses over a connection that is kept *)
(* alive, on either port, until a valid upgrade request hands the stream   *)
(* to a WebSocket session (src/src/httpServerSession.cpp).                 *)
(*                                                                         *)
(* As in WssSession.tla, `strand' is the FIFO of handlers that wait for    *)
(* the strand of the socket, each Run... action is one whole handler, the  *)
(* jobs included, and the other actions are completions of operations,     *)
(* which only queue a handler.  The session lives as long as an operation  *)
(* or a handler holds it.                                                  *)
(***************************************************************************)
EXTENDS Naturals, Sequences

CONSTANT MaxRequests    \* bound: requests the peer sends

ASSUME BoundAssumption == MaxRequests \in Nat

VARIABLES
    is_auth_server_,    \* the port: REST in clear, or WebSockets over TLS
    stream_,            \* "open", or "moved" into a WebSocket session
    strand,             \* handlers waiting for the socket's strand
    handshake,          \* the async_handshake is pending
    reads,              \* async_reads that are pending
    writes,             \* responses of the async_writes that are pending
    req_,               \* the request the session holds
    peerGone,           \* the connection is closed or broken
    malformed,          \* history: what was read is not a request
    asked,              \* history: requests read
    sent                \* history: responses, in the order of the writes

vars == <<is_auth_server_, stream_, strand, handshake, reads, writes, req_,
          peerGone, malformed, asked, sent>>

-----------------------------------------------------------------------------
(* The requests each port tells apart; "invalid" is an upgrade without a    *)
(* token that verifies, "missing" lacks a field, "other" is any other       *)
(* method, target or, on the WebSocket port, a plain request.               *)
JobKinds == {"register", "login"}
AuthKinds == JobKinds \cup {"missing", "other"}
WssKinds == {"upgrade", "invalid", "other"}
Kinds == AuthKinds \cup WssKinds

PortKinds == IF is_auth_server_ THEN AuthKinds ELSE WssKinds

(* num, the number of the request, is history.                              *)
Request == [num : Nat, kind : Kinds, keep_alive : BOOLEAN]
NoRequest == [num |-> 0, kind |-> "none", keep_alive |-> TRUE]

Statuses == {200, 201, 400, 401, 404, 500}
Response == [to : Nat, status : Statuses, keep_alive : BOOLEAN]

(* The responses a job may end in.                                          *)
JobEnds == [register |-> {201, 400, 500}, login |-> {200, 401, 500}]

Handlers ==
    [op : {"on_handshake", "on_read", "on_write"}, ok : BOOLEAN, keep_alive : BOOLEAN]
    \cup [op : {"job"}, kind : JobKinds, num : Nat]
    \cup [op : {"send"}, status : Statuses, num : Nat]

Completion(op, ok, keep) == [op |-> op, ok |-> ok, keep_alive |-> keep]

Init ==
    /\ is_auth_server_ \in BOOLEAN
    /\ stream_ = "open"
    /\ strand = <<>>
    /\ handshake = ~is_auth_server_
    /\ reads = IF is_auth_server_ THEN 1 ELSE 0
    /\ writes = <<>>
    /\ req_ = NoRequest
    /\ peerGone = FALSE
    /\ malformed = FALSE
    /\ asked = 0
    /\ sent = <<>>

-----------------------------------------------------------------------------
(* Completions.                                                             *)

Queue(h) == strand' = Append(strand, h)

HandshakeCompletes ==
    /\ handshake
    /\ handshake' = FALSE
    /\ \E ok \in BOOLEAN : Queue(Completion("on_handshake", ok, TRUE))
    /\ UNCHANGED <<is_auth_server_, stream_, reads, writes, req_, peerGone, malformed,
                   asked, sent>>

(* What the peer had sent before it went away can still be read.            *)
ReadCompletes ==
    /\ reads > 0 /\ asked < MaxRequests
    /\ reads' = reads - 1
    /\ asked' = asked + 1
    /\ \E kind \in PortKinds, keep \in BOOLEAN :
          req_' = [num |-> asked + 1, kind |-> kind, keep_alive |-> keep]
    /\ Queue(Completion("on_read", TRUE, TRUE))
    /\ UNCHANGED <<is_auth_server_, stream_, handshake, writes, peerGone, malformed, sent>>

(* A read fails when the connection has ended, and on bytes that are not a  *)
(* request or exceed the limit of the body.                                 *)
ReadFails ==
    /\ reads > 0
    /\ reads' = reads - 1
    /\ malformed' = (malformed \/ ~peerGone)
    /\ Queue(Completion("on_read", FALSE, TRUE))
    /\ UNCHANGED <<is_auth_server_, stream_, handshake, writes, req_, peerGone,
                   asked, sent>>

WriteCompletes ==
    /\ writes # <<>>
    /\ writes' = Tail(writes)
    /\ \E ok \in {TRUE, ~peerGone} :
          Queue(Completion("on_write", ok, Head(writes).keep_alive))
    /\ UNCHANGED <<is_auth_server_, stream_, handshake, reads, req_, peerGone, malformed,
                   asked, sent>>

PeerCloses ==
    /\ ~peerGone
    /\ peerGone' = TRUE
    /\ UNCHANGED <<is_auth_server_, stream_, strand, handshake, reads, writes,
                   req_, asked, sent, malformed>>

-----------------------------------------------------------------------------
(* What the handlers call.                                                  *)

do_read ==
    /\ req_' = NoRequest
    /\ reads' = reads + 1

(* send_json_response and send_http_string_response: keep-alive is taken    *)
(* from the request the session holds when the response is written.         *)
SendResponse(status, num) ==
    LET res == [to |-> num, status |-> status, keep_alive |-> req_.keep_alive]
    IN  /\ writes' = Append(writes, res)
        /\ sent' = Append(sent, res)

Running(op) == strand # <<>> /\ Head(strand).op = op
Pop == strand' = Tail(strand)
PopAndPost(h) == strand' = Append(Tail(strand), h)

-----------------------------------------------------------------------------
(* Handlers.                                                                *)

RunOnHandshake ==
    /\ Running("on_handshake")
    /\ Pop
    /\ \/ Head(strand).ok /\ do_read
       \/ ~Head(strand).ok /\ UNCHANGED <<reads, req_>>
    /\ UNCHANGED <<is_auth_server_, stream_, handshake, writes, peerGone, malformed, asked, sent>>

(* on_read of an upgrade request with a token that verifies.                *)
Upgrade ==
    /\ ~is_auth_server_ /\ req_.kind = "upgrade"
    /\ stream_' = "moved"
    /\ req_' = NoRequest
    /\ Pop
    /\ UNCHANGED <<writes, sent>>

(* The requests that on_read and handle_rest_api answer at once.            *)
AnswerAtOnce ==
    /\ \/ ~is_auth_server_ /\ req_.kind = "invalid" /\ SendResponse(401, req_.num)
       \/ ~is_auth_server_ /\ req_.kind = "other" /\ SendResponse(404, req_.num)
       \/ is_auth_server_ /\ req_.kind = "missing" /\ SendResponse(400, req_.num)
       \/ is_auth_server_ /\ req_.kind = "other" /\ SendResponse(404, req_.num)
    /\ Pop
    /\ UNCHANGED <<stream_, req_>>

(* Deviation for a mutant: no return after the 400 for missing fields.      *)
handle_rest_api_NoReturn ==
    /\ is_auth_server_
    /\ \/ /\ req_.kind \in JobKinds
          /\ PopAndPost([op |-> "job", kind |-> req_.kind, num |-> req_.num])
          /\ UNCHANGED <<writes, sent>>
       \/ /\ req_.kind = "missing"
          /\ SendResponse(400, req_.num)
          /\ PopAndPost([op |-> "job", kind |-> "login", num |-> req_.num])
    /\ UNCHANGED <<stream_, req_>>

(* Registration and login with both fields post a job.                      *)
handle_rest_api ==
    /\ is_auth_server_ /\ req_.kind \in JobKinds
    /\ PopAndPost([op |-> "job", kind |-> req_.kind, num |-> req_.num])
    /\ UNCHANGED <<stream_, req_, writes, sent>>

(* Deviation for a mutant: a read that failed is tried again.               *)
RunOnRead_Retries ==
    /\ Running("on_read")
    /\ \/ ~Head(strand).ok /\ Pop /\ do_read /\ UNCHANGED <<stream_, writes, sent>>
       \/ /\ Head(strand).ok /\ (Upgrade \/ AnswerAtOnce \/ handle_rest_api)
          /\ UNCHANGED reads
    /\ UNCHANGED <<is_auth_server_, handshake, peerGone, malformed, asked>>

RunOnRead ==
    /\ Running("on_read")
    /\ \/ ~Head(strand).ok /\ Pop /\ UNCHANGED <<stream_, req_, writes, sent>>
       \/ Head(strand).ok /\ (Upgrade \/ AnswerAtOnce \/ handle_rest_api)
    /\ UNCHANGED <<is_auth_server_, handshake, reads, peerGone, malformed, asked>>

(* Deviation for a mutant: the job reads on before its response is sent.    *)
RunJob_ReadsOn ==
    /\ Running("job")
    /\ \E status \in JobEnds[Head(strand).kind] :
          PopAndPost([op |-> "send", status |-> status, num |-> Head(strand).num])
    /\ do_read
    /\ UNCHANGED <<is_auth_server_, stream_, handshake, writes, peerGone, malformed, asked, sent>>

(* Deviation for a mutant: an exception ends a job without a response.      *)
RunJob_Silent ==
    /\ Running("job")
    /\ \/ \E status \in JobEnds[Head(strand).kind] :
             PopAndPost([op |-> "send", status |-> status, num |-> Head(strand).num])
       \/ Pop
    /\ UNCHANGED <<is_auth_server_, stream_, handshake, reads, writes, req_,
                   peerGone, malformed, asked, sent>>

(* The lambda that handle_rest_api posts: its calls to the stores are in    *)
(* Registration.tla; every way out of it, exceptions included, posts the    *)
(* lambda that sends the response.                                          *)
RunJob ==
    /\ Running("job")
    /\ \E status \in JobEnds[Head(strand).kind] :
          PopAndPost([op |-> "send", status |-> status, num |-> Head(strand).num])
    /\ UNCHANGED <<is_auth_server_, stream_, handshake, reads, writes, req_,
                   peerGone, malformed, asked, sent>>

RunSend ==
    /\ Running("send")
    /\ SendResponse(Head(strand).status, Head(strand).num)
    /\ Pop
    /\ UNCHANGED <<is_auth_server_, stream_, handshake, reads, req_, peerGone, malformed, asked>>

(* Deviation for a mutant: the session reads on whatever it has announced.  *)
RunOnWrite_Always ==
    /\ Running("on_write")
    /\ Pop
    /\ \/ Head(strand).ok /\ do_read
       \/ ~Head(strand).ok /\ UNCHANGED <<reads, req_>>
    /\ UNCHANGED <<is_auth_server_, stream_, handshake, writes, peerGone, malformed, asked, sent>>

RunOnWrite ==
    /\ Running("on_write")
    /\ Pop
    /\ LET again == Head(strand).ok /\ Head(strand).keep_alive
       IN  \/ again /\ do_read
           \/ ~again /\ UNCHANGED <<reads, req_>>
    /\ UNCHANGED <<is_auth_server_, stream_, handshake, writes, peerGone, malformed, asked, sent>>

-----------------------------------------------------------------------------
Run == RunOnHandshake \/ RunOnRead \/ RunJob \/ RunSend \/ RunOnWrite

Next ==
    \/ HandshakeCompletes \/ ReadCompletes \/ ReadFails \/ WriteCompletes
    \/ PeerCloses
    \/ Run

(* Queued handlers run; a write ends; operations on a connection that is    *)
(* gone end.  Nothing makes a live peer send.                               *)
Fairness ==
    /\ WF_vars(Run)
    /\ WF_vars(WriteCompletes)
    /\ WF_vars(peerGone /\ (HandshakeCompletes \/ ReadFails))

Spec == Init /\ [][Next]_vars
FairSpec == Spec /\ Fairness

-----------------------------------------------------------------------------
TypeOK ==
    /\ is_auth_server_ \in BOOLEAN
    /\ stream_ \in {"open", "moved"}
    /\ strand \in Seq(Handlers)
    /\ handshake \in BOOLEAN
    /\ reads \in Nat
    /\ writes \in Seq(Response)
    /\ req_ \in Request \cup {NoRequest}
    /\ peerGone \in BOOLEAN
    /\ malformed \in BOOLEAN
    /\ asked \in 0 .. MaxRequests
    /\ sent \in Seq(Response)

Bit(b) == IF b THEN 1 ELSE 0
Live == Len(strand) + Bit(handshake) + reads + Len(writes)
Gone == Live = 0

(* A session is a single chain: never two operations on the stream, never   *)
(* two handlers, and nothing at all once the stream has been handed over.   *)
SingleChain == Live <= 1 - Bit(stream_ = "moved")

(* Responses answer the requests one for one and in their order.            *)
RepliesMatch ==
    /\ Len(sent) <= asked /\ asked <= Len(sent) + 1
    /\ \A i \in DOMAIN sent : sent[i].to = i

(* A response that announces the end of the connection is the last thing    *)
(* on it: nothing is read or written after it.                              *)
ClosesWhenTold ==
    \A i \in DOMAIN sent :
       ~sent[i].keep_alive => i = Len(sent) /\ asked = i /\ reads = 0

(* A session ends only because its peer went away, sent what is no request  *)
(* or asked it to end, because the stream was handed over, or because the   *)
(* TLS handshake failed.                                                    *)
EndsForAReason ==
    Gone => \/ peerGone \/ malformed
            \/ stream_ = "moved"
            \/ asked = 0
            \/ sent # <<>> /\ ~sent[Len(sent)].keep_alive

(* While a request is served its own data are in req_, and so its own       *)
(* keep-alive decides (req_.keep_alive() at httpServerSession.cpp:342).     *)
ServesCurrent ==
    \A i \in DOMAIN strand :
       strand[i].op \in {"job", "send"} => req_.num = strand[i].num

(* Every request that was read is answered or was the upgrade.              *)
Answered ==
    \A n \in 1 .. MaxRequests :
       asked = n ~> Len(sent) >= n \/ stream_ = "moved"

(* The session of a dead connection goes away.                              *)
Released == peerGone ~> Gone

=============================================================================
