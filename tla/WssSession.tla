------------------------------ MODULE WssSession ------------------------------
(***************************************************************************)
(* One WebSocket session of the picture server: the chain of handlers that *)
(* reads a request, runs its job, sends the reply and reads again          *)
(* (src/src/wssSession.hpp, src/src/wssSession.cpp).                       *)
(*                                                                         *)
(* Every handler of a session runs on the strand of its socket             *)
(* (main.cpp:65, ws_.get_executor()), the blocking storage jobs included:  *)
(* `strand' is the FIFO of handlers that are waiting for it, and each      *)
(* action Run... is the whole execution of the handler at its head.  The   *)
(* other actions are what the kernel and the peer do, which only queue a   *)
(* completion on the strand.                                               *)
(*                                                                         *)
(* There is no session table: a session lives as long as a pending         *)
(* operation or a queued handler holds a shared_ptr to it, and its         *)
(* destructor is the only thing that closes the socket.                    *)
(*                                                                         *)
(* boost::beast wants at most one async_read and one async_write at a      *)
(* time.  In the release build (dockerfile:39) a second one is parked      *)
(* inside the stream.  A parked write starts when the reader has answered  *)
(* a control frame; a parked read, or a parked write that another one      *)
(* displaces, never runs again and never lets go of the session.           *)
(***************************************************************************)
EXTENDS Naturals, Sequences

CONSTANTS
    Requests,      \* the kinds of frame the peer sends in this instance
    MaxRequests    \* bound on the frames the peer sends

(* The frames the code tells apart: a text frame, a frame that does not     *)
(* parse, an envelope of another type, and one kind per branch of           *)
(* dispatch_protobuf_message ("other" is its final else).                   *)
RequestKinds ==
    {"text", "garbage", "wrongType", "buckets", "addFile", "list",
     "deleteFile", "filesIds", "pathInf", "rewrite", "filePath", "other"}

ASSUME RequestsAssumption == Requests \subseteq RequestKinds
ASSUME BoundAssumption == MaxRequests \in Nat

VARIABLES
    strand,        \* handlers waiting for the socket's strand, oldest first
    handshake,     \* the WebSocket handshake: "pending" or "done"
    reader,        \* the async_read: "none", "busy", or "done" when its
                   \* completion is queued on the strand
    buffer_,       \* what it has received: "empty", "partial", "whole", or
                   \* "torn" when a part has been cleared away
    writer,        \* the async_write: "none", "busy", or "done"
    outgoing,      \* the reply that write sends
    parkedWrite,   \* the write parked behind it
    leaked,        \* operations that can never complete
    peerGone,      \* the kernel reports the connection as closed
    received,      \* requests read so far
    sent,          \* history: replies written to the socket, in order
    forks          \* history: times one handler started two chains

vars == <<strand, handshake, reader, buffer_, writer, outgoing, parkedWrite,
          leaked, peerGone, received, sent, forks>>

-----------------------------------------------------------------------------
(* A handler queued on the strand: which one, its argument, and the number *)
(* of the request it belongs to (0 for none).                              *)
ReplyTags == {"answer", "failure", "notExist", "folder", "listing",
              "uploadResult", "wrongType", "unhandled"}

Handler(op, arg, n) == [op |-> op, arg |-> arg, req |-> n]

Reply(tag, n) == [tag |-> tag, req |-> n]
Replies == [tag : ReplyTags, req : Nat]
NoReply == [tag |-> "none", req |-> 0]

(* What the job of each request may do last: post one reply, post the       *)
(* folder reply that also starts a listing, or nothing when it has returned *)
(* early or caught an exception ("silent").                                 *)
handle_user_bucket       == {"answer", "failure"}
handle_add_file          == {"uploadResult", "silent"}
handle_list_request      == {"listing", "silent"}
handle_delete_file       == {"answer", "silent"}
handle_files_ids_request == {"answer", "silent"}
handle_file_path         == {"answer", "folder", "silent"}
handle_path_inf_request  == {"answer", "notExist", "folder", "silent"}
handle_rewrite_file      == {"answer", "failure"}

JobEnds ==
    [buckets    |-> handle_user_bucket,
     addFile    |-> handle_add_file,
     list       |-> handle_list_request,
     deleteFile |-> handle_delete_file,
     filesIds   |-> handle_files_ids_request,
     filePath   |-> handle_file_path,
     pathInf    |-> handle_path_inf_request,
     rewrite    |-> handle_rewrite_file]

JobKinds == DOMAIN JobEnds

Handlers ==
    [op : {"on_accept", "on_write"}, arg : {"ok", "error"}, req : Nat]
    \cup [op : {"on_read"}, arg : RequestKinds \cup {"error"}, req : Nat]
    \cup [op : {"job"}, arg : JobKinds, req : Nat]
    \cup [op : {"send", "send_folder"}, arg : ReplyTags, req : Nat]

-----------------------------------------------------------------------------
Init ==
    /\ strand = <<>>
    /\ handshake = "pending"
    /\ reader = "none"
    /\ buffer_ = "empty"
    /\ writer = "none"
    /\ outgoing = NoReply
    /\ parkedWrite = NoReply
    /\ leaked = 0
    /\ peerGone = FALSE
    /\ received = 0
    /\ sent = <<>>
    /\ forks = 0

(* The handler at the head of the strand is the one that runs.              *)
Running(op) == strand # <<>> /\ Head(strand).op = op
Current == Head(strand)

(* It leaves the strand and posts the handlers hs behind the waiting ones.  *)
Finish(hs) == strand' = Tail(strand) \o hs

(* do_read: clear buffer_ and start an async_read.  If one is pending the   *)
(* new one is parked for ever, and the pending one loses whatever part of   *)
(* its message buffer_ already held.                                        *)
do_read ==
    \/ /\ reader = "none"
       /\ reader' = "busy"
       /\ buffer_' = "empty"
       /\ UNCHANGED leaked
    \/ /\ reader # "none"
       /\ buffer_' = IF buffer_ = "empty" THEN "empty" ELSE "torn"
       /\ leaked' = leaked + 1
       /\ UNCHANGED reader

(* send_envelope: start an async_write, or park it behind the pending one.  *)
(* A reply of no bounded length may be too long for SerializeToString: then *)
(* it is not sent, and nothing is in its place.                             *)
send_envelope(tag, n) ==
    \/ /\ writer = "none"
       /\ writer' = "busy"
       /\ outgoing' = Reply(tag, n)
       /\ UNCHANGED <<parkedWrite, leaked>>
    \/ /\ writer # "none"
       /\ parkedWrite' = Reply(tag, n)
       /\ leaked' = IF parkedWrite = NoReply THEN leaked ELSE leaked + 1
       /\ UNCHANGED <<writer, outgoing>>
    \/ /\ tag \in {"answer", "listing"}
       /\ UNCHANGED <<writer, outgoing, parkedWrite, leaked>>

writeVars == <<writer, outgoing, parkedWrite>>
readVars  == <<reader, buffer_>>
peerVars  == <<peerGone, received>>

-----------------------------------------------------------------------------
(* Completions: the kernel or the peer queues a handler on the strand.      *)

AcceptCompletes ==
    /\ handshake = "pending"
    /\ handshake' = "done"
    /\ \E outcome \in {"ok", "error"} :
          /\ peerGone => outcome = "error"
          /\ strand' = Append(strand, Handler("on_accept", outcome, 0))
    /\ UNCHANGED <<readVars, writeVars, leaked, peerVars, sent, forks>>

(* Part of a message has been received.                                     *)
ChunkArrives ==
    /\ reader = "busy" /\ buffer_ = "empty"
    /\ ~peerGone /\ received < MaxRequests
    /\ buffer_' = "partial"
    /\ UNCHANGED <<strand, handshake, reader, writeVars, leaked, peerVars, sent,
                   forks>>

MessageArrives ==
    /\ reader = "busy"
    /\ ~peerGone /\ received < MaxRequests
    /\ reader' = "done"
    /\ buffer_' = IF buffer_ = "torn" THEN "torn" ELSE "whole"
    /\ received' = received + 1
    /\ \E kind \in Requests :
          strand' = Append(strand, Handler("on_read", kind, received + 1))
    /\ UNCHANGED <<handshake, writeVars, leaked, peerGone, sent, forks>>

ReadFails ==
    /\ reader = "busy" /\ peerGone
    /\ reader' = "done"
    /\ strand' = Append(strand, Handler("on_read", "error", received))
    /\ UNCHANGED <<handshake, buffer_, writeVars, leaked, peerVars, sent, forks>>

WriteCompletes ==
    /\ writer = "busy"
    /\ writer' = "done"
    /\ sent' = Append(sent, outgoing)
    /\ strand' = Append(strand, Handler("on_write", "ok", outgoing.req))
    /\ UNCHANGED <<handshake, readVars, outgoing, parkedWrite, leaked, peerVars,
                   forks>>

WriteFails ==
    /\ writer = "busy" /\ peerGone
    /\ writer' = "done"
    /\ strand' = Append(strand, Handler("on_write", "error", outgoing.req))
    /\ UNCHANGED <<handshake, readVars, outgoing, parkedWrite, leaked, peerVars,
                   sent, forks>>

(* The pending read answers a ping or a close frame; releasing the write    *)
(* lock it lets the parked write start.                                     *)
ControlFrameAnswered ==
    /\ reader = "busy"
    /\ writer = "none" /\ parkedWrite # NoReply
    /\ writer' = "busy"
    /\ outgoing' = parkedWrite
    /\ parkedWrite' = NoReply
    /\ UNCHANGED <<strand, handshake, readVars, leaked, peerVars, sent, forks>>

PeerCloses ==
    /\ ~peerGone
    /\ peerGone' = TRUE
    /\ UNCHANGED <<strand, handshake, readVars, writeVars, leaked, received,
                   sent, forks>>

-----------------------------------------------------------------------------
(* Handlers: each runs to its end before the strand runs the next one.      *)

RunOnAccept ==
    /\ Running("on_accept")
    /\ Finish(<<>>)
    /\ \/ Current.arg = "ok" /\ do_read
       \/ Current.arg = "error" /\ UNCHANGED <<readVars, leaked>>
    /\ UNCHANGED <<handshake, writeVars, peerVars, sent, forks>>

(* What on_read finds in buffer_: the message, or, when another do_read has *)
(* cleared buffer_ under it, what the rest of the bytes happens to parse as *)
FramesRead(kind) ==
    IF buffer_ = "torn" /\ kind \notin {"error", "text"}
    THEN RequestKinds \ {"text"}
    ELSE {kind}

(* dispatch_protobuf_message: a request with a job posts it to the strand,  *)
(* any other is refused at once; a buckets request is both, since the       *)
(* if/else chain that starts at addFile does not know it.                   *)
dispatch_protobuf_message(kind, n) ==
    \/ /\ kind \in JobKinds \ {"buckets"}
       /\ Finish(<<Handler("job", kind, n)>>)
       /\ UNCHANGED <<writeVars, leaked, forks>>
    \/ /\ kind = "buckets"
       /\ Finish(<<Handler("job", kind, n)>>)
       /\ send_envelope("unhandled", n)
       /\ forks' = forks + 1
    \/ /\ kind \in {"wrongType", "other"}
       /\ Finish(<<>>)
       /\ send_envelope(IF kind = "other" THEN "unhandled" ELSE "wrongType", n)
       /\ UNCHANGED forks

(* Deviation for a mutant: what is not dispatched is followed by a do_read. *)
RunOnRead_KeepsReading ==
    /\ Running("on_read")
    /\ \E kind \in FramesRead(Current.arg) :
          IF kind \in {"error", "text", "garbage"}
          THEN /\ Finish(<<>>)
               /\ reader' = "busy"
               /\ UNCHANGED <<writeVars, leaked, forks>>
          ELSE /\ reader' = "none"
               /\ dispatch_protobuf_message(kind, Current.req)
    /\ UNCHANGED <<handshake, buffer_, peerVars, sent>>

RunOnRead ==
    /\ Running("on_read")
    /\ reader' = "none"
    /\ \E kind \in FramesRead(Current.arg) :
          IF kind \in {"error", "text", "garbage"}
          THEN Finish(<<>>) /\ UNCHANGED <<writeVars, leaked, forks>>
          ELSE dispatch_protobuf_message(kind, Current.req)
    /\ UNCHANGED <<handshake, buffer_, peerVars, sent>>

(* Deviation for a mutant: the error path falls through to the reply.       *)
RunJob_RepliesTwice ==
    /\ Running("job")
    /\ \E end \in JobEnds[Current.arg] \ {"silent", "folder"} :
          Finish(<<Handler("send", "failure", Current.req),
                   Handler("send", end, Current.req)>>)
    /\ UNCHANGED <<handshake, readVars, writeVars, leaked, peerVars, sent, forks>>

(* Deviation for a mutant: a job without a result posts the missing reply.  *)
RunJob_PostsNothing ==
    /\ Running("job")
    /\ \E end \in JobEnds[Current.arg] :
          Finish(<<Handler("send", end, Current.req)>>)
    /\ UNCHANGED <<handshake, readVars, writeVars, leaked, peerVars, sent, forks>>

(* The blocking storage job of a request.                                   *)
RunJob ==
    /\ Running("job")
    /\ \E end \in JobEnds[Current.arg] :
          Finish(CASE end = "silent" -> <<>>
                   [] end = "folder" -> <<Handler("send_folder", end, Current.req)>>
                   [] OTHER          -> <<Handler("send", end, Current.req)>>)
    /\ UNCHANGED <<handshake, readVars, writeVars, leaked, peerVars, sent, forks>>

(* Deviation for a mutant: read on at once, not when the write is done.     *)
RunSend_ReadsOn ==
    /\ Running("send")
    /\ Finish(<<>>)
    /\ writer' = "busy"
    /\ outgoing' = Reply(Current.arg, Current.req)
    /\ do_read
    /\ UNCHANGED <<handshake, parkedWrite, peerVars, sent, forks>>

RunSend ==
    /\ Running("send")
    /\ Finish(<<>>)
    /\ send_envelope(Current.arg, Current.req)
    /\ UNCHANGED <<handshake, readVars, peerVars, sent, forks>>

(* The folder reply calls handle_list_request first, whose job will send a  *)
(* reply of its own.                                                        *)
RunSendFolder ==
    /\ Running("send_folder")
    /\ Finish(<<Handler("job", "list", Current.req)>>)
    /\ send_envelope("folder", Current.req)
    /\ forks' = forks + 1
    /\ UNCHANGED <<handshake, readVars, peerVars, sent>>

RunOnWrite ==
    /\ Running("on_write")
    /\ Finish(<<>>)
    /\ writer' = "none"
    /\ outgoing' = NoReply
    /\ \/ Current.arg = "ok" /\ do_read
       \/ Current.arg = "error" /\ UNCHANGED <<readVars, leaked>>
    /\ UNCHANGED <<handshake, parkedWrite, peerVars, sent, forks>>

-----------------------------------------------------------------------------
RunHandler ==
    \/ RunOnAccept \/ RunOnRead \/ RunJob \/ RunSend \/ RunSendFolder
    \/ RunOnWrite

Next ==
    \/ AcceptCompletes \/ ChunkArrives \/ MessageArrives \/ ReadFails
    \/ WriteCompletes \/ WriteFails \/ ControlFrameAnswered \/ PeerCloses
    \/ RunHandler

Spec == Init /\ [][Next]_vars

(* The io_context runs every queued handler, and no storage call blocks for *)
(* ever.  A started write ends: the peer reads what it is sent or its       *)
(* connection fails.  Nothing else is expected of the peer.                 *)
Fairness ==
    /\ WF_vars(RunHandler)
    /\ WF_vars(AcceptCompletes)
    /\ WF_vars(ReadFails)
    /\ WF_vars(WriteCompletes \/ WriteFails)

FairSpec == Spec /\ Fairness

-----------------------------------------------------------------------------
TypeOK ==
    /\ strand \in Seq(Handlers)
    /\ handshake \in {"pending", "done"}
    /\ reader \in {"none", "busy", "done"}
    /\ buffer_ \in {"empty", "partial", "whole", "torn"}
    /\ writer \in {"none", "busy", "done"}
    /\ outgoing \in IF writer = "none" THEN {NoReply} ELSE Replies
    /\ parkedWrite \in Replies \cup {NoReply}
    /\ leaked \in Nat
    /\ peerGone \in BOOLEAN
    /\ received \in 0 .. MaxRequests
    /\ sent \in Seq(Replies)
    /\ forks \in Nat

(* Everything that holds a shared_ptr to the session: the operations and    *)
(* handlers that will still run, and those that never will.                 *)
Count(holds) == IF holds THEN 1 ELSE 0
Live == Count(handshake = "pending") + Len(strand) + Count(reader = "busy")
        + Count(writer = "busy")
Dead == Count(parkedWrite # NoReply) + leaked
Destroyed == Live + Dead = 0

(* A completed operation still has its handler in the queue.                *)
Queued(op) == \E i \in DOMAIN strand : strand[i].op = op
CompletionsQueued ==
    /\ reader = "done" => Queued("on_read")
    /\ writer = "done" => Queued("on_write")

(* No step starts more chains of handlers than it counts: what holds the    *)
(* session is at most one chain plus one for every fork.                    *)
ContinuationsBounded == Live + Dead <= 1 + forks

(* An operation is lost only where two chains met on one stream, so never   *)
(* more than the forks, and none in a session that has had none.            *)
LossesBounded == Dead <= forks

(* Read, job, reply, read: as long as nothing has forked, one operation or  *)
(* handler at a time holds the session, so reads and writes never overlap,  *)
(* none is lost and every message is read whole.                            *)
OneOperation == forks = 0 => Live <= 1 /\ Dead = 0 /\ buffer_ # "torn"

(* The inductive invariant behind these bounds.                             *)
ChainsInv == CompletionsQueued /\ ContinuationsBounded /\ LossesBounded

(* Until something forks the replies come in the order of their requests,   *)
(* one each.                                                                *)
RepliesInOrder ==
    forks = 0 => \A i, j \in DOMAIN sent : i < j => sent[i].req < sent[j].req

(* Every request read is replied to, or the session goes away and with it   *)
(* the socket: until something forks the peer is never left waiting on an   *)
(* open connection.                                                         *)
Answered(n) == \E i \in DOMAIN sent : sent[i].req = n
AnsweredOrClosed ==
    \A n \in 1 .. MaxRequests :
       (received >= n) ~> (Answered(n) \/ Destroyed \/ forks > 0)

(* A connection that is gone takes its session with it, unless an operation *)
(* was lost, which holds it for ever.                                       *)
SessionReleased == peerGone ~> (Destroyed \/ Dead > 0)

-----------------------------------------------------------------------------
(* What the comments of the code claim.                                     *)

(* wssSession.cpp:766, "for safe sending": back on the thread of the socket *)
(* a reply can be written, no other write being pending.                    *)
WritesDoNotOverlap == parkedWrite = NoReply

=============================================================================
