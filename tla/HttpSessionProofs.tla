--------------------------- MODULE HttpSessionProofs ---------------------------
(***************************************************************************)
(* Proofs about HttpSession, for every number of requests: a session is    *)
(* always at one place of its loop, and what that place implies about the  *)
(* requests and responses so far.                                          *)
(***************************************************************************)
EXTENDS HttpSession, SequenceTheorems, TLAPS

-----------------------------------------------------------------------------
(* The places of the loop.                                                  *)

Quiet == ~handshake /\ reads = 0 /\ writes = <<>>

(* The responses but the last have promised to go on.                       *)
SentOK ==
    /\ sent \in Seq(Response)
    /\ \A i \in 1 .. Len(sent) :
          sent[i].to = i /\ (i < Len(sent) => sent[i].keep_alive)

GoesOn == \A i \in 1 .. Len(sent) : sent[i].keep_alive

Ended == peerGone \/ malformed

Serving(num) ==
    /\ num = asked /\ asked = Len(sent) + 1
    /\ req_ \in Request /\ req_.num = asked
    /\ GoesOn

Handshaking ==
    /\ handshake /\ reads = 0 /\ writes = <<>> /\ strand = <<>>
    /\ stream_ = "open" /\ asked = 0 /\ sent = <<>>

Reading ==
    /\ ~handshake /\ reads = 1 /\ writes = <<>> /\ strand = <<>>
    /\ stream_ = "open" /\ asked = Len(sent) /\ GoesOn

Writing ==
    /\ ~handshake /\ reads = 0 /\ strand = <<>> /\ stream_ = "open"
    /\ asked = Len(sent) /\ sent # <<>>
    /\ writes = <<sent[Len(sent)]>>

HandlerOK(h) ==
    /\ h \in Handlers
    /\ h.op = "on_handshake" => asked = 0 /\ sent = <<>>
    /\ h.op = "on_read" /\ h.ok => Serving(asked)
    /\ h.op = "on_read" /\ ~h.ok => asked = Len(sent) /\ GoesOn /\ Ended
    /\ h.op \in {"job", "send"} => Serving(h.num)
    /\ h.op = "on_write" =>
          /\ asked = Len(sent) /\ sent # <<>>
          /\ h.keep_alive = sent[Len(sent)].keep_alive
          /\ h.ok \/ peerGone

Handling ==
    /\ Quiet /\ stream_ = "open"
    /\ \E h \in Handlers : strand = <<h>> /\ HandlerOK(h)

Over ==
    /\ Quiet /\ strand = <<>>
    /\ \/ stream_ = "moved" /\ asked = Len(sent) + 1 /\ GoesOn
       \/ /\ stream_ = "open" /\ asked = Len(sent)
          /\ \/ Ended \/ asked = 0
             \/ sent # <<>> /\ ~sent[Len(sent)].keep_alive

Placed == Handshaking \/ Reading \/ Writing \/ Handling \/ Over

Values ==
    /\ is_auth_server_ \in BOOLEAN
    /\ handshake \in BOOLEAN
    /\ req_ \in Request \cup {NoRequest}
    /\ peerGone \in BOOLEAN
    /\ malformed \in BOOLEAN
    /\ asked \in 0 .. MaxRequests

LoopInv == Values /\ SentOK /\ Placed

-----------------------------------------------------------------------------
(* Sequences of one element.                                                *)

LEMMA Single ==
    ASSUME NEW x
    PROVE  /\ Len(<<x>>) = 1 /\ Head(<<x>>) = x /\ Tail(<<x>>) = <<>>
           /\ <<x>>[1] = x /\ <<x>> # <<>> /\ Append(<<>>, x) = <<x>>
           /\ DOMAIN <<x>> = 1 .. 1
  OBVIOUS

LEMMA NoneLeft == Len(<<>>) = 0 /\ DOMAIN <<>> = 1 .. 0
  OBVIOUS

(* Every response but the last promised to go on, so that GoesOn says it of *)
(* the last.                                                                *)
LEMMA LastGoesOn ==
    ASSUME SentOK, sent = <<>> \/ sent[Len(sent)].keep_alive
    PROVE  GoesOn
  <1>1. Len(sent) \in Nat /\ (sent = <<>> => Len(sent) = 0)
    BY LenProperties DEF SentOK
  <1> QED BY <1>1 DEF SentOK, GoesOn

LEMMA SentLength == SentOK => Len(sent) \in Nat /\ (sent # <<>> => Len(sent) > 0)
                                /\ (sent = <<>> => Len(sent) = 0)
                                /\ DOMAIN sent = 1 .. Len(sent)
  BY LenProperties, EmptySeq DEF SentOK

(* A response is appended behind responses that promised to go on.          *)
LEMMA AppendSent ==
    ASSUME SentOK, GoesOn, NEW r \in Response, r.to = Len(sent) + 1,
           sent' = Append(sent, r)
    PROVE  /\ SentOK' /\ Len(sent') = Len(sent) + 1
           /\ sent'[Len(sent')] = r /\ sent' # <<>>
  <1>1. Len(sent) \in Nat BY SentLength
  <1>2. /\ sent' \in Seq(Response) /\ Len(sent') = Len(sent) + 1
        /\ \A i \in 1 .. Len(sent) : sent'[i] = sent[i]
        /\ sent'[Len(sent) + 1] = r
    BY AppendProperties DEF SentOK
  <1>3. sent' # <<>> BY <1>1, <1>2, NoneLeft
  <1>4. ASSUME NEW i \in 1 .. Len(sent')
        PROVE  sent'[i].to = i /\ (i < Len(sent') => sent'[i].keep_alive)
    <2>1. CASE i = Len(sent) + 1 BY <2>1, <1>1, <1>2
    <2>2. CASE i # Len(sent) + 1
      <3>1. i \in 1 .. Len(sent) BY <2>2, <1>1, <1>2
      <3> QED BY <3>1, <1>2 DEF SentOK, GoesOn
    <2> QED BY <2>1, <2>2
  <1> QED BY <1>2, <1>3, <1>4 DEF SentOK

-----------------------------------------------------------------------------
LEMMA InitHolds == Init => LoopInv
  <1> SUFFICES ASSUME Init PROVE LoopInv OBVIOUS
  <1>a. is_auth_server_ \in BOOLEAN /\ peerGone = FALSE /\ malformed = FALSE
    BY DEF Init
  <1>b. handshake = ~is_auth_server_ BY DEF Init
  <1>c. asked \in 0 .. MaxRequests BY BoundAssumption DEF Init
  <1>1. Values BY <1>a, <1>b, <1>c DEF Init, Values
  <1>2. SentOK BY NoneLeft DEF Init, SentOK
  <1>3. CASE is_auth_server_
    <2>1. ~handshake BY <1>3, <1>b
    <2>2. reads = 1 BY <1>3 DEF Init
    <2>3. Reading BY <2>1, <2>2, NoneLeft DEF Init, Reading, GoesOn
    <2> QED BY <2>3, <1>1, <1>2 DEF LoopInv, Placed
  <1>4. CASE ~is_auth_server_
    <2>1. handshake BY <1>4, <1>b
    <2>2. reads = 0 BY <1>4 DEF Init
    <2>3. Handshaking BY <2>1, <2>2 DEF Init, Handshaking
    <2> QED BY <2>3, <1>1, <1>2 DEF LoopInv, Placed
  <1> QED BY <1>3, <1>4

(* Completions leave from the place they belong to and queue one handler.   *)

LEMMA HandshakeStep == ASSUME LoopInv, HandshakeCompletes PROVE LoopInv'
  <1>1. Handshaking
    BY DEF LoopInv, Placed, Reading, Writing, Handling, Over, Quiet, HandshakeCompletes
  <1>2. PICK ok \in BOOLEAN : Queue(Completion("on_handshake", ok, TRUE))
    BY DEF HandshakeCompletes
  <1> DEFINE h == Completion("on_handshake", ok, TRUE)
  <1>3. h \in Handlers /\ h.op = "on_handshake" BY DEF Handlers, Completion
  <1>4. strand' = <<h>> BY <1>1, <1>2, Single DEF Handshaking, Queue
  <1> HIDE DEF h
  <1>5. HandlerOK(h)' BY <1>1, <1>3 DEF HandlerOK, Handshaking, HandshakeCompletes
  <1>6. Handling'
    BY <1>1, <1>3, <1>4, <1>5 DEF Handling, Quiet, Handshaking, HandshakeCompletes
  <1> QED BY <1>6 DEF LoopInv, Placed, Values, SentOK, HandshakeCompletes

LEMMA ReadStep == ASSUME LoopInv, ReadCompletes PROVE LoopInv'
  <1>1. Reading
    BY DEF LoopInv, Placed, Handshaking, Writing, Handling, Over, Quiet, ReadCompletes
  <1>2. PICK kind \in PortKinds, keep \in BOOLEAN :
           req_' = [num |-> asked + 1, kind |-> kind, keep_alive |-> keep]
    BY DEF ReadCompletes
  <1>3. asked \in 0 .. MaxRequests /\ asked' = asked + 1 /\ asked' \in 0 .. MaxRequests
    BY BoundAssumption DEF LoopInv, Values, ReadCompletes, BoundAssumption
  <1>4. req_' \in Request /\ req_'.num = asked'
    BY <1>2, <1>3 DEF Request, PortKinds, Kinds, AuthKinds, WssKinds
  <1> DEFINE h == Completion("on_read", TRUE, TRUE)
  <1>5. h \in Handlers /\ h.op = "on_read" /\ h.ok BY DEF Handlers, Completion
  <1>6. strand' = <<h>> BY <1>1, Single DEF Reading, Queue, ReadCompletes
  <1> HIDE DEF h
  <1>7. SentOK' /\ GoesOn' /\ sent' = sent
    BY <1>1 DEF Reading, LoopInv, SentOK, GoesOn, ReadCompletes
  <1>8. HandlerOK(h)'
    BY <1>1, <1>3, <1>4, <1>5, <1>7 DEF HandlerOK, Reading, Serving
  <1>9. Handling'
    BY <1>1, <1>5, <1>6, <1>8 DEF Handling, Quiet, Reading, ReadCompletes
  <1> QED BY <1>3, <1>4, <1>7, <1>9 DEF LoopInv, Placed, Values, ReadCompletes

LEMMA ReadFailStep == ASSUME LoopInv, ReadFails PROVE LoopInv'
  <1>1. Reading
    BY DEF LoopInv, Placed, Handshaking, Writing, Handling, Over, Quiet, ReadFails
  <1>2. Values' /\ Ended' BY DEF LoopInv, Values, ReadFails, Ended
  <1> DEFINE h == Completion("on_read", FALSE, TRUE)
  <1>5. h \in Handlers /\ h.op = "on_read" /\ h.ok = FALSE BY DEF Handlers, Completion
  <1>6. strand' = <<h>> BY <1>1, Single DEF Reading, Queue, ReadFails
  <1> HIDE DEF h
  <1>7. SentOK' /\ GoesOn' /\ sent' = sent
    BY <1>1 DEF Reading, LoopInv, SentOK, GoesOn, ReadFails
  <1>8. HandlerOK(h)'
    BY <1>1, <1>2, <1>5, <1>7 DEF HandlerOK, Reading, ReadFails
  <1>9. Handling'
    BY <1>1, <1>5, <1>6, <1>8 DEF Handling, Quiet, Reading, ReadFails
  <1> QED BY <1>2, <1>7, <1>9 DEF LoopInv, Placed

LEMMA WriteStep == ASSUME LoopInv, WriteCompletes PROVE LoopInv'
  <1>1. Writing
    BY DEF LoopInv, Placed, Handshaking, Reading, Handling, Over, Quiet, WriteCompletes
  <1>2. PICK ok \in {TRUE, ~peerGone} :
           Queue(Completion("on_write", ok, Head(writes).keep_alive))
    BY DEF WriteCompletes
  <1>3. Len(sent) \in Nat /\ Len(sent) > 0 BY <1>1, SentLength DEF LoopInv, Writing
  <1>4. sent[Len(sent)] \in Response
    BY <1>3, ElementOfSeq DEF LoopInv, SentOK
  <1>5. Head(writes) = sent[Len(sent)] /\ writes' = <<>>
    BY <1>1, Single DEF Writing, WriteCompletes
  <1>h. PICK h : h = Completion("on_write", ok, Head(writes).keep_alive)
    OBVIOUS
  <1>6. /\ h \in Handlers /\ h.op = "on_write"
        /\ h.keep_alive = sent[Len(sent)].keep_alive /\ (h.ok \/ peerGone)
    <2>1. ok \in BOOLEAN /\ (ok \/ peerGone) BY <1>2 DEF LoopInv, Values
    <2>2. Head(writes).keep_alive \in BOOLEAN BY <1>4, <1>5 DEF Response
    <2> QED BY <2>1, <2>2, <1>h, <1>5 DEF Handlers, Completion
  <1>7. strand' = <<h>> BY <1>h, <1>1, <1>2, Single DEF Writing, Queue
  <1>8. HandlerOK(h)' BY <1>1, <1>6 DEF HandlerOK, Writing, WriteCompletes
  <1>9. Handling'
    BY <1>1, <1>5, <1>6, <1>7, <1>8 DEF Handling, Quiet, Writing, WriteCompletes
  <1> QED BY <1>9 DEF LoopInv, Placed, Values, SentOK, WriteCompletes

LEMMA PeerStep == ASSUME LoopInv, PeerCloses PROVE LoopInv'
  <1>1. Values' /\ SentOK' BY DEF LoopInv, Values, SentOK, PeerCloses
  <1>2. ASSUME NEW h, HandlerOK(h) PROVE HandlerOK(h)'
    BY <1>2 DEF HandlerOK, Serving, GoesOn, Ended, PeerCloses
  <1>3. Placed'
    <2>1. CASE Handshaking BY <2>1 DEF Placed, Handshaking, PeerCloses
    <2>2. CASE Reading BY <2>2 DEF Placed, Reading, GoesOn, PeerCloses
    <2>3. CASE Writing BY <2>3 DEF Placed, Writing, PeerCloses
    <2>4. CASE Handling BY <2>4, <1>2 DEF Placed, Handling, Quiet, PeerCloses
    <2>5. CASE Over BY <2>5 DEF Placed, Over, Quiet, GoesOn, Ended, PeerCloses
    <2> QED BY <2>1, <2>2, <2>3, <2>4, <2>5 DEF LoopInv, Placed
  <1> QED BY <1>1, <1>3 DEF LoopInv

-----------------------------------------------------------------------------
(* Handlers.                                                                *)

LEMMA Handled ==
    ASSUME LoopInv, NEW op, Running(op)
    PROVE  /\ Quiet /\ stream_ = "open"
           /\ strand = <<Head(strand)>> /\ Tail(strand) = <<>>
           /\ Head(strand).op = op /\ HandlerOK(Head(strand))
  <1>1. Handling
    BY DEF LoopInv, Placed, Handshaking, Reading, Writing, Over, Running
  <1>2. PICK h \in Handlers : strand = <<h>> /\ HandlerOK(h) BY <1>1 DEF Handling
  <1>3. Head(strand) = h /\ Tail(strand) = <<>> BY <1>2, Single
  <1> QED BY <1>1, <1>2, <1>3 DEF Handling, Running

LEMMA OnHandshakeStep == ASSUME LoopInv, RunOnHandshake PROVE LoopInv'
  <1>1. Running("on_handshake") BY DEF RunOnHandshake
  <1>2. /\ Quiet /\ stream_ = "open" /\ strand' = <<>>
        /\ asked = 0 /\ sent = <<>> /\ asked' = asked /\ sent' = sent
        /\ stream_' = stream_ /\ handshake' = handshake /\ writes' = writes
    BY <1>1, Handled DEF HandlerOK, RunOnHandshake, Pop
  <1>3. Values' BY DEF LoopInv, Values, RunOnHandshake, do_read
  <1>4. SentOK' BY <1>2 DEF LoopInv, SentOK
  <1>5. CASE reads' = reads + 1
    <2>1. Reading' BY <1>2, <1>5, NoneLeft DEF Reading, GoesOn, Quiet
    <2> QED BY <2>1, <1>3, <1>4 DEF LoopInv, Placed
  <1>6. CASE reads' = reads
    <2>1. Over' BY <1>2, <1>6, NoneLeft DEF Over, Quiet
    <2> QED BY <2>1, <1>3, <1>4 DEF LoopInv, Placed
  <1> QED BY <1>5, <1>6 DEF RunOnHandshake, do_read

(* A response that is started while a request is served.                    *)
LEMMA ResponseStep ==
    ASSUME LoopInv, Quiet, stream_ = "open", Serving(asked), strand' = <<>>,
           NEW status \in Statuses, SendResponse(status, asked),
           UNCHANGED <<is_auth_server_, stream_, handshake, reads, req_, peerGone,
                       malformed, asked>>
    PROVE  LoopInv'
  <1> DEFINE r == [to |-> asked, status |-> status, keep_alive |-> req_.keep_alive]
  <1>1. r \in Response /\ r.to = Len(sent) + 1
    BY DEF Response, Serving, Request, LoopInv, Values
  <1>2. sent' = Append(sent, r) /\ writes' = <<r>>
    BY Single DEF SendResponse, Quiet
  <1> HIDE DEF r
  <1>3. SentOK' /\ Len(sent') = Len(sent) + 1 /\ sent'[Len(sent')] = r /\ sent' # <<>>
    BY <1>1, <1>2, AppendSent DEF LoopInv, Serving
  <1>4. Writing' BY <1>2, <1>3 DEF Writing, Quiet, Serving
  <1>5. Values' BY DEF LoopInv, Values
  <1> QED BY <1>3, <1>4, <1>5 DEF LoopInv, Placed

LEMMA OnReadStep == ASSUME LoopInv, RunOnRead PROVE LoopInv'
  <1>1. Running("on_read") BY DEF RunOnRead
  <1>2. /\ Quiet /\ stream_ = "open" /\ Tail(strand) = <<>>
        /\ Head(strand).op = "on_read" /\ HandlerOK(Head(strand))
    BY <1>1, Handled
  <1>3. UNCHANGED <<is_auth_server_, handshake, reads, peerGone, malformed, asked>>
    BY DEF RunOnRead
  <1>4. CASE ~Head(strand).ok /\ Pop /\ UNCHANGED <<stream_, req_, writes, sent>>
    <2>1. asked = Len(sent) /\ Ended BY <1>2, <1>4 DEF HandlerOK
    <2>2. Over' BY <2>1, <1>2, <1>3, <1>4 DEF Over, Quiet, Pop, Ended
    <2> QED BY <2>2, <1>3, <1>4 DEF LoopInv, Placed, Values, SentOK
  <1>5. ASSUME Head(strand).ok PROVE Serving(asked) BY <1>2, <1>5 DEF HandlerOK
  <1>6. CASE Head(strand).ok /\ Upgrade
    <2>1. Over'
      BY <1>2, <1>3, <1>5, <1>6 DEF Over, Quiet, Pop, Upgrade, Serving, GoesOn
    <2>2. Values' /\ SentOK' BY <1>3, <1>6 DEF LoopInv, Values, SentOK, Upgrade
    <2> QED BY <2>1, <2>2 DEF LoopInv, Placed
  <1>7. CASE Head(strand).ok /\ AnswerAtOnce
    <2>1. PICK status \in Statuses : SendResponse(status, req_.num)
      BY <1>7 DEF AnswerAtOnce, Statuses
    <2>2. SendResponse(status, asked) BY <2>1, <1>5, <1>7 DEF Serving
    <2>3. strand' = <<>> /\ UNCHANGED <<stream_, req_>>
      BY <1>2, <1>7 DEF AnswerAtOnce, Pop
    <2> QED BY <2>2, <2>3, <1>2, <1>3, <1>5, <1>7, ResponseStep
  <1>8. CASE Head(strand).ok /\ handle_rest_api
    <2>h. PICK h : h = [op |-> "job", kind |-> req_.kind, num |-> req_.num]
      OBVIOUS
    <2>1. Serving(asked) BY <1>5, <1>8
    <2>2. h \in Handlers /\ h.op = "job" /\ h.num = asked
      BY <2>h, <2>1, <1>8 DEF Handlers, handle_rest_api, Serving, Request
    <2>3. strand' = <<h>> BY <2>h, <1>2, <1>8, Single DEF handle_rest_api, PopAndPost
    <2>4. UNCHANGED <<stream_, req_, writes, sent>> BY <1>8 DEF handle_rest_api
    <2>5. HandlerOK(h)'
      BY <2>1, <2>2, <2>4, <1>3 DEF HandlerOK, Serving, GoesOn
    <2>6. Handling' BY <2>2, <2>3, <2>4, <2>5, <1>2, <1>3 DEF Handling, Quiet
    <2> QED BY <2>4, <2>6, <1>3 DEF LoopInv, Placed, Values, SentOK
  <1> QED BY <1>4, <1>6, <1>7, <1>8 DEF RunOnRead

LEMMA JobStep == ASSUME LoopInv, RunJob PROVE LoopInv'
  <1>1. Running("job") BY DEF RunJob
  <1>2. /\ Quiet /\ stream_ = "open" /\ Tail(strand) = <<>>
        /\ Head(strand).op = "job" /\ HandlerOK(Head(strand))
    BY <1>1, Handled
  <1>3. Head(strand).kind \in JobKinds /\ Serving(Head(strand).num)
    BY <1>2 DEF HandlerOK, Handlers
  <1>4. PICK status \in JobEnds[Head(strand).kind] :
           PopAndPost([op |-> "send", status |-> status, num |-> Head(strand).num])
    BY DEF RunJob
  <1>5. status \in Statuses BY <1>3, <1>4 DEF JobEnds, JobKinds, Statuses
  <1>6. UNCHANGED <<is_auth_server_, stream_, handshake, reads, writes, req_,
                    peerGone, malformed, asked, sent>>
    BY DEF RunJob
  <1>h. PICK h : h = [op |-> "send", status |-> status, num |-> Head(strand).num]
    OBVIOUS
  <1>7. h \in Handlers /\ h.op = "send" /\ h.num = asked
    BY <1>h, <1>3, <1>5 DEF Handlers, Serving, LoopInv, Values
  <1>8. strand' = <<h>> BY <1>h, <1>2, <1>4, Single DEF PopAndPost
  <1>9. HandlerOK(h)' BY <1>3, <1>6, <1>7 DEF HandlerOK, Serving, GoesOn
  <1>10. Handling' BY <1>2, <1>6, <1>7, <1>8, <1>9 DEF Handling, Quiet
  <1> QED BY <1>6, <1>10 DEF LoopInv, Placed, Values, SentOK

LEMMA SendStep == ASSUME LoopInv, RunSend PROVE LoopInv'
  <1>1. Running("send") BY DEF RunSend
  <1>2. /\ Quiet /\ stream_ = "open" /\ Tail(strand) = <<>>
        /\ Head(strand).op = "send" /\ HandlerOK(Head(strand))
    BY <1>1, Handled
  <1>3. Head(strand).status \in Statuses /\ Serving(Head(strand).num)
    BY <1>2 DEF HandlerOK, Handlers
  <1>4. Serving(asked) /\ SendResponse(Head(strand).status, asked)
    BY <1>3 DEF Serving, RunSend
  <1>5. strand' = <<>> BY <1>2 DEF RunSend, Pop
  <1>6. UNCHANGED <<is_auth_server_, stream_, handshake, reads, req_, peerGone,
                    malformed, asked>>
    BY DEF RunSend
  <1> QED BY <1>2, <1>3, <1>4, <1>5, <1>6, ResponseStep

LEMMA OnWriteStep == ASSUME LoopInv, RunOnWrite PROVE LoopInv'
  <1>1. Running("on_write") BY DEF RunOnWrite
  <1>2. /\ Quiet /\ stream_ = "open" /\ Tail(strand) = <<>>
        /\ Head(strand).op = "on_write" /\ HandlerOK(Head(strand))
    BY <1>1, Handled
  <1>3. /\ asked = Len(sent) /\ sent # <<>>
        /\ Head(strand).keep_alive = sent[Len(sent)].keep_alive
        /\ Head(strand).ok \/ peerGone
    BY <1>2 DEF HandlerOK
  <1>4. /\ UNCHANGED <<is_auth_server_, stream_, handshake, writes, peerGone,
                       malformed, asked, sent>>
        /\ strand' = <<>>
    BY <1>2 DEF RunOnWrite, Pop
  <1>5. SentOK' BY <1>4 DEF LoopInv, SentOK
  <1>6. CASE Head(strand).ok /\ Head(strand).keep_alive
    <2>1. do_read BY <1>6 DEF RunOnWrite
    <2>2. GoesOn BY <1>3, <1>6, LastGoesOn DEF LoopInv
    <2>3. Reading' BY <2>1, <2>2, <1>2, <1>3, <1>4 DEF Reading, do_read, Quiet, GoesOn
    <2>4. Values' BY <2>1, <1>4 DEF LoopInv, Values, do_read
    <2> QED BY <2>3, <2>4, <1>5 DEF LoopInv, Placed
  <1>7. CASE ~(Head(strand).ok /\ Head(strand).keep_alive)
    <2>1. UNCHANGED <<reads, req_>> BY <1>7 DEF RunOnWrite
    <2>2. Ended \/ ~sent[Len(sent)].keep_alive BY <1>3, <1>7 DEF Ended
    <2>3. Over' BY <2>1, <2>2, <1>2, <1>3, <1>4 DEF Over, Quiet, Ended
    <2>4. Values' BY <2>1, <1>4 DEF LoopInv, Values
    <2> QED BY <2>3, <2>4, <1>5 DEF LoopInv, Placed
  <1> QED BY <1>6, <1>7

LEMMA StutterStep == ASSUME LoopInv, UNCHANGED vars PROVE LoopInv'
  <1>1. Values' /\ SentOK' BY DEF LoopInv, Values, SentOK, vars
  <1>2. ASSUME NEW h, HandlerOK(h) PROVE HandlerOK(h)'
    BY <1>2 DEF HandlerOK, Serving, GoesOn, Ended, vars
  <1>3. Placed'
    <2>1. CASE Handshaking BY <2>1 DEF Placed, Handshaking, vars
    <2>2. CASE Reading BY <2>2 DEF Placed, Reading, GoesOn, vars
    <2>3. CASE Writing BY <2>3 DEF Placed, Writing, vars
    <2>4. CASE Handling BY <2>4, <1>2 DEF Placed, Handling, Quiet, vars
    <2>5. CASE Over BY <2>5 DEF Placed, Over, Quiet, GoesOn, Ended, vars
    <2> QED BY <2>1, <2>2, <2>3, <2>4, <2>5 DEF LoopInv, Placed
  <1> QED BY <1>1, <1>3 DEF LoopInv

LEMMA LoopHolds == Spec => []LoopInv
  <1>1. LoopInv /\ [Next]_vars => LoopInv'
    BY HandshakeStep, ReadStep, ReadFailStep, WriteStep, PeerStep, OnHandshakeStep,
       OnReadStep, JobStep, SendStep, OnWriteStep, StutterStep
       DEF Next, Run
  <1> QED BY <1>1, InitHolds, PTL DEF Spec

-----------------------------------------------------------------------------
(* What the place of a session implies.                                     *)

(* The types of the variables of a session, for every number of requests:   *)
(* the queue holds handlers, the writes responses.                          *)
THEOREM TypeCorrect == Spec => []TypeOK
  <1>1. ASSUME LoopInv PROVE TypeOK
    <2>1. Len(sent) \in Nat /\ (sent # <<>> => Len(sent) > 0)
      BY <1>1, SentLength DEF LoopInv
    <2>2. sent # <<>> => sent[Len(sent)] \in Response
      BY <1>1, <2>1, ElementOfSeq DEF LoopInv, SentOK
    <2>3. <<>> \in Seq(Handlers) /\ <<>> \in Seq(Response) OBVIOUS
    <2>4. \A h \in Handlers : <<h>> \in Seq(Handlers) OBVIOUS
    <2>5. \A r \in Response : <<r>> \in Seq(Response) OBVIOUS
    <2>6. strand \in Seq(Handlers)
      BY <1>1, <2>3, <2>4
         DEF LoopInv, Placed, Handshaking, Reading, Writing, Handling, Over
    <2>7. writes \in Seq(Response)
      BY <1>1, <2>2, <2>3, <2>5
         DEF LoopInv, Placed, Handshaking, Reading, Writing, Handling, Over, Quiet
    <2>8. reads \in Nat /\ stream_ \in {"open", "moved"}
      BY <1>1
         DEF LoopInv, Placed, Handshaking, Reading, Writing, Handling, Over, Quiet
    <2> QED BY <1>1, <2>6, <2>7, <2>8 DEF TypeOK, LoopInv, Values, SentOK
  <1> QED BY <1>1, LoopHolds, PTL

(* One operation or handler at a time, and none after the upgrade: on_read, *)
(* the jobs, the sends and the completions of the writes hand the session   *)
(* on to one successor each.                                                *)
THEOREM OneChain == Spec => []SingleChain
  <1>1. ASSUME LoopInv PROVE SingleChain
    <2>1. \A x : Len(<<x>>) = 1 BY Single
    <2>2. handshake \in BOOLEAN BY <1>1 DEF LoopInv, Values
    <2>3. CASE Handshaking
      BY <2>3, <2>2, NoneLeft DEF Handshaking, SingleChain, Live, Bit
    <2>4. CASE Reading BY <2>4, <2>2, NoneLeft DEF Reading, SingleChain, Live, Bit
    <2>5. CASE Writing BY <2>5, <2>1, <2>2, NoneLeft DEF Writing, SingleChain, Live, Bit
    <2>6. CASE Handling
      BY <2>6, <2>1, <2>2, NoneLeft DEF Handling, Quiet, SingleChain, Live, Bit
    <2>7. CASE Over
      BY <2>7, <2>1, <2>2, NoneLeft DEF Over, Quiet, SingleChain, Live, Bit
    <2> QED BY <1>1, <2>3, <2>4, <2>5, <2>6, <2>7 DEF LoopInv, Placed
  <1> QED BY <1>1, LoopHolds, PTL

LEMMA AskedAndSent ==
    ASSUME LoopInv
    PROVE  asked = Len(sent) \/ asked = Len(sent) + 1
  BY SentLength DEF LoopInv, Placed, Handshaking, Reading, Writing, Handling, Over,
                    HandlerOK, Serving, Handlers

(* Responses answer the requests one for one and in order.                  *)
THEOREM RepliesOneForOne == Spec => []RepliesMatch
  <1>1. ASSUME LoopInv PROVE RepliesMatch
    BY <1>1, AskedAndSent, SentLength DEF LoopInv, SentOK, RepliesMatch, Values
  <1> QED BY <1>1, LoopHolds, PTL

(* Nothing is read or written after a response that announced the end of    *)
(* the connection (res->keep_alive() in the completions of the writes).     *)
THEOREM LastWord == Spec => []ClosesWhenTold
  <1>1. ASSUME LoopInv, NEW i \in DOMAIN sent, ~sent[i].keep_alive
        PROVE  i = Len(sent) /\ asked = i /\ reads = 0
    <2>1. i \in 1 .. Len(sent) /\ Len(sent) \in Nat BY <1>1, SentLength DEF LoopInv
    <2>2. i = Len(sent) BY <1>1, <2>1 DEF LoopInv, SentOK
    <2>3. ~GoesOn BY <1>1, <2>1 DEF GoesOn
    <2>4. sent # <<>> BY <1>1, <2>1, NoneLeft
    <2>5. asked = Len(sent) /\ reads = 0
      BY <1>1, <2>3, <2>4
         DEF LoopInv, Placed, Handshaking, Reading, Writing, Handling, Over, Quiet,
             HandlerOK, Serving, Handlers
    <2> QED BY <2>2, <2>5
  <1>2. LoopInv => ClosesWhenTold BY <1>1 DEF ClosesWhenTold
  <1> QED BY <1>2, LoopHolds, PTL

(* A session that is gone was left by its peer, told to end, handed over or *)
(* never got through its handshake.                                         *)
THEOREM EndsWithReason == Spec => []EndsForAReason
  <1>1. ASSUME LoopInv, Gone
        PROVE  \/ peerGone \/ malformed \/ stream_ = "moved" \/ asked = 0
               \/ sent # <<>> /\ ~sent[Len(sent)].keep_alive
    <2>1. \A x : Len(<<x>>) = 1 BY Single
    <2>2. ~Handshaking
      BY <1>1, NoneLeft DEF Handshaking, Gone, Live, Bit
    <2>3. ~Reading BY <1>1, NoneLeft DEF Reading, Gone, Live, Bit
    <2>4. ~Writing
      BY <1>1, <2>1, NoneLeft DEF Writing, Gone, Live, Bit
    <2>5. ~Handling
      BY <1>1, <2>1, NoneLeft DEF Handling, Quiet, Gone, Live, Bit
    <2> QED BY <1>1, <2>2, <2>3, <2>4, <2>5 DEF LoopInv, Placed, Over, Ended
  <1>2. LoopInv => EndsForAReason BY <1>1 DEF EndsForAReason
  <1> QED BY <1>2, LoopHolds, PTL

(* Jobs and sends work beside the request they were posted for: do_read has *)
(* not yet replaced req_ when its keep-alive is used.                       *)
THEOREM OwnRequestServed == Spec => []ServesCurrent
  <1>1. ASSUME LoopInv, NEW i \in DOMAIN strand, strand[i].op \in {"job", "send"}
        PROVE  req_.num = strand[i].num
    <2>1. strand # <<>> BY <1>1, NoneLeft
    <2>2. Handling
      BY <1>1, <2>1 DEF LoopInv, Placed, Handshaking, Reading, Writing, Over
    <2>3. PICK h \in Handlers : strand = <<h>> /\ HandlerOK(h) BY <2>2 DEF Handling
    <2>4. strand[i] = h BY <1>1, <2>3, Single
    <2> QED BY <1>1, <2>3, <2>4 DEF HandlerOK, Serving
  <1>2. LoopInv => ServesCurrent BY <1>1 DEF ServesCurrent
  <1> QED BY <1>2, LoopHolds, PTL

=============================================================================
