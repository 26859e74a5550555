# Models and proofs of the picture server

`src/` is a C++ server that stores pictures for its users: a client logs in
over REST (port 8081), opens a WebSocket (port 8080) and sends protobuf
requests to upload, list, copy and delete files.  File contents are objects in
an S3 bucket, their descriptions are documents of the MongoDB collection
`ImageRecord`.  This directory holds TLA+ specifications of that server, TLC
configurations that check them on small instances, and TLAPS proofs.

Comments and strings of the code that this text quotes are translated from
Russian.

## 1. Inventory

| Component | Code | State it keeps | Operations |
|---|---|---|---|
| WebSocket session | `wssSession.hpp`, `wssSession.cpp` | the stream (one read and one write at a time), `buffer_`, `user_id_`, and the handlers queued on its strand | `start`, `on_accept`, `do_read`, `on_read`, `dispatch_protobuf_message`, eight request handlers, `send_envelope` |
| File operations | `wssSession.cpp` 101-265, 440-511, 909-1040 | bucket objects, `ImageRecord` documents; locals of a running job | `handle_add_file`, `handle_delete_file`, `handle_rewrite_file` |
| Queries and listings | `wssSession.cpp` 9-99, 267-438, 513-907 | none of their own | `handle_user_bucket`, `handle_list_request`, `handle_files_ids_request`, `handle_file_path`, `handle_path_inf_request` |
| Names and paths | `auxil.cpp`, `auxil.hpp` | none | `prepare_filename`, `sanitize`, `sanitizeToPath`, `url_decode`, `parse_form_body` |
| HTTP session | `httpServerSession.cpp` 1-122, 338-369 | the stream, `req_`, keep-alive | `on_handshake`, `do_read`, `on_read`, upgrade to WebSocket, responses |
| Registration, login | `httpServerSession.cpp` 124-336, `auth_utils.hpp` | collection `users`, placeholder object and record | `/auth/register`, `/auth/login` |
| Listener, threads | `main.cpp`, `database.hpp` | two acceptors, a pool of threads, one `mongocxx::client`, one S3 client | accept loop, `io_context::run` |
| Configuration | `config.hpp` | constants | - |
| Wire format | `image.proto`, `protobuf_src/` | the has-bits of a message, cached sizes | accessors, serialiser, sizes, parse tables, `Clear`, `MergeImpl`, `CopyFrom`, swap |
| Tokens and hashes | `auth_utils.hpp` | none | `generate_token`, `verify_token`, password digests |
| Unused | `aux_handler.hpp` | - | duplicates nothing calls |

How they interact.  The listener accepts a socket on a strand of its own and
starts an HTTP session on it; an upgrade request with a valid token moves the
stream into a WebSocket session and the HTTP session ends.  A WebSocket session
is a chain of handlers - read, job, reply, read - that run one at a time on the
strand of the socket.  A handler posts the next; nothing but these handlers and
the pending operations holds the session, and its destructor is what closes the
socket.  Sessions do not know each other; they meet in the two stores.

What is hard here:

* a session assumes one read and one write at a time and nothing enforces it:
  a `buckets` request falls through to the refusal for unknown requests
  (`wssSession.hpp:122`), and a folder reply starts a listing as well
  (`wssSession.cpp:771`), so either starts a second chain on the same stream;
* the "thread pool" of the jobs is the strand of the socket
  (`wssSession.cpp:12`);
* there is no transaction over the two stores and no lock between sessions:
  uploads, copies and deletions interleave call by call, and fail or stop
  between calls;
* nothing has a timeout; no job is retried; nothing cleans up at start;
* a login is looked for and inserted by two calls, without an index that would
  keep it unique (`httpServerSession.cpp:148`, 179);
* a job blocks one of the few threads that also accept and read, inside one
  `mongocxx::client` that all threads share (`database.hpp:33`);
* every handler makes its own text of a folder name (`wssSession.cpp:136`, 278,
  717, 942), two of them put it into a regular expression as it is;
* what is written of a message depends on has-bits no caller sees, which the
  accessors, the serialiser, the parse table and `MergeImpl` each use on their
  own.

What makes each component correct: a session answers every request once and in
order or closes, and goes away with its connection; the stores agree - no
object without a record, no record without an object - up to what died half
way, a reported upload stays, a reported deletion is final, no two records
share an object; a listing shows what was there; a login names one user, and a
token is for who gave its password; the server keeps accepting; one name means
one folder to every handler; what one side writes the other reads.

## 2. Modules

| Module | What it is | Instance | Proofs |
|---|---|---|---|
| `WssSession` | one WebSocket session: strand, stream, replies, lifetime | `MCWssSession` | `WssSessionProofs` |
| `FileStore` | the two stores and the three jobs that change them, for any number of sessions, with failing calls and stops of the server | `MCFileStore` | `FileStoreProofs`, `UploadProofs` |
| `FileCatalog` | abstract specification: files appear whole, never change, and go only when asked for | mapped to in `FileStore` | `UploadProofs`, `QueriesProofs` |
| `Queries` | the four queries beside the jobs of `FileStore`, which it extends | `MCQueries` | `QueriesProofs` |
| `Registration` | registration and login over `users`, the bucket and the placeholders | `MCRegistration` | `RegistrationProofs` |
| `Users` | abstract specification: a login names one account, tokens are for who gave its password | mapped to in `RegistrationProofs` | - |
| `HttpSession` | one HTTP session, on either port, up to the upgrade | `MCHttpSession` | `HttpSessionProofs` |
| `Server` | accept loops, strands and threads under all sessions | `MCServer` | `ServerProofs` |
| `Messages` | the 27 messages as the generated classes lay them out | `MCWire` | - |
| `Wire` | what the generated classes do with any such layout | `MCWire` | - |
| `PathNames` | names, paths and form bodies | `MCPathNames` | `PathNamesProofs` |

How they compose.  `Queries` extends `FileStore`, so that a listing runs beside
uploads, copies, deletions, failures and stops.  The sessions are modelled one
at a time, since they share nothing but the stores and the threads: `Server`
shows that a session's handlers run one at a time on any number of threads,
which `WssSession` and `HttpSession` assume; there a job is one step with any
outcome the store modules allow.  `Server` in turn keeps of a session only that
it reads, runs jobs, sends, and may fork.

Operators named `..._Something` under the word "deviation" are mistakes one
could make in that place of the code; no behaviour of a specification uses
them.  Each property is checked to fail under one.

### WssSession and the code

| Specification | Code |
|---|---|
| `strand` | handlers waiting for the executor of `ws_` (`make_strand`, `main.cpp:65`); a FIFO |
| `reader`, `buffer_` | the pending `async_read` and what `buffer_` holds |
| `writer`, `outgoing`, `parkedWrite` | the pending `async_write` and one parked behind it |
| `leaked` | operations that never complete and hold their `shared_ptr` for ever |
| `AcceptCompletes` ... `PeerCloses` | completions, which only queue a handler |
| `RunOnAccept`, `RunOnRead`, `RunOnWrite` | `on_accept`, `on_read` with `dispatch_protobuf_message`, and the completion lambda of `send_envelope` |
| `RunJob` | the lambda of a request handler: everything up to the reply it posts; what replies are possible is `JobEnds`, one operator per handler |
| `RunSend`, `RunSendFolder` | the reply lambdas; the second also calls `handle_list_request` |

Each `Run...` action is one whole handler, since a strand never runs two of its
handlers at once.  `forks` and `sent` are history variables.  Boost.Beast is
not part of `src/`; it is modelled from how the release build behaves
(`dockerfile` builds with `Release`, so the assertions against overlapping
operations are off): a second `async_write` is parked until the reader has
answered a control frame, a third displaces it, a second `async_read` is parked
for good.  A reply too long to be serialised is not sent (`wssSession.hpp:174`),
which ends the chain of handlers.  A read whose buffer was cleared under it delivers what is left of
the message, and what that parses as is any choice of `FramesRead`.

### FileStore and the code

Every store call of the three jobs is an action; the code between two calls
touches only locals and belongs to the call before it.  `job[s]` holds the
locals that live across calls.

| Action | Code |
|---|---|
| `BeginAdd`, `AddCheck`, `AddPut`, `AddInsert` | `handle_add_file`: names and folder; one `find_one` of the loop 172-187 with the renaming 185-195; `PutObject`; `insert_one` and the reply |
| `BeginDelete`, `DelFind`, `DelObject`, `DelRecord` | `handle_delete_file`: `find_one`, `DeleteObject`, `delete_one` |
| `BeginRewrite`, `RwFind`, `RwHead`, `RwCopy`, `RwInsert` | `handle_rewrite_file`: `find_one`, one `HeadObject` of the loop, `CopyObject`, `insert_one` |
| `Throws`, `CallFails` | a call that fails after, respectively before, the store applied it; the job ends |
| `Crash` | the server stops, the stores stay |

A file name is a stem, the uuids `prepare_filename` has put before it and the
numbers the loops have put behind it; that is all the code's names are compared
for.  `Clean` is `sanitize` on the stems of the instance.  Not modelled: the
look-up of the login for the `userLogin` field (its failure is caught and
changes nothing else), the fields of a record nothing here reads, a client name
that already ends in "(1)", and that the rule which prefixes `USERS/<uid>/`
maps several requested folders to one.

### Queries and the code

| Action | Code |
|---|---|
| `BeginList`, `ListFind`, `ListFolders` | `handle_list_request`: the target folder, `find` with the links, `aggregate` with the names of the subfolders |
| `BeginIds`, `IdsNext`, `IdsReply` | `handle_files_ids_request`: one `find_one` for each id, any of which may be malformed, unknown or fail |
| `BeginPathInf`, `PathFolder`, `PathFile` | `handle_path_inf_request`: is it a folder (cases 1 and 2), is it a file (case 3), else the user's bucket (case 4) |
| `BeginFilePath`, `FilePath` | `handle_file_path` |
| `QueryFails`, `Deliver` | the `catch` of the job, the posted reply |

`steady`, `seen`, `known` and `erased` are history: which records were there
while a query was answered, which files were reported as stored or deleted
before it began.  Which folder lies in which is a constant (`SegmentIn`), and so
is which folders begin with the text of a path (`Opens`): the pattern of
`handle_path_inf_request` has no end (`wssSession.cpp:754`, 798), so that a path
opens its own folder and what is below (`OpensAssumption`), and any other path
may open a folder too, as the file "cat" does beside a folder "cats".

### Registration and the code

`RegFind`, `RegHead`, `RegCreate`, `RegInsert`, `RegPut` and `RegRecord` are the
calls of `/auth/register` in their order (`httpServerSession.cpp:148` to 221),
`LoginFind` is that of `/auth/login`.  `Throws` and `CallFails` fail after,
respectively before, the call was applied; `Crash` stops the server.  A user
keeps how many users there were when its registration looked (`seen`, history).
A hash stands for its password, a token for the account it names.

### HttpSession and the code

As in `WssSession`, with `do_read`, `on_handshake`, `on_read`,
`handle_rest_api`, the job it posts, the `send` it posts back and the completion
of the write.  `AnswerAtOnce` are the responses `on_read` sends itself, `Upgrade`
moves the stream into a WebSocket session.  `req_` is the request the session
holds; the numbers of requests and responses are history.

### Server and the code

`work[s]` is the queue of a strand, `ready` that of the `io_context`; `Take` is
a thread of `io_context::run` that takes a strand, `Return` its going on.
`AcceptCompletes`, `AcceptFails`, `RunOnAccept` are the accept loop (`main.cpp`
53-73), `RunOnRead`, `RunJob`, `RunSend` what a session does at any time,
`JobHangs` a call to a store that never returns.  Any job will do for these two;
`PROJECT.json` names that of `handle_user_bucket` and its `HeadBucket`.

### Messages, Wire and the code

`Messages` holds three tables for each message: what `_InternalSerialize`,
`ByteSizeLong`, `Clear`, `MergeImpl` and `InternalSwap` go through (`T`), what
the parse table has at each field number (`T_table`), which has-bit the
accessors use (`T_accessors`); envelopes also have the oneof and the number of
tag bytes `ByteSizeLong` adds.  The tables are separate because the generated
code has them in separate places; `Wire` uses each where that code does.  Its
`Set`, `Add`, `ClearField`, `Release`, `MutableAlt`, `ReleaseAlt` and
`SetAllocatedAlt` are the accessors, the other operators the member functions
of their names.  The parser, the varints and UTF-8 are libprotobuf's and
modelled from how the tables drive them; arenas, reflection, the descriptor and
the enums' name tables are left out.  Strings are UTF-8 when their bytes are
below 128.

### PathNames and the code

`sanitize` and `sanitizeToPath` are `auxil.cpp`, step by step; `Target` is the
folder rule of `handle_add_file` and `handle_rewrite_file`, `ListTarget` that of
`handle_list_request`, `Formatted` and `FolderPattern` those of
`handle_path_inf_request`; `Matches`, `IsBelow` and `Subfolder` are the regular
expressions and the pipeline MongoDB gets (`FirstName` is its `$split`).  A name
goes into a regular expression unescaped: the dot and parentheses in it are
modelled, and what a pattern with one of the other `Signs` (a backslash,
brackets, a plus, ...) matches is the constant operator `Special`, left open, so
that no property says anything of such a name where a regular expression is.
`url_decode` and `parse_form_body` are `auxil.hpp`: `Decoded` is the loop over
the text, `Symbol` and `Taken` one turn of it.  `FormField` is how the handlers
look a field up; `Encoded` is what a browser sends, `Plain` the characters it
sends as they are.  Two assumptions: `PathNamesAssumption` says that the codes of
characters differ and fit a byte and that "USERS" and the id of the user have no
slash, no parenthesis and none of the `Signs`, and that the signs of PCRE are
among those; `ProperNames` that `sanitize` leaves those two alone.

## 3. Runs

| Run | Instance | What it shows |
|---|---|---|
| `session` | every kind of frame, 3 frames | operations in flight and operations lost stay within the number of forks; until something forks: one operation at a time, replies in order, every request answered or the socket closed; a dead connection frees the session unless an operation was lost |
| `overlap` | 1 frame, which asks about a path | **violated**: the folder reply is being written when the reply of its listing is sent, whose write is parked, against the comment "for safe sending" |
| `rewrite` | 2 sessions, all operations, two names that `sanitize` makes equal, 4 jobs, 1 failure, 1 stop | every orphan object is the work of a job that is under way or died there; deleted records stay deleted; the name loops end |
| `copy_race` | 2 sessions, 3 jobs | **violated**: two copies take the same free key, against "protection against collisions" |
| `listing` | 2 sessions with uploads and deletions, 3 jobs, 1 failure, 1 stop, 2 listings | a listing shows every file reported as stored, its links work unless a deletion was asked for; dead records are the work of jobs that died; reported uploads stay; `FileCatalog` is implemented |
| `lookups` | 1 session, all operations, 3 folders, 3 jobs, 1 failure, 1 query | one item for each id; the path of a folder that stays is answered as a folder, that of a file that stays as a file unless it begins the name of a folder; without concurrency no two records share an object, unless a deletion died half way (which 3 jobs do not bring together with a copy: the theorem `AloneKeysUnique` is for any number) |
| `reg_concurrent` | 2 sessions, 2 logins, 2 passwords, 4 requests, 1 failure, 1 stop | a login is doubled only by overlapping registrations; tokens go to who gave the password; halves and refusals are accounted for |
| `reg_race` | 2 sessions, 1 login, 2 requests | **violated**: two registrations of one login succeed, against "the user already exists" |
| `http` | both ports, 4 requests | one chain; one response for each request, in order, with its own keep-alive; nothing after the last; every request answered; a dead connection frees the session |
| `pool` | 2 ports, 2 connections, 2 threads, one of which may hang for ever, 1 failing accept | sessions serial, ports always listening; connections accepted and queued work done although a session hangs |
| `wire` | all 27 messages, 2 objects, 2 accessor calls (1 for `ServerEnvelope`), 1 call on whole messages | what is written is read back; sizes are exact; concatenation is merging; has-bits are invisible |
| `paths` | every path of up to 5 characters over 8 (after nothing, "USERS", the user's folder), every form field of up to 5 over 7 | what `sanitize` lets through; one name is one folder to upload, listing and path query, where a regular expression is used if the name has none of the `Signs`; form fields arrive as entered |

Bounds.  `MaxRequests = 3` in `session`: the first frame may fork, the second
meets both chains, the third finds a lost operation; a parked read takes one
fork, a displaced write two.  `http` needs one more, a chain that has ended
being out of the question.  `MaxJobs` bounds the jobs begun, not those running:
an upload, a deletion that finds its record, a second one that races with it
and a later upload or copy make 4; an upload, its deletion and another upload
make the 3 of `listing`.  `MaxFaults = 1` and `MaxCrashes = 1`: what a failure
or a stop leaves behind cannot be told from what an earlier one left.  In
`reg_concurrent` two registrations of one login and two logins of their clients
make 4.  `pool` has a thread that hangs and one that does not; with all threads
hung nothing is accepted any more, which is what the code does.  In `wire` two
calls bring two fields into one message, or one into each of two that are then
merged; a blob of 128 bytes and a 16-bit integer stand for lengths and numbers
of several groups.  In `paths` a name is cut at 3 characters, "AA" is the
reserved name and a colon stands for what is erased: the shortest texts in
which two steps meet (a name cut to a period, a separator before a separator, a
pair of parentheses within a name) have four or five characters.  No symmetry is used
in runs with a temporal property.  Deadlock is not checked: sessions end, and
clients may stop asking.

Fairness.  `WssSession`: the `io_context` runs every queued handler (its threads
never leave `run` while work is left) provided that no store call blocks for
ever; the handshake ends; a read of a closed connection fails; a write ends,
because the peer takes what it is sent or its connection fails.  Nothing makes
the peer send, close or answer a ping.  `HttpSession`: the same.  `Server`: a
thread takes work that is ready and runs it, the kernel reports a connection
that waits; a call to a store may hang (`JobHangs`), on fewer threads than
there are.  `FileStore!FairSpec`: a job's next call returns or throws.  Under it
`JobsFinish` needs a bounded number of jobs: only finitely many names can be
taken meanwhile.

`AnsweredOrClosed` and `SessionReleased` except sessions that have forked or
lost an operation, and fail without that exception: a lost operation keeps its
`shared_ptr` for ever.

### What the code does that one would not expect

The three violated runs are findings of `PROJECT.json`.  Met while modelling,
without a run of their own:

* a `buckets` request is answered and then refused as unknown
  (`wssSession.hpp:118`);
* the "thread pool" that jobs are posted to is the strand of the socket, so that
  completions of the session wait for its stores (`wssSession.cpp:12`); with
  every thread in a store nothing is accepted (`main.cpp:118`);
* a deletion that dies between its two calls leaves a record without an object
  (`wssSession.cpp:490`); a copy finds the key free and takes it
  (`wssSession.cpp:973`), so that the same deletion, asked for again, removes the
  object of the copy, which was reported as stored.  No second session is
  needed, hence the exception in `KeysUnique`;
* two concurrent uploads may keep one name (`wssSession.cpp:178`), and a renamed
  duplicate is called after the name with the uuid (`wssSession.cpp:184`);
* the size of the placeholder is an int32, which `get_int64` refuses: its path
  gets no answer (`httpServerSession.cpp:217`, `wssSession.cpp:868`);
* a path that names nothing is answered with "folder" and the user's bucket
  (`wssSession.cpp:901`), where `image.proto:67` also has "does not exist";
* the pattern of a path query is not closed: the path "a" finds the folder "ab"
  (`wssSession.cpp:754`); folders are stored under the name they are given, which the query
  sanitizes first, so that one with a colon is not found;
* a name cut to 255 bytes may end in a space or a period, which step 2 of
  `sanitize` was to remove (`auxil.cpp:33`, 53);
* a string that is not UTF-8 is written all the same, and the peer refuses the
  whole message (`image.pb.cc:4181`).

## 4. Proofs

`WssSessionProofs`, for every set of requests and every `MaxRequests`:

* `TypeCorrect`: `Spec => []TypeOK`.
* `ChainsBounded`, `LossesAreForks`: `ContinuationsBounded` and `LossesBounded`
  from `ChainsInv`.  The bounds alone are not inductive: `do_read` or
  `send_envelope` that meets a pending operation turns a live handler into a
  lost one, which respects `Dead <= forks` only if something else is alive.
  `CompletionsQueued` says so: an operation that is not `none` is either still
  busy or has its handler in the queue (`OtherLive`).  Each action then moves a
  fixed amount between the counts (`Changes`, `ChangesStep`).
* `OneOperationAtATime`: `OneOperation`.  `ForkFreeInv` keeps forking requests,
  jobs and replies out of the queue; it needs that no read is torn, hence that
  no `do_read` meets a pending read, hence the bounds above with `forks = 0`.
* `RepliesKeepOrder`: `RepliesInOrder`.  Beside the above, `OrderInv` says that
  until something forks whoever is about to reply - a job, the lambda it posts,
  the pending write - has the request read last, and that no reply to it was
  sent.

The assumptions used are `RequestsAssumption` and `BoundAssumption`.

`FileStoreProofs`, for every set of sessions, folders and stems, every
`sanitize` and every bound on jobs, failures and stops:

* `TypeCorrect`: `Spec => []TypeOK`.
* `DeletedStaysDeleted`: `AckedDeleted`.  A deletion works on the record it
  once read, so it must not meet another of the same id.  `IdsFresh` says the
  number of a running job is no id yet and no other job has it; `IdsUnique`
  says ids name one record each and a job's `source` is the only record there
  can be of its id.  Neither they nor the type invariant are inductive alone
  (`published` is typed by `IdsFresh`, `halfDeleted` by `IdsUnique`), so that
  `IdsOK` joins the four.  `Kinds` sorts the fifteen actions by what they do
  to jobs, ids and records; the invariant is shown for each kind.
* `OrphansAlwaysAccounted`: `OrphansAccounted`, beside `IdsOK`: the record an
  upload inserts must not be on its way out already, and a deletion that takes
  an object away takes the description of no other object with it.

The assumptions used are `CleanAssumption` and `BoundsAssumption`, and what
`insert_one` promises: the id of a new record is new.

`UploadProofs` has three parts.

*What is recorded stays.*  For every set of operations `AckedStayRecorded`
(`AckedRecorded`): the record of a file that was reported as stored goes only
when its deletion was asked for, because every deletion under way works on an
id that was (`DoomedInv`, beside `IdsOK`).

*Without copies* (`"rewrite" \notin Ops`), for any number of sessions:

* `UploadsAckedStored`, `UploadsDanglingAccounted`, `UploadsKeysDistinct`:
  `AckedStored`, `DanglingAccounted`, `KeysDistinct`.  None is inductive: that a
  deletion leaves other files alone, or an upload overwrites none, is a fact
  about every key in use, also those that only a job's locals hold.
  `ClaimsInv` says it once: a file that is being stored, is stored or is being
  deleted claims the uuid its key starts with, every claimed uuid has been
  drawn, and no uuid is claimed for two files.  Beside it `StoredInv` keeps what
  each job knows: an upload that is about to insert finds its own object under
  its key, a record's object is the record's own, deletions work on ids that
  were asked for, and what was acknowledged has its record.
* `UploadsKeepCatalog`: `CatalogSpec`.  Under the same invariant an insert is
  `Publish`, a request to delete is `Doom`, the removal of the object - and
  again that of the record - is `Withdraw`, and every other step a stutter.

*With copies*, for one session (`Sessions = {one}`): copies put objects under
keys that no uuid protects, and with two sessions two of them may share one
(run `copy_race`), so that the deletion of one takes the object of the other.

* `AloneKeysUnique`: `KeysUnique`; `AloneAckedStored`: while no deletion has died
  half way, what was reported as stored has its object.  Keys are distinct
  because `HeadObject` found the key free and nobody took it since; for that
  every record must have an object, which `DanglingAccounted` grants only while
  nothing is half deleted and no deletion is between its calls.  `AloneInv` is
  that argument: `NamesInv` says that every name was drawn before now, that an
  upload's name is no record's, and that the record a job has read is still
  there; `ObjectsInv` says what lies under the keys of the records and of the
  running job.

The uuid being new is the one thing taken for granted (`uuids` counts them).

`QueriesProofs`, for the same constants and any set of queries.  A query
changes no store, but its calls fail as well (`OnlyFault`), so that the
invariants of the stores are shown again for `QSpec` (`StoresInv`) and each of
the properties then follows from one part of `QueryInv`, which says what the
query has gathered so far:

* `QueriesTyped`: both type invariants.
* `ListingsComplete` (`KnownListed`), from `HistoryInv` and `ListInv`: what was
  reported before the listing began and not asked to be deleted since has had
  its record throughout, so that the one `find` saw it.
* `ItemsFollowIds` (`ItemsInOrder`), from `IdsInv`.
* `FilesAreFound`, `FoldersAreFound` (`FileFoundByPath`, `FolderFoundByPath`),
  from `PathInv`: a path that is looked for among the files opened no folder when
  that was asked, hence none that was there throughout.  Of `Opens` nothing is
  assumed but that a folder's path opens the folder and those below it.
* `ListedFilesDownload` (`ListedDownloadable`) and `QueriesKeepPromises`
  (`AckedStored`, `DanglingAccounted`, `CatalogSpec` while queries run), without
  copies; `AloneQueriesKeepPromises` (`KeysUnique`, and `ListedDownloadable` while
  nothing is half deleted), with copies, for one session.

`RegistrationProofs`, for all sessions, logins, passwords and bounds:

* `TypeCorrect`.  The actions are sorted into kinds by what they do to the
  stores and the jobs (`StepKind`); the invariants are shown for each kind.
* `OnlyOverlapsDuplicate`: with `DuplicatesOverlap` goes what a job that is
  about to insert has seen.  `AloneLoginsUnique`: of one session, `LoginsUnique`.
* `TokensAreTrue`, `CreatedIsComplete`, `HalvesAccounted`,
  `RefusalsAreDuplicates` follow from `PartsInv`: who owns an id, what its job has
  done so far, and whose registration died.
* `AloneKeepsPromise`: with one session `Registration` implements `Users`; every
  step maps to one of its steps or stutters.

`HttpSessionProofs`, for any number of requests: `TypeCorrect`, `OneChain`,
`RepliesOneForOne`, `LastWord`, `EndsWithReason`, `OwnRequestServed`.  All follow
from `LoopInv`, which says at which place of its loop a session is - in the
handshake, reading, handling, writing, over - and what its variables are there.
`SingleChain` alone does not say which request a handler serves, `RepliesMatch`
not how many were read.

`ServerProofs`, for any number of ports, connections and threads: `TypeCorrect`,
`NeverStopsListening`, `OneThreadPerSession`, from `ServerInv`: a strand is in
one place at most - once in `ready` or on one thread - and only when it has
work, and each strand's work is of the handlers of its owner.

`PathNamesProofs`, for texts of any length over any characters: all three
invariants of the run `paths`.

What a fold computes is not among the facts of the library, and its induction
theorems take an operator as a parameter, which the provers cannot instantiate.
`Induct` and `SeqInduct` therefore state induction about sets: a set that has
the empty text, and every text one longer than one it has, has all texts.
`FoldingNothing` and `FoldingFromLeft` are derived from the definition of
`FoldLeft` by them: a fold of nothing is its base, a fold of a longer text one
more step.  Each fold of `PathNames` then has its two equations (`ErasedStep`,
`SplitStep`, `PathStep`, ...), from which its lemmas follow.

* `FoldersAreListed` (`FolderListed`) and `FilesAreFoundByName` (`FileFound`).
  They need that the user's id has characters and that neither it nor "USERS"
  has a slash: then the user's folder has a slash at one place only
  (`BaseSlash`), and what is typed behind a name cannot bring it into that
  folder (`SlashOutside`, `FolderInside`); the rest is counting characters.
* `PathsAreClean` (`SanitizedClean`).  `Sanitized` says what one name has left,
  `NoneBanned` and `SegmentLength` what a path has; `UncutNames` that a name that
  was not cut is unchanged by a second cleaning; `OnceIsEnough` that the cleaned
  path splits into just the names it was joined from.
* `HandlersAgree` (`LookupsAgree`) adds `SubfoldersShown` and `FoldersFound` to the
  two above.  A folder's pattern matches what is below it because a pattern
  without parentheses matches every text it is a prefix of (`FrontMatches`); with
  one it never does, balanced or not: without the parentheses, its first slash
  behind one of them comes sooner than the one of the text (`GroupMismatch`).  A
  path that sanitizing leaves alone keeps its names behind the user's folder
  (`SegmentsSlash`, `OwnSegments`; here `ProperNames` is needed).  Both are about
  names without `Signs`, of which a pattern has those of its parts (`Signless`);
  `Special` does not occur in the proof.
* `FormsArrive` (`FormRoundTrip`).  `EncodedChar` is one character there and back,
  `DecodesEncoded` a whole field, by induction from the front.  No character a
  browser sends is an ampersand or an equals sign (`SentChars`), so the password
  is the last token (`LastToken`), and the last token of a key is the one that
  counts (`LastParam`), whatever the tokens before it are (`PasswordArrives`).

The assumptions are the named ones of the modules.

Only model-checked:

* everything under fairness: liveness is out of the prover's reach;
* `Wire`: messages contain messages, so that its operators are recursive ones,
  and in a module with those the prover has no arithmetic and no sequences;
* the implementation of `Users` by several sessions, and of `FileCatalog` with
  copies, are no theorems because they are false: `reg_race`, `copy_race`.

## 5. Not modelled

* Configuration: environment variables, read once.
* `aux_handler.hpp`: nothing calls it.
* Cryptography: digests, signatures and random numbers are OpenSSL's, jwt-cpp's
  and Boost's; a uuid is new, a hash as good as its password.
* The formats of URLs and JSON, logging, and the fields of records nothing reads.
* Reflection, arenas and the embedded descriptor of the generated messages.
* What two threads do within the one `mongocxx::client`: the code takes no lock,
  the driver forbids it, and what follows is outside the code.
* Timeouts: there are none; a peer that goes silent keeps its session, so
  that no property of the code says otherwise.
* The sizes that a message caches: `SerializeToString` computes them right before
  it writes, and `Wire` takes the sizes of what is written.
