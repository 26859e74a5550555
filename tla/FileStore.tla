------------------------------- MODULE FileStore -------------------------------
(***************************************************************************)
(* The two stores behind the sessions: the objects of the S3 bucket and    *)
(* the ImageRecord collection that describes them, with the jobs that      *)
(* change both: handle_add_file, handle_delete_file and                    *)
(* handle_rewrite_file (src/src/wssSession.cpp).                           *)
(*                                                                         *)
(* A session runs one job at a time (WssSession.tla) and the jobs of       *)
(* different sessions run on different threads, so that the calls to the   *)
(* stores interleave: every such call is an action.  No transaction spans  *)
(* the two stores and no lock the sessions.  A call may fail, applied or   *)
(* not, which ends its job by an exception or an error reply; the server   *)
(* may stop, which ends every job; nothing ever repairs what they leave.   *)
(***************************************************************************)
EXTENDS Naturals, Sequences, FiniteSets

CONSTANTS
    Sessions,      \* the connected sessions
    Ops,           \* what they ask for in this instance
    Folders,       \* target folders, with their "USERS/<uid>/" prefix
    Stems,         \* client file names, as far as they differ
    Clean,         \* sanitize: a function on Stems
    MaxJobs,       \* bound on the jobs begun
    MaxFaults,     \* bound on the store calls that fail
    MaxCrashes     \* bound on the stops of the server

ASSUME OpsAssumption == Ops \subseteq {"add", "delete", "rewrite"}
ASSUME CleanAssumption == Clean \in [Stems -> Stems]
ASSUME BoundsAssumption == MaxJobs \in Nat /\ MaxFaults \in Nat /\ MaxCrashes \in Nat

VARIABLES
    objects,       \* the bucket: the content stored under each key
    records,       \* the ImageRecord collection
    job,           \* the job each session runs
    begun,         \* jobs begun so far; its value names the newest job
    uuids,         \* random uuids drawn so far
    faults, crashes,
    published,     \* history: ids of the records ever inserted
    doomed,        \* history: ids some client asked to delete
    acked,         \* history: uploads and copies that replied success
    deleted,       \* history: ids whose deletion replied success
    abandoned,     \* history: keys whose job died before inserting a record
    halfDeleted    \* history: ids whose deletion died after the object's

stores == <<objects, records>>
history == <<published, doomed, acked, deleted>>
vars == <<objects, records, job, begun, uuids, faults, crashes, published,
          doomed, acked, deleted, abandoned, halfDeleted>>

-----------------------------------------------------------------------------
(* Names.  A file name is a stem a client chose, behind the uuids that      *)
(* prepare_filename put before it and before the "(n)" the collision loops  *)
(* put after it.  The uuids of different calls are different.               *)
Name == [uuid : Seq(Nat), stem : Stems, copies : Seq(Nat)]

ClientName(stem) == [uuid |-> <<>>, stem |-> stem, copies |-> <<>>]

(* Deviation for a mutant: no uuid.                                         *)
prepare_filename_PlainName(name, u) == [name EXCEPT !.stem = Clean[@]]

(* prepare_filename(name).unique_name, when u is the uuid it draws.         *)
prepare_filename(name, u) ==
    [name EXCEPT !.uuid = <<u>> \o @, !.stem = Clean[@]]

(* base_name + "(" + std::to_string(counter) + ")" + ext                    *)
Numbered(name, counter) == [name EXCEPT !.copies = Append(@, counter)]

Key == [folder : Folders, name : Name]

(* The id of a record and the content of an upload are the number of the    *)
(* job that made them: the driver draws an ObjectId for every insert_one.   *)
(* `content' stands for the fields that describe the file (size, type).     *)
Record == [id : Nat, originalName : Name, s3Key : Key, content : Nat]

-----------------------------------------------------------------------------
(* The job of a session: the store call it makes next, its number and the   *)
(* locals that are live across calls (`name' is unique_name, then           *)
(* current_name; `source' is the record a find_one returned).               *)
Idle == [call |-> "none"]
Upload == [call : {"add_check", "add_put", "add_insert"}, num : Nat,
           folder : Folders, original : Name, name : Name, counter : Nat]
Deletion == [call : {"del_find"}, num : Nat, id : Nat]
            \cup [call : {"del_object", "del_record"}, num : Nat, source : Record]
Copying == [call : {"rw_find"}, num : Nat, id : Nat, folder : Folders]
           \cup [call : {"rw_head", "rw_copy", "rw_insert"}, num : Nat,
                 source : Record, folder : Folders, name : Name, counter : Nat]

Jobs == {Idle} \cup Upload \cup Deletion \cup Copying

(* target_folder + name, the key an upload or a copy writes.                *)
KeyOf(j) == [folder |-> j.folder, name |-> j.name]

Inserting(s) == job[s].call \in {"add_insert", "rw_insert"}
Withdrawing(s) == job[s].call = "del_record"

Stored(key, content) ==
    [k \in DOMAIN objects \cup {key} |->
        IF k = key THEN content ELSE objects[k]]

-----------------------------------------------------------------------------
Init ==
    /\ objects = [k \in {} |-> 0]
    /\ records = {}
    /\ job = [s \in Sessions |-> Idle]
    /\ begun = 0
    /\ uuids = 0
    /\ faults = 0
    /\ crashes = 0
    /\ published = {}
    /\ doomed = {}
    /\ acked = {}
    /\ deleted = {}
    /\ abandoned = {}
    /\ halfDeleted = {}

-----------------------------------------------------------------------------
(* A call that returns normally leaves j as the rest of its job.            *)
Returns(s, j) ==
    /\ job' = [job EXCEPT ![s] = j]
    /\ UNCHANGED <<faults, abandoned, halfDeleted>>

(* A call that throws, or whose outcome is an error, ends the job, which    *)
(* leaves an object under each key of lost, or a record of each id of half. *)
Throws(s, lost, half) ==
    /\ faults < MaxFaults
    /\ faults' = faults + 1
    /\ job' = [job EXCEPT ![s] = Idle]
    /\ abandoned' = abandoned \cup lost
    /\ halfDeleted' = halfDeleted \cup half

(* The call after which an upload or a copy replies success.                *)
Inserted(s) ==
    /\ published' = published \cup {job[s].num}
    /\ \/ Returns(s, Idle) /\ acked' = acked \cup {job[s].num}
       \/ Throws(s, {}, {}) /\ UNCHANGED acked

Begin(s, op) ==
    /\ job[s] = Idle
    /\ op \in Ops
    /\ begun < MaxJobs
    /\ begun' = begun + 1
    /\ UNCHANGED <<stores, faults, crashes, published, acked, deleted,
                   abandoned, halfDeleted>>

-----------------------------------------------------------------------------
(* handle_add_file: check the name, put the object, insert the record.      *)

BeginAdd(s) ==
    /\ Begin(s, "add")
    /\ \E folder \in Folders, stem \in Stems :
          job' = [job EXCEPT ![s] =
                     [call |-> "add_check", num |-> begun + 1,
                      folder |-> folder, original |-> ClientName(stem),
                      name |-> prepare_filename(ClientName(stem), uuids),
                      counter |-> 1]]
    /\ uuids' = uuids + 1
    /\ UNCHANGED doomed

(* One find_one of the loop over originalName.  base_name is unique_name,   *)
(* so a renamed file carries the uuid in its original name too.             *)
AddCheck(s) ==
    /\ job[s].call = "add_check"
    /\ LET j == job[s]
           taken == \E r \in records : /\ r.s3Key.folder = j.folder
                                       /\ r.originalName = j.original
       IN  \/ /\ taken
              /\ Returns(s, [j EXCEPT !.original = Numbered(j.name, j.counter),
                                      !.counter = @ + 1])
              /\ UNCHANGED uuids
           \/ /\ ~taken /\ j.counter = 1
              /\ Returns(s, [j EXCEPT !.call = "add_put"])
              /\ UNCHANGED uuids
           \/ /\ ~taken /\ j.counter > 1
              /\ Returns(s, [j EXCEPT !.call = "add_put",
                                      !.name = prepare_filename(j.original, uuids)])
              /\ uuids' = uuids + 1
    /\ UNCHANGED <<stores, begun, crashes, history>>

(* Deviation for a mutant: the outcome of PutObject is not looked at.       *)
AddPut_Unchecked(s) ==
    /\ job[s].call = "add_put"
    /\ objects' \in {objects, Stored(KeyOf(job[s]), job[s].num)}
    /\ Returns(s, [job[s] EXCEPT !.call = "add_insert"])
    /\ UNCHANGED <<records, begun, uuids, crashes, history>>

AddPut(s) ==
    /\ job[s].call = "add_put"
    /\ objects' = Stored(KeyOf(job[s]), job[s].num)
    /\ \/ Returns(s, [job[s] EXCEPT !.call = "add_insert"])
       \/ Throws(s, {KeyOf(job[s])}, {})
    /\ UNCHANGED <<records, begun, uuids, crashes, history>>

AddInsert(s) ==
    /\ job[s].call = "add_insert"
    /\ LET j == job[s] IN
          records' = records \cup {[id |-> j.num, originalName |-> j.original,
                                    s3Key |-> KeyOf(j), content |-> j.num]}
    /\ Inserted(s)
    /\ UNCHANGED <<objects, begun, uuids, crashes, doomed, deleted>>

-----------------------------------------------------------------------------
(* handle_delete_file: find the record, delete the object, then the record. *)
(* A client knows the ids of records that have been listed to it.           *)

BeginDelete(s) ==
    /\ Begin(s, "delete")
    /\ \E id \in published :
          /\ job' = [job EXCEPT ![s] =
                        [call |-> "del_find", num |-> begun + 1, id |-> id]]
          /\ doomed' = doomed \cup {id}
    /\ UNCHANGED uuids

DelFind(s) ==
    /\ job[s].call = "del_find"
    /\ \/ \E r \in records :
             /\ r.id = job[s].id
             /\ Returns(s, [call |-> "del_object", num |-> job[s].num, source |-> r])
       \/ /\ \A r \in records : r.id # job[s].id
          /\ Returns(s, Idle)
    /\ UNCHANGED <<stores, begun, uuids, crashes, history>>

(* Deviation for a mutant: the outcome of DeleteObject is not looked at.    *)
DelObject_Unchecked(s) ==
    /\ job[s].call = "del_object"
    /\ objects' \in {objects,
                     [k \in DOMAIN objects \ {job[s].source.s3Key} |-> objects[k]]}
    /\ Returns(s, [job[s] EXCEPT !.call = "del_record"])
    /\ UNCHANGED <<records, begun, uuids, crashes, history>>

DelObject(s) ==
    /\ job[s].call = "del_object"
    /\ LET r == job[s].source IN
          /\ objects' = [k \in DOMAIN objects \ {r.s3Key} |-> objects[k]]
          /\ \/ Returns(s, [job[s] EXCEPT !.call = "del_record"])
             \/ Throws(s, {}, {r.id})
    /\ UNCHANGED <<records, begun, uuids, crashes, history>>

DelRecord(s) ==
    /\ job[s].call = "del_record"
    /\ records' = {r \in records : r.id # job[s].source.id}
    /\ \/ Returns(s, Idle) /\ deleted' = deleted \cup {job[s].source.id}
       \/ Throws(s, {}, {}) /\ UNCHANGED deleted
    /\ UNCHANGED <<objects, begun, uuids, crashes, published, doomed, acked>>

-----------------------------------------------------------------------------
(* handle_rewrite_file: find the record, look for a key that is free in the *)
(* target folder, copy the object there and insert a record for the copy.   *)

BeginRewrite(s) ==
    /\ Begin(s, "rewrite")
    /\ \E id \in published, folder \in Folders :
          job' = [job EXCEPT ![s] = [call |-> "rw_find", num |-> begun + 1,
                                     id |-> id, folder |-> folder]]
    /\ UNCHANGED <<uuids, doomed>>

RwFind(s) ==
    /\ job[s].call = "rw_find"
    /\ \/ \E r \in records :
             /\ r.id = job[s].id
             /\ Returns(s, [call |-> "rw_head", num |-> job[s].num, source |-> r,
                            folder |-> job[s].folder, name |-> r.originalName,
                            counter |-> 1])
       \/ /\ \A r \in records : r.id # job[s].id
          /\ Returns(s, Idle)
    /\ UNCHANGED <<stores, begun, uuids, crashes, history>>

(* Deviation for a mutant: the first candidate is taken unseen.             *)
RwHead_Blind(s) ==
    /\ job[s].call = "rw_head"
    /\ Returns(s, [job[s] EXCEPT !.call = "rw_copy"])
    /\ UNCHANGED <<stores, begun, uuids, crashes, history>>

(* Deviation for a mutant: the counter stays, so does the candidate.        *)
RwHead_SameCandidate(s) ==
    /\ job[s].call = "rw_head"
    /\ LET j == job[s] IN
          IF KeyOf(j) \in DOMAIN objects
          THEN Returns(s, [j EXCEPT !.name = Numbered(j.source.originalName, j.counter)])
          ELSE Returns(s, [j EXCEPT !.call = "rw_copy"])
    /\ UNCHANGED <<stores, begun, uuids, crashes, history>>

(* One HeadObject of the loop over the candidate names.                     *)
RwHead(s) ==
    /\ job[s].call = "rw_head"
    /\ LET j == job[s] IN
          \/ /\ KeyOf(j) \in DOMAIN objects
             /\ Returns(s, [j EXCEPT
                               !.name = Numbered(j.source.originalName, j.counter),
                               !.counter = @ + 1])
          \/ /\ KeyOf(j) \notin DOMAIN objects
             /\ Returns(s, [j EXCEPT !.call = "rw_copy"])
    /\ UNCHANGED <<stores, begun, uuids, crashes, history>>

(* CopyObject fails by itself when the source object is gone.               *)
RwCopy(s) ==
    /\ job[s].call = "rw_copy"
    /\ LET j == job[s] IN
          \/ /\ j.source.s3Key \in DOMAIN objects
             /\ objects' = Stored(KeyOf(j), objects[j.source.s3Key])
             /\ \/ Returns(s, [j EXCEPT !.call = "rw_insert"])
                \/ Throws(s, {KeyOf(j)}, {})
          \/ /\ j.source.s3Key \notin DOMAIN objects
             /\ UNCHANGED objects
             /\ Returns(s, Idle)
    /\ UNCHANGED <<records, begun, uuids, crashes, history>>

(* Deviation for a mutant: the copy takes the place of its source.          *)
RwInsert_SourceId(s) ==
    /\ job[s].call = "rw_insert"
    /\ LET j == job[s] IN
          records' = records \cup {[id |-> j.source.id, s3Key |-> KeyOf(j),
                                    originalName |-> j.source.originalName,
                                    content |-> j.source.content]}
    /\ Inserted(s)
    /\ UNCHANGED <<objects, begun, uuids, crashes, doomed, deleted>>

RwInsert(s) ==
    /\ job[s].call = "rw_insert"
    /\ LET j == job[s] IN
          records' = records \cup {[id |-> j.num, s3Key |-> KeyOf(j),
                                    originalName |-> j.source.originalName,
                                    content |-> j.source.content]}
    /\ Inserted(s)
    /\ UNCHANGED <<objects, begun, uuids, crashes, doomed, deleted>>

-----------------------------------------------------------------------------
(* The next call of a job fails without having been applied.                *)
CallFails(s) ==
    /\ job[s] # Idle
    /\ Throws(s, IF Inserting(s) THEN {KeyOf(job[s])} ELSE {},
                 IF Withdrawing(s) THEN {job[s].source.id} ELSE {})
    /\ UNCHANGED <<stores, begun, uuids, crashes, history>>

(* The server stops; the stores remain, and the clients come back.          *)
Crash ==
    /\ crashes < MaxCrashes
    /\ crashes' = crashes + 1
    /\ job' = [s \in Sessions |-> Idle]
    /\ abandoned' = abandoned \cup {KeyOf(job[s]) : s \in {t \in Sessions : Inserting(t)}}
    /\ halfDeleted' = halfDeleted
                      \cup {job[s].source.id : s \in {t \in Sessions : Withdrawing(t)}}
    /\ UNCHANGED <<stores, begun, uuids, faults, history>>

StoreCall(s) ==
    \/ AddCheck(s) \/ AddPut(s) \/ AddInsert(s)
    \/ DelFind(s) \/ DelObject(s) \/ DelRecord(s)
    \/ RwFind(s) \/ RwHead(s) \/ RwCopy(s) \/ RwInsert(s)
    \/ CallFails(s)

Next ==
    \/ \E s \in Sessions : BeginAdd(s) \/ BeginDelete(s) \/ BeginRewrite(s)
    \/ \E s \in Sessions : StoreCall(s)
    \/ Crash

Spec == Init /\ [][Next]_vars

(* A store call returns, or throws, and the thread of the job goes on.      *)
FairSpec == Spec /\ \A s \in Sessions : WF_vars(StoreCall(s))

-----------------------------------------------------------------------------
TypeOK ==
    /\ DOMAIN objects \subseteq Key
    /\ \A k \in DOMAIN objects : objects[k] \in Nat
    /\ records \subseteq Record
    /\ job \in [Sessions -> Jobs]
    /\ begun \in 0 .. MaxJobs
    /\ uuids \in Nat
    /\ faults \in 0 .. MaxFaults
    /\ crashes \in 0 .. MaxCrashes
    /\ published \subseteq 1 .. begun
    /\ doomed \subseteq published
    /\ acked \subseteq 1 .. begun
    /\ abandoned \subseteq Key
    /\ halfDeleted \subseteq published

(* Every object in the bucket is described by a record that is not on its   *)
(* way out, or is about to be by the job that wrote it, or was left by a    *)
(* job that died between its two stores.  Nothing else leaks storage.       *)
Described(k) ==
    \E r \in records :
       /\ r.s3Key = k
       /\ \A s \in Sessions : ~(Withdrawing(s) /\ job[s].source.id = r.id)

OrphansAccounted ==
    \A k \in DOMAIN objects :
       \/ Described(k)
       \/ \E s \in Sessions : Inserting(s) /\ KeyOf(job[s]) = k
       \/ k \in abandoned

(* A record without its object, which clients see as a dead link, is the    *)
(* work of a deletion that has passed the object and has still to remove    *)
(* the record, or that died there.                                          *)
DanglingAccounted ==
    \A r \in records :
       r.s3Key \notin DOMAIN objects =>
          \/ r.id \in halfDeleted
          \/ \E s \in Sessions : Withdrawing(s) /\ job[s].source.id = r.id

(* Behind these: ids are never used twice, so that a record a job once read *)
(* is the only one there will ever be of its id.                            *)
HasSource(s) ==
    job[s].call \in {"del_object", "del_record", "rw_head", "rw_copy", "rw_insert"}

IdsFresh ==
    /\ \A s \in Sessions : job[s] # Idle => job[s].num \in (1 .. begun) \ published
    /\ \A s, t \in Sessions :
          s # t /\ job[s] # Idle /\ job[t] # Idle => job[s].num # job[t].num

IdsUnique ==
    /\ \A r \in records : r.id \in published
    /\ \A q, r \in records : q.id = r.id => q = r
    /\ \A s \in Sessions :
          HasSource(s) => /\ job[s].source.id \in published
                          /\ \A r \in records :
                                r.id = job[s].source.id => r = job[s].source
    /\ deleted \subseteq published

(* Files that clients can download: the record is there and the object      *)
(* under its key is the one the record was inserted for.                    *)
Intact(r) == r.s3Key \in DOMAIN objects /\ objects[r.s3Key] = r.content
Available == {[id |-> r.id, content |-> r.content] : r \in {q \in records : Intact(q)}}

(* An upload that was reported as a success can be downloaded until a       *)
(* client asks to delete it.                                                *)
AckedStored == \A n \in acked : n \in doomed \/ \E f \in Available : f.id = n

(* A record whose deletion was reported as a success is gone for good.      *)
AckedDeleted == \A r \in records : r.id \notin deleted

(* Two records never share an object (comment at wssSession.cpp:959,        *)
(* "protection against collisions"), as long as no deletion has died after  *)
(* the object's.  Such a deletion leaves a record whose key a copy takes to *)
(* be free; when it is repeated it removes the object of that copy too.     *)
KeysDistinct == \A q, r \in records : q.s3Key = r.s3Key => q = r
KeysUnique == halfDeleted = {} => KeysDistinct

(* Jobs end: the loops that look for a free name find one.                  *)
JobsFinish == \A s \in Sessions : job[s] # Idle ~> job[s] = Idle

-----------------------------------------------------------------------------
(* The files that can be downloaded behave as a catalog: each appears whole, *)
(* never changes, and goes only after a client has asked for that.           *)
Catalog == INSTANCE FileCatalog WITH
    available <- Available,
    used      <- published,
    doomed    <- doomed,
    Ids       <- 1 .. MaxJobs,
    Contents  <- 1 .. MaxJobs

CatalogSpec == Catalog!Spec

=============================================================================
