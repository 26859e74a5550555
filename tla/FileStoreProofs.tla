---------------------------- MODULE FileStoreProofs ----------------------------
(***************************************************************************)
(* Proofs about FileStore: its type invariant, that only jobs that died    *)
(* between the stores leave objects without a record, and that what was    *)
(* deleted stays deleted - for all sessions, files, failures and stops.    *)
(***************************************************************************)
EXTENDS FileStore, TLAPS

-----------------------------------------------------------------------------
(* Forms of a job.                                                          *)

LEMMA JobForms ==
    ASSUME NEW j \in Jobs
    PROVE  /\ j.call = "none" <=> j = Idle
           /\ j.call \in {"add_check", "add_put", "add_insert"} => j \in Upload
           /\ j.call = "del_find" => j.num \in Nat /\ j.id \in Nat
           /\ j.call \in {"del_object", "del_record"} => j.num \in Nat /\ j.source \in Record
           /\ j.call = "rw_find" => j.num \in Nat /\ j.id \in Nat /\ j.folder \in Folders
           /\ j.call \in {"rw_head", "rw_copy", "rw_insert"} =>
                 /\ j.num \in Nat /\ j.source \in Record /\ j.folder \in Folders
                 /\ j.name \in Name /\ j.counter \in Nat
           /\ j # Idle => j.num \in Nat
  BY DEF Jobs, Idle, Upload, Deletion, Copying

LEMMA UploadForm ==
    ASSUME NEW j \in Upload
    PROVE  /\ j.num \in Nat /\ j.folder \in Folders /\ j.original \in Name
           /\ j.name \in Name /\ j.counter \in Nat
  BY DEF Upload

LEMMA RecordForm ==
    ASSUME NEW r \in Record
    PROVE  /\ r.id \in Nat /\ r.originalName \in Name /\ r.s3Key \in Key
           /\ r.content \in Nat
  BY DEF Record

LEMMA NameForms ==
    ASSUME NEW name \in Name, NEW n \in Nat
    PROVE  prepare_filename(name, n) \in Name /\ Numbered(name, n) \in Name
  <1>1. /\ name.uuid \in Seq(Nat) /\ name.stem \in Stems /\ name.copies \in Seq(Nat)
        /\ <<n>> \o name.uuid \in Seq(Nat) /\ Append(name.copies, n) \in Seq(Nat)
        /\ Clean[name.stem] \in Stems
    BY CleanAssumption DEF Name, CleanAssumption
  <1> QED BY <1>1 DEF Name, prepare_filename, Numbered

LEMMA KeyForm ==
    ASSUME NEW j, j.folder \in Folders, j.name \in Name
    PROVE  KeyOf(j) \in Key
  BY DEF KeyOf, Key

-----------------------------------------------------------------------------
(* What a call does to the job that makes it.                               *)

LEMMA ReturnsType ==
    ASSUME TypeOK, NEW s \in Sessions, NEW j \in Jobs, Returns(s, j)
    PROVE  /\ job' \in [Sessions -> Jobs] /\ faults' \in 0 .. MaxFaults
           /\ abandoned' \subseteq Key /\ halfDeleted' \subseteq published
  BY DEF TypeOK, Returns

LEMMA ThrowsType ==
    ASSUME TypeOK, NEW s \in Sessions, NEW lost \in SUBSET Key,
           NEW half \in SUBSET published, Throws(s, lost, half)
    PROVE  /\ job' \in [Sessions -> Jobs] /\ faults' \in 0 .. MaxFaults
           /\ abandoned' \subseteq Key /\ halfDeleted' \subseteq published
  <1>1. Idle \in Jobs
    BY DEF Jobs
  <1>2. faults' \in 0 .. MaxFaults
    BY BoundsAssumption DEF TypeOK, Throws, BoundsAssumption
  <1>3. job' \in [Sessions -> Jobs]
    BY <1>1 DEF TypeOK, Throws
  <1> QED BY <1>2, <1>3, Zenon DEF TypeOK, Throws

LEMMA StoredType ==
    ASSUME TypeOK, NEW key \in Key, NEW content \in Nat
    PROVE  /\ DOMAIN Stored(key, content) = DOMAIN objects \cup {key}
           /\ DOMAIN Stored(key, content) \subseteq Key
           /\ \A k \in DOMAIN Stored(key, content) : Stored(key, content)[k] \in Nat
  BY DEF TypeOK, Stored

-----------------------------------------------------------------------------
(* Types.                                                                   *)

StoresOK ==
    /\ DOMAIN objects \subseteq Key
    /\ \A k \in DOMAIN objects : objects[k] \in Nat
    /\ records \subseteq Record
JobsOK ==
    /\ job \in [Sessions -> Jobs] /\ faults \in 0 .. MaxFaults
    /\ abandoned \subseteq Key /\ halfDeleted \subseteq published
CountsOK == begun \in 0 .. MaxJobs /\ uuids \in Nat /\ crashes \in 0 .. MaxCrashes
HistoryOK ==
    /\ published \subseteq 1 .. begun /\ doomed \subseteq published
    /\ acked \subseteq 1 .. begun

LEMMA TypeParts == TypeOK <=> StoresOK /\ JobsOK /\ CountsOK /\ HistoryOK
  BY Zenon DEF TypeOK, StoresOK, JobsOK, CountsOK, HistoryOK

LEMMA TypePartsNext == TypeOK' <=> StoresOK' /\ JobsOK' /\ CountsOK' /\ HistoryOK'
  BY Zenon DEF TypeOK, StoresOK, JobsOK, CountsOK, HistoryOK

LEMMA TypeInit == Init => TypeOK
  <1> SUFFICES ASSUME Init PROVE TypeOK
    OBVIOUS
  <1>1. StoresOK
    BY DEF Init, StoresOK
  <1>2. JobsOK
    BY BoundsAssumption DEF Init, JobsOK, Jobs, BoundsAssumption
  <1>3. CountsOK
    BY BoundsAssumption DEF Init, CountsOK, BoundsAssumption
  <1>4. HistoryOK
    BY DEF Init, HistoryOK
  <1> QED BY <1>1, <1>2, <1>3, <1>4, TypeParts

LEMMA TypeBegin ==
    ASSUME TypeOK, NEW s \in Sessions, BeginAdd(s) \/ BeginDelete(s) \/ BeginRewrite(s)
    PROVE  TypeOK'
  <1>1. PICK op : Begin(s, op)
    BY DEF BeginAdd, BeginDelete, BeginRewrite
  <1>2. StoresOK'
    BY <1>1, TypeParts, Zenon DEF StoresOK, Begin, stores
  <1>3. begun + 1 \in Nat /\ begun' = begun + 1 /\ begun' \in 0 .. MaxJobs
        /\ 1 .. begun \subseteq 1 .. begun'
    BY <1>1, BoundsAssumption DEF TypeOK, Begin, BoundsAssumption
  <1>4. CASE BeginAdd(s)
    <2>1. PICK folder \in Folders, stem \in Stems :
             job' = [job EXCEPT ![s] =
                       [call |-> "add_check", num |-> begun + 1,
                        folder |-> folder, original |-> ClientName(stem),
                        name |-> prepare_filename(ClientName(stem), uuids), counter |-> 1]]
      BY <1>4, Zenon DEF BeginAdd
    <2>2. uuids \in Nat /\ uuids' = uuids + 1
      BY <1>4 DEF BeginAdd, TypeOK
    <2>3. ClientName(stem) \in Name
      BY DEF ClientName, Name
    <2>4. prepare_filename(ClientName(stem), uuids) \in Name
      BY <2>2, <2>3, NameForms
    <2>5. job' \in [Sessions -> Jobs]
      BY <1>3, <2>1, <2>3, <2>4 DEF TypeOK, Jobs, Upload
    <2>6. JobsOK'
      BY <1>1, <1>4, <2>5, Zenon DEF TypeOK, JobsOK, Begin, BeginAdd
    <2>7. CountsOK'
      BY <1>1, <1>3, <2>2 DEF TypeOK, CountsOK, Begin
    <2>8. HistoryOK'
      BY <1>1, <1>3, <1>4 DEF TypeOK, HistoryOK, Begin, BeginAdd
    <2> QED BY <1>2, <2>6, <2>7, <2>8, TypePartsNext
  <1>5. CASE BeginDelete(s)
    <2>1. PICK id \in published :
             /\ job' = [job EXCEPT ![s] = [call |-> "del_find", num |-> begun + 1, id |-> id]]
             /\ doomed' = doomed \cup {id}
      BY <1>5, Zenon DEF BeginDelete
    <2>2. id \in Nat
      BY DEF TypeOK
    <2>3. job' \in [Sessions -> Jobs]
      BY <1>3, <2>1, <2>2 DEF TypeOK, Jobs, Deletion
    <2>4. JobsOK'
      BY <1>1, <1>5, <2>3, Zenon DEF TypeOK, JobsOK, Begin, BeginDelete
    <2>5. CountsOK'
      BY <1>1, <1>3, <1>5 DEF TypeOK, CountsOK, Begin, BeginDelete
    <2>6. HistoryOK'
      BY <1>1, <1>3, <2>1 DEF TypeOK, HistoryOK, Begin
    <2> QED BY <1>2, <2>4, <2>5, <2>6, TypePartsNext
  <1>6. CASE BeginRewrite(s)
    <2>1. PICK id \in published, folder \in Folders :
             job' = [job EXCEPT ![s] = [call |-> "rw_find", num |-> begun + 1,
                                        id |-> id, folder |-> folder]]
      BY <1>6, Zenon DEF BeginRewrite
    <2>2. id \in Nat
      BY DEF TypeOK
    <2>3. job' \in [Sessions -> Jobs]
      BY <1>3, <2>1, <2>2 DEF TypeOK, Jobs, Copying
    <2>4. JobsOK'
      BY <1>1, <1>6, <2>3, Zenon DEF TypeOK, JobsOK, Begin, BeginRewrite
    <2>5. CountsOK'
      BY <1>1, <1>3, <1>6 DEF TypeOK, CountsOK, Begin, BeginRewrite
    <2>6. HistoryOK'
      BY <1>1, <1>3, <1>6 DEF TypeOK, HistoryOK, Begin, BeginRewrite
    <2> QED BY <1>2, <2>4, <2>5, <2>6, TypePartsNext
  <1> QED BY <1>4, <1>5, <1>6

(* A call that only returns changes a job, and the counter of uuids at most. *)
LEMMA TypeReturn ==
    ASSUME TypeOK, NEW s \in Sessions, NEW j \in Jobs, Returns(s, j),
           UNCHANGED <<stores, begun, crashes, history>>, uuids' \in Nat
    PROVE  TypeOK'
  <1>1. StoresOK'
    BY TypeParts, Zenon DEF StoresOK, stores
  <1>2. JobsOK'
    BY ReturnsType, Zenon DEF JobsOK, history
  <1>3. CountsOK' /\ HistoryOK'
    BY TypeParts, Zenon DEF CountsOK, HistoryOK, history
  <1> QED BY <1>1, <1>2, <1>3, TypePartsNext

LEMMA TypeAddCheck ==
    ASSUME TypeOK, NEW s \in Sessions, AddCheck(s)
    PROVE  TypeOK'
  <1> DEFINE j == job[s]
  <1>1. j \in Upload /\ uuids \in Nat
    BY JobForms DEF TypeOK, AddCheck
  <1>2. /\ j.num \in Nat /\ j.folder \in Folders /\ j.original \in Name
        /\ j.name \in Name /\ j.counter \in Nat
    BY <1>1, UploadForm
  <1>3. UNCHANGED <<stores, begun, crashes, history>>
    BY Zenon DEF AddCheck
  <1>4. CASE /\ Returns(s, [j EXCEPT !.original = Numbered(j.name, j.counter),
                                     !.counter = @ + 1])
             /\ UNCHANGED uuids
    <2>1. Numbered(j.name, j.counter) \in Name
      BY <1>2, NameForms
    <2>2. [j EXCEPT !.original = Numbered(j.name, j.counter), !.counter = @ + 1] \in Jobs
      <3>1. ASSUME NEW o \in Name, NEW c \in Nat
            PROVE  [j EXCEPT !.original = o, !.counter = c] \in Jobs
        BY <1>1, <1>2 DEF Upload, Jobs
      <3>2. j.counter + 1 \in Nat
        BY <1>2
      <3> QED BY <2>1, <3>1, <3>2, Zenon
    <2> QED BY <1>1, <1>3, <1>4, <2>2, TypeReturn
  <1>5. CASE Returns(s, [j EXCEPT !.call = "add_put"]) /\ UNCHANGED uuids
    <2>1. [j EXCEPT !.call = "add_put"] \in Jobs
      BY <1>1 DEF Upload, Jobs
    <2> QED BY <1>1, <1>3, <1>5, <2>1, TypeReturn
  <1>6. CASE /\ Returns(s, [j EXCEPT !.call = "add_put",
                                     !.name = prepare_filename(j.original, uuids)])
             /\ uuids' = uuids + 1
    <2>1. prepare_filename(j.original, uuids) \in Name
      BY <1>1, <1>2, NameForms
    <2>2. [j EXCEPT !.call = "add_put", !.name = prepare_filename(j.original, uuids)] \in Jobs
      BY <1>1, <2>1 DEF Upload, Jobs
    <2>3. uuids' \in Nat
      BY <1>1, <1>6
    <2> QED BY <1>3, <1>6, <2>2, <2>3, TypeReturn
  <1> QED BY <1>4, <1>5, <1>6, Zenon DEF AddCheck

(* A call that puts an object, and returns or throws.                       *)
LEMMA TypePut ==
    ASSUME TypeOK, NEW s \in Sessions, NEW key \in Key, NEW content \in Nat,
           objects' = Stored(key, content), NEW j \in Jobs,
           Returns(s, j) \/ Throws(s, {key}, {}),
           UNCHANGED <<records, begun, uuids, crashes, history>>
    PROVE  TypeOK'
  <1>1. StoresOK'
    BY StoredType, TypeParts DEF StoresOK
  <1>2. {key} \in SUBSET Key /\ {} \in SUBSET published
    OBVIOUS
  <1>3. JobsOK'
    BY <1>2, ReturnsType, ThrowsType, Zenon DEF JobsOK, history
  <1>4. CountsOK' /\ HistoryOK'
    BY TypeParts, Zenon DEF CountsOK, HistoryOK, history
  <1> QED BY <1>1, <1>3, <1>4, TypePartsNext

LEMMA TypeAddPut ==
    ASSUME TypeOK, NEW s \in Sessions, AddPut(s)
    PROVE  TypeOK'
  <1> DEFINE j == job[s]
  <1>1. j \in Upload
    BY JobForms DEF TypeOK, AddPut
  <1>2. KeyOf(j) \in Key /\ j.num \in Nat
    BY <1>1, UploadForm, KeyForm
  <1>3. [j EXCEPT !.call = "add_insert"] \in Jobs
    BY <1>1 DEF Upload, Jobs
  <1>4. /\ objects' = Stored(KeyOf(j), j.num)
        /\ Returns(s, [j EXCEPT !.call = "add_insert"]) \/ Throws(s, {KeyOf(j)}, {})
        /\ UNCHANGED <<records, begun, uuids, crashes, history>>
    BY Zenon DEF AddPut
  <1> QED BY <1>2, <1>3, <1>4, TypePut

(* A call that inserts a record.                                            *)
LEMMA TypeInsert ==
    ASSUME TypeOK, IdsFresh, NEW s \in Sessions, job[s] # Idle, NEW r \in Record,
           records' = records \cup {r}, Inserted(s),
           UNCHANGED <<objects, begun, uuids, crashes, doomed, deleted>>
    PROVE  TypeOK'
  <1>1. StoresOK'
    BY TypeParts DEF StoresOK
  <1>2. /\ Idle \in Jobs /\ {} \in SUBSET Key /\ {} \in SUBSET published
        /\ published \subseteq published'
    BY DEF Jobs, Inserted
  <1>3. JobsOK'
    <2>1. /\ job' \in [Sessions -> Jobs] /\ faults' \in 0 .. MaxFaults
          /\ abandoned' \subseteq Key /\ halfDeleted' \subseteq published
      BY <1>2, ReturnsType, ThrowsType, Zenon DEF Inserted
    <2> QED BY <1>2, <2>1 DEF JobsOK
  <1>4. CountsOK'
    BY TypeParts, Zenon DEF CountsOK
  <1>5. job[s].num \in 1 .. begun
    BY DEF IdsFresh
  <1>6. HistoryOK'
    BY <1>5, TypeParts DEF HistoryOK, Inserted
  <1> QED BY <1>1, <1>3, <1>4, <1>6, TypePartsNext

LEMMA TypeAddInsert ==
    ASSUME TypeOK, IdsFresh, NEW s \in Sessions, AddInsert(s)
    PROVE  TypeOK'
  <1> DEFINE j == job[s]
             r == [id |-> j.num, originalName |-> j.original, s3Key |-> KeyOf(j),
                   content |-> j.num]
  <1>1. j \in Upload /\ j # Idle
    BY JobForms DEF TypeOK, AddInsert
  <1>2. r \in Record
    BY <1>1, UploadForm, KeyForm DEF Record
  <1>3. /\ records' = records \cup {r} /\ Inserted(s)
        /\ UNCHANGED <<objects, begun, uuids, crashes, doomed, deleted>>
    BY Zenon DEF AddInsert
  <1> QED BY <1>1, <1>2, <1>3, TypeInsert

LEMMA TypeDeletion ==
    ASSUME TypeOK, IdsUnique, NEW s \in Sessions,
           DelFind(s) \/ DelObject(s) \/ DelRecord(s)
    PROVE  TypeOK'
  <1> DEFINE j == job[s]
  <1>0. j \in Jobs /\ Idle \in Jobs /\ uuids \in Nat
    BY DEF TypeOK, Jobs
  <1>1. CASE DelFind(s)
    <2>1. j.num \in Nat /\ UNCHANGED <<stores, begun, uuids, crashes, history>>
      BY <1>0, <1>1, JobForms DEF DelFind
    <2>2. CASE Returns(s, Idle)
      BY <1>0, <2>1, <2>2, TypeReturn
    <2>3. CASE \E r \in records :
                 Returns(s, [call |-> "del_object", num |-> job[s].num, source |-> r])
      <3>1. PICK r \in records :
               Returns(s, [call |-> "del_object", num |-> job[s].num, source |-> r])
        BY <2>3
      <3>2. [call |-> "del_object", num |-> job[s].num, source |-> r] \in Jobs
        BY <2>1 DEF TypeOK, Jobs, Deletion
      <3> QED BY <1>0, <2>1, <3>1, <3>2, TypeReturn
    <2> QED BY <1>1, <2>2, <2>3, Zenon DEF DelFind
  <1>2. CASE DelObject(s)
    <2>1. j.num \in Nat /\ j.source \in Record /\ j.source.id \in published
      BY <1>0, <1>2, JobForms DEF DelObject, IdsUnique, HasSource
    <2>2. [j EXCEPT !.call = "del_record"] \in Jobs
      BY <1>0, <1>2, <2>1 DEF DelObject, Jobs, Idle, Upload, Deletion, Copying
    <2>3. /\ objects' = [k \in DOMAIN objects \ {j.source.s3Key} |-> objects[k]]
          /\ \/ Returns(s, [j EXCEPT !.call = "del_record"])
             \/ Throws(s, {}, {j.source.id})
          /\ UNCHANGED <<records, begun, uuids, crashes, history>>
      BY <1>2, Zenon DEF DelObject
    <2>4. StoresOK'
      BY <2>3 DEF TypeOK, StoresOK
    <2>5. {} \in SUBSET Key /\ {j.source.id} \in SUBSET published
      BY <2>1
    <2>6. JobsOK'
      BY <2>2, <2>3, <2>5, ReturnsType, ThrowsType, Zenon DEF JobsOK, history
    <2>7. CountsOK' /\ HistoryOK'
      BY <2>3, TypeParts, Zenon DEF CountsOK, HistoryOK, history
    <2> QED BY <2>4, <2>6, <2>7, TypePartsNext
  <1>3. CASE DelRecord(s)
    <2>1. /\ records' \subseteq records
          /\ Returns(s, Idle) \/ Throws(s, {}, {})
          /\ UNCHANGED <<objects, begun, uuids, crashes, published, doomed, acked>>
      BY <1>3 DEF DelRecord
    <2>2. StoresOK'
      BY <2>1, TypeParts DEF StoresOK
    <2>3. {} \in SUBSET Key /\ {} \in SUBSET published
      OBVIOUS
    <2>4. JobsOK'
      BY <1>0, <2>1, <2>3, ReturnsType, ThrowsType, Zenon DEF JobsOK
    <2>5. CountsOK' /\ HistoryOK'
      BY <2>1, TypeParts, Zenon DEF CountsOK, HistoryOK
    <2> QED BY <2>2, <2>4, <2>5, TypePartsNext
  <1> QED BY <1>1, <1>2, <1>3

LEMMA TypeCopying ==
    ASSUME TypeOK, IdsFresh, NEW s \in Sessions,
           RwFind(s) \/ RwHead(s) \/ RwCopy(s) \/ RwInsert(s)
    PROVE  TypeOK'
  <1> DEFINE j == job[s]
  <1>0. j \in Jobs /\ Idle \in Jobs /\ uuids \in Nat
    BY DEF TypeOK, Jobs
  <1>1. CASE RwFind(s)
    <2>1. j.num \in Nat /\ j.folder \in Folders
          /\ UNCHANGED <<stores, begun, uuids, crashes, history>>
      BY <1>0, <1>1, JobForms DEF RwFind
    <2>2. CASE Returns(s, Idle)
      BY <1>0, <2>1, <2>2, TypeReturn
    <2>3. CASE \E r \in records :
                 Returns(s, [call |-> "rw_head", num |-> job[s].num, source |-> r,
                             folder |-> job[s].folder, name |-> r.originalName,
                             counter |-> 1])
      <3>1. PICK r \in records :
               Returns(s, [call |-> "rw_head", num |-> job[s].num, source |-> r,
                           folder |-> job[s].folder, name |-> r.originalName,
                           counter |-> 1])
        BY <2>3
      <3>2. r \in Record /\ r.originalName \in Name
        BY RecordForm DEF TypeOK
      <3>3. [call |-> "rw_head", num |-> job[s].num, source |-> r,
             folder |-> job[s].folder, name |-> r.originalName, counter |-> 1] \in Jobs
        BY <2>1, <3>2 DEF Jobs, Copying
      <3> QED BY <1>0, <2>1, <3>1, <3>3, TypeReturn
    <2> QED BY <1>1, <2>2, <2>3, Zenon DEF RwFind
  <1>a. ASSUME j.call \in {"rw_head", "rw_copy", "rw_insert"}
        PROVE  /\ j.num \in Nat /\ j.source \in Record /\ j.folder \in Folders
               /\ j.name \in Name /\ j.counter \in Nat /\ j # Idle
               /\ j \in [call : {"rw_head", "rw_copy", "rw_insert"}, num : Nat,
                         source : Record, folder : Folders, name : Name, counter : Nat]
    BY <1>0, <1>a, JobForms DEF Jobs, Idle, Upload, Deletion, Copying
  <1>2. CASE RwHead(s)
    <2>1. /\ j.num \in Nat /\ j.source \in Record /\ j.counter \in Nat
          /\ j \in [call : {"rw_head", "rw_copy", "rw_insert"}, num : Nat,
                    source : Record, folder : Folders, name : Name, counter : Nat]
      BY <1>2, <1>a DEF RwHead
    <2>2. UNCHANGED <<stores, begun, uuids, crashes, history>>
      BY <1>2, Zenon DEF RwHead
    <2>3. Numbered(j.source.originalName, j.counter) \in Name
      BY <2>1, RecordForm, NameForms
    <2>4. [j EXCEPT !.name = Numbered(j.source.originalName, j.counter),
                    !.counter = @ + 1] \in Jobs
      <3>1. ASSUME NEW n \in Name, NEW c \in Nat
            PROVE  [j EXCEPT !.name = n, !.counter = c] \in Jobs
        BY <2>1 DEF Jobs, Copying
      <3>2. j.counter + 1 \in Nat
        BY <2>1
      <3> QED BY <2>3, <3>1, <3>2, Zenon
    <2>5. [j EXCEPT !.call = "rw_copy"] \in Jobs
      BY <2>1 DEF Jobs, Copying
    <2>6. \/ Returns(s, [j EXCEPT !.name = Numbered(j.source.originalName, j.counter),
                                  !.counter = @ + 1])
          \/ Returns(s, [j EXCEPT !.call = "rw_copy"])
      BY <1>2, Zenon DEF RwHead
    <2> QED BY <1>0, <2>2, <2>4, <2>5, <2>6, TypeReturn
  <1>3. CASE RwCopy(s)
    <2>1. /\ j.source \in Record /\ j.folder \in Folders /\ j.name \in Name
          /\ j \in [call : {"rw_head", "rw_copy", "rw_insert"}, num : Nat,
                    source : Record, folder : Folders, name : Name, counter : Nat]
      BY <1>3, <1>a DEF RwCopy
    <2>2. UNCHANGED <<records, begun, uuids, crashes, history>>
      BY <1>3, Zenon DEF RwCopy
    <2>3. CASE /\ j.source.s3Key \in DOMAIN objects
               /\ objects' = Stored(KeyOf(j), objects[j.source.s3Key])
               /\ Returns(s, [j EXCEPT !.call = "rw_insert"]) \/ Throws(s, {KeyOf(j)}, {})
      <3>1. KeyOf(j) \in Key
        BY <2>1, KeyForm
      <3>2. objects[j.source.s3Key] \in Nat
        BY <2>3 DEF TypeOK
      <3>3. [j EXCEPT !.call = "rw_insert"] \in Jobs
        BY <2>1 DEF Jobs, Copying
      <3> QED BY <2>2, <2>3, <3>1, <3>2, <3>3, TypePut
    <2>4. CASE UNCHANGED objects /\ Returns(s, Idle)
      BY <1>0, <2>2, <2>4, TypeReturn DEF stores
    <2> QED BY <1>3, <2>3, <2>4, Zenon DEF RwCopy
  <1>4. CASE RwInsert(s)
    <2>1. /\ j.num \in Nat /\ j.source \in Record /\ j.folder \in Folders
          /\ j.name \in Name /\ j # Idle
      BY <1>4, <1>a DEF RwInsert
    <2> DEFINE r == [id |-> j.num, s3Key |-> KeyOf(j),
                     originalName |-> j.source.originalName, content |-> j.source.content]
    <2>2. r \in Record
      BY <2>1, RecordForm, KeyForm DEF Record
    <2>3. /\ records' = records \cup {r} /\ Inserted(s)
          /\ UNCHANGED <<objects, begun, uuids, crashes, doomed, deleted>>
      BY <1>4, Zenon DEF RwInsert
    <2> QED BY <2>1, <2>2, <2>3, TypeInsert
  <1> QED BY <1>1, <1>2, <1>3, <1>4

LEMMA InsertingKey ==
    ASSUME TypeOK, NEW s \in Sessions, Inserting(s)
    PROVE  KeyOf(job[s]) \in Key
  <1>1. job[s] \in Jobs
    BY DEF TypeOK
  <1>2. job[s].folder \in Folders /\ job[s].name \in Name
    BY <1>1, JobForms, UploadForm DEF Inserting
  <1> QED BY <1>2, KeyForm

LEMMA TypeFailures ==
    ASSUME TypeOK, IdsUnique, Crash \/ \E s \in Sessions : CallFails(s)
    PROVE  TypeOK'
  <1>0. ASSUME NEW s \in Sessions, Withdrawing(s)
        PROVE  job[s].source.id \in published
    BY <1>0 DEF IdsUnique, HasSource, Withdrawing
  <1>1. ASSUME NEW s \in Sessions, CallFails(s) PROVE TypeOK'
    <2> DEFINE lost == IF Inserting(s) THEN {KeyOf(job[s])} ELSE {}
               half == IF Withdrawing(s) THEN {job[s].source.id} ELSE {}
    <2>1. lost \in SUBSET Key /\ half \in SUBSET published
      BY <1>0, InsertingKey
    <2>2. Throws(s, lost, half) /\ UNCHANGED <<stores, begun, uuids, crashes, history>>
      BY <1>1, Zenon DEF CallFails
    <2> HIDE DEF lost, half
    <2>3. JobsOK'
      BY <2>1, <2>2, ThrowsType, Zenon DEF JobsOK, history
    <2>4. StoresOK' /\ CountsOK' /\ HistoryOK'
      BY <2>2, TypeParts, Zenon DEF StoresOK, CountsOK, HistoryOK, history, stores
    <2> QED BY <2>3, <2>4, TypePartsNext
  <1>2. CASE Crash
    <2>1. UNCHANGED <<stores, begun, uuids, faults, history>>
      BY <1>2, Zenon DEF Crash
    <2>2. job' \in [Sessions -> Jobs]
      BY <1>2 DEF Crash, Jobs
    <2>3. abandoned' \subseteq Key /\ halfDeleted' \subseteq published
      BY <1>0, <1>2, InsertingKey DEF TypeOK, Crash
    <2>4. JobsOK'
      BY <2>1, <2>2, <2>3, TypeParts, Zenon DEF JobsOK, history
    <2>5. crashes' \in 0 .. MaxCrashes
      BY <1>2, BoundsAssumption DEF TypeOK, Crash, BoundsAssumption
    <2>6. StoresOK' /\ CountsOK' /\ HistoryOK'
      BY <2>1, <2>5, TypeParts, Zenon DEF StoresOK, CountsOK, HistoryOK, history, stores
    <2> QED BY <2>4, <2>6, TypePartsNext
  <1> QED BY <1>1, <1>2

LEMMA TypeStep ==
    ASSUME TypeOK, IdsFresh, IdsUnique, [Next]_vars
    PROVE  TypeOK'
  <1>1. CASE UNCHANGED vars
    BY <1>1, Zenon DEF vars, stores, history, TypeOK
  <1>2. CASE \E s \in Sessions : BeginAdd(s) \/ BeginDelete(s) \/ BeginRewrite(s)
    BY <1>2, TypeBegin
  <1>3. CASE \E s \in Sessions : StoreCall(s)
    BY <1>3, TypeAddCheck, TypeAddPut, TypeAddInsert, TypeDeletion, TypeCopying, TypeFailures
    DEF StoreCall
  <1>4. CASE Crash
    BY <1>4, TypeFailures
  <1> QED BY <1>1, <1>2, <1>3, <1>4 DEF Next

-----------------------------------------------------------------------------
(* Ids.  Whatever a step does, it does one of these things to the jobs, the *)
(* records and the ids.                                                     *)

SourceCalls == {"del_object", "del_record", "rw_head", "rw_copy", "rw_insert"}

(* s starts a job, which has read no record yet.                            *)
Starts(s) ==
    /\ job[s] = Idle
    /\ begun' = begun + 1
    /\ \E j : /\ job' = [job EXCEPT ![s] = j]
              /\ j.num = begun + 1
              /\ j.call \notin SourceCalls
    /\ UNCHANGED <<records, published, deleted>>

(* The job of s goes on, with the source it has or with one it has read.    *)
GoesOn(s) ==
    /\ job[s] # Idle
    /\ \E j : /\ job' = [job EXCEPT ![s] = j]
              /\ j.num = job[s].num
              /\ j.call \in SourceCalls =>
                    \/ HasSource(s) /\ j.source = job[s].source
                    \/ j.source \in records
    /\ UNCHANGED <<records, begun, published, deleted>>

(* The job of s ends, and if it was a deletion its record may be gone.      *)
Ends(s) ==
    /\ job[s] # Idle
    /\ job' = [job EXCEPT ![s] = Idle]
    /\ \/ UNCHANGED <<records, deleted>>
       \/ /\ HasSource(s)
          /\ records' = {r \in records : r.id # job[s].source.id}
          /\ deleted' \subseteq deleted \cup {job[s].source.id}
    /\ UNCHANGED <<begun, published>>

(* The job of s ends by inserting a record that has its number.             *)
Inserts(s) ==
    /\ job[s] # Idle
    /\ job' = [job EXCEPT ![s] = Idle]
    /\ published' = published \cup {job[s].num}
    /\ \E r : r.id = job[s].num /\ records' = records \cup {r}
    /\ UNCHANGED <<begun, deleted>>

(* All jobs end.                                                            *)
AllEnd ==
    /\ job' = [s \in Sessions |-> Idle]
    /\ UNCHANGED <<records, begun, published, deleted>>

LEMMA IdleForm == Idle.call \notin SourceCalls
  BY DEF Idle, SourceCalls

LEMMA StartsIds ==
    ASSUME TypeOK, IdsFresh, IdsUnique, AckedDeleted, NEW s \in Sessions, Starts(s)
    PROVE  IdsFresh' /\ IdsUnique' /\ AckedDeleted'
  <1>1. PICK j : job' = [job EXCEPT ![s] = j] /\ j.num = begun + 1 /\ j.call \notin SourceCalls
    BY Zenon DEF Starts
  <1>2. job \in [Sessions -> Jobs] /\ begun \in Nat /\ published \subseteq 1 .. begun
    BY DEF TypeOK
  <1>3. \A t \in Sessions : t # s => job'[t] = job[t]
    BY <1>1, <1>2
  <1>4. job'[s] = j
    BY <1>1, <1>2
  <1>5. begun + 1 \notin 1 .. begun /\ begun + 1 \notin published
        /\ begun + 1 \in 1 .. (begun + 1) /\ 1 .. begun \subseteq 1 .. (begun + 1)
    BY <1>2
  <1>6. begun' = begun + 1 /\ UNCHANGED <<records, published, deleted>>
    BY Zenon DEF Starts
  <1>7. IdsFresh'
    <2>1. \A t \in Sessions : job'[t] # Idle => job'[t].num \in (1 .. begun') \ published'
      BY <1>1, <1>3, <1>4, <1>5, <1>6 DEF IdsFresh
    <2>2. \A t \in Sessions : t # s /\ job[t] # Idle => job[t].num # begun + 1
      BY <1>5 DEF IdsFresh
    <2>3. \A t, u \in Sessions :
             t # u /\ job'[t] # Idle /\ job'[u] # Idle => job'[t].num # job'[u].num
      BY <1>1, <1>3, <1>4, <2>2, Zenon DEF IdsFresh
    <2> QED BY <2>1, <2>3, Zenon DEF IdsFresh
  <1>8. IdsUnique'
    <2>1. \A t \in Sessions : HasSource(t)' => HasSource(t) /\ job'[t] = job[t]
      BY <1>1, <1>3, <1>4, Zenon DEF HasSource, SourceCalls
    <2> QED BY <1>6, <2>1, Zenon DEF IdsUnique
  <1>9. AckedDeleted'
    BY <1>6, Zenon DEF AckedDeleted
  <1> QED BY <1>7, <1>8, <1>9

LEMMA GoesOnIds ==
    ASSUME TypeOK, IdsFresh, IdsUnique, AckedDeleted, NEW s \in Sessions, GoesOn(s)
    PROVE  IdsFresh' /\ IdsUnique' /\ AckedDeleted'
  <1>1. PICK j : /\ job' = [job EXCEPT ![s] = j]
                 /\ j.num = job[s].num
                 /\ j.call \in SourceCalls =>
                       \/ HasSource(s) /\ j.source = job[s].source
                       \/ j.source \in records
    BY Zenon DEF GoesOn
  <1>2. job \in [Sessions -> Jobs]
    BY DEF TypeOK
  <1>3. /\ \A t \in Sessions : t # s => job'[t] = job[t]
        /\ job'[s] = j
    BY <1>1, <1>2
  <1>4. job[s] # Idle /\ UNCHANGED <<records, begun, published, deleted>>
    BY Zenon DEF GoesOn
  <1>5. IdsFresh'
    <2>1. \A t \in Sessions : job'[t].num = job[t].num /\ (job'[t] # Idle => job[t] # Idle)
      BY <1>1, <1>3, <1>4, Zenon
    <2> QED BY <1>4, <2>1, Zenon DEF IdsFresh
  <1>6. IdsUnique'
    <2>1. ASSUME NEW t \in Sessions, HasSource(t)'
          PROVE  \/ HasSource(t) /\ job'[t].source = job[t].source
                 \/ job'[t].source \in records
      BY <1>1, <1>3, <2>1, Zenon DEF HasSource, SourceCalls
    <2>2. ASSUME NEW t \in Sessions, HasSource(t)'
          PROVE  /\ job'[t].source.id \in published
                 /\ \A r \in records : r.id = job'[t].source.id => r = job'[t].source
      <3>1. CASE HasSource(t) /\ job'[t].source = job[t].source
        BY <3>1, Zenon DEF IdsUnique
      <3>2. CASE job'[t].source \in records
        BY <3>2, Zenon DEF IdsUnique
      <3> QED BY <2>1, <2>2, <3>1, <3>2
    <2> QED BY <1>4, <2>2, Zenon DEF IdsUnique
  <1>7. AckedDeleted'
    BY <1>4, Zenon DEF AckedDeleted
  <1> QED BY <1>5, <1>6, <1>7

LEMMA EndsIds ==
    ASSUME TypeOK, IdsFresh, IdsUnique, AckedDeleted, NEW s \in Sessions, Ends(s)
    PROVE  IdsFresh' /\ IdsUnique' /\ AckedDeleted'
  <1>1. job \in [Sessions -> Jobs]
    BY DEF TypeOK
  <1>2. /\ \A t \in Sessions : t # s => job'[t] = job[t]
        /\ job'[s] = Idle /\ UNCHANGED <<begun, published>>
    BY <1>1 DEF Ends
  <1>3. records' \subseteq records
    BY DEF Ends
  <1>4. deleted' \subseteq published
    BY DEF Ends, IdsUnique
  <1>5. IdsFresh'
    BY <1>2, Zenon DEF IdsFresh
  <1>6. IdsUnique'
    <2>1. \A t \in Sessions : HasSource(t)' => HasSource(t) /\ job'[t] = job[t]
      BY <1>2, IdleForm, Zenon DEF HasSource, SourceCalls
    <2> QED BY <1>2, <1>3, <1>4, <2>1 DEF IdsUnique
  <1>7. AckedDeleted'
    BY DEF AckedDeleted, Ends
  <1> QED BY <1>5, <1>6, <1>7

LEMMA InsertsIds ==
    ASSUME TypeOK, IdsFresh, IdsUnique, AckedDeleted, NEW s \in Sessions, Inserts(s)
    PROVE  IdsFresh' /\ IdsUnique' /\ AckedDeleted'
  <1> DEFINE n == job[s].num
  <1>1. job \in [Sessions -> Jobs]
    BY DEF TypeOK
  <1>2. /\ \A t \in Sessions : t # s => job'[t] = job[t]
        /\ job'[s] = Idle /\ UNCHANGED <<begun, deleted>>
        /\ published' = published \cup {n}
    BY <1>1 DEF Inserts
  <1>3. PICK r : r.id = n /\ records' = records \cup {r}
    BY Zenon DEF Inserts
  <1>4. n \notin published /\ job[s] # Idle
    BY DEF IdsFresh, Inserts
  <1>5. IdsFresh'
    <2>1. \A t \in Sessions : job'[t] # Idle =>
             job'[t] = job[t] /\ t # s /\ job[t].num # n
      BY <1>2, <1>4, Zenon DEF IdsFresh
    <2> QED BY <1>2, <2>1 DEF IdsFresh
  <1>6. IdsUnique'
    <2>1. \A t \in Sessions : HasSource(t)' => HasSource(t) /\ job'[t] = job[t]
      BY <1>2, IdleForm, Zenon DEF HasSource, SourceCalls
    <2>2. \A q \in records : q.id # n
      BY <1>4 DEF IdsUnique
    <2>3. \A q, p \in records' : q.id = p.id => q = p
      BY <1>3, <2>2 DEF IdsUnique
    <2>4. \A q \in records' : q.id \in published'
      BY <1>2, <1>3 DEF IdsUnique
    <2>5. ASSUME NEW t \in Sessions, HasSource(t)'
          PROVE  /\ job'[t].source.id \in published'
                 /\ \A q \in records' : q.id = job'[t].source.id => q = job'[t].source
      <3>1. HasSource(t) /\ job'[t] = job[t]
        BY <2>1, <2>5
      <3>2. job[t].source.id \in published /\ job[t].source.id # n
        BY <1>4, <3>1 DEF IdsUnique
      <3> QED BY <1>2, <1>3, <3>1, <3>2 DEF IdsUnique
    <2>6. deleted' \subseteq published'
      BY <1>2 DEF IdsUnique
    <2> QED BY <2>3, <2>4, <2>5, <2>6, Zenon DEF IdsUnique
  <1>7. AckedDeleted'
    BY <1>2, <1>3, <1>4 DEF AckedDeleted, IdsUnique
  <1> QED BY <1>5, <1>6, <1>7

LEMMA AllEndIds ==
    ASSUME TypeOK, IdsFresh, IdsUnique, AckedDeleted, AllEnd
    PROVE  IdsFresh' /\ IdsUnique' /\ AckedDeleted'
  <1>1. \A t \in Sessions : job'[t] = Idle /\ ~HasSource(t)'
    BY IdleForm DEF AllEnd, HasSource, SourceCalls
  <1>2. UNCHANGED <<records, begun, published, deleted>>
    BY Zenon DEF AllEnd
  <1> QED BY <1>1, <1>2, Zenon DEF IdsFresh, IdsUnique, AckedDeleted

LEMMA BeginJob ==
    ASSUME NEW s \in Sessions, BeginAdd(s) \/ BeginDelete(s) \/ BeginRewrite(s)
    PROVE  \E j : /\ job' = [job EXCEPT ![s] = j]
                  /\ j.num = begun + 1
                  /\ j.call \notin SourceCalls
  <1>1. CASE BeginAdd(s)
    <2>1. PICK folder \in Folders, stem \in Stems :
             job' = [job EXCEPT ![s] =
                       [call |-> "add_check", num |-> begun + 1,
                        folder |-> folder, original |-> ClientName(stem),
                        name |-> prepare_filename(ClientName(stem), uuids), counter |-> 1]]
      BY <1>1, Zenon DEF BeginAdd
    <2> DEFINE j == [call |-> "add_check", num |-> begun + 1,
                     folder |-> folder, original |-> ClientName(stem),
                     name |-> prepare_filename(ClientName(stem), uuids), counter |-> 1]
    <2>2. j.num = begun + 1 /\ j.call \notin SourceCalls
      BY DEF SourceCalls
    <2>3. job' = [job EXCEPT ![s] = j]
      BY <2>1
    <2> HIDE DEF j
    <2> QED BY <2>2, <2>3, Zenon
  <1>2. CASE BeginDelete(s)
    <2>1. PICK id \in published :
             job' = [job EXCEPT ![s] =
                       [call |-> "del_find", num |-> begun + 1, id |-> id]]
      BY <1>2, Zenon DEF BeginDelete
    <2> DEFINE j == [call |-> "del_find", num |-> begun + 1, id |-> id]
    <2>2. j.num = begun + 1 /\ j.call \notin SourceCalls
      BY DEF SourceCalls
    <2>3. job' = [job EXCEPT ![s] = j]
      BY <2>1
    <2> HIDE DEF j
    <2> QED BY <2>2, <2>3, Zenon
  <1>3. CASE BeginRewrite(s)
    <2>1. PICK id \in published, folder \in Folders :
             job' = [job EXCEPT ![s] = [call |-> "rw_find", num |-> begun + 1,
                                        id |-> id, folder |-> folder]]
      BY <1>3, Zenon DEF BeginRewrite
    <2> DEFINE j == [call |-> "rw_find", num |-> begun + 1,
                     id |-> id, folder |-> folder]
    <2>2. j.num = begun + 1 /\ j.call \notin SourceCalls
      BY DEF SourceCalls
    <2>3. job' = [job EXCEPT ![s] = j]
      BY <2>1
    <2> HIDE DEF j
    <2> QED BY <2>2, <2>3, Zenon
  <1> QED BY <1>1, <1>2, <1>3

LEMMA Kinds ==
    ASSUME TypeOK, IdsFresh, IdsUnique, [Next]_vars
    PROVE  \/ UNCHANGED <<job, records, begun, published, deleted>>
           \/ AllEnd
           \/ \E s \in Sessions : Starts(s) \/ GoesOn(s) \/ Ends(s) \/ Inserts(s)
  <1>0. ASSUME NEW s \in Sessions
        PROVE  job[s] \in Jobs
    BY DEF TypeOK
  <1>1. CASE UNCHANGED vars
    BY <1>1, Zenon DEF vars
  <1>2. CASE Crash
    BY <1>2, Zenon DEF Crash, AllEnd, stores, history
  <1>3. ASSUME NEW s \in Sessions, NEW op, Begin(s, op),
               NEW j, job' = [job EXCEPT ![s] = j], j.num = begun + 1,
               j.call \notin SourceCalls
        PROVE  Starts(s)
    BY <1>3, Zenon DEF Begin, Starts, stores
  <1>4. CASE \E s \in Sessions : BeginAdd(s) \/ BeginDelete(s) \/ BeginRewrite(s)
    <2>1. PICK s \in Sessions : BeginAdd(s) \/ BeginDelete(s) \/ BeginRewrite(s)
      BY <1>4
    <2>2. PICK op : Begin(s, op)
      BY <2>1 DEF BeginAdd, BeginDelete, BeginRewrite
    <2> QED BY <1>3, <2>1, <2>2, BeginJob
  <1>5. ASSUME NEW s \in Sessions, job[s] # Idle,
               NEW j, Returns(s, j), j.num = job[s].num,
               j.call \in SourceCalls => \/ HasSource(s) /\ j.source = job[s].source
                                         \/ j.source \in records,
               UNCHANGED <<records, begun, published, deleted>>
        PROVE  GoesOn(s)
    BY <1>5, Zenon DEF Returns, GoesOn
  <1>6. ASSUME NEW s \in Sessions, job[s] # Idle, job' = [job EXCEPT ![s] = Idle],
               UNCHANGED <<records, begun, published, deleted>>
        PROVE  Ends(s)
    BY <1>6, Zenon DEF Ends
  <1>7. ASSUME NEW s \in Sessions, AddCheck(s) PROVE GoesOn(s)
    <2>1. job[s] \in Upload /\ job[s] # Idle /\ job[s].call \notin SourceCalls
      BY <1>0, <1>7, JobForms DEF AddCheck, SourceCalls
    <2>2. UNCHANGED <<records, begun, published, deleted>>
      BY <1>7, Zenon DEF AddCheck, stores, history
    <2>3. \E j : Returns(s, j) /\ j.num = job[s].num /\ j.call \notin SourceCalls
      <3>1. CASE Returns(s, [job[s] EXCEPT
                               !.original = Numbered(job[s].name, job[s].counter),
                               !.counter = @ + 1])
        <4>1. ASSUME NEW o, NEW c
              PROVE  LET j == [job[s] EXCEPT !.original = o, !.counter = c]
                     IN  j.num = job[s].num /\ j.call = job[s].call
          BY <2>1 DEF Upload
        <4> QED BY <2>1, <3>1, <4>1, Zenon
      <3>2. CASE Returns(s, [job[s] EXCEPT !.call = "add_put"])
        BY <2>1, <3>2 DEF Upload, SourceCalls
      <3>3. CASE Returns(s, [job[s] EXCEPT !.call = "add_put",
                               !.name = prepare_filename(job[s].original, uuids)])
        <4>1. ASSUME NEW n
              PROVE  LET j == [job[s] EXCEPT !.call = "add_put", !.name = n]
                     IN  j.num = job[s].num /\ j.call = "add_put"
          BY <2>1 DEF Upload
        <4>2. "add_put" \notin SourceCalls
          BY DEF SourceCalls
        <4> QED BY <3>3, <4>1, <4>2, Zenon
      <3> QED BY <1>7, <3>1, <3>2, <3>3, Zenon DEF AddCheck
    <2> QED BY <1>5, <2>1, <2>2, <2>3
  <1>8. ASSUME NEW s \in Sessions, AddPut(s) PROVE GoesOn(s) \/ Ends(s)
    <2>1. job[s] \in Upload /\ job[s] # Idle
      BY <1>0, <1>8, JobForms DEF AddPut
    <2>2. UNCHANGED <<records, begun, published, deleted>>
      BY <1>8, Zenon DEF AddPut, history
    <2> DEFINE j == [job[s] EXCEPT !.call = "add_insert"]
    <2>3. j.num = job[s].num /\ j.call \notin SourceCalls
      BY <2>1 DEF Upload, SourceCalls
    <2>4. Returns(s, j) \/ job' = [job EXCEPT ![s] = Idle]
      BY <1>8, Zenon DEF AddPut, Throws
    <2> QED BY <1>5, <1>6, <2>1, <2>2, <2>3, <2>4
  <1>9. ASSUME NEW s \in Sessions, AddInsert(s) \/ RwInsert(s) PROVE Inserts(s)
    <2>1. job[s] # Idle
      BY <1>9 DEF AddInsert, RwInsert, Idle
    <2>2. \E r : r.id = job[s].num /\ records' = records \cup {r}
      BY <1>9 DEF AddInsert, RwInsert
    <2>3. Inserted(s) /\ UNCHANGED <<begun, deleted>>
      BY <1>9, Zenon DEF AddInsert, RwInsert
    <2>4. job' = [job EXCEPT ![s] = Idle] /\ published' = published \cup {job[s].num}
      BY <2>3, Zenon DEF Inserted, Returns, Throws
    <2> QED BY <2>1, <2>2, <2>3, <2>4, Zenon DEF Inserts
  <1>10. ASSUME NEW s \in Sessions, DelFind(s) \/ RwFind(s) PROVE GoesOn(s) \/ Ends(s)
    <2>1. job[s] # Idle
      BY <1>10 DEF DelFind, RwFind, Idle
    <2>2. UNCHANGED <<records, begun, published, deleted>>
      BY <1>10, Zenon DEF DelFind, RwFind, stores, history
    <2>3. CASE Returns(s, Idle)
      BY <1>6, <2>1, <2>2, <2>3, Zenon DEF Returns
    <2>4. CASE \E j : Returns(s, j) /\ j.num = job[s].num /\ j.source \in records
      BY <1>5, <2>1, <2>2, <2>4
    <2>5. CASE DelFind(s)
      <3>1. ASSUME NEW r
            PROVE  LET j == [call |-> "del_object", num |-> job[s].num, source |-> r]
                   IN  j.num = job[s].num /\ j.source = r
        OBVIOUS
      <3> QED BY <2>3, <2>4, <2>5, <3>1, Zenon DEF DelFind
    <2>6. CASE RwFind(s)
      <3>1. ASSUME NEW r
            PROVE  LET j == [call |-> "rw_head", num |-> job[s].num, source |-> r,
                             folder |-> job[s].folder, name |-> r.originalName,
                             counter |-> 1]
                   IN  j.num = job[s].num /\ j.source = r
        OBVIOUS
      <3> QED BY <2>3, <2>4, <2>6, <3>1, Zenon DEF RwFind
    <2> QED BY <1>10, <2>5, <2>6
  <1>11. ASSUME NEW s \in Sessions, DelObject(s) PROVE GoesOn(s) \/ Ends(s)
    <2>1. job[s] # Idle /\ HasSource(s)
      BY <1>11 DEF DelObject, Idle, HasSource
    <2>2. UNCHANGED <<records, begun, published, deleted>>
      BY <1>11, Zenon DEF DelObject, history
    <2> DEFINE j == [job[s] EXCEPT !.call = "del_record"]
    <2>3. j.num = job[s].num /\ j.source = job[s].source
      BY <1>0, <1>11 DEF DelObject, Jobs, Idle, Upload, Deletion, Copying
    <2>4. Returns(s, j) \/ job' = [job EXCEPT ![s] = Idle]
      BY <1>11, Zenon DEF DelObject, Throws
    <2> QED BY <1>5, <1>6, <2>1, <2>2, <2>3, <2>4
  <1>12. ASSUME NEW s \in Sessions, DelRecord(s) PROVE Ends(s)
    <2>1. job[s] # Idle /\ HasSource(s)
      BY <1>12 DEF DelRecord, Idle, HasSource
    <2>2. job' = [job EXCEPT ![s] = Idle] /\ UNCHANGED <<begun, published>>
      BY <1>12, Zenon DEF DelRecord, Returns, Throws
    <2>3. /\ records' = {r \in records : r.id # job[s].source.id}
          /\ deleted' \subseteq deleted \cup {job[s].source.id}
      BY <1>12 DEF DelRecord
    <2> QED BY <2>1, <2>2, <2>3, Zenon DEF Ends
  <1>13. ASSUME NEW s \in Sessions, RwHead(s) \/ RwCopy(s) PROVE GoesOn(s) \/ Ends(s)
    <2>1. job[s] # Idle /\ HasSource(s)
      BY <1>13 DEF RwHead, RwCopy, Idle, HasSource
    <2>2. UNCHANGED <<records, begun, published, deleted>>
      BY <1>13, Zenon DEF RwHead, RwCopy, stores, history
    <2>3. ASSUME NEW n, NEW c
          PROVE  LET j == [job[s] EXCEPT !.name = n, !.counter = c]
                 IN  j.num = job[s].num /\ j.source = job[s].source
      BY <1>0, <1>13 DEF RwHead, RwCopy, Jobs, Idle, Upload, Deletion, Copying
    <2>4. ASSUME NEW c
          PROVE  LET j == [job[s] EXCEPT !.call = c]
                 IN  j.num = job[s].num /\ j.source = job[s].source
      BY <1>0, <1>13 DEF RwHead, RwCopy, Jobs, Idle, Upload, Deletion, Copying
    <2>5. \/ \E j : Returns(s, j) /\ j.num = job[s].num /\ j.source = job[s].source
          \/ job' = [job EXCEPT ![s] = Idle]
      <3>1. CASE RwHead(s)
        <4>1. CASE Returns(s, [job[s] EXCEPT
                                 !.name = Numbered(job[s].source.originalName, job[s].counter),
                                 !.counter = @ + 1])
          BY <2>3, <4>1, Zenon
        <4>2. CASE Returns(s, [job[s] EXCEPT !.call = "rw_copy"])
          BY <2>4, <4>2, Zenon
        <4> QED BY <3>1, <4>1, <4>2, Zenon DEF RwHead
      <3>2. CASE RwCopy(s)
        BY <2>4, <3>2, Zenon DEF RwCopy, Returns, Throws
      <3> QED BY <1>13, <3>1, <3>2
    <2> QED BY <1>5, <1>6, <2>1, <2>2, <2>5
  <1>14. ASSUME NEW s \in Sessions, CallFails(s) PROVE Ends(s)
    BY <1>6, <1>14, Zenon DEF CallFails, Throws, stores, history
  <1>15. CASE \E s \in Sessions : StoreCall(s)
    BY <1>7, <1>8, <1>9, <1>10, <1>11, <1>12, <1>13, <1>14, <1>15, Zenon DEF StoreCall
  <1> QED BY <1>1, <1>2, <1>4, <1>15, Zenon DEF Next

LEMMA IdsStep ==
    ASSUME TypeOK, IdsFresh, IdsUnique, AckedDeleted, [Next]_vars
    PROVE  IdsFresh' /\ IdsUnique' /\ AckedDeleted'
  <1>1. CASE UNCHANGED <<job, records, begun, published, deleted>>
    BY <1>1, Zenon DEF IdsFresh, IdsUnique, AckedDeleted, HasSource
  <1>2. CASE AllEnd
    BY <1>2, AllEndIds
  <1>3. CASE \E s \in Sessions : Starts(s) \/ GoesOn(s) \/ Ends(s) \/ Inserts(s)
    BY <1>3, StartsIds, GoesOnIds, EndsIds, InsertsIds
  <1> QED BY <1>1, <1>2, <1>3, Kinds

LEMMA IdsInit == Init => IdsFresh /\ IdsUnique /\ AckedDeleted
  BY IdleForm DEF Init, IdsFresh, IdsUnique, AckedDeleted, HasSource, SourceCalls

(* The ids that keep the jobs apart, and that make a deletion final.        *)
IdsOK == TypeOK /\ IdsFresh /\ IdsUnique /\ AckedDeleted

LEMMA IdsAlways == Spec => []IdsOK
  <1>1. Init => IdsOK
    BY TypeInit, IdsInit DEF IdsOK
  <1>2. IdsOK /\ [Next]_vars => IdsOK'
    BY TypeStep, IdsStep DEF IdsOK
  <1> QED BY <1>1, <1>2, PTL DEF Spec

(* Type correctness: the jobs of the three handlers keep their locals, and   *)
(* records and keys their form, whatever fails and however calls interleave. *)
THEOREM TypeCorrect == Spec => []TypeOK
  <1>1. IdsOK => TypeOK
    BY DEF IdsOK
  <1> QED BY <1>1, IdsAlways, PTL

(* A deletion that replied success is final: no upload, copy or late         *)
(* failure of another session brings a record of that id back.               *)
THEOREM DeletedStaysDeleted == Spec => []AckedDeleted
  <1>1. IdsOK => AckedDeleted
    BY DEF IdsOK
  <1> QED BY <1>1, IdsAlways, PTL

-----------------------------------------------------------------------------
(* Objects.                                                                 *)

Held(k) == \E s \in Sessions : Inserting(s) /\ KeyOf(job[s]) = k
Accounted(k) == Described(k) \/ Held(k) \/ k \in abandoned

LEMMA AccountedAll == OrphansAccounted <=> \A k \in DOMAIN objects : Accounted(k)
  BY Zenon DEF OrphansAccounted, Accounted, Held

LEMMA AccountedAllNext == OrphansAccounted' <=> \A k \in DOMAIN objects' : Accounted(k)'
  BY Zenon DEF OrphansAccounted, Accounted, Held

(* A step of s that withdraws nothing takes no description away, nor does   *)
(* one that was not inserting take away what other jobs hold.               *)
LEMMA DescribedKept ==
    ASSUME TypeOK, NEW s \in Sessions, NEW j, job' = [job EXCEPT ![s] = j],
           j.call # "del_record", records \subseteq records', NEW k, Described(k)
    PROVE  Described(k)'
  <1>1. PICK r \in records :
           /\ r.s3Key = k
           /\ \A t \in Sessions : ~(Withdrawing(t) /\ job[t].source.id = r.id)
    BY Zenon DEF Described
  <1>2. job'[s] = j /\ \A t \in Sessions : t # s => job'[t] = job[t]
    BY DEF TypeOK
  <1>3. \A t \in Sessions : ~(Withdrawing(t)' /\ job'[t].source.id = r.id)
    BY <1>1, <1>2, Zenon DEF Withdrawing
  <1>4. r \in records'
    OBVIOUS
  <1> QED BY <1>1, <1>3, <1>4, Zenon DEF Described

LEMMA HeldKept ==
    ASSUME TypeOK, NEW s \in Sessions, NEW j, job' = [job EXCEPT ![s] = j],
           NEW k, Held(k), ~Inserting(s) \/ KeyOf(job[s]) # k
    PROVE  Held(k)'
  <1>1. PICK t \in Sessions : Inserting(t) /\ KeyOf(job[t]) = k
    BY Zenon DEF Held
  <1>2. t # s /\ job'[t] = job[t]
    BY <1>1 DEF TypeOK
  <1> QED BY <1>1, <1>2, Zenon DEF Held, Inserting, KeyOf

LEMMA HeldNow ==
    ASSUME TypeOK, NEW s \in Sessions, NEW j, job' = [job EXCEPT ![s] = j],
           j.call \in {"add_insert", "rw_insert"}
    PROVE  Held(KeyOf(j))'
  <1>1. job'[s] = j
    BY DEF TypeOK
  <1> QED BY <1>1, Zenon DEF Held, Inserting, KeyOf

(* A step that puts no object and removes no record.                        *)
LEMMA KeepsAccounts ==
    ASSUME TypeOK, OrphansAccounted, NEW s \in Sessions, ~Inserting(s),
           NEW j, job' = [job EXCEPT ![s] = j], j.call # "del_record",
           DOMAIN objects' \subseteq DOMAIN objects, records' = records,
           abandoned \subseteq abandoned'
    PROVE  OrphansAccounted'
  <1>1. ASSUME NEW k \in DOMAIN objects'
        PROVE  Accounted(k)'
    <2>1. Accounted(k)
      BY AccountedAll
    <2>2. CASE Described(k)
      BY <2>2, DescribedKept DEF Accounted
    <2>3. CASE Held(k)
      BY <2>3, HeldKept DEF Accounted
    <2>4. CASE k \in abandoned
      BY <2>4 DEF Accounted
    <2> QED BY <2>1, <2>2, <2>3, <2>4 DEF Accounted
  <1> QED BY <1>1, AccountedAllNext

(* A step that puts an object under the key of its job.                     *)
LEMMA PutAccounted ==
    ASSUME TypeOK, OrphansAccounted, NEW s \in Sessions, ~Inserting(s),
           NEW j, j.call \in {"add_insert", "rw_insert"}, KeyOf(j) = KeyOf(job[s]),
           NEW content, objects' = Stored(KeyOf(job[s]), content),
           Returns(s, j) \/ Throws(s, {KeyOf(job[s])}, {}), records' = records
    PROVE  OrphansAccounted'
  <1> DEFINE key == KeyOf(job[s])
  <1>1. PICK i : /\ job' = [job EXCEPT ![s] = i] /\ i.call # "del_record"
                 /\ \/ i = j
                    \/ key \in abandoned'
    <2>1. CASE Returns(s, j)
      BY <2>1 DEF Returns
    <2>2. CASE Throws(s, {key}, {})
      <3>1. /\ job' = [job EXCEPT ![s] = Idle] /\ Idle.call # "del_record"
            /\ key \in abandoned'
        BY <2>2 DEF Throws, Idle
      <3> QED BY <3>1, Zenon
    <2> QED BY <2>1, <2>2
  <1>2. abandoned \subseteq abandoned'
    BY DEF Returns, Throws
  <1>3. DOMAIN objects' = DOMAIN objects \cup {key}
    BY DEF Stored
  <1>4. ASSUME NEW k, k = key
        PROVE  Accounted(k)'
    <2>1. CASE i = j
      <3>1. Held(KeyOf(j))'
        BY <1>1, <2>1, HeldNow
      <3> QED BY <1>4, <3>1, Zenon DEF Accounted
    <2>2. CASE key \in abandoned'
      BY <1>4, <2>2, Zenon DEF Accounted
    <2> QED BY <1>1, <2>1, <2>2
  <1>5. ASSUME NEW k \in DOMAIN objects
        PROVE  Accounted(k)'
    <2>1. Accounted(k)
      BY AccountedAll
    <2>2. CASE Described(k)
      BY <1>1, <2>2, DescribedKept DEF Accounted
    <2>3. CASE Held(k)
      BY <1>1, <2>3, HeldKept DEF Accounted
    <2>4. CASE k \in abandoned
      BY <1>2, <2>4 DEF Accounted
    <2> QED BY <2>1, <2>2, <2>3, <2>4 DEF Accounted
  <1> QED BY <1>3, <1>4, <1>5, AccountedAllNext

(* A step that inserts the record of the object its job has put.            *)
LEMMA InsertAccounted ==
    ASSUME TypeOK, IdsFresh, IdsUnique, OrphansAccounted, NEW s \in Sessions,
           Inserting(s), NEW r, r.id = job[s].num, r.s3Key = KeyOf(job[s]),
           records' = records \cup {r}, Inserted(s), objects' = objects
    PROVE  OrphansAccounted'
  <1>1. job' = [job EXCEPT ![s] = Idle] /\ abandoned \subseteq abandoned'
    BY DEF Inserted, Returns, Throws
  <1>2. Idle.call # "del_record" /\ records \subseteq records' /\ r \in records'
        /\ job[s] # Idle
    BY DEF Idle, Inserting
  <1>3. ASSUME NEW k, k = KeyOf(job[s])
        PROVE  Described(k)'
    <2>1. job'[s] = Idle /\ \A t \in Sessions : t # s => job'[t] = job[t]
      BY <1>1 DEF TypeOK
    <2>2. \A t \in Sessions : Withdrawing(t) => job[t].source.id # r.id
      BY <1>2 DEF IdsFresh, IdsUnique, HasSource, Withdrawing
    <2>3. \A t \in Sessions : ~(Withdrawing(t)' /\ job'[t].source.id = r.id)
      BY <1>2, <2>1, <2>2, Zenon DEF Withdrawing
    <2> QED BY <1>2, <1>3, <2>3, Zenon DEF Described
  <1>4. ASSUME NEW k \in DOMAIN objects
        PROVE  Accounted(k)'
    <2>1. Accounted(k)
      BY AccountedAll
    <2>2. CASE Described(k)
      BY <1>1, <1>2, <2>2, DescribedKept DEF Accounted
    <2>3. CASE Held(k) /\ k # KeyOf(job[s])
      BY <1>1, <2>3, HeldKept DEF Accounted
    <2>4. CASE k \in abandoned
      BY <1>1, <2>4 DEF Accounted
    <2>5. CASE k = KeyOf(job[s])
      BY <1>3, <2>5, Zenon DEF Accounted
    <2> QED BY <2>1, <2>2, <2>3, <2>4, <2>5 DEF Accounted
  <1> QED BY <1>4, AccountedAllNext

LEMMA DelObjectAccounted ==
    ASSUME TypeOK, IdsUnique, OrphansAccounted, NEW s \in Sessions, DelObject(s)
    PROVE  OrphansAccounted'
  <1> DEFINE r == job[s].source
             j == [job[s] EXCEPT !.call = "del_record"]
  <1>0. HasSource(s) /\ ~Inserting(s) /\ records' = records
    BY DEF DelObject, HasSource, Inserting
  <1>1. DOMAIN objects' = DOMAIN objects \ {r.s3Key}
    BY DEF DelObject
  <1>2. CASE Throws(s, {}, {r.id})
    <2>1. job' = [job EXCEPT ![s] = Idle] /\ Idle.call # "del_record"
          /\ abandoned \subseteq abandoned'
      BY <1>2 DEF Throws, Idle
    <2> QED BY <1>0, <1>1, <2>1, KeepsAccounts
  <1>3. CASE Returns(s, j)
    <2>1. job' = [job EXCEPT ![s] = j] /\ abandoned' = abandoned
      BY <1>3, Zenon DEF Returns
    <2>2. j.source = r
      <3>1. job[s] \in Jobs
        BY DEF TypeOK
      <3> QED BY <3>1 DEF DelObject, Jobs, Idle, Upload, Deletion, Copying
    <2>3. job'[s] = j /\ \A t \in Sessions : t # s => job'[t] = job[t]
      BY <2>1 DEF TypeOK
    <2> HIDE DEF j
    <2>4. ASSUME NEW k \in DOMAIN objects'
          PROVE  Accounted(k)'
      <3>1. Accounted(k) /\ k # r.s3Key
        BY <1>1, AccountedAll
      <3>2. CASE Described(k)
        <4>1. PICK q \in records :
                 /\ q.s3Key = k
                 /\ \A t \in Sessions : ~(Withdrawing(t) /\ job[t].source.id = q.id)
          BY <3>2, Zenon DEF Described
        <4>2. q.id # r.id
          BY <1>0, <3>1, <4>1 DEF IdsUnique
        <4>3. \A t \in Sessions : ~(Withdrawing(t)' /\ job'[t].source.id = q.id)
          BY <2>2, <2>3, <4>1, <4>2, Zenon DEF Withdrawing
        <4>4. Described(k)'
          BY <1>0, <4>1, <4>3, Zenon DEF Described
        <4> QED BY <4>4 DEF Accounted
      <3>3. CASE Held(k)
        BY <1>0, <2>1, <3>3, HeldKept DEF Accounted
      <3>4. CASE k \in abandoned
        BY <2>1, <3>4 DEF Accounted
      <3> QED BY <3>1, <3>2, <3>3, <3>4 DEF Accounted
    <2> QED BY <2>4, AccountedAllNext
  <1> QED BY <1>2, <1>3, Zenon DEF DelObject

LEMMA DelRecordAccounted ==
    ASSUME TypeOK, OrphansAccounted, NEW s \in Sessions, DelRecord(s)
    PROVE  OrphansAccounted'
  <1>1. /\ job' = [job EXCEPT ![s] = Idle] /\ Idle.call # "del_record"
        /\ abandoned \subseteq abandoned' /\ objects' = objects
        /\ records' = {r \in records : r.id # job[s].source.id}
    BY DEF DelRecord, Returns, Throws, Idle
  <1>2. Withdrawing(s) /\ ~Inserting(s)
    BY DEF DelRecord, Withdrawing, Inserting
  <1>3. job'[s] = Idle /\ \A t \in Sessions : t # s => job'[t] = job[t]
    BY <1>1 DEF TypeOK
  <1>4. ASSUME NEW k \in DOMAIN objects
        PROVE  Accounted(k)'
    <2>1. Accounted(k)
      BY AccountedAll
    <2>2. CASE Described(k)
      <3>1. PICK q \in records :
               /\ q.s3Key = k
               /\ \A t \in Sessions : ~(Withdrawing(t) /\ job[t].source.id = q.id)
        BY <2>2, Zenon DEF Described
      <3>2. q \in records'
        BY <1>1, <1>2, <3>1
      <3>3. \A t \in Sessions : ~(Withdrawing(t)' /\ job'[t].source.id = q.id)
        BY <1>1, <1>3, <3>1, Zenon DEF Withdrawing
      <3>4. Described(k)'
        BY <3>1, <3>2, <3>3, Zenon DEF Described
      <3> QED BY <3>4 DEF Accounted
    <2>3. CASE Held(k)
      BY <1>1, <1>2, <2>3, HeldKept DEF Accounted
    <2>4. CASE k \in abandoned
      BY <1>1, <2>4 DEF Accounted
    <2> QED BY <2>1, <2>2, <2>3, <2>4 DEF Accounted
  <1> QED BY <1>1, <1>4, AccountedAllNext

LEMMA CallFailsAccounted ==
    ASSUME TypeOK, OrphansAccounted, NEW s \in Sessions, CallFails(s)
    PROVE  OrphansAccounted'
  <1>1. /\ job' = [job EXCEPT ![s] = Idle] /\ Idle.call # "del_record"
        /\ abandoned \subseteq abandoned' /\ objects' = objects /\ records' = records
        /\ Inserting(s) => KeyOf(job[s]) \in abandoned'
    BY DEF CallFails, Throws, Idle, stores
  <1>2. ASSUME NEW k \in DOMAIN objects
        PROVE  Accounted(k)'
    <2>1. Accounted(k)
      BY AccountedAll
    <2>2. CASE Described(k)
      BY <1>1, <2>2, DescribedKept DEF Accounted
    <2>3. CASE Held(k) /\ (Inserting(s) => KeyOf(job[s]) # k)
      BY <1>1, <2>3, HeldKept DEF Accounted
    <2>4. CASE k \in abandoned \/ (Inserting(s) /\ KeyOf(job[s]) = k)
      BY <1>1, <2>4 DEF Accounted
    <2>5. Described(k) \/ Held(k) \/ k \in abandoned
      BY <2>1, Zenon DEF Accounted
    <2>6. (Inserting(s) => KeyOf(job[s]) # k) \/ (Inserting(s) /\ KeyOf(job[s]) = k)
      OBVIOUS
    <2> QED BY <2>2, <2>3, <2>4, <2>5, <2>6, Zenon
  <1> QED BY <1>1, <1>2, AccountedAllNext

LEMMA CrashAccounted ==
    ASSUME OrphansAccounted, Crash
    PROVE  OrphansAccounted'
  <1>1. /\ \A s \in Sessions : ~Withdrawing(s)'
        /\ abandoned \subseteq abandoned' /\ objects' = objects /\ records' = records
        /\ \A s \in Sessions : Inserting(s) => KeyOf(job[s]) \in abandoned'
    BY DEF Crash, Idle, Withdrawing, stores
  <1>2. ASSUME NEW k \in DOMAIN objects
        PROVE  Accounted(k)'
    <2>1. Accounted(k)
      BY AccountedAll
    <2>2. CASE Described(k)
      BY <1>1, <2>2, Zenon DEF Accounted, Described
    <2>3. CASE Held(k) \/ k \in abandoned
      BY <1>1, <2>3 DEF Accounted, Held
    <2> QED BY <2>1, <2>2, <2>3 DEF Accounted
  <1> QED BY <1>1, <1>2, AccountedAllNext

(* The calls that put no object and remove no record.                       *)
LEMMA ReadsAccounted ==
    ASSUME TypeOK, OrphansAccounted, NEW s \in Sessions,
           AddCheck(s) \/ DelFind(s) \/ RwFind(s) \/ RwHead(s)
    PROVE  OrphansAccounted'
  <1>1. ~Inserting(s) /\ UNCHANGED <<objects, records>>
    BY DEF AddCheck, DelFind, RwFind, RwHead, Inserting, stores
  <1>2. \E j : Returns(s, j) /\ j.call # "del_record"
    <2>1. CASE AddCheck(s)
      <3>1. job[s] \in Upload
        BY <2>1, JobForms DEF TypeOK, AddCheck
      <3>2. ASSUME NEW o, NEW c
            PROVE  [job[s] EXCEPT !.original = o, !.counter = c].call # "del_record"
        BY <2>1, <3>1 DEF AddCheck, Upload
      <3>3. ASSUME NEW n
            PROVE  [job[s] EXCEPT !.call = "add_put", !.name = n].call # "del_record"
        BY <2>1, <3>1 DEF AddCheck, Upload
      <3>4. [job[s] EXCEPT !.call = "add_put"].call # "del_record"
        BY <2>1, <3>1 DEF AddCheck, Upload
      <3>5. CASE Returns(s, [job[s] EXCEPT
                               !.original = Numbered(job[s].name, job[s].counter),
                               !.counter = @ + 1])
        BY <3>2, <3>5, Zenon
      <3>6. CASE Returns(s, [job[s] EXCEPT !.call = "add_put"])
        BY <3>4, <3>6, Zenon
      <3>7. CASE Returns(s, [job[s] EXCEPT !.call = "add_put",
                               !.name = prepare_filename(job[s].original, uuids)])
        BY <3>3, <3>7, Zenon
      <3> QED BY <2>1, <3>5, <3>6, <3>7, Zenon DEF AddCheck
    <2>2. Idle.call # "del_record"
      BY DEF Idle
    <2>3. CASE DelFind(s)
      <3>1. ASSUME NEW n, NEW r
            PROVE  [call |-> "del_object", num |-> n, source |-> r].call # "del_record"
        OBVIOUS
      <3> QED BY <2>2, <2>3, <3>1, Zenon DEF DelFind
    <2>4. CASE RwFind(s)
      <3>1. ASSUME NEW r
            PROVE  [call |-> "rw_head", num |-> job[s].num, source |-> r,
                    folder |-> job[s].folder, name |-> r.originalName,
                    counter |-> 1].call # "del_record"
        OBVIOUS
      <3> QED BY <2>2, <2>4, <3>1, Zenon DEF RwFind
    <2>5. CASE RwHead(s)
      <3>1. job[s] \in Jobs
        BY DEF TypeOK
      <3>2. ASSUME NEW n, NEW c
            PROVE  [job[s] EXCEPT !.name = n, !.counter = c].call # "del_record"
        BY <2>5, <3>1 DEF RwHead, Jobs, Idle, Upload, Deletion, Copying
      <3>3. [job[s] EXCEPT !.call = "rw_copy"].call # "del_record"
        BY <2>5, <3>1 DEF RwHead, Jobs, Idle, Upload, Deletion, Copying
      <3>4. CASE Returns(s, [job[s] EXCEPT
                               !.name = Numbered(job[s].source.originalName, job[s].counter),
                               !.counter = @ + 1])
        BY <3>2, <3>4, Zenon
      <3>5. CASE Returns(s, [job[s] EXCEPT !.call = "rw_copy"])
        BY <3>3, <3>5, Zenon
      <3> QED BY <2>5, <3>4, <3>5, Zenon DEF RwHead
    <2> QED BY <2>1, <2>3, <2>4, <2>5
  <1>3. PICK j : Returns(s, j) /\ j.call # "del_record"
    BY <1>2
  <1> QED BY <1>1, <1>3, KeepsAccounts DEF Returns

LEMMA BeginAccounted ==
    ASSUME TypeOK, OrphansAccounted, NEW s \in Sessions,
           BeginAdd(s) \/ BeginDelete(s) \/ BeginRewrite(s)
    PROVE  OrphansAccounted'
  <1>1. PICK op : Begin(s, op)
    BY DEF BeginAdd, BeginDelete, BeginRewrite
  <1>2. ~Inserting(s) /\ UNCHANGED <<objects, records, abandoned>>
    BY <1>1 DEF Begin, Idle, Inserting, stores
  <1>3. PICK j : job' = [job EXCEPT ![s] = j] /\ j.call # "del_record"
    BY BeginJob DEF SourceCalls
  <1> QED BY <1>2, <1>3, KeepsAccounts

LEMMA PutsAccounted ==
    ASSUME TypeOK, OrphansAccounted, NEW s \in Sessions, AddPut(s) \/ RwCopy(s)
    PROVE  OrphansAccounted'
  <1>1. ~Inserting(s) /\ records' = records
    BY DEF AddPut, RwCopy, Inserting
  <1>2. CASE AddPut(s)
    <2> DEFINE j == [job[s] EXCEPT !.call = "add_insert"]
    <2>1. job[s] \in Upload
      BY <1>2, JobForms DEF TypeOK, AddPut
    <2>2. j.call \in {"add_insert", "rw_insert"} /\ KeyOf(j) = KeyOf(job[s])
      BY <2>1 DEF Upload, KeyOf
    <2>3. /\ objects' = Stored(KeyOf(job[s]), job[s].num)
          /\ Returns(s, j) \/ Throws(s, {KeyOf(job[s])}, {})
      BY <1>2, Zenon DEF AddPut
    <2> HIDE DEF j
    <2> QED BY <1>1, <2>2, <2>3, PutAccounted
  <1>3. CASE RwCopy(s)
    <2> DEFINE j == [job[s] EXCEPT !.call = "rw_insert"]
    <2>1. job[s] \in Jobs
      BY DEF TypeOK
    <2>2. j.call \in {"add_insert", "rw_insert"} /\ KeyOf(j) = KeyOf(job[s])
      BY <1>3, <2>1 DEF RwCopy, Jobs, Idle, Upload, Deletion, Copying, KeyOf
    <2>3. CASE /\ objects' = Stored(KeyOf(job[s]), objects[job[s].source.s3Key])
               /\ Returns(s, j) \/ Throws(s, {KeyOf(job[s])}, {})
      <3> HIDE DEF j
      <3> QED BY <1>1, <2>2, <2>3, PutAccounted
    <2>4. CASE UNCHANGED objects /\ Returns(s, Idle)
      <3>1. /\ job' = [job EXCEPT ![s] = Idle] /\ Idle.call # "del_record"
            /\ objects' = objects /\ abandoned' = abandoned
        BY <2>4 DEF Returns, Idle
      <3> QED BY <1>1, <3>1, KeepsAccounts
    <2> QED BY <1>3, <2>3, <2>4, Zenon DEF RwCopy
  <1> QED BY <1>2, <1>3

LEMMA InsertsAccounted ==
    ASSUME TypeOK, IdsFresh, IdsUnique, OrphansAccounted, NEW s \in Sessions,
           AddInsert(s) \/ RwInsert(s)
    PROVE  OrphansAccounted'
  <1>1. Inserting(s) /\ Inserted(s) /\ objects' = objects
    BY Zenon DEF AddInsert, RwInsert, Inserting
  <1>2. \E r : /\ r.id = job[s].num /\ r.s3Key = KeyOf(job[s])
               /\ records' = records \cup {r}
    BY DEF AddInsert, RwInsert
  <1> QED BY <1>1, <1>2, InsertAccounted

LEMMA AccountedStep ==
    ASSUME TypeOK, IdsFresh, IdsUnique, OrphansAccounted, [Next]_vars
    PROVE  OrphansAccounted'
  <1>1. CASE UNCHANGED vars
    BY <1>1, Zenon DEF vars, OrphansAccounted, Described, Withdrawing, Inserting, KeyOf
  <1>2. CASE \E s \in Sessions : BeginAdd(s) \/ BeginDelete(s) \/ BeginRewrite(s)
    BY <1>2, BeginAccounted
  <1>3. CASE \E s \in Sessions : StoreCall(s)
    BY <1>3, ReadsAccounted, PutsAccounted, InsertsAccounted, DelObjectAccounted,
       DelRecordAccounted, CallFailsAccounted, Zenon DEF StoreCall
  <1>4. CASE Crash
    BY <1>4, CrashAccounted
  <1> QED BY <1>1, <1>2, <1>3, <1>4 DEF Next

(* Storage leaks only where the code can fail between its stores: whatever   *)
(* sessions, names and interleavings, an object without a record belongs to  *)
(* a job that is about to insert one, or to one that died there.             *)
THEOREM OrphansAlwaysAccounted == Spec => []OrphansAccounted
  <1>1. Init => OrphansAccounted
    BY DEF Init, OrphansAccounted
  <1>2. IdsOK /\ OrphansAccounted /\ [Next]_vars => OrphansAccounted'
    BY AccountedStep DEF IdsOK
  <1> QED BY <1>1, <1>2, IdsAlways, PTL DEF Spec

=============================================================================
