----------------------------- MODULE QueriesProofs -----------------------------
(***************************************************************************)
(* Proofs about Queries: what a reply says of the files, for any number of *)
(* sessions that upload, copy and delete meanwhile and whatever fails.     *)
(***************************************************************************)
EXTENDS Queries, UploadProofs

-----------------------------------------------------------------------------
(* What queries do to the stores: nothing, but that their calls may fail    *)
(* too.                                                                     *)

OnlyFault ==
    /\ faults < MaxFaults /\ faults' = faults + 1
    /\ UNCHANGED <<objects, records, job, begun, uuids, crashes, history,
                   abandoned, halfDeleted>>

(* The step of a query leaves alone what it remembers of the stores.        *)
Quiet ==
    /\ UNCHANGED vars \/ OnlyFault
    /\ UNCHANGED <<queries, steady, seen, known, erased>>

LEMMA Answers ==
    ASSUME NEW q, Answering(q)
    PROVE  Quiet /\ query' = q
  BY DEF Answering, Quiet

LEMMA Throwing ==
    ASSUME SizeThrows
    PROVE  Quiet /\ query' = NoQuery
  BY DEF SizeThrows, Quiet

LEMMA QuietCalls ==
    ASSUME \/ ListFind \/ ListFolders \/ IdsNext \/ IdsReply
           \/ PathFolder \/ PathFile \/ FilePath \/ QueryFails \/ Deliver
    PROVE  Quiet
  <1>1. CASE ListFind
    BY <1>1, Answers, Zenon DEF ListFind
  <1>2. CASE ListFolders
    BY <1>2, Answers, Zenon DEF ListFolders
  <1>3. CASE IdsNext
    <2>1. CASE faults' = faults + 1
      BY <1>3, <2>1, Answers, Zenon DEF IdsNext, Quiet, OnlyFault
    <2> QED BY <1>3, <2>1, Answers, Zenon DEF IdsNext
  <1>4. CASE IdsReply \/ Deliver
    BY <1>4, Answers, Zenon DEF IdsReply, Deliver
  <1>5. CASE PathFolder
    BY <1>5, Answers, Zenon DEF PathFolder
  <1>6. CASE PathFile \/ FilePath
    BY <1>6, Answers, Throwing, Zenon DEF PathFile, FilePath
  <1>7. CASE QueryFails
    BY <1>7, Zenon DEF QueryFails, Quiet, OnlyFault
  <1> QED BY <1>1, <1>2, <1>3, <1>4, <1>5, <1>6, <1>7

LEMMA BeginsQuietly ==
    ASSUME BeginList \/ BeginIds \/ BeginPathInf \/ BeginFilePath
    PROVE  /\ \E q : BeginQuery(q)
           /\ UNCHANGED vars
  BY Zenon DEF BeginList, BeginIds, BeginPathInf, BeginFilePath, BeginPath, BeginQuery

LEMMA StoresMove ==
    ASSUME [QNext]_allVars
    PROVE  [Next]_vars \/ OnlyFault
  <1>1. CASE UNCHANGED allVars
    BY <1>1, Zenon DEF allVars
  <1>2. CASE StoreStep
    BY <1>2, Zenon DEF StoreStep
  <1>3. CASE BeginList \/ BeginIds \/ BeginPathInf \/ BeginFilePath
    BY <1>3, BeginsQuietly, Zenon
  <1>4. CASE \/ ListFind \/ ListFolders \/ IdsNext \/ IdsReply
             \/ PathFolder \/ PathFile \/ FilePath \/ QueryFails \/ Deliver
    BY <1>4, QuietCalls, Zenon DEF Quiet
  <1> QED BY <1>1, <1>2, <1>3, <1>4, Zenon DEF QNext

(* So what holds of the stores alone holds beside queries.                  *)
LEMMA FaultKeeps ==
    ASSUME OnlyFault
    PROVE  /\ IdsOK => IdsOK'
           /\ DoomedInv => DoomedInv'
           /\ UploadInv => UploadInv'
  <1>1. /\ faults < MaxFaults /\ faults' = faults + 1
        /\ UNCHANGED <<objects, records, job, begun, uuids, crashes, published, doomed,
                       acked, deleted, abandoned, halfDeleted>>
    BY DEF OnlyFault, history
  <1>2. ASSUME TypeOK PROVE TypeOK'
    <2>1. faults' \in 0 .. MaxFaults
      BY <1>1, <1>2, BoundsAssumption DEF TypeOK, BoundsAssumption
    <2> QED BY <1>1, <1>2, <2>1, Zenon DEF TypeOK
  <1>3. IdsFresh /\ IdsUnique /\ AckedDeleted => IdsFresh' /\ IdsUnique' /\ AckedDeleted'
    BY <1>1, Zenon DEF IdsFresh, IdsUnique, AckedDeleted, HasSource
  <1>4. DoomedInv => DoomedInv'
    BY <1>1, Zenon DEF DoomedInv, DeletesDoomed, AckedRecorded, JobDoomed
  <1>5. UploadInv => UploadInv'
    BY <1>1, UploadStutter
  <1> QED BY <1>2, <1>3, <1>4, <1>5 DEF IdsOK

StoresInv == IdsOK /\ DoomedInv

LEMMA StoresKept ==
    ASSUME StoresInv, [QNext]_allVars
    PROVE  /\ StoresInv'
           /\ \A r \in records : r \in records' \/ r.id \in doomed'
           /\ doomed \subseteq doomed'
  <1>1. CASE OnlyFault
    BY <1>1, FaultKeeps DEF StoresInv, OnlyFault, history
  <1>2. CASE [Next]_vars
    <2>1. IdsOK'
      BY <1>2, TypeStep, IdsStep DEF StoresInv, IdsOK
    <2>2. DoomedInv' /\ \A r \in records : r \in records' \/ r.id \in doomed'
      BY <1>2, DoomedStep DEF StoresInv, IdsOK
    <2>3. doomed \subseteq doomed'
      BY <1>2, DoomedGrows
    <2> QED BY <2>1, <2>2, <2>3 DEF StoresInv
  <1> QED BY <1>1, <1>2, StoresMove

LEMMA StoresAlways == QSpec => []StoresInv
  <1>1. QInit => StoresInv
    BY TypeInit, IdsInit, DoomedInit DEF QInit, StoresInv, IdsOK
  <1>2. StoresInv /\ [QNext]_allVars => StoresInv'
    BY StoresKept
  <1> QED BY <1>1, <1>2, PTL DEF QSpec

-----------------------------------------------------------------------------
(* The forms of a query.                                                    *)

Segments_ == {SegmentIn[f][g] : f \in Folders, g \in Folders}
Item == [id : Nat, record : SUBSET Record]
Paths ==
    FolderPaths \cup [kind : {"key"}, key : Key]
    \cup [kind : {"name"}, folder : Folders, name : Name] \cup {Hidden}

Lists_ ==
    [op : {"list"}, call : {"list_find", "list_folders"}, folder : Folders,
     files : SUBSET Record]
Listed ==
    [op : {"list"}, call : {"reply"}, folder : Folders, files : SUBSET Record,
     folders : SUBSET Segments_]
Ids_ == [op : {"ids"}, call : {"ids_next", "reply"}, asked : Seq(Nat), items : Seq(Item)]
PathInfs == [op : {"path_inf"}, call : {"path_folder", "path_file"}, path : Paths]
FilePaths_ == [op : {"file_path"}, call : {"file_path"}, path : Paths]
PathReplies ==
    [op : {"path_inf", "file_path"}, call : {"reply"}, path : Paths,
     result : {"folder", "file", "not exist"}, found : SUBSET Record]

QueryForms ==
    {NoQuery} \cup Lists_ \cup Listed \cup Ids_ \cup PathInfs \cup FilePaths_
    \cup PathReplies

QTypeOK ==
    /\ query \in QueryForms
    /\ queries \in 0 .. MaxQueries
    /\ steady \subseteq Record /\ seen \subseteq Record
    /\ known \subseteq Nat /\ erased \subseteq Nat

(* The call a query makes next says which query it is.                      *)
LEMMA CallsOf ==
    /\ NoQuery.call = "none"
    /\ \A q \in Lists_ : q.op = "list" /\ q.call \in {"list_find", "list_folders"}
    /\ \A q \in Listed : q.op = "list" /\ q.call = "reply"
    /\ \A q \in Ids_ : q.op = "ids" /\ q.call \in {"ids_next", "reply"}
    /\ \A q \in PathInfs : q.op = "path_inf" /\ q.call \in {"path_folder", "path_file"}
    /\ \A q \in FilePaths_ : q.op = "file_path" /\ q.call = "file_path"
    /\ \A q \in PathReplies : q.op \in {"path_inf", "file_path"} /\ q.call = "reply"
  <1>1. NoQuery.call = "none"
    BY DEF NoQuery
  <1>2. \A q \in Lists_ : q.op = "list" /\ q.call \in {"list_find", "list_folders"}
    BY DEF Lists_
  <1>3. \A q \in Listed : q.op = "list" /\ q.call = "reply"
    BY DEF Listed
  <1>4. \A q \in Ids_ : q.op = "ids" /\ q.call \in {"ids_next", "reply"}
    BY DEF Ids_
  <1>5. \A q \in PathInfs : q.op = "path_inf" /\ q.call \in {"path_folder", "path_file"}
    BY DEF PathInfs
  <1>6. \A q \in FilePaths_ : q.op = "file_path" /\ q.call = "file_path"
    BY DEF FilePaths_
  <1>7. \A q \in PathReplies : q.op \in {"path_inf", "file_path"} /\ q.call = "reply"
    BY DEF PathReplies
  <1> QED BY <1>1, <1>2, <1>3, <1>4, <1>5, <1>6, <1>7

LEMMA QueryOf ==
    ASSUME NEW q \in QueryForms
    PROVE  /\ q.call = "none" <=> q = NoQuery
           /\ q.call \in {"list_find", "list_folders"} => q \in Lists_
           /\ q.call = "ids_next" => q \in Ids_
           /\ q.call \in {"path_folder", "path_file"} => q \in PathInfs
           /\ q.call = "file_path" => q \in FilePaths_
  BY CallsOf DEF QueryForms

LEMMA ReplyOf ==
    ASSUME NEW q \in QueryForms, q.call = "reply"
    PROVE  /\ q.op = "list" => q \in Listed
           /\ q.op = "ids" => q \in Ids_
           /\ q.op \in {"path_inf", "file_path"} => q \in PathReplies
  BY CallsOf DEF QueryForms

LEMMA PathsOfRecords ==
    ASSUME TypeOK
    PROVE  FolderPaths \cup FilePaths \cup {Hidden} \subseteq Paths
  <1>1. \A r \in records : /\ r.s3Key \in Key /\ r.s3Key.folder \in Folders
                           /\ r.originalName \in Name
    <2>1. \A r \in records : r \in Record
      BY DEF TypeOK
    <2>2. \A r \in records : r.s3Key \in Key /\ r.originalName \in Name
      BY <2>1, RecordForm
    <2> QED BY <2>2 DEF Key
  <1>2. FilePaths \subseteq Paths
    BY <1>1 DEF FilePaths, Paths
  <1> QED BY <1>2 DEF Paths

(* What the steps of a query answer with.                                   *)
LEMMA BeginForms ==
    ASSUME TypeOK, NEW q,
           \/ \E f \in Folders : q = [op |-> "list", call |-> "list_find",
                                      folder |-> f, files |-> {}]
           \/ \E a, b \in published : q = [op |-> "ids", call |-> "ids_next",
                                           asked |-> <<a, b>>, items |-> <<>>]
           \/ \E path \in FolderPaths \cup FilePaths \cup {Hidden} :
                 \/ q = [op |-> "path_inf", call |-> "path_folder", path |-> path]
                 \/ q = [op |-> "file_path", call |-> "file_path", path |-> path]
    PROVE  q \in QueryForms
  <1>1. CASE \E f \in Folders : q = [op |-> "list", call |-> "list_find",
                                     folder |-> f, files |-> {}]
    <2>1. q \in Lists_
      BY <1>1 DEF Lists_
    <2> QED BY <2>1 DEF QueryForms
  <1>2. CASE \E a, b \in published : q = [op |-> "ids", call |-> "ids_next",
                                          asked |-> <<a, b>>, items |-> <<>>]
    <2>1. PICK a \in published, b \in published :
             q = [op |-> "ids", call |-> "ids_next", asked |-> <<a, b>>, items |-> <<>>]
      BY <1>2
    <2>2. a \in Nat /\ b \in Nat
      BY DEF TypeOK
    <2>3. <<a, b>> \in Seq(Nat) /\ <<>> \in Seq(Item)
      BY <2>2
    <2>4. q \in Ids_
      BY <2>1, <2>3 DEF Ids_
    <2> QED BY <2>4 DEF QueryForms
  <1>3. CASE \E path \in FolderPaths \cup FilePaths \cup {Hidden} :
                q = [op |-> "path_inf", call |-> "path_folder", path |-> path]
    <2>1. PICK path \in Paths :
             q = [op |-> "path_inf", call |-> "path_folder", path |-> path]
      BY <1>3, PathsOfRecords
    <2>2. q \in PathInfs
      BY <2>1 DEF PathInfs
    <2> QED BY <2>2 DEF QueryForms
  <1>4. CASE \E path \in FolderPaths \cup FilePaths \cup {Hidden} :
                q = [op |-> "file_path", call |-> "file_path", path |-> path]
    <2>1. PICK path \in Paths :
             q = [op |-> "file_path", call |-> "file_path", path |-> path]
      BY <1>4, PathsOfRecords
    <2>2. q \in FilePaths_
      BY <2>1 DEF FilePaths_
    <2> QED BY <2>2 DEF QueryForms
  <1> QED BY <1>1, <1>2, <1>3, <1>4

(* A query begins.                                                          *)
LEMMA Begins ==
    ASSUME TypeOK, BeginList \/ BeginIds \/ BeginPathInf \/ BeginFilePath
    PROVE  /\ query' \in QueryForms
           /\ query'.call \in {"list_find", "ids_next", "path_folder", "file_path"}
           /\ query'.call = "list_find" => query'.files = {}
           /\ query'.call = "ids_next" => query'.items = <<>>
           /\ queries < MaxQueries /\ queries' = queries + 1
           /\ steady' = records /\ seen' = records /\ known' = acked /\ erased' = deleted
           /\ UNCHANGED vars
  <1>1. PICK q : /\ BeginQuery(q)
                 /\ \/ \E f \in Folders : q = [op |-> "list", call |-> "list_find",
                                               folder |-> f, files |-> {}]
                    \/ \E a, b \in published : q = [op |-> "ids", call |-> "ids_next",
                                                    asked |-> <<a, b>>, items |-> <<>>]
                    \/ \E path \in FolderPaths \cup FilePaths \cup {Hidden} :
                          \/ q = [op |-> "path_inf", call |-> "path_folder", path |-> path]
                          \/ q = [op |-> "file_path", call |-> "file_path", path |-> path]
    BY Zenon DEF BeginList, BeginIds, BeginPathInf, BeginFilePath, BeginPath
  <1>2. q \in QueryForms
    BY <1>1, BeginForms
  <1>3. /\ q.call \in {"list_find", "ids_next", "path_folder", "file_path"}
        /\ q.call = "list_find" => q.files = {}
        /\ q.call = "ids_next" => q.items = <<>>
    BY <1>1
  <1> QED BY <1>1, <1>2, <1>3 DEF BeginQuery

(* A listing goes on.                                                       *)
LEMMA FindForm ==
    ASSUME QTypeOK, TypeOK, ListFind
    PROVE  /\ query \in Lists_ /\ query' \in Lists_ /\ query'.folder = query.folder
           /\ \/ \E r \in records : /\ r.s3Key.folder = query.folder
                                    /\ query'.files = query.files \cup {r}
                                    /\ query'.call = "list_find"
              \/ /\ query'.files = query.files /\ query'.call = "list_folders"
                 /\ {r \in steady : r.s3Key.folder = query.folder} \subseteq query.files
  <1>1. query \in Lists_ /\ query.call = "list_find"
    BY QueryOf DEF QTypeOK, ListFind
  <1>2. CASE \E r \in records \ query.files :
                /\ r.s3Key.folder = query.folder
                /\ Answering([query EXCEPT !.files = @ \cup {r}])
    <2>1. PICK r \in records :
             /\ r.s3Key.folder = query.folder
             /\ query' = [query EXCEPT !.files = @ \cup {r}]
      BY <1>2 DEF Answering
    <2>2. r \in Record
      BY DEF TypeOK
    <2> QED BY <1>1, <2>1, <2>2 DEF Lists_
  <1>3. CASE /\ {r \in steady : r.s3Key.folder = query.folder} \subseteq query.files
             /\ Answering([query EXCEPT !.call = "list_folders"])
    <2>1. query' = [query EXCEPT !.call = "list_folders"]
      BY <1>3, Zenon DEF Answering
    <2> QED BY <1>1, <1>3, <2>1 DEF Lists_
  <1> QED BY <1>2, <1>3, Zenon DEF ListFind

LEMMA FoldersForm ==
    ASSUME QTypeOK, TypeOK, ListFolders
    PROVE  /\ query \in Lists_ /\ query.call = "list_folders" /\ query' \in Listed
           /\ query'.folder = query.folder /\ query'.files = query.files
           /\ \A r \in steady : Below(query.folder, r.s3Key.folder) =>
                 SegmentIn[query.folder][r.s3Key.folder] \in query'.folders
  <1>1. query \in Lists_ /\ query.call = "list_folders"
    BY QueryOf DEF QTypeOK, ListFolders
  <1>2. PICK others \in SUBSET (records \ steady) :
           query' = [op |-> "list", call |-> "reply", folder |-> query.folder,
                     files |-> query.files,
                     folders |-> {SegmentIn[query.folder][r.s3Key.folder] :
                                     r \in steady \cup others}
                                 \ {NoSegment}]
    BY Zenon DEF ListFolders, Answering
  <1> DEFINE folders == {SegmentIn[query.folder][r.s3Key.folder] : r \in steady \cup others}
                        \ {NoSegment}
  <1>3. query.folder \in Folders /\ query.files \subseteq Record
    BY <1>1 DEF Lists_
  <1>4. \A r \in steady \cup others : r.s3Key.folder \in Folders
    <2>1. \A r \in steady \cup others : r \in Record
      BY <1>2 DEF QTypeOK, TypeOK
    <2>2. \A r \in steady \cup others : r.s3Key \in Key
      BY <2>1, RecordForm
    <2> QED BY <2>2 DEF Key
  <1>5. folders \subseteq Segments_
    BY <1>3, <1>4 DEF Segments_
  <1>6. \A r \in steady : Below(query.folder, r.s3Key.folder) =>
           SegmentIn[query.folder][r.s3Key.folder] \in folders
    BY DEF Below
  <1>7. query' = [op |-> "list", call |-> "reply", folder |-> query.folder,
                  files |-> query.files, folders |-> folders]
    BY <1>2, Zenon
  <1> HIDE DEF folders
  <1> QED BY <1>1, <1>3, <1>5, <1>6, <1>7 DEF Listed

(* An id is looked up, or its find_one throws.                              *)
LEMMA IdsForm ==
    ASSUME QTypeOK, TypeOK, IdsNext
    PROVE  /\ query \in Ids_ /\ query.call = "ids_next"
           /\ Len(query.items) < Len(query.asked)
           /\ \E found \in SUBSET records :
                 LET id == query.asked[Len(query.items) + 1] IN
                 /\ \A r \in found : r.id = id
                 /\ query' = [query EXCEPT !.items =
                                 Append(query.items, [id |-> id, record |-> found])]
           /\ query' \in Ids_
  <1>1. query \in Ids_ /\ query.call = "ids_next" /\ Len(query.items) < Len(query.asked)
    BY QueryOf, Zenon DEF QTypeOK, IdsNext
  <1> DEFINE id == query.asked[Len(query.items) + 1]
             With(found) == [query EXCEPT !.items =
                                Append(query.items, [id |-> id, record |-> found])]
  <1>2. \E found \in SUBSET records : /\ \A r \in found : r.id = id
                                      /\ query' = With(found)
    <2>1. CASE \E r \in records : r.id = id /\ query' = With({r})
      <3>1. PICK r \in records : r.id = id /\ query' = With({r})
        BY <2>1
      <3>2. {r} \in SUBSET records /\ \A q \in {r} : q.id = id
        BY <3>1
      <3> QED BY <3>1, <3>2, Zenon
    <2>2. CASE query' = With({})
      <3>1. {} \in SUBSET records /\ \A q \in {} : q.id = id
        OBVIOUS
      <3> QED BY <2>2, <3>1, Zenon
    <2>3. \/ \E r \in records : r.id = id /\ query' = With({r})
          \/ query' = With({})
      BY Zenon DEF IdsNext, Answering
    <2> QED BY <2>1, <2>2, <2>3
  <1>3. PICK found \in SUBSET records : query' = With(found)
    BY <1>2
  <1>4. id \in Nat
    BY <1>1 DEF Ids_
  <1>5. [id |-> id, record |-> found] \in Item
    BY <1>4 DEF TypeOK, Item
  <1>6. Append(query.items, [id |-> id, record |-> found]) \in Seq(Item)
    BY <1>1, <1>5 DEF Ids_
  <1>7. query' \in Ids_
    BY <1>1, <1>3, <1>6 DEF Ids_
  <1> QED BY <1>1, <1>2, <1>7, Zenon

LEMMA IdsReplyForm ==
    ASSUME QTypeOK, IdsReply
    PROVE  /\ query \in Ids_ /\ Len(query.items) = Len(query.asked)
           /\ query' = [query EXCEPT !.call = "reply"]
           /\ query' \in Ids_
  <1>1. query \in Ids_ /\ Len(query.items) = Len(query.asked)
    BY QueryOf, Zenon DEF QTypeOK, IdsReply
  <1>2. query' = [query EXCEPT !.call = "reply"]
    BY Zenon DEF IdsReply, Answering
  <1> QED BY <1>1, <1>2 DEF Ids_

(* A path is looked up.                                                     *)
LEMMA PathReplyForm ==
    ASSUME NEW result \in {"folder", "file", "not exist"}, NEW found \in SUBSET records, TypeOK,
           query \in PathInfs \cup FilePaths_
    PROVE  PathReply(result, found) \in PathReplies
  BY DEF PathInfs, FilePaths_, PathReply, PathReplies, TypeOK

LEMMA PathFolderForm ==
    ASSUME QTypeOK, TypeOK, PathFolder
    PROVE  /\ query \in PathInfs
           /\ \/ \E r \in records : /\ Contains(query.path, r)
                                    /\ query' = PathReply("folder", {r})
              \/ HasPlaceholder(query.path) /\ query' = PathReply("folder", {})
              \/ /\ ~HasPlaceholder(query.path)
                 /\ \A r \in records : ~Contains(query.path, r)
                 /\ \/ query.path.kind = "slash" /\ query' = PathReply("not exist", {})
                    \/ query' = [query EXCEPT !.call = "path_file"]
           /\ query' \in QueryForms
  <1>1. query \in PathInfs
    BY QueryOf, Zenon DEF QTypeOK, PathFolder
  <1>2. \/ \E r \in records : Contains(query.path, r) /\ query' = PathReply("folder", {r})
        \/ HasPlaceholder(query.path) /\ query' = PathReply("folder", {})
        \/ /\ ~HasPlaceholder(query.path)
           /\ \A r \in records : ~Contains(query.path, r)
           /\ \/ query.path.kind = "slash" /\ query' = PathReply("not exist", {})
              \/ query' = [query EXCEPT !.call = "path_file"]
    BY Zenon DEF PathFolder, Answering
  <1>3. \A r \in records : {r} \in SUBSET records
    OBVIOUS
  <1>4. \A r \in records : PathReply("folder", {r}) \in PathReplies
    BY <1>1, <1>3, PathReplyForm
  <1>5. PathReply("folder", {}) \in PathReplies /\ PathReply("not exist", {}) \in PathReplies
    BY <1>1, PathReplyForm
  <1>6. [query EXCEPT !.call = "path_file"] \in PathInfs
    BY <1>1 DEF PathInfs
  <1>7. query' \in QueryForms
    BY <1>2, <1>4, <1>5, <1>6, Zenon DEF QueryForms
  <1> QED BY <1>1, <1>2, <1>7

LEMMA PathFileForm ==
    ASSUME QTypeOK, TypeOK, PathFile
    PROVE  /\ query \in PathInfs /\ query.call = "path_file"
           /\ \/ query' = NoQuery
              \/ \E r \in records : Names(query.path, r) /\ query' = PathReply("file", {r})
              \/ /\ \A r \in records : ~Names(query.path, r)
                 /\ query' = PathReply("folder", {})
           /\ query' \in QueryForms
  <1>1. query \in PathInfs /\ query.call = "path_file"
    BY QueryOf, Zenon DEF QTypeOK, PathFile
  <1>2. \/ query' = NoQuery
        \/ \E r \in records : Names(query.path, r) /\ query' = PathReply("file", {r})
        \/ /\ \A r \in records : ~Names(query.path, r)
           /\ query' = PathReply("folder", {})
    BY Zenon DEF PathFile, Answering, SizeThrows
  <1>3. \A r \in records : {r} \in SUBSET records
    OBVIOUS
  <1>4. \A r \in records : PathReply("file", {r}) \in PathReplies
    BY <1>1, <1>3, PathReplyForm
  <1>5. PathReply("folder", {}) \in PathReplies
    BY <1>1, PathReplyForm
  <1>6. query' \in QueryForms
    BY <1>2, <1>4, <1>5, Zenon DEF QueryForms
  <1> QED BY <1>1, <1>2, <1>6

LEMMA FilePathForm ==
    ASSUME QTypeOK, TypeOK, FilePath
    PROVE  /\ query \in FilePaths_
           /\ \/ query' = NoQuery
              \/ \E r \in records : query' = PathReply("file", {r})
              \/ query' = PathReply("folder", {})
           /\ query' \in QueryForms
  <1>1. query \in FilePaths_
    BY QueryOf, Zenon DEF QTypeOK, FilePath
  <1>2. \/ query' = NoQuery
        \/ \E r \in records : query' = PathReply("file", {r})
        \/ query' = PathReply("folder", {})
    BY Zenon DEF FilePath, Answering, SizeThrows
  <1>3. \A r \in records : {r} \in SUBSET records
    OBVIOUS
  <1>4. \A r \in records : PathReply("file", {r}) \in PathReplies
    BY <1>1, <1>3, PathReplyForm
  <1>5. PathReply("folder", {}) \in PathReplies
    BY <1>1, PathReplyForm
  <1>6. query' \in QueryForms
    BY <1>2, <1>4, <1>5, Zenon DEF QueryForms
  <1> QED BY <1>1, <1>2, <1>6

-----------------------------------------------------------------------------
(* Type correctness.                                                        *)

QueryCall ==
    \/ ListFind \/ ListFolders \/ IdsNext \/ IdsReply
    \/ PathFolder \/ PathFile \/ FilePath \/ QueryFails \/ Deliver
Begin_ == BeginList \/ BeginIds \/ BeginPathInf \/ BeginFilePath

LEMMA QSteps ==
    ASSUME [QNext]_allVars
    PROVE  StoreStep \/ Begin_ \/ QueryCall \/ UNCHANGED allVars
  BY Zenon DEF QNext, QueryCall, Begin_

LEMMA CallForms ==
    ASSUME QTypeOK, TypeOK, QueryCall
    PROVE  query' \in QueryForms
  <1>1. NoQuery \in QueryForms
    BY DEF QueryForms
  <1>2. CASE ListFind \/ ListFolders
    BY <1>2, FindForm, FoldersForm, Zenon DEF QueryForms
  <1>3. CASE IdsNext \/ IdsReply
    BY <1>3, IdsForm, IdsReplyForm, Zenon DEF QueryForms
  <1>4. CASE PathFolder \/ PathFile \/ FilePath
    BY <1>4, PathFolderForm, PathFileForm, FilePathForm, Zenon
  <1>5. CASE QueryFails \/ Deliver
    BY <1>1, <1>5, Zenon DEF QueryFails, Deliver, Answering
  <1> QED BY <1>2, <1>3, <1>4, <1>5, Zenon DEF QueryCall

LEMMA QTypeInit == ASSUME QInit PROVE QTypeOK
  BY BoundsAssumption, QueriesAssumption DEF QInit, QTypeOK, QueryForms, QueriesAssumption

LEMMA QTypeStep ==
    ASSUME QTypeOK, StoresInv, [QNext]_allVars
    PROVE  QTypeOK'
  <1>1. TypeOK /\ TypeOK'
    BY StoresKept DEF StoresInv, IdsOK
  <1>2. records \subseteq Record /\ records' \subseteq Record /\ acked \subseteq Nat
        /\ deleted \subseteq Nat
    <2>1. acked \subseteq Nat /\ records \subseteq Record /\ published \subseteq Nat
      BY <1>1 DEF TypeOK
    <2>2. deleted \subseteq published
      BY DEF StoresInv, IdsOK, IdsUnique
    <2>3. records' \subseteq Record
      BY <1>1 DEF TypeOK
    <2> QED BY <2>1, <2>2, <2>3
  <1>3. CASE StoreStep
    <2>1. query' \in QueryForms
      BY <1>3, Zenon DEF StoreStep, QTypeOK, QueryForms
    <2>2. steady' \subseteq Record /\ seen' \subseteq Record
      BY <1>2, <1>3, Zenon DEF StoreStep, QTypeOK
    <2> QED BY <1>3, <2>1, <2>2 DEF StoreStep, QTypeOK
  <1>4. CASE Begin_
    <2>1. /\ query' \in QueryForms /\ queries < MaxQueries /\ queries' = queries + 1
          /\ steady' = records /\ seen' = records /\ known' = acked /\ erased' = deleted
      BY <1>1, <1>4, Begins DEF Begin_
    <2>2. queries' \in 0 .. MaxQueries
      BY <2>1, QueriesAssumption DEF QTypeOK, QueriesAssumption
    <2> QED BY <1>2, <2>1, <2>2 DEF QTypeOK
  <1>5. CASE QueryCall
    <2>1. UNCHANGED <<queries, steady, seen, known, erased>>
      BY <1>5, QuietCalls DEF QueryCall, Quiet
    <2>2. query' \in QueryForms
      BY <1>1, <1>5, CallForms
    <2> QED BY <2>1, <2>2 DEF QTypeOK
  <1>6. CASE UNCHANGED allVars
    BY <1>6 DEF allVars, queryVars, QTypeOK
  <1> QED BY <1>3, <1>4, <1>5, <1>6, QSteps

(* The variables of Queries have their types in every reachable state.      *)
THEOREM QueriesTyped == QSpec => [](TypeOK /\ QTypeOK)
  <1>1. QInit => QTypeOK
    BY QTypeInit
  <1>2. StoresInv /\ QTypeOK /\ [QNext]_allVars => QTypeOK'
    BY QTypeStep
  <1>3. StoresInv => TypeOK
    BY DEF StoresInv, IdsOK
  <1> QED BY <1>1, <1>2, <1>3, StoresAlways, PTL DEF QSpec

-----------------------------------------------------------------------------
(* What is known of the records while a query is answered.                  *)

(* A file that was reported as stored before the query began and that       *)
(* nobody asked to delete has been there throughout.                        *)
HistoryInv ==
    query # NoQuery =>
       /\ steady \subseteq records /\ records \subseteq seen
       /\ \A n \in known \ doomed : \E r \in steady : r.id = n

In(folder, r) == r.s3Key.folder = folder

(* The files a listing has read are there or may go; the cursor has met     *)
(* those that have been in the folder throughout, and the aggregate the     *)
(* folders that have had one.                                               *)
ListInv ==
    /\ query \in Lists_ \cup Listed =>
          /\ \A r \in query.files : r \in records \/ r.id \in doomed
          /\ query.call # "list_find" =>
                {r \in steady : In(query.folder, r)} \subseteq query.files
    /\ query \in Listed =>
          \A r \in steady : Below(query.folder, r.s3Key.folder) =>
             SegmentIn[query.folder][r.s3Key.folder] \in query.folders

(* The items are those of the first ids.                                    *)
IdsInv ==
    query \in Ids_ =>
       /\ Len(query.items) <= Len(query.asked)
       /\ query.call = "reply" => Len(query.items) = Len(query.asked)
       /\ \A i \in DOMAIN query.items :
             /\ query.items[i].id = query.asked[i]
             /\ \A r \in query.items[i].record : r.id = query.items[i].id /\ r \in seen

(* A path that is looked for among the files has been no folder since.      *)
PathInv ==
    /\ query \in PathInfs /\ query.call = "path_file" =>
          ~HasPlaceholder(query.path) /\ \A r \in steady : ~Contains(query.path, r)
    /\ query \in PathReplies /\ query.op = "path_inf" =>
          /\ (\E r \in steady : Names(query.path, r)) =>
                \/ query.result = "file" /\ \E q \in query.found : Names(query.path, q)
                \/ query.result = "folder" /\ FoundAsFolder(query.path, query.found)
          /\ HasPlaceholder(query.path) \/ (\E r \in steady : Contains(query.path, r)) =>
                query.result = "folder"

QueryInv == HistoryInv /\ ListInv /\ IdsInv /\ PathInv

(* Whatever the stores do, a query that goes on knows what it knew.         *)
LEMMA StoresLetQuery ==
    ASSUME QTypeOK, QueryInv, StoresInv, StoreStep
    PROVE  QueryInv'
  <1>1. /\ \A r \in records : r \in records' \/ r.id \in doomed'
        /\ doomed \subseteq doomed'
    BY StoresKept, Zenon DEF QNext
  <1>2. /\ steady' = steady \cap records' /\ seen' = seen \cup records'
        /\ query' = NoQuery \/ query' = query
        /\ known' = known
    BY Zenon DEF StoreStep
  <1>3. CASE query' = NoQuery
    <2>1. /\ query' \notin Lists_ \cup Listed /\ query' \notin Ids_
          /\ query' \notin PathInfs /\ query' \notin PathReplies
      BY <1>3, CallsOf
    <2> QED BY <1>3, <2>1 DEF QueryInv, HistoryInv, ListInv, IdsInv, PathInv
  <1>4. CASE query' = query
    <2>1. HistoryInv'
      <3>1. ASSUME query # NoQuery, NEW n \in known \ doomed' PROVE \E r \in steady' : r.id = n
        <4>1. PICK r \in steady : r.id = n
          BY <1>1, <3>1 DEF QueryInv, HistoryInv
        <4>2. r \in records'
          BY <1>1, <3>1, <4>1 DEF QueryInv, HistoryInv
        <4> QED BY <1>2, <4>1, <4>2
      <3> QED BY <1>2, <1>4, <3>1 DEF QueryInv, HistoryInv
    <2>2. ListInv'
      <3>1. query \in Lists_ \cup Listed => \A r \in query.files : r \in records' \/ r.id \in doomed'
        BY <1>1 DEF QueryInv, ListInv
      <3> QED BY <1>2, <1>4, <3>1 DEF QueryInv, ListInv
    <2>3. IdsInv'
      BY <1>2, <1>4 DEF QueryInv, IdsInv
    <2>4. PathInv'
      <3>1. ASSUME FoundAsFolder(query.path, query.found)
            PROVE  FoundAsFolder(query.path, query.found)'
        BY <1>2, <1>4, <3>1 DEF FoundAsFolder, Contains, HasPlaceholder
      <3> QED BY <1>2, <1>4, <3>1 DEF QueryInv, PathInv, Names, Contains, HasPlaceholder
    <2> QED BY <2>1, <2>2, <2>3, <2>4 DEF QueryInv
  <1> QED BY <1>2, <1>3, <1>4

(* A query begins with what is there.                                       *)
LEMMA BeginKnows ==
    ASSUME StoresInv, Begin_
    PROVE  QueryInv'
  <1>1. TypeOK /\ AckedRecorded
    BY DEF StoresInv, IdsOK, DoomedInv
  <1>2. /\ query' \in QueryForms
        /\ query'.call \in {"list_find", "ids_next", "path_folder", "file_path"}
        /\ query'.call = "list_find" => query'.files = {}
        /\ query'.call = "ids_next" => query'.items = <<>>
        /\ steady' = records /\ seen' = records /\ known' = acked
        /\ UNCHANGED vars
    BY <1>1, Begins, Zenon DEF Begin_
  <1>3. records' = records /\ doomed' = doomed
    BY <1>2 DEF vars
  <1>4. HistoryInv'
    BY <1>1, <1>2, <1>3 DEF HistoryInv, AckedRecorded
  <1>5. query' \notin Listed /\ query' \notin PathReplies /\ query'.call # "reply"
        /\ query'.call # "path_file"
    BY <1>2, CallsOf
  <1>6. ListInv'
    BY <1>2, <1>5, CallsOf DEF ListInv
  <1>7. IdsInv'
    <2>1. ASSUME query' \in Ids_ PROVE query'.items = <<>> /\ query'.asked \in Seq(Nat)
      BY <1>2, <2>1, CallsOf DEF Ids_
    <2> QED BY <1>5, <2>1 DEF IdsInv
  <1>8. PathInv'
    BY <1>5 DEF PathInv
  <1> QED BY <1>4, <1>6, <1>7, <1>8 DEF QueryInv

(* What the calls of a query leave as it was.                               *)
LEMMA CallKeeps ==
    ASSUME QTypeOK, QueryCall
    PROVE  /\ UNCHANGED <<records, doomed, queries, steady, seen, known, erased>>
           /\ query # NoQuery
  <1>1. Quiet
    BY QuietCalls DEF QueryCall
  <1>2. UNCHANGED <<records, doomed>>
    BY <1>1 DEF Quiet, OnlyFault, vars, history
  <1>3. query.call # "none"
    BY Zenon DEF QueryCall, ListFind, ListFolders, IdsNext, IdsReply, PathFolder,
                 PathFile, FilePath, QueryFails, Deliver
  <1>4. NoQuery.call = "none"
    BY CallsOf
  <1> QED BY <1>1, <1>2, <1>3, <1>4, Zenon DEF Quiet

LEMMA FormsApart ==
    /\ Lists_ \cap (Listed \cup Ids_ \cup PathInfs \cup FilePaths_ \cup PathReplies) = {}
    /\ Listed \cap (Ids_ \cup PathInfs \cup FilePaths_ \cup PathReplies) = {}
    /\ Ids_ \cap (PathInfs \cup FilePaths_ \cup PathReplies) = {}
    /\ PathReplies \cap (PathInfs \cup FilePaths_) = {}
    /\ PathInfs \cap FilePaths_ = {}
    /\ NoQuery \notin Lists_ \cup Listed \cup Ids_ \cup PathInfs \cup FilePaths_ \cup PathReplies
  BY CallsOf

LEMMA ListKnows ==
    ASSUME QTypeOK, TypeOK, QueryInv, ListFind \/ ListFolders
    PROVE  QueryInv'
  <1>1. UNCHANGED <<records, doomed, queries, steady, seen, known, erased>> /\ query # NoQuery
    BY CallKeeps DEF QueryCall
  <1>2. query \in Lists_ /\ query' \in Lists_ \cup Listed
    BY FindForm, FoldersForm, Zenon
  <1>3. query' \notin Ids_ /\ query' \notin PathInfs /\ query' \notin PathReplies
    BY <1>2, FormsApart
  <1>4. HistoryInv' /\ IdsInv' /\ PathInv'
    BY <1>1, <1>3 DEF QueryInv, HistoryInv, IdsInv, PathInv
  <1>5. \A r \in query.files : r \in records \/ r.id \in doomed
    BY <1>2 DEF QueryInv, ListInv
  <1>6. CASE ListFind
    <2>1. query' \in Lists_ /\ query' \notin Listed /\ query'.folder = query.folder
      BY <1>6, FindForm, FormsApart
    <2>2. CASE \E r \in records : /\ r.s3Key.folder = query.folder
                                  /\ query'.files = query.files \cup {r}
                                  /\ query'.call = "list_find"
      BY <1>1, <1>4, <1>5, <2>1, <2>2 DEF QueryInv, ListInv, In
    <2>3. CASE /\ query'.files = query.files
               /\ {r \in steady : r.s3Key.folder = query.folder} \subseteq query.files
      <3>1. {r \in steady : r.s3Key.folder = query'.folder} \subseteq query'.files
        BY <2>1, <2>3
      <3> QED BY <1>1, <1>4, <1>5, <2>1, <2>3, <3>1 DEF QueryInv, ListInv, In
    <2> QED BY <1>6, <2>2, <2>3, FindForm, Zenon
  <1>7. CASE ListFolders
    <2>1. /\ query'.folder = query.folder /\ query'.files = query.files
          /\ query.call = "list_folders"
          /\ \A r \in steady : Below(query.folder, r.s3Key.folder) =>
                SegmentIn[query.folder][r.s3Key.folder] \in query'.folders
      BY <1>7, FoldersForm
    <2>2. {r \in steady : In(query.folder, r)} \subseteq query.files
      BY <1>2, <2>1 DEF QueryInv, ListInv
    <2>3. ListInv'
      BY <1>1, <1>5, <2>1, <2>2 DEF ListInv, In, Below
    <2> QED BY <1>4, <2>3 DEF QueryInv
  <1> QED BY <1>6, <1>7

LEMMA IdsKnow ==
    ASSUME QTypeOK, TypeOK, QueryInv, IdsNext \/ IdsReply
    PROVE  QueryInv'
  <1>1. UNCHANGED <<records, doomed, queries, steady, seen, known, erased>> /\ query # NoQuery
    BY CallKeeps DEF QueryCall
  <1>2. query \in Ids_ /\ query' \in Ids_
    BY IdsForm, IdsReplyForm, Zenon
  <1>3. /\ query' \notin Lists_ \cup Listed
        /\ query' \notin PathInfs /\ query' \notin PathReplies
    BY <1>2, FormsApart
  <1>4. HistoryInv' /\ ListInv' /\ PathInv'
    BY <1>1, <1>3 DEF QueryInv, HistoryInv, ListInv, PathInv
  <1>5. /\ Len(query.items) <= Len(query.asked)
        /\ \A i \in DOMAIN query.items :
             /\ query.items[i].id = query.asked[i]
             /\ \A r \in query.items[i].record : r.id = query.items[i].id /\ r \in seen
        /\ query.items \in Seq(Item)
    BY <1>2 DEF QueryInv, IdsInv, Ids_
  <1>6. CASE IdsNext
    <2> DEFINE n == Len(query.items) + 1
               id == query.asked[n]
    <2>1. PICK found \in SUBSET records :
             /\ \A r \in found : r.id = id
             /\ query' = [query EXCEPT !.items =
                             Append(query.items, [id |-> id, record |-> found])]
      BY <1>6, IdsForm, Zenon
    <2>2. query.call = "ids_next" /\ Len(query.items) < Len(query.asked)
      BY <1>6, IdsForm
    <2>3. query.asked \in Seq(Nat) /\ id \in Nat
      BY <1>2, <2>2 DEF Ids_
    <2>4. [id |-> id, record |-> found] \in Item
      BY <2>3 DEF TypeOK, Item
    <2> DEFINE items == Append(query.items, [id |-> id, record |-> found])
    <2>5. query'.items = items /\ query'.asked = query.asked /\ query'.call = "ids_next"
      BY <1>2, <2>1, <2>2 DEF Ids_
    <2>6. /\ Len(items) = n /\ DOMAIN items = 1 .. n
          /\ items[n] = [id |-> id, record |-> found]
          /\ \A i \in DOMAIN query.items : items[i] = query.items[i]
          /\ DOMAIN items = DOMAIN query.items \cup {n}
      BY <1>5, <2>4
    <2>7. \A r \in found : r \in seen
      BY <1>1 DEF QueryInv, HistoryInv
    <2> HIDE DEF items
    <2>8. \A i \in DOMAIN items :
             /\ items[i].id = query.asked[i]
             /\ \A r \in items[i].record : r.id = items[i].id /\ r \in seen
      <3> TAKE i \in DOMAIN items
      <3>1. CASE i \in DOMAIN query.items
        BY <1>5, <2>6, <3>1
      <3>2. CASE i = n
        BY <2>1, <2>6, <2>7, <3>2
      <3> QED BY <2>6, <3>1, <3>2
    <2>9. n <= Len(query.asked)
      BY <1>5, <2>2, <2>3
    <2> HIDE DEF n, id
    <2>10. IdsInv'
      BY <1>1, <2>5, <2>6, <2>8, <2>9 DEF IdsInv
    <2> QED BY <1>4, <2>10 DEF QueryInv
  <1>7. CASE IdsReply
    <2>1. Len(query.items) = Len(query.asked) /\ query' = [query EXCEPT !.call = "reply"]
      BY <1>7, IdsReplyForm
    <2>2. query'.items = query.items /\ query'.asked = query.asked
      BY <1>2, <2>1 DEF Ids_
    <2>3. IdsInv'
      BY <1>1, <1>5, <2>1, <2>2 DEF IdsInv
    <2> QED BY <1>4, <2>3 DEF QueryInv
  <1> QED BY <1>6, <1>7

(* A path with a slash at its end names no file.                            *)
LEMMA SlashNamesNone ==
    ASSUME NEW path, path.kind = "slash"
    PROVE  ~(\E q \in Record : Names(path, q))
  BY DEF Names

LEMMA PathKnows ==
    ASSUME QTypeOK, TypeOK, QueryInv, PathFolder \/ PathFile \/ FilePath
    PROVE  QueryInv'
  <1>1. UNCHANGED <<records, doomed, queries, steady, seen, known, erased>> /\ query # NoQuery
    BY CallKeeps DEF QueryCall
  <1>2. steady \subseteq records /\ steady \subseteq Record /\ records \subseteq seen
    BY <1>1 DEF QueryInv, HistoryInv, TypeOK
  <1>4. ASSUME query' \in PathInfs \cup PathReplies \cup {NoQuery}, PathInv'
        PROVE  QueryInv'
    <2>1. query' \notin Lists_ \cup Listed /\ query' \notin Ids_
      BY <1>4, FormsApart
    <2>2. HistoryInv' /\ ListInv' /\ IdsInv'
      BY <1>1, <2>1 DEF QueryInv, HistoryInv, ListInv, IdsInv
    <2> QED BY <1>4, <2>2 DEF QueryInv
  <1>5. ASSUME NEW result \in {"folder", "file", "not exist"},
               NEW found \in SUBSET records,
               query \in PathInfs \cup FilePaths_,
               query' = PathReply(result, found),
               query \in PathInfs =>
                 /\ (\E r \in steady : Names(query.path, r)) =>
                       \/ result = "file" /\ \E q \in found : Names(query.path, q)
                       \/ result = "folder" /\ FoundAsFolder(query.path, found)
                 /\ HasPlaceholder(query.path) \/ (\E r \in steady : Contains(query.path, r))
                       => result = "folder"
        PROVE  QueryInv'
    <2>1. query' \in PathReplies
      BY <1>5, PathReplyForm
    <2>2. /\ query'.op = query.op /\ query'.path = query.path
          /\ query'.result = result /\ query'.found = found
      BY <1>5 DEF PathReply
    <2>3. query' \notin PathInfs
      BY <2>1, FormsApart
    <2>4. query'.op = "path_inf" => query \in PathInfs
      BY <1>5, <2>2, CallsOf
    <2>5. HasPlaceholder(query.path)' <=> HasPlaceholder(query'.path)
      BY <2>2 DEF HasPlaceholder
    <2>6. PathInv'
      <3> SUFFICES ASSUME query'.op = "path_inf"
                   PROVE  /\ (\E r \in steady' : Names(query'.path, r)) =>
                                \/ /\ query'.result = "file"
                                   /\ \E q \in query'.found : Names(query'.path, q)
                                \/ /\ query'.result = "folder"
                                   /\ FoundAsFolder(query.path, query.found)'
                          /\ HasPlaceholder(query'.path)
                             \/ (\E r \in steady' : Contains(query'.path, r)) =>
                                query'.result = "folder"
        BY <2>3 DEF PathInv, Names, Contains, HasPlaceholder, FoundAsFolder
      <3>1. FoundAsFolder(query.path, query.found)' <=> FoundAsFolder(query.path, found)
        BY <1>1, <2>2 DEF FoundAsFolder, Contains, HasPlaceholder
      <3>2. /\ (\E r \in steady : Names(query.path, r)) =>
                  \/ result = "file" /\ \E q \in found : Names(query.path, q)
                  \/ result = "folder" /\ FoundAsFolder(query.path, found)
            /\ HasPlaceholder(query.path) \/ (\E r \in steady : Contains(query.path, r))
                  => result = "folder"
        BY <1>5, <2>4
      <3> QED BY <1>1, <2>2, <3>1, <3>2
    <2> QED BY <1>4, <2>1, <2>6
  <1> DEFINE Right(result, found) ==
               /\ (\E r \in steady : Names(query.path, r)) =>
                     \/ result = "file" /\ \E q \in found : Names(query.path, q)
                     \/ result = "folder" /\ FoundAsFolder(query.path, found)
               /\ HasPlaceholder(query.path) \/ (\E r \in steady : Contains(query.path, r))
                     => result = "folder"
  <1>6. ASSUME NEW result \in {"folder", "not exist"}, query \in PathInfs \cup FilePaths_,
               query' = PathReply(result, {}),
               query \in PathInfs => Right(result, {})
        PROVE  QueryInv'
    <2>1. {} \in SUBSET records /\ result \in {"folder", "file", "not exist"}
      BY <1>6
    <2> QED BY <1>5, <1>6, <2>1, Zenon
  <1>7. CASE PathFolder
    <2>1. query \in PathInfs
      BY <1>7, PathFolderForm, Zenon
    <2>2. CASE \E r \in records : /\ Contains(query.path, r)
                                  /\ query' = PathReply("folder", {r})
      <3>1. PICK r \in records : Contains(query.path, r) /\ query' = PathReply("folder", {r})
        BY <2>2
      <3>2. FoundAsFolder(query.path, {r})
        BY <1>2, <3>1 DEF FoundAsFolder
      <3>3. {r} \in SUBSET records
        OBVIOUS
      <3> QED BY <1>5, <2>1, <3>1, <3>2, <3>3
    <2>3. CASE HasPlaceholder(query.path) /\ query' = PathReply("folder", {})
      <3>1. FoundAsFolder(query.path, {})
        BY <2>3 DEF FoundAsFolder
      <3>2. Right("folder", {})
        BY <3>1
      <3> QED BY <1>6, <2>1, <2>3, <3>2
    <2>4. CASE /\ ~HasPlaceholder(query.path)
               /\ \A r \in records : ~Contains(query.path, r)
               /\ query.path.kind = "slash" /\ query' = PathReply("not exist", {})
      <3>1. ~(\E q \in steady : Names(query.path, q))
        BY <1>2, <2>4, SlashNamesNone
      <3>2. Right("not exist", {})
        BY <1>2, <2>4, <3>1
      <3> QED BY <1>6, <2>1, <2>4, <3>2
    <2>5. CASE /\ ~HasPlaceholder(query.path)
               /\ \A r \in records : ~Contains(query.path, r)
               /\ query' = [query EXCEPT !.call = "path_file"]
      <3>1. query' \in PathInfs /\ query'.path = query.path
        BY <2>1, <2>5 DEF PathInfs
      <3>2. query' \notin PathReplies
        BY <3>1, FormsApart
      <3>3. PathInv'
        BY <1>1, <1>2, <2>5, <3>1, <3>2
           DEF PathInv, Contains, HasPlaceholder
      <3> QED BY <1>4, <3>1, <3>3
    <2> QED BY <1>7, <2>2, <2>3, <2>4, <2>5, PathFolderForm, Zenon
  <1>8. CASE PathFile
    <2>1. query \in PathInfs /\ query.call = "path_file"
      BY <1>8, PathFileForm, Zenon
    <2>2. ~HasPlaceholder(query.path) /\ \A r \in steady : ~Contains(query.path, r)
      BY <2>1 DEF QueryInv, PathInv
    <2>3. CASE query' = NoQuery
      <3>1. query' \notin PathInfs /\ query' \notin PathReplies
        BY <2>3, FormsApart
      <3> QED BY <1>4, <2>3, <3>1 DEF PathInv
    <2>4. CASE \E r \in records : Names(query.path, r) /\ query' = PathReply("file", {r})
      <3>1. PICK r \in records : Names(query.path, r) /\ query' = PathReply("file", {r})
        BY <2>4
      <3> QED BY <1>5, <2>1, <2>2, <3>1
    <2>5. CASE (\A r \in records : ~Names(query.path, r)) /\ query' = PathReply("folder", {})
      <3>1. Right("folder", {})
        BY <1>2, <2>5
      <3> QED BY <1>6, <2>1, <2>5, <3>1
    <2> QED BY <1>8, <2>3, <2>4, <2>5, PathFileForm, Zenon
  <1>9. CASE FilePath
    <2>1. query \in FilePaths_ /\ query \notin PathInfs
      BY <1>9, FilePathForm, FormsApart
    <2>2. CASE query' = NoQuery
      <3>1. query' \notin PathInfs /\ query' \notin PathReplies
        BY <2>2, FormsApart
      <3> QED BY <1>4, <2>2, <3>1 DEF PathInv
    <2>3. CASE \E r \in records : query' = PathReply("file", {r})
      <3>1. PICK r \in records : query' = PathReply("file", {r})
        BY <2>3
      <3> QED BY <1>5, <2>1, <3>1
    <2>4. CASE query' = PathReply("folder", {})
      BY <1>6, <2>1, <2>4
    <2> QED BY <1>9, <2>2, <2>3, <2>4, FilePathForm, Zenon
  <1> QED BY <1>7, <1>8, <1>9

LEMMA EndsKnow ==
    ASSUME QueryInv, QueryFails \/ Deliver
    PROVE  QueryInv'
  <1>1. query' = NoQuery
    BY Zenon DEF QueryFails, Deliver, Answering
  <1> QED BY <1>1, FormsApart DEF QueryInv, HistoryInv, ListInv, IdsInv, PathInv

QueriesInv == StoresInv /\ QTypeOK /\ QueryInv

LEMMA QueriesStep ==
    ASSUME QueriesInv, [QNext]_allVars
    PROVE  QueriesInv'
  <1>1. TypeOK /\ QTypeOK /\ QueryInv /\ StoresInv
    BY DEF QueriesInv, StoresInv, IdsOK
  <1>2. StoresInv' /\ QTypeOK'
    BY <1>1, StoresKept, QTypeStep
  <1>3. CASE StoreStep
    BY <1>1, <1>2, <1>3, StoresLetQuery DEF QueriesInv
  <1>4. CASE Begin_
    BY <1>1, <1>2, <1>4, BeginKnows DEF QueriesInv
  <1>5. CASE QueryCall
    BY <1>1, <1>2, <1>5, ListKnows, IdsKnow, PathKnows, EndsKnow, Zenon
       DEF QueriesInv, QueryCall
  <1>6. CASE UNCHANGED allVars
    <2>1. UNCHANGED <<records, doomed, query, steady, seen, known>>
      BY <1>6 DEF allVars, vars, queryVars
    <2>2. QueryInv'
      BY <1>1, <2>1 DEF QueryInv, HistoryInv, ListInv, IdsInv, PathInv, In, Below,
                        Names, Contains, HasPlaceholder, FoundAsFolder
    <2> QED BY <1>2, <2>2 DEF QueriesInv
  <1> QED BY <1>3, <1>4, <1>5, <1>6, QSteps

LEMMA QueriesAlways == QSpec => []QueriesInv
  <1>1. QInit => QueryInv
    BY FormsApart DEF QInit, QueryInv, HistoryInv, ListInv, IdsInv, PathInv
  <1>2. QInit => QueriesInv
    BY <1>1, QTypeInit, TypeInit, IdsInit, DoomedInit DEF QInit, QueriesInv, StoresInv, IdsOK
  <1>3. QueriesInv /\ [QNext]_allVars => QueriesInv'
    BY QueriesStep
  <1> QED BY <1>2, <1>3, PTL DEF QSpec

-----------------------------------------------------------------------------
(* What the replies say, whatever the other sessions do and whatever fails. *)

(* A listing shows every upload and copy that was reported before it began  *)
(* and that nobody asked to delete, as a file or as the folder that leads   *)
(* there (wssSession.cpp:317, :379).                                        *)
THEOREM ListingsComplete == QSpec => []KnownListed
  <1>1. QueriesInv => KnownListed
    <2> SUFFICES ASSUME QueriesInv, Replying("list"), NEW r \in records,
                        r.id \in known, r.id \notin doomed
                 PROVE  \/ r.s3Key.folder = query.folder /\ r \in query.files
                        \/ SegmentIn[query.folder][r.s3Key.folder] \in query.folders
                        \/ ~InOrBelow(query.folder, r.s3Key.folder)
      BY DEF KnownListed
    <2>1. query \in Listed /\ query # NoQuery
      BY ReplyOf, CallsOf DEF QueriesInv, QTypeOK, Replying
    <2>2. PICK s \in steady : s.id = r.id
      BY <2>1 DEF QueriesInv, QueryInv, HistoryInv
    <2>3. s \in records
      BY <2>1 DEF QueriesInv, QueryInv, HistoryInv
    <2>4. s = r
      BY <2>2, <2>3 DEF QueriesInv, StoresInv, IdsOK, IdsUnique
    <2>5. In(query.folder, r) => r \in query.files
      BY <2>1, <2>4 DEF QueriesInv, QueryInv, ListInv, Replying
    <2>6. Below(query.folder, r.s3Key.folder) =>
             SegmentIn[query.folder][r.s3Key.folder] \in query.folders
      BY <2>1, <2>4 DEF QueriesInv, QueryInv, ListInv
    <2> QED BY <2>5, <2>6 DEF In, InOrBelow
  <1> QED BY <1>1, QueriesAlways, PTL

(* One item for each id, in the order of the request, with its own record   *)
(* if it has one, whatever lookups fail (wssSession.cpp, the loop of        *)
(* handle_files_ids_request).                                               *)
THEOREM ItemsFollowIds == QSpec => []ItemsInOrder
  <1>1. QueriesInv => ItemsInOrder
    <2> SUFFICES ASSUME QueriesInv, Replying("ids") PROVE ItemsInOrder
      BY DEF ItemsInOrder
    <2>1. query \in Ids_
      BY ReplyOf DEF QueriesInv, QTypeOK, Replying
    <2> QED BY <2>1 DEF QueriesInv, QueryInv, IdsInv, ItemsInOrder, Replying
  <1> QED BY <1>1, QueriesAlways, PTL

(* A path of a file that has been there throughout is answered with a file  *)
(* of that path, unless a folder begins with the path, and never with the   *)
(* reply to what names nothing (wssSession.cpp:798, :840, :901).            *)
THEOREM FilesAreFound == QSpec => []FileFoundByPath
  <1>1. QueriesInv => FileFoundByPath
    <2> SUFFICES ASSUME QueriesInv, Replying("path_inf") PROVE FileFoundByPath
      BY DEF FileFoundByPath
    <2>1. query \in PathReplies
      BY ReplyOf DEF QueriesInv, QTypeOK, Replying
    <2> QED BY <2>1 DEF QueriesInv, QueryInv, PathInv, FileFoundByPath, Replying
  <1> QED BY <1>1, QueriesAlways, PTL

(* The path of a folder that has had a file throughout, in it or below, or  *)
(* that holds the placeholder, is a folder.                                 *)
THEOREM FoldersAreFound == QSpec => []FolderFoundByPath
  <1>1. QueriesInv => FolderFoundByPath
    <2> SUFFICES ASSUME QueriesInv, Replying("path_inf") PROVE FolderFoundByPath
      BY DEF FolderFoundByPath
    <2>1. query \in PathReplies
      BY ReplyOf DEF QueriesInv, QTypeOK, Replying
    <2> QED BY <2>1 DEF QueriesInv, QueryInv, PathInv, FolderFoundByPath, Replying
  <1> QED BY <1>1, QueriesAlways, PTL

-----------------------------------------------------------------------------
(* Without copies.                                                          *)

LEMMA UploadsBesideQueries ==
    ASSUME "rewrite" \notin Ops
    PROVE  QSpec => [](QueriesInv /\ UploadInv)
  <1>1. QInit => UploadInv
    BY UploadInit DEF QInit
  <1>2. QueriesInv => TypeOK /\ IdsFresh /\ IdsUnique
    BY DEF QueriesInv, StoresInv, IdsOK
  <1>3. QueriesInv /\ UploadInv /\ [QNext]_allVars => UploadInv'
    BY <1>2, StoresMove, UploadStep, FaultKeeps
  <1> QED BY <1>1, <1>3, QueriesAlways, PTL DEF QSpec

(* The link of a listed file works unless a client has asked to delete the  *)
(* file, though it is signed without a look at the bucket                   *)
(* (wssSession.cpp:339).                                                    *)
THEOREM ListedFilesDownload ==
    ASSUME "rewrite" \notin Ops
    PROVE  QSpec => []ListedDownloadable
  <1>1. QueriesInv /\ UploadInv => ListedDownloadable
    <2> SUFFICES ASSUME QueriesInv, UploadInv, Replying("list"), NEW r \in query.files,
                        r.id \notin doomed
                 PROVE  Intact(r)
      BY DEF ListedDownloadable
    <2>1. query \in Listed
      BY ReplyOf DEF QueriesInv, QTypeOK, Replying
    <2>2. r \in records
      BY <2>1 DEF QueriesInv, QueryInv, ListInv
    <2> QED BY <2>2, UploadIntact
  <1> QED BY <1>1, UploadsBesideQueries, PTL

(* Beside queries, whose calls take their share of the failures, the stores *)
(* keep what they promise without them.                                     *)
THEOREM QueriesKeepPromises ==
    ASSUME "rewrite" \notin Ops
    PROVE  QSpec => []AckedStored /\ []DanglingAccounted /\ CatalogSpec
  <1>1. QInit => Catalog!Init
    BY DEF QInit, Init, Catalog!Init, Available
  <1>2. ASSUME QueriesInv, UploadInv, UploadInv', [QNext]_allVars
        PROVE  [Catalog!Next]_(Catalog!catalogVars)
    <2>1. CASE OnlyFault
      BY <2>1, CatalogStays DEF OnlyFault, history
    <2>2. CASE [Next]_vars
      BY <1>2, <2>2, CatalogStep DEF QueriesInv, StoresInv, IdsOK
    <2> QED BY <1>2, <2>1, <2>2, StoresMove
  <1>3. QueriesInv /\ UploadInv /\ UploadInv' /\ [QNext]_allVars
        => [Catalog!Next]_(Catalog!catalogVars)
    BY <1>2
  <1> QED BY <1>1, <1>3, UploadDangling, UploadStored, UploadsBesideQueries, PTL
          DEF QSpec, CatalogSpec, Catalog!Spec

-----------------------------------------------------------------------------
(* One session, copies included.                                            *)

LEMMA AloneBesideQueries ==
    ASSUME NEW one, Sessions = {one}
    PROVE  QSpec => [](QueriesInv /\ AloneInv)
  <1>1. QInit => AloneInv
    BY AloneInit DEF QInit
  <1>2. ASSUME AloneInv, [QNext]_allVars PROVE AloneInv'
    <2>1. CASE OnlyFault
      <3>1. UNCHANGED <<objects, records, job, uuids, halfDeleted>>
        BY <2>1 DEF OnlyFault
      <3>2. NamesInv' /\ ObjectsInv'
        BY <1>2, <3>1 DEF AloneInv, NamesInv, RecordNames, JobNames, ObjectsInv, CalmInv,
                          KeysDistinct, EachIntact, Intact, Withdrawn, Withdrawing,
                          JobObjects, KeyOf
      <3> QED BY <1>2, <2>1, <3>2, FaultKeeps DEF AloneInv
    <2> QED BY <1>2, <2>1, StoresMove, AloneStep
  <1>3. AloneInv /\ [QNext]_allVars => AloneInv'
    BY <1>2
  <1> QED BY <1>1, <1>3, QueriesAlways, PTL DEF QSpec

(* Where one session uploads, copies and deletes while queries are answered, *)
(* records keep their own objects and listed links work, unless a deletion   *)
(* died half way.                                                            *)
THEOREM AloneQueriesKeepPromises ==
    ASSUME NEW one, Sessions = {one}
    PROVE  QSpec => []KeysUnique /\ [](halfDeleted = {} => ListedDownloadable)
  <1>1. AloneInv => KeysUnique
    BY DEF AloneInv, ObjectsInv, CalmInv, KeysUnique
  <1>2. QueriesInv /\ AloneInv => (halfDeleted = {} => ListedDownloadable)
    <2> SUFFICES ASSUME QueriesInv, AloneInv, halfDeleted = {}, Replying("list"),
                        NEW r \in query.files, r.id \notin doomed
                 PROVE  Intact(r)
      BY DEF ListedDownloadable
    <2>1. query \in Listed
      BY ReplyOf DEF QueriesInv, QTypeOK, Replying
    <2>2. r \in records
      BY <2>1 DEF QueriesInv, QueryInv, ListInv
    <2> QED BY <2>2, AloneIntact
  <1> QED BY <1>1, <1>2, AloneBesideQueries, PTL

=============================================================================
