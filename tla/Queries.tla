-------------------------------- MODULE Queries --------------------------------
(***************************************************************************)
(* What a session is told about the files while other sessions change      *)
(* them: handle_list_request, handle_files_ids_request, handle_file_path   *)
(* and handle_path_inf_request (src/src/wssSession.cpp), beside the jobs   *)
(* of FileStore.                                                           *)
(*                                                                         *)
(* A query is a job of several calls to MongoDB, each an action; links are *)
(* signed without a look at the bucket.  A query that throws gets no       *)
(* reply.  The one asking session here stands for any: queries change      *)
(* nothing.  Folders have names that sanitizing leaves alone and that are  *)
(* no signs of a regular expression: PathNames has what becomes of others. *)
(***************************************************************************)
EXTENDS FileStore

CONSTANTS
    SegmentIn,      \* SegmentIn[f][g]: the first segment of g below f
    NoSegment,      \* of folders that are not below f
    Opens(_, _),    \* Opens(p, g): the folder g begins with the text of path p
    PlaceholderIn,  \* the user's own folder, if its registration got so far
    Asked,          \* what is asked in this instance
    MaxQueries      \* bound: queries in a run

ASSUME SegmentAssumption ==
    /\ DOMAIN SegmentIn = Folders
    /\ \A f \in Folders : DOMAIN SegmentIn[f] = Folders /\ SegmentIn[f][f] = NoSegment
ASSUME QueriesAssumption == PlaceholderIn \subseteq Folders /\ MaxQueries \in Nat

VARIABLES
    query,          \* the query that is being answered
    queries,        \* queries begun
    \* history, while a query is being answered:
    steady,         \* records that have been there since it began
    seen,           \* records that have been there since, for some time
    known,          \* files reported as stored before it began
    erased          \* ids reported as deleted before it began

queryVars == <<query, queries, steady, seen, known, erased>>
allVars == <<vars, queryVars>>

NoQuery == [call |-> "none"]

Below(f, g) == SegmentIn[f][g] # NoSegment
InOrBelow(f, g) == f = g \/ Below(f, g)

(* The paths of folders, with or without a slash.  Such a path begins what  *)
(* is below the folder; others may do so too, since the slash at the end is *)
(* dropped: "cat", the path of a file or of no file, begins "cats".         *)
FolderPaths == [kind : {"slash", "folder"}, folder : Folders]
IsFolder(path) == path.kind \in {"slash", "folder"}

ASSUME OpensAssumption ==
    \A path \in FolderPaths, g \in Folders : InOrBelow(path.folder, g) => Opens(path, g)

-----------------------------------------------------------------------------
QInit ==
    /\ Init
    /\ query = NoQuery
    /\ queries = 0
    /\ steady = {}
    /\ seen = {}
    /\ known = {}
    /\ erased = {}

(* The stores go on while a query is answered; a stop of the server ends    *)
(* the query too.                                                           *)
StoreStep ==
    /\ Next
    /\ steady' = steady \cap records'
    /\ seen' = seen \cup records'
    /\ query' = IF crashes' # crashes THEN NoQuery ELSE query
    /\ UNCHANGED <<queries, known, erased>>

BeginQuery(q) ==
    /\ query = NoQuery
    /\ q.op \in Asked
    /\ queries < MaxQueries
    /\ queries' = queries + 1
    /\ query' = q
    /\ steady' = records
    /\ seen' = records
    /\ known' = acked
    /\ erased' = deleted
    /\ UNCHANGED vars

Answering(q) ==
    /\ query' = q
    /\ UNCHANGED <<vars, queries, steady, seen, known, erased>>

(* A call of the query throws: no reply.                                    *)
QueryFails ==
    /\ query.call \notin {"none", "reply", "ids_next"}
    /\ faults < MaxFaults
    /\ faults' = faults + 1
    /\ query' = NoQuery
    /\ UNCHANGED <<objects, records, job, begun, uuids, crashes, history,
                   abandoned, halfDeleted>>
    /\ UNCHANGED <<queries, steady, seen, known, erased>>

(* The reply lambda runs.                                                   *)
Deliver ==
    /\ query.call = "reply"
    /\ Answering(NoQuery)

-----------------------------------------------------------------------------
(* handle_list_request.                                                     *)

BeginList ==
    \E f \in Folders :
       BeginQuery([op |-> "list", call |-> "list_find", folder |-> f, files |-> {}])

(* Deviation for a mutant: the cursor ends with its first document.         *)
ListFind_One ==
    /\ query.call = "list_find"
    /\ \E r \in records :
          /\ r.s3Key.folder = query.folder
          /\ Answering([op |-> "list", call |-> "list_folders",
                        folder |-> query.folder, files |-> {r}])

(* The cursor of find visits documents one after the other: those that are  *)
(* there all the time, and those that come or go meanwhile if it finds them.*)
ListFind ==
    /\ query.call = "list_find"
    /\ \/ \E r \in records \ query.files :
             /\ r.s3Key.folder = query.folder
             /\ Answering([query EXCEPT !.files = @ \cup {r}])
       \/ /\ {r \in steady : r.s3Key.folder = query.folder} \subseteq query.files
          /\ Answering([query EXCEPT !.call = "list_folders"])

(* The aggregate: folders are the prefixes of the records it reads, those   *)
(* that are there all the time and some of the others.                      *)
ListFolders ==
    /\ query.call = "list_folders"
    /\ \E others \in SUBSET (records \ steady) :
          Answering([op |-> "list", call |-> "reply", folder |-> query.folder,
                     files |-> query.files,
                     folders |-> {SegmentIn[query.folder][r.s3Key.folder] :
                                     r \in steady \cup others}
                                 \ {NoSegment}])

-----------------------------------------------------------------------------
(* handle_files_ids_request: the ids one by one.                            *)

BeginIds ==
    \E a, b \in published :
       BeginQuery([op |-> "ids", call |-> "ids_next", asked |-> <<a, b>>, items |-> <<>>])

(* Deviation for a mutant: a failing id ends the loop with a reply.         *)
IdsNext_StopsOnFailure ==
    /\ query.call = "ids_next"
    /\ Len(query.items) < Len(query.asked)
    /\ LET id == query.asked[Len(query.items) + 1] IN
          \/ \E r \in records :
                /\ r.id = id
                /\ Answering([query EXCEPT !.items = Append(@, [id |-> id, record |-> {r}])])
          \/ /\ \A r \in records : r.id # id
             /\ Answering([query EXCEPT !.call = "reply"])

(* One find_one; an id that is not found and one whose find_one throws are  *)
(* both answered with an empty item.                                        *)
IdsNext ==
    /\ query.call = "ids_next"
    /\ Len(query.items) < Len(query.asked)
    /\ LET id == query.asked[Len(query.items) + 1]
           Item(found) == [query EXCEPT !.items = Append(@, [id |-> id, record |-> found])]
       IN  \/ \E r \in records : r.id = id /\ Answering(Item({r}))
           \/ (\A r \in records : r.id # id) /\ Answering(Item({}))
           \/ /\ faults < MaxFaults
              /\ faults' = faults + 1
              /\ query' = Item({})
              /\ UNCHANGED <<objects, records, job, begun, uuids, crashes, history,
                             abandoned, halfDeleted>>
              /\ UNCHANGED <<queries, steady, seen, known, erased>>

IdsReply ==
    /\ query.call = "ids_next"
    /\ Len(query.items) = Len(query.asked)
    /\ Answering([query EXCEPT !.call = "reply"])

-----------------------------------------------------------------------------
(* Paths: of a folder, of a file by its key or by folder and name, or of    *)
(* the placeholder.                                                         *)
FilePaths == {[kind |-> "key", key |-> r.s3Key] : r \in records}
             \cup {[kind |-> "name", folder |-> r.s3Key.folder, name |-> r.originalName] :
                     r \in records}
Hidden == [kind |-> "placeholder"]

Names(path, r) ==
    \/ path.kind = "key" /\ r.s3Key = path.key
    \/ path.kind = "name" /\ r.s3Key.folder = path.folder /\ r.originalName = path.name

(* What the pattern of a path matches, be it the path of a folder or not.   *)
Contains(path, r) == Opens(path, r.s3Key.folder)
HasPlaceholder(path) == \E f \in PlaceholderIn : Opens(path, f)

BeginPath(op, call) ==
    \E path \in FolderPaths \cup FilePaths \cup {Hidden} :
       /\ path = Hidden => "placeholder" \in Asked /\ PlaceholderIn # {}
       /\ BeginQuery([op |-> op, call |-> call, path |-> path])

PathReply(result, found) ==
    [op |-> query.op, call |-> "reply", path |-> query.path,
     result |-> result, found |-> found]

(* get_int64 on a size that is an int32 throws, and the job ends.           *)
SizeThrows ==
    /\ query' = NoQuery
    /\ UNCHANGED <<vars, queries, steady, seen, known, erased>>

BeginPathInf == BeginPath("path_inf", "path_folder")

(* Deviation for a mutant: only files right in the folder make it one.      *)
PathFolder_Direct ==
    /\ query.call = "path_folder"
    /\ LET Direct(r) == IsFolder(query.path) /\ r.s3Key.folder = query.path.folder
       IN  \/ \E r \in records :
                 Direct(r) /\ Answering(PathReply("folder", {r}))
           \/ HasPlaceholder(query.path) /\ Answering(PathReply("folder", {}))
           \/ /\ ~HasPlaceholder(query.path)
              /\ \A r \in records : ~Direct(r)
              /\ \/ query.path.kind = "slash" /\ Answering(PathReply("not exist", {}))
                 \/ /\ query.path.kind # "slash"
                    /\ Answering([query EXCEPT !.call = "path_file"])

(* handle_path_inf_request, first call: is the path a folder.  The record   *)
(* of the placeholder makes one of the user's own.                          *)
PathFolder ==
    /\ query.call = "path_folder"
    /\ \/ \E r \in records :
             Contains(query.path, r) /\ Answering(PathReply("folder", {r}))
       \/ HasPlaceholder(query.path) /\ Answering(PathReply("folder", {}))
       \/ /\ ~HasPlaceholder(query.path)
          /\ \A r \in records : ~Contains(query.path, r)
          /\ \/ query.path.kind = "slash" /\ Answering(PathReply("not exist", {}))
             \/ query.path.kind # "slash" /\ Answering([query EXCEPT !.call = "path_file"])

(* Deviation for a mutant: files are looked for by their keys only.         *)
PathFile_KeyOnly ==
    /\ query.call = "path_file"
    /\ \/ query.path = Hidden /\ SizeThrows
       \/ \E r \in records :
             /\ query.path.kind = "key" /\ Names(query.path, r)
             /\ Answering(PathReply("file", {r}))
       \/ /\ query.path # Hidden
          /\ query.path.kind # "key" \/ \A r \in records : ~Names(query.path, r)
          /\ Answering(PathReply("folder", {}))

(* Second call: is it a file; if not, the content of the user's folder is   *)
(* sent, with the result "folder".                                          *)
PathFile ==
    /\ query.call = "path_file"
    /\ \/ query.path = Hidden /\ SizeThrows
       \/ \E r \in records :
             Names(query.path, r) /\ Answering(PathReply("file", {r}))
       \/ /\ query.path # Hidden
          /\ \A r \in records : ~Names(query.path, r)
          /\ Answering(PathReply("folder", {}))

BeginFilePath == BeginPath("file_path", "file_path")

(* handle_file_path: by the key, else the content of the user's folder.     *)
FilePath ==
    /\ query.call = "file_path"
    /\ \/ query.path = Hidden /\ SizeThrows
       \/ \E r \in records :
             /\ query.path.kind = "key" /\ Names(query.path, r)
             /\ Answering(PathReply("file", {r}))
       \/ /\ query.path # Hidden
          /\ query.path.kind # "key" \/ \A r \in records : ~Names(query.path, r)
          /\ Answering(PathReply("folder", {}))

-----------------------------------------------------------------------------
QNext ==
    \/ StoreStep
    \/ BeginList \/ ListFind \/ ListFolders
    \/ BeginIds \/ IdsNext \/ IdsReply
    \/ BeginPathInf \/ PathFolder \/ PathFile
    \/ BeginFilePath \/ FilePath
    \/ QueryFails \/ Deliver

QSpec == QInit /\ [][QNext]_allVars

-----------------------------------------------------------------------------
Replying(op) == query.call = "reply" /\ query.op = op

(* A listing shows every upload that was reported before it began and that  *)
(* no client asked to delete: the file itself, or the folder that leads to  *)
(* it, although files and folders are read by separate calls                *)
(* (wssSession.cpp:317 and :379).                                           *)
KnownListed ==
    Replying("list") =>
       \A r \in records :
          r.id \in known \ doomed =>
             \/ r.s3Key.folder = query.folder /\ r \in query.files
             \/ SegmentIn[query.folder][r.s3Key.folder] \in query.folders
             \/ ~InOrBelow(query.folder, r.s3Key.folder)

(* The link of a listed file works, unless a client has asked to delete the *)
(* file: links are signed without asking the bucket (wssSession.cpp:339).   *)
ListedDownloadable ==
    Replying("list") =>
       \A r \in query.files : r.id \in doomed \/ Intact(r)

(* One item for each id, in the order of the request, and its own record:   *)
(* whatever fails in between.                                               *)
ItemsInOrder ==
    Replying("ids") =>
       /\ Len(query.items) = Len(query.asked)
       /\ \A i \in DOMAIN query.items :
             LET item == query.items[i] IN
                /\ item.id = query.asked[i]
                /\ \A r \in item.record : r.id = item.id /\ r \in seen

(* The path is that of a folder, or begins one, with a file at that time.   *)
FoundAsFolder(path, found) ==
    HasPlaceholder(path) \/ \E q \in found \cap seen : Contains(path, q)

(* The path of a file that has been there throughout is answered with a     *)
(* file of that path, and never as what names nothing (wssSession.cpp:901), *)
(* unless a folder begins with it: folders are looked for first and         *)
(* without the slash at their end, and a file "cat" beside a folder "cats"  *)
(* is answered as a folder (wssSession.cpp:798).                            *)
FileFoundByPath ==
    Replying("path_inf") =>
       ((\E r \in steady : Names(query.path, r)) =>
           \/ query.result = "file" /\ \E q \in query.found : Names(query.path, q)
           \/ query.result = "folder" /\ FoundAsFolder(query.path, query.found))

(* The path of a folder is a folder if it has had a file throughout, in it  *)
(* or below, or the placeholder, though other files come and go; and so is  *)
(* whatever else begins such a folder.                                      *)
FolderFoundByPath ==
    Replying("path_inf") =>
       (HasPlaceholder(query.path) \/ (\E r \in steady : Contains(query.path, r))
          => query.result = "folder")

=============================================================================
