------------------------------ MODULE Messages ------------------------------
(***************************************************************************)
(* The messages of image.proto as the generated classes of image.pb.h and  *)
(* image.pb.cc lay them out.  For every message T:                         *)
(*   T            what its serialiser, its ByteSizeLong, Clear, MergeImpl  *)
(*                and InternalSwap go through, in the order it is written: *)
(*                the field, its number on the wire, its has-bit;          *)
(*   T_table      the entries of its parse table: the entry at position n  *)
(*                is what the parser does with field number n;             *)
(*   T_accessors  the has-bit its setters set and its clear_ and release_  *)
(*                functions reset.                                         *)
(* The serialiser, the parser and the accessors find a field by these      *)
(* three tables, which nothing but the generator keeps in step.            *)
(***************************************************************************)

(* A field as the serialiser writes it.  Str and Raw are a string and a    *)
(* bytes field, Strs and Msgs their repeated forms.                        *)
Field(kind, name, number, bit) ==
    [kind |-> kind, name |-> name, number |-> number, bit |-> bit]
Str(name, number, bit) == Field("Str", name, number, bit)
Raw(name, number, bit) == Field("Raw", name, number, bit)
Int64(name, number, bit) == Field("Int64", name, number, bit)
Enum(name, number, bit) == Field("Enum", name, number, bit)
Strs(name, number, bit) == Field("Strs", name, number, bit)
Msgs(name, number, bit, type) ==
    [kind |-> "Msgs", name |-> name, number |-> number, bit |-> bit, type |-> type]
(* The oneof "content": its alternatives and the number each is written    *)
(* under.  It has no has-bit, its case says which alternative is set.      *)
Oneof(cases) == [kind |-> "Oneof", name |-> "content", cases |-> cases]

(* An entry of a parse table.  Utf8 and Bytes are a string and a bytes     *)
(* field, Utf8s and Subs repeated strings and messages, Alt an alternative *)
(* of the oneof.                                                           *)
Entry(kind, name, bit) == [kind |-> kind, name |-> name, bit |-> bit]
Utf8(name, bit) == Entry("Utf8", name, bit)
Bytes(name, bit) == Entry("Bytes", name, bit)
Varint(name, bit) == Entry("Varint", name, bit)
Utf8s(name, bit) == Entry("Utf8s", name, bit)
Subs(name, bit, type) == [kind |-> "Subs", name |-> name, bit |-> bit, type |-> type]
Alt(name, type) == [kind |-> "Alt", name |-> name, type |-> type]

(* An alternative of a oneof as its accessors use it: the value of the     *)
(* case and the message it holds.                                          *)
Alternative(case, type) == [case |-> case, type |-> type]

Picture ==
    <<Str("fileName", 1, 0), Str("folderId", 2, 1), Str("contentType", 3, 2),
      Raw("data", 4, 3), Int64("timestamp", 5, 4)>>
Picture_table ==
    <<Utf8("fileName", 0), Utf8("folderId", 1), Utf8("contentType", 2),
      Bytes("data", 3), Varint("timestamp", 4)>>
Picture_accessors ==
    [fileName |-> 0, folderId |-> 1, contentType |-> 2, data |-> 3,
      timestamp |-> 4]

AddFileRequest ==
    <<Str("fileName", 1, 0), Str("folder", 2, 1), Str("info", 3, 2),
      Raw("data", 4, 3)>>
AddFileRequest_table ==
    <<Utf8("fileName", 0), Utf8("folder", 1), Utf8("info", 2), Bytes("data", 3)>>
AddFileRequest_accessors ==
    [fileName |-> 0, folder |-> 1, info |-> 2, data |-> 3]

RewriteFileRequest ==
    <<Str("fileName", 1, 0), Str("folder", 2, 1), Str("fileId", 3, 2)>>
RewriteFileRequest_table ==
    <<Utf8("fileName", 0), Utf8("folder", 1), Utf8("fileId", 2)>>
RewriteFileRequest_accessors == [fileName |-> 0, folder |-> 1, fileId |-> 2]

AddFolderRequest ==
    <<Str("folderName", 1, 0), Str("folder", 2, 1), Str("info", 3, 2)>>
AddFolderRequest_table ==
    <<Utf8("folderName", 0), Utf8("folder", 1), Utf8("info", 2)>>
AddFolderRequest_accessors == [folderName |-> 0, folder |-> 1, info |-> 2]

ServerResponse == <<Str("content", 1, 0), Str("status", 2, 1)>>
ServerResponse_table == <<Utf8("content", 0), Utf8("status", 1)>>
ServerResponse_accessors == [content |-> 0, status |-> 1]

FilesIds == <<Strs("mongoIds", 1, 0)>>
FilesIds_table == <<Utf8s("mongoIds", 0)>>
FilesIds_accessors == [mongoIds |-> 0]

FilesFoldersListRequest == <<Str("folderName", 1, 0)>>
FilesFoldersListRequest_table == <<Utf8("folderName", 0)>>
FilesFoldersListRequest_accessors == [folderName |-> 0]

FilesOnlyListRequest == <<Str("folderName", 1, 0)>>
FilesOnlyListRequest_table == <<Utf8("folderName", 0)>>
FilesOnlyListRequest_accessors == [folderName |-> 0]

FileInfo ==
    <<Str("fileName", 1, 0), Str("mongoId", 2, 1), Str("url", 3, 2),
      Int64("size", 4, 3)>>
FileInfo_table ==
    <<Utf8("fileName", 0), Utf8("mongoId", 1), Utf8("url", 2),
      Varint("size", 3)>>
FileInfo_accessors == [fileName |-> 0, mongoId |-> 1, url |-> 2, size |-> 3]

PathInfoRequest == <<Str("netPath", 1, 0)>>
PathInfoRequest_table == <<Utf8("netPath", 0)>>
PathInfoRequest_accessors == [netPath |-> 0]

PathInfoResponse ==
    <<Str("fileName", 1, 0), Str("netPath", 2, 1), Str("netStorePath", 3, 2),
      Str("result", 4, 3)>>
PathInfoResponse_table ==
    <<Utf8("fileName", 0), Utf8("netPath", 1), Utf8("netStorePath", 2),
      Utf8("result", 3)>>
PathInfoResponse_accessors ==
    [fileName |-> 0, netPath |-> 1, netStorePath |-> 2, result |-> 3]

FilePathRequest == <<Str("netPath", 1, 0)>>
FilePathRequest_table == <<Utf8("netPath", 0)>>
FilePathRequest_accessors == [netPath |-> 0]

FilePathResponse ==
    <<Str("fileName", 1, 0), Str("mongoId", 2, 1), Str("url", 3, 2),
      Int64("size", 4, 3)>>
FilePathResponse_table ==
    <<Utf8("fileName", 0), Utf8("mongoId", 1), Utf8("url", 2),
      Varint("size", 3)>>
FilePathResponse_accessors ==
    [fileName |-> 0, mongoId |-> 1, url |-> 2, size |-> 3]

FolderInfo == <<Str("folderName", 1, 0), Str("url", 2, 1)>>
FolderInfo_table == <<Utf8("folderName", 0), Utf8("url", 1)>>
FolderInfo_accessors == [folderName |-> 0, url |-> 1]

FilesFoldersListResponse ==
    <<Msgs("files", 1, 0, "FileInfo"), Msgs("folders", 2, 1, "FolderInfo")>>
FilesFoldersListResponse_table ==
    <<Subs("files", 0, "FileInfo"), Subs("folders", 1, "FolderInfo")>>
FilesFoldersListResponse_accessors == [files |-> 0, folders |-> 1]

FilesOnlyListResponse == <<Msgs("files", 1, 0, "FileInfo")>>
FilesOnlyListResponse_table == <<Subs("files", 0, "FileInfo")>>
FilesOnlyListResponse_accessors == [files |-> 0]

BucketsRequest == <<Str("userLogin", 1, 0)>>
BucketsRequest_table == <<Utf8("userLogin", 0)>>
BucketsRequest_accessors == [userLogin |-> 0]

BucketInfo == <<Str("bucketName", 1, 0), Str("url", 2, 1)>>
BucketInfo_table == <<Utf8("bucketName", 0), Utf8("url", 1)>>
BucketInfo_accessors == [bucketName |-> 0, url |-> 1]

BucketsList == <<Msgs("bucketInf", 1, 0, "BucketInfo")>>
BucketsList_table == <<Subs("bucketInf", 0, "BucketInfo")>>
BucketsList_accessors == [bucketInf |-> 0]

DeleteFileRequest == <<Str("fileName", 1, 0), Str("mongoId", 2, 1)>>
DeleteFileRequest_table == <<Utf8("fileName", 0), Utf8("mongoId", 1)>>
DeleteFileRequest_accessors == [fileName |-> 0, mongoId |-> 1]

DeleteFolderRequest == <<Str("folderName", 1, 0), Str("fileId", 2, 1)>>
DeleteFolderRequest_table == <<Utf8("folderName", 0), Utf8("fileId", 1)>>
DeleteFolderRequest_accessors == [folderName |-> 0, fileId |-> 1]

DeleteBucketRequest == <<Str("bucketName", 1, 0)>>
DeleteBucketRequest_table == <<Utf8("bucketName", 0)>>
DeleteBucketRequest_accessors == [bucketName |-> 0]

RegisterRequest ==
    <<Str("userLogin", 1, 0), Str("password", 2, 1), Str("full_name", 3, 2)>>
RegisterRequest_table ==
    <<Utf8("userLogin", 0), Utf8("password", 1), Utf8("full_name", 2)>>
RegisterRequest_accessors == [userLogin |-> 0, password |-> 1, full_name |-> 2]

AuthRequest == <<Str("userLogin", 1, 0), Str("password", 2, 1)>>
AuthRequest_table == <<Utf8("userLogin", 0), Utf8("password", 1)>>
AuthRequest_accessors == [userLogin |-> 0, password |-> 1]

AuthResponse == <<Str("token", 1, 0), Str("error", 2, 1)>>
AuthResponse_table == <<Utf8("token", 0), Utf8("error", 1)>>
AuthResponse_accessors == [token |-> 0, error |-> 1]

-----------------------------------------------------------------------------
(* ClientEnvelope: the oneof, its alternatives and their accessors. *)
ClientEnvelope_cases ==
    [addFile |-> 2, addFolder |-> 3, listRequest |-> 4, filesListRequest |-> 5,
      filesIdsRequest |-> 6, pathInfRequest |-> 7, reqUserBuckets |-> 8,
      deleteFile |-> 9, deleteFolder |-> 10, deleteBucket |-> 11,
      regRequest |-> 12, authRequest |-> 13, rewriteFileRequest |-> 14,
      filePathRequest |-> 15]
ClientEnvelope ==
    <<Enum("type", 1, 1), Oneof(ClientEnvelope_cases), Str("token", 16, 0)>>
ClientEnvelope_table ==
    <<Varint("type", 1), Alt("addFile", "AddFileRequest"),
      Alt("addFolder", "AddFolderRequest"),
      Alt("listRequest", "FilesFoldersListRequest"),
      Alt("filesListRequest", "FilesOnlyListRequest"),
      Alt("filesIdsRequest", "FilesIds"),
      Alt("pathInfRequest", "PathInfoRequest"),
      Alt("reqUserBuckets", "BucketsRequest"),
      Alt("deleteFile", "DeleteFileRequest"),
      Alt("deleteFolder", "DeleteFolderRequest"),
      Alt("deleteBucket", "DeleteBucketRequest"),
      Alt("regRequest", "RegisterRequest"), Alt("authRequest", "AuthRequest"),
      Alt("rewriteFileRequest", "RewriteFileRequest"),
      Alt("filePathRequest", "FilePathRequest"), Utf8("token", 0)>>
ClientEnvelope_accessors == [type |-> 1, token |-> 0]
ClientEnvelope_addFile == Alternative(2, "AddFileRequest")
ClientEnvelope_addFolder == Alternative(3, "AddFolderRequest")
ClientEnvelope_listRequest == Alternative(4, "FilesFoldersListRequest")
ClientEnvelope_filesListRequest == Alternative(5, "FilesOnlyListRequest")
ClientEnvelope_filesIdsRequest == Alternative(6, "FilesIds")
ClientEnvelope_pathInfRequest == Alternative(7, "PathInfoRequest")
ClientEnvelope_reqUserBuckets == Alternative(8, "BucketsRequest")
ClientEnvelope_deleteFile == Alternative(9, "DeleteFileRequest")
ClientEnvelope_deleteFolder == Alternative(10, "DeleteFolderRequest")
ClientEnvelope_deleteBucket == Alternative(11, "DeleteBucketRequest")
ClientEnvelope_regRequest == Alternative(12, "RegisterRequest")
ClientEnvelope_authRequest == Alternative(13, "AuthRequest")
ClientEnvelope_rewriteFileRequest == Alternative(14, "RewriteFileRequest")
ClientEnvelope_filePathRequest == Alternative(15, "FilePathRequest")
ClientEnvelope_content ==
    [addFile |-> ClientEnvelope_addFile, addFolder |-> ClientEnvelope_addFolder,
      listRequest |-> ClientEnvelope_listRequest,
      filesListRequest |-> ClientEnvelope_filesListRequest,
      filesIdsRequest |-> ClientEnvelope_filesIdsRequest,
      pathInfRequest |-> ClientEnvelope_pathInfRequest,
      reqUserBuckets |-> ClientEnvelope_reqUserBuckets,
      deleteFile |-> ClientEnvelope_deleteFile,
      deleteFolder |-> ClientEnvelope_deleteFolder,
      deleteBucket |-> ClientEnvelope_deleteBucket,
      regRequest |-> ClientEnvelope_regRequest,
      authRequest |-> ClientEnvelope_authRequest,
      rewriteFileRequest |-> ClientEnvelope_rewriteFileRequest,
      filePathRequest |-> ClientEnvelope_filePathRequest]
(* The bytes ByteSizeLong counts for the tag of each field.               *)
(* Deviation: every tag counted as one byte.                              *)
ClientEnvelope_sizes_OneByte == [type |-> 1, content |-> 1, token |-> 1]
ClientEnvelope_sizes == [type |-> 1, content |-> 1, token |-> 2]

-----------------------------------------------------------------------------
(* ServerEnvelope: the oneof, its alternatives and their accessors. *)
ServerEnvelope_cases ==
    [serverResp |-> 2, fileInfo |-> 3, folderInfo |-> 4, listResponse |-> 5,
      filesListResponse |-> 6, bucketInfo |-> 7, buckets |-> 8,
      authResponse |-> 9, filesIdsResponse |-> 10, pathInfResponse |-> 11,
      FilePathResponse |-> 12]
ServerEnvelope == <<Enum("type", 1, 0), Oneof(ServerEnvelope_cases)>>
ServerEnvelope_table ==
    <<Varint("type", 0), Alt("serverResp", "ServerResponse"),
      Alt("fileInfo", "FileInfo"), Alt("folderInfo", "FolderInfo"),
      Alt("listResponse", "FilesFoldersListResponse"),
      Alt("filesListResponse", "FilesOnlyListResponse"),
      Alt("bucketInfo", "BucketInfo"), Alt("buckets", "BucketsList"),
      Alt("authResponse", "AuthResponse"),
      Alt("filesIdsResponse", "FilesOnlyListResponse"),
      Alt("pathInfResponse", "PathInfoResponse"),
      Alt("FilePathResponse", "FilePathResponse")>>
ServerEnvelope_accessors == [type |-> 0]
ServerEnvelope_serverResp == Alternative(2, "ServerResponse")
ServerEnvelope_fileInfo == Alternative(3, "FileInfo")
ServerEnvelope_folderInfo == Alternative(4, "FolderInfo")
ServerEnvelope_listResponse == Alternative(5, "FilesFoldersListResponse")
ServerEnvelope_filesListResponse == Alternative(6, "FilesOnlyListResponse")
ServerEnvelope_bucketInfo == Alternative(7, "BucketInfo")
ServerEnvelope_buckets == Alternative(8, "BucketsList")
ServerEnvelope_authResponse == Alternative(9, "AuthResponse")
ServerEnvelope_filesIdsResponse == Alternative(10, "FilesOnlyListResponse")
ServerEnvelope_pathInfResponse == Alternative(11, "PathInfoResponse")
ServerEnvelope_FilePathResponse == Alternative(12, "FilePathResponse")
ServerEnvelope_content ==
    [serverResp |-> ServerEnvelope_serverResp,
      fileInfo |-> ServerEnvelope_fileInfo,
      folderInfo |-> ServerEnvelope_folderInfo,
      listResponse |-> ServerEnvelope_listResponse,
      filesListResponse |-> ServerEnvelope_filesListResponse,
      bucketInfo |-> ServerEnvelope_bucketInfo,
      buckets |-> ServerEnvelope_buckets,
      authResponse |-> ServerEnvelope_authResponse,
      filesIdsResponse |-> ServerEnvelope_filesIdsResponse,
      pathInfResponse |-> ServerEnvelope_pathInfResponse,
      FilePathResponse |-> ServerEnvelope_FilePathResponse]
(* The bytes ByteSizeLong counts for the tag of each field.               *)
ServerEnvelope_sizes == [type |-> 1, content |-> 1]

-----------------------------------------------------------------------------
(* The message types.  ByteSizeLong counts one byte for a tag everywhere   *)
(* but in the client's envelope.                                           *)
Simple(fields, table, accessors) ==
    [fields |-> fields, table |-> table, accessors |-> accessors,
     content |-> <<>>, sizes |-> [f \in {fields[i].name : i \in DOMAIN fields} |-> 1]]
Envelope(fields, table, accessors, content, sizes) ==
    [fields |-> fields, table |-> table, accessors |-> accessors,
     content |-> content, sizes |-> sizes]
Layout ==
    [Picture |-> Simple(Picture, Picture_table, Picture_accessors),
     AddFileRequest |->
           Simple(AddFileRequest, AddFileRequest_table,
                  AddFileRequest_accessors),
     RewriteFileRequest |->
           Simple(RewriteFileRequest, RewriteFileRequest_table,
                  RewriteFileRequest_accessors),
     AddFolderRequest |->
           Simple(AddFolderRequest, AddFolderRequest_table,
                  AddFolderRequest_accessors),
     ServerResponse |->
           Simple(ServerResponse, ServerResponse_table,
                  ServerResponse_accessors),
     FilesIds |-> Simple(FilesIds, FilesIds_table, FilesIds_accessors),
     FilesFoldersListRequest |->
           Simple(FilesFoldersListRequest, FilesFoldersListRequest_table,
                  FilesFoldersListRequest_accessors),
     FilesOnlyListRequest |->
           Simple(FilesOnlyListRequest, FilesOnlyListRequest_table,
                  FilesOnlyListRequest_accessors),
     FileInfo |-> Simple(FileInfo, FileInfo_table, FileInfo_accessors),
     PathInfoRequest |->
           Simple(PathInfoRequest, PathInfoRequest_table,
                  PathInfoRequest_accessors),
     PathInfoResponse |->
           Simple(PathInfoResponse, PathInfoResponse_table,
                  PathInfoResponse_accessors),
     FilePathRequest |->
           Simple(FilePathRequest, FilePathRequest_table,
                  FilePathRequest_accessors),
     FilePathResponse |->
           Simple(FilePathResponse, FilePathResponse_table,
                  FilePathResponse_accessors),
     FolderInfo |-> Simple(FolderInfo, FolderInfo_table, FolderInfo_accessors),
     FilesFoldersListResponse |->
           Simple(FilesFoldersListResponse, FilesFoldersListResponse_table,
                  FilesFoldersListResponse_accessors),
     FilesOnlyListResponse |->
           Simple(FilesOnlyListResponse, FilesOnlyListResponse_table,
                  FilesOnlyListResponse_accessors),
     BucketsRequest |->
           Simple(BucketsRequest, BucketsRequest_table,
                  BucketsRequest_accessors),
     BucketInfo |-> Simple(BucketInfo, BucketInfo_table, BucketInfo_accessors),
     BucketsList |->
           Simple(BucketsList, BucketsList_table,
                  BucketsList_accessors),
     DeleteFileRequest |->
           Simple(DeleteFileRequest, DeleteFileRequest_table,
                  DeleteFileRequest_accessors),
     DeleteFolderRequest |->
           Simple(DeleteFolderRequest, DeleteFolderRequest_table,
                  DeleteFolderRequest_accessors),
     DeleteBucketRequest |->
           Simple(DeleteBucketRequest, DeleteBucketRequest_table,
                  DeleteBucketRequest_accessors),
     RegisterRequest |->
           Simple(RegisterRequest, RegisterRequest_table,
                  RegisterRequest_accessors),
     AuthRequest |->
           Simple(AuthRequest, AuthRequest_table,
                  AuthRequest_accessors),
     AuthResponse |->
           Simple(AuthResponse, AuthResponse_table,
                  AuthResponse_accessors),
     ClientEnvelope |->
           Envelope(ClientEnvelope, ClientEnvelope_table, ClientEnvelope_accessors,
                    ClientEnvelope_content, ClientEnvelope_sizes),
     ServerEnvelope |->
           Envelope(ServerEnvelope, ServerEnvelope_table, ServerEnvelope_accessors,
                    ServerEnvelope_content, ServerEnvelope_sizes)]
=============================================================================
