------------------------------ MODULE UploadProofs ------------------------------
(***************************************************************************)
(* Proofs about the files FileStore keeps, however many sessions there are *)
(* and whatever fails.  Without copies every key has a uuid of its own, so *)
(* that uploads and deletions cannot touch each other's objects.  With     *)
(* copies too, a record goes only when its deletion was asked for.         *)
(***************************************************************************)
EXTENDS FileStoreProofs

RwCalls == {"rw_find", "rw_head", "rw_copy", "rw_insert"}
UploadCalls == {"add_check", "add_put", "add_insert"}
DeleteCalls == {"del_object", "del_record"}

(* The uuid that prepare_filename drew last for a name.                     *)
Draw(name) == Head(name.uuid)

(* File n is being stored by j, is stored or is being deleted under a key   *)
(* whose name has the uuid u.                                               *)
JobClaim(j, u, n) ==
    \/ j.call \in UploadCalls /\ u = Draw(j.name) /\ n = j.num
    \/ j.call \in DeleteCalls /\ u = Draw(j.source.s3Key.name) /\ n = j.source.id
RecordClaim(r, u, n) == u = Draw(r.s3Key.name) /\ n = r.id
Claim(u, n) ==
    \/ \E s \in Sessions : JobClaim(job[s], u, n)
    \/ \E r \in records : RecordClaim(r, u, n)

NoCopies == \A s \in Sessions : job[s].call \notin RwCalls
ClaimsDrawn == \A u, n : Claim(u, n) => u \in Nat /\ u < uuids
ClaimsUnique == \A u, m, n : Claim(u, m) /\ Claim(u, n) => m = n
ClaimsInv == NoCopies /\ ClaimsDrawn /\ ClaimsUnique

-----------------------------------------------------------------------------
(* Claims.                                                                  *)

LEMMA JobNext ==
    ASSUME TypeOK, NEW s \in Sessions, NEW j, job' = [job EXCEPT ![s] = j]
    PROVE  job'[s] = j /\ \A t \in Sessions : t # s => job'[t] = job[t]
  BY DEF TypeOK

LEMMA NoCopiesNext ==
    ASSUME TypeOK, NoCopies, NEW s \in Sessions, NEW j,
           job' = [job EXCEPT ![s] = j], j.call \notin RwCalls
    PROVE  NoCopies'
  <1>1. job'[s] = j /\ \A t \in Sessions : t # s => job'[t] = job[t]
    BY JobNext
  <1> QED BY <1>1, Zenon DEF NoCopies

(* A step that draws no uuid claims nothing that was not claimed.           *)
LEMMA ClaimsKept ==
    ASSUME ClaimsDrawn, ClaimsUnique, uuids' = uuids,
           \A u, n : Claim(u, n)' => Claim(u, n)
    PROVE  ClaimsDrawn' /\ ClaimsUnique'
  <1>1. ClaimsDrawn'
    BY Zenon DEF ClaimsDrawn
  <1>2. ClaimsUnique'
    BY Zenon DEF ClaimsUnique
  <1> QED BY <1>1, <1>2

(* A step of one job that draws none.                                       *)
LEMMA ClaimsStep ==
    ASSUME TypeOK, ClaimsInv, NEW s \in Sessions, NEW j,
           job' = [job EXCEPT ![s] = j], uuids' = uuids, j.call \notin RwCalls,
           \A u, n : JobClaim(j, u, n) => Claim(u, n),
           \A r \in records' : r \in records \/ \A u, n : RecordClaim(r, u, n) => Claim(u, n)
    PROVE  ClaimsInv'
  <1>1. job'[s] = j /\ \A t \in Sessions : t # s => job'[t] = job[t]
    BY JobNext
  <1>2. ASSUME NEW u, NEW n, Claim(u, n)'
        PROVE  Claim(u, n)
    <2>1. CASE \E t \in Sessions : JobClaim(job'[t], u, n)
      <3>1. PICK t \in Sessions : JobClaim(job'[t], u, n)
        BY <2>1
      <3>2. CASE t = s
        BY <1>1, <3>1, <3>2, Zenon
      <3>3. CASE t # s
        <4>1. JobClaim(job[t], u, n)
          BY <1>1, <3>1, <3>3, Zenon
        <4> QED BY <4>1, Zenon DEF Claim
      <3> QED BY <3>2, <3>3
    <2>2. CASE \E r \in records' : RecordClaim(r, u, n)
      BY <2>2, Zenon DEF Claim
    <2>3. \/ \E t \in Sessions : JobClaim(job'[t], u, n)
          \/ \E r \in records' : RecordClaim(r, u, n)
      BY <1>2, Zenon DEF Claim, JobClaim, RecordClaim
    <2> QED BY <2>1, <2>2, <2>3
  <1>3. ClaimsDrawn' /\ ClaimsUnique'
    BY <1>2, ClaimsKept, Zenon DEF ClaimsInv
  <1> QED BY <1>3, NoCopiesNext, Zenon DEF ClaimsInv

(* A step of an upload that draws a uuid.                                   *)
LEMMA ClaimsDraw ==
    ASSUME TypeOK, ClaimsInv, NEW s \in Sessions, NEW j,
           job' = [job EXCEPT ![s] = j], uuids' = uuids + 1, records' = records,
           j.call \in UploadCalls, Draw(j.name) = uuids
    PROVE  ClaimsInv'
  <1>1. job'[s] = j /\ \A t \in Sessions : t # s => job'[t] = job[t]
    BY JobNext
  <1>2. ASSUME NEW u, NEW n, Claim(u, n)'
        PROVE  Claim(u, n) \/ (u = uuids /\ n = j.num)
    <2>1. CASE \E t \in Sessions : JobClaim(job'[t], u, n)
      <3>1. PICK t \in Sessions : JobClaim(job'[t], u, n)
        BY <2>1
      <3>2. CASE t = s
        BY <1>1, <3>1, <3>2 DEF JobClaim, UploadCalls, DeleteCalls
      <3>3. CASE t # s
        <4>1. JobClaim(job[t], u, n)
          BY <1>1, <3>1, <3>3, Zenon
        <4> QED BY <4>1, Zenon DEF Claim
      <3> QED BY <3>2, <3>3
    <2>2. CASE \E r \in records' : RecordClaim(r, u, n)
      BY <2>2, Zenon DEF Claim
    <2>3. \/ \E t \in Sessions : JobClaim(job'[t], u, n)
          \/ \E r \in records' : RecordClaim(r, u, n)
      BY <1>2, Zenon DEF Claim, JobClaim, RecordClaim
    <2> QED BY <2>1, <2>2, <2>3
  <1>3. uuids \in Nat
    BY DEF TypeOK
  <1>4. \A n : ~Claim(uuids, n)
    BY <1>3 DEF ClaimsInv, ClaimsDrawn
  <1>5. ClaimsDrawn'
    <2> SUFFICES ASSUME NEW u, NEW n, Claim(u, n)' PROVE u \in Nat /\ u < uuids'
      BY Zenon DEF ClaimsDrawn
    <2>1. CASE Claim(u, n)
      <3>1. u \in Nat /\ u < uuids
        BY <2>1, Zenon DEF ClaimsInv, ClaimsDrawn
      <3> QED BY <1>3, <3>1
    <2>2. CASE u = uuids
      BY <1>3, <2>2
    <2> QED BY <1>2, <2>1, <2>2
  <1>6. ClaimsUnique'
    <2> SUFFICES ASSUME NEW u, NEW m, NEW n, Claim(u, m)', Claim(u, n)' PROVE m = n
      BY Zenon DEF ClaimsUnique
    <2>0. /\ Claim(u, m) \/ (u = uuids /\ m = j.num)
          /\ Claim(u, n) \/ (u = uuids /\ n = j.num)
      BY <1>2
    <2>1. CASE u = uuids
      <3>1. ~Claim(u, m) /\ ~Claim(u, n)
        BY <1>4, <2>1
      <3> QED BY <2>0, <3>1
    <2>2. CASE u # uuids
      <3>1. Claim(u, m) /\ Claim(u, n)
        BY <2>0, <2>2
      <3> QED BY <3>1, Zenon DEF ClaimsInv, ClaimsUnique
    <2> QED BY <2>1, <2>2
  <1>7. j.call \notin RwCalls
    BY DEF UploadCalls, RwCalls
  <1> QED BY <1>5, <1>6, <1>7, NoCopiesNext, Zenon DEF ClaimsInv

-----------------------------------------------------------------------------
(* What the calls do to the job that makes them.                            *)

LEMMA DrawOf ==
    ASSUME NEW name \in Name, NEW u
    PROVE  Draw(prepare_filename(name, u)) = u /\ prepare_filename(name, u).uuid # <<>>
  <1>1. name.uuid \in Seq(Nat) /\ prepare_filename(name, u).uuid = <<u>> \o name.uuid
    BY DEF Name, prepare_filename
  <1>2. Head(<<u>> \o name.uuid) = u /\ <<u>> \o name.uuid # <<>>
    BY <1>1
  <1> QED BY <1>1, <1>2 DEF Draw

LEMMA NumberedUuid ==
    ASSUME NEW name \in Name, NEW n
    PROVE  Numbered(name, n).uuid = name.uuid
  BY DEF Name, Numbered

LEMMA IdleClaims == \A u, n : ~JobClaim(Idle, u, n)
  BY DEF Idle, JobClaim, UploadCalls, DeleteCalls

LEMMA IdleRw == Idle.call \notin RwCalls
  BY DEF Idle, RwCalls

LEMMA CheckEffect ==
    ASSUME TypeOK, NEW s \in Sessions, AddCheck(s)
    PROVE  \E j : /\ Returns(s, j)
                  /\ j.call \in {"add_check", "add_put"} /\ j.num = job[s].num
                  /\ \/ /\ uuids' = uuids /\ j.name = job[s].name
                        /\ \/ j.original = job[s].original
                           \/ j.original.uuid = job[s].name.uuid
                     \/ /\ uuids' = uuids + 1 /\ Draw(j.name) = uuids
                        /\ j.name.uuid # <<>> /\ j.original = job[s].original
  <1>1. job[s] \in Upload /\ job[s].call = "add_check" /\ uuids \in Nat
    BY JobForms DEF TypeOK, AddCheck
  <1>2. job[s].original \in Name
    BY <1>1, UploadForm
  <1>3. CASE /\ Returns(s, [job[s] EXCEPT
                              !.original = Numbered(job[s].name, job[s].counter),
                              !.counter = @ + 1])
             /\ UNCHANGED uuids
    <2> DEFINE j == [job[s] EXCEPT !.original = Numbered(job[s].name, job[s].counter),
                                   !.counter = @ + 1]
    <2>1. /\ j.call = "add_check" /\ j.num = job[s].num /\ j.name = job[s].name
          /\ j.original = Numbered(job[s].name, job[s].counter)
      BY <1>1 DEF Upload
    <2>2. j.original.uuid = job[s].name.uuid
      BY <1>1, <2>1, NumberedUuid, UploadForm
    <2> HIDE DEF j
    <2> QED BY <1>3, <2>1, <2>2 DEF j
  <1>4. CASE Returns(s, [job[s] EXCEPT !.call = "add_put"]) /\ UNCHANGED uuids
    <2> DEFINE j == [job[s] EXCEPT !.call = "add_put"]
    <2>1. /\ j.call = "add_put" /\ j.num = job[s].num /\ j.name = job[s].name
          /\ j.original = job[s].original
      BY <1>1 DEF Upload
    <2> HIDE DEF j
    <2> QED BY <1>4, <2>1 DEF j
  <1>5. CASE /\ Returns(s, [job[s] EXCEPT !.call = "add_put",
                              !.name = prepare_filename(job[s].original, uuids)])
             /\ uuids' = uuids + 1
    <2> DEFINE j == [job[s] EXCEPT !.call = "add_put",
                                   !.name = prepare_filename(job[s].original, uuids)]
    <2>1. /\ j.call = "add_put" /\ j.num = job[s].num
          /\ j.name = prepare_filename(job[s].original, uuids)
          /\ j.original = job[s].original
      BY <1>1 DEF Upload
    <2>2. Draw(j.name) = uuids /\ j.name.uuid # <<>>
      BY <1>2, <2>1, DrawOf
    <2> HIDE DEF j
    <2> QED BY <1>5, <2>1, <2>2 DEF j
  <1> QED BY <1>3, <1>4, <1>5, Zenon DEF AddCheck

LEMMA PutEffect ==
    ASSUME TypeOK, NEW s \in Sessions, job[s].call = "add_put"
    PROVE  LET j == [job[s] EXCEPT !.call = "add_insert"] IN
           /\ j.call = "add_insert" /\ j.num = job[s].num /\ j.name = job[s].name
           /\ KeyOf(j) = KeyOf(job[s])
  <1>1. job[s] \in Upload
    BY JobForms DEF TypeOK
  <1> QED BY <1>1 DEF Upload, KeyOf

LEMMA DelObjectEffect ==
    ASSUME TypeOK, NEW s \in Sessions, job[s].call = "del_object"
    PROVE  LET j == [job[s] EXCEPT !.call = "del_record"] IN
           j.call = "del_record" /\ j.source = job[s].source
  <1>1. job[s] \in Jobs
    BY DEF TypeOK
  <1> QED BY <1>1 DEF Jobs, Idle, Upload, Deletion, Copying

LEMMA HeadEffect ==
    ASSUME TypeOK, NEW s \in Sessions, RwHead(s)
    PROVE  \E j : /\ Returns(s, j)
                  /\ j.num = job[s].num /\ j.source = job[s].source
                  /\ j.folder = job[s].folder
                  /\ \/ /\ j.call = "rw_copy" /\ KeyOf(j) = KeyOf(job[s])
                        /\ KeyOf(job[s]) \notin DOMAIN objects
                     \/ /\ j.call = "rw_head"
                        /\ j.name = Numbered(job[s].source.originalName, job[s].counter)
  <1>1. job[s] \in Jobs /\ job[s].call = "rw_head"
    BY DEF TypeOK, RwHead
  <1>2. CASE Returns(s, [job[s] EXCEPT
                           !.name = Numbered(job[s].source.originalName, job[s].counter),
                           !.counter = @ + 1])
    <2> DEFINE j == [job[s] EXCEPT
                       !.name = Numbered(job[s].source.originalName, job[s].counter),
                       !.counter = @ + 1]
    <2>1. /\ j.call = "rw_head" /\ j.num = job[s].num /\ j.source = job[s].source
          /\ j.folder = job[s].folder
          /\ j.name = Numbered(job[s].source.originalName, job[s].counter)
      BY <1>1 DEF Jobs, Idle, Upload, Deletion, Copying
    <2> HIDE DEF j
    <2> QED BY <1>2, <2>1 DEF j
  <1>3. CASE /\ Returns(s, [job[s] EXCEPT !.call = "rw_copy"])
             /\ KeyOf(job[s]) \notin DOMAIN objects
    <2> DEFINE j == [job[s] EXCEPT !.call = "rw_copy"]
    <2>1. /\ j.call = "rw_copy" /\ j.num = job[s].num /\ j.source = job[s].source
          /\ j.folder = job[s].folder /\ KeyOf(j) = KeyOf(job[s])
      BY <1>1 DEF Jobs, Idle, Upload, Deletion, Copying, KeyOf
    <2> HIDE DEF j
    <2> QED BY <1>3, <2>1 DEF j
  <1> QED BY <1>2, <1>3, Zenon DEF RwHead

LEMMA CopyEffect ==
    ASSUME TypeOK, NEW s \in Sessions, job[s].call = "rw_copy"
    PROVE  LET j == [job[s] EXCEPT !.call = "rw_insert"] IN
           /\ j.call = "rw_insert" /\ j.num = job[s].num /\ j.source = job[s].source
           /\ KeyOf(j) = KeyOf(job[s])
  <1>1. job[s] \in Jobs
    BY DEF TypeOK
  <1> QED BY <1>1 DEF Jobs, Idle, Upload, Deletion, Copying, KeyOf

-----------------------------------------------------------------------------
(* Every step keeps the claims apart.                                       *)

LEMMA ClaimsEnd ==
    ASSUME TypeOK, ClaimsInv, NEW s \in Sessions,
           job' = [job EXCEPT ![s] = Idle], uuids' = uuids, records' \subseteq records
    PROVE  ClaimsInv'
  BY ClaimsStep, IdleClaims, IdleRw, Zenon

LEMMA ClaimsAdd ==
    ASSUME TypeOK, ClaimsInv, NEW s \in Sessions,
           BeginAdd(s) \/ AddCheck(s) \/ AddPut(s) \/ AddInsert(s)
    PROVE  ClaimsInv'
  <1>1. CASE BeginAdd(s)
    <2>1. PICK folder \in Folders, stem \in Stems :
             job' = [job EXCEPT ![s] =
                       [call |-> "add_check", num |-> begun + 1,
                        folder |-> folder, original |-> ClientName(stem),
                        name |-> prepare_filename(ClientName(stem), uuids), counter |-> 1]]
      BY <1>1, Zenon DEF BeginAdd
    <2> DEFINE j == [call |-> "add_check", num |-> begun + 1,
                     folder |-> folder, original |-> ClientName(stem),
                     name |-> prepare_filename(ClientName(stem), uuids), counter |-> 1]
    <2>2. ClientName(stem) \in Name
      BY DEF ClientName, Name
    <2>3. j.call \in UploadCalls /\ Draw(j.name) = uuids
      BY <2>2, DrawOf DEF UploadCalls
    <2>4. uuids' = uuids + 1 /\ records' = records
      BY <1>1, Zenon DEF BeginAdd, Begin, stores
    <2> HIDE DEF j
    <2> QED BY <2>1, <2>3, <2>4, ClaimsDraw DEF j
  <1>2. CASE AddCheck(s)
    <2>1. PICK j : /\ Returns(s, j)
                   /\ j.call \in {"add_check", "add_put"} /\ j.num = job[s].num
                   /\ \/ uuids' = uuids /\ j.name = job[s].name
                      \/ uuids' = uuids + 1 /\ Draw(j.name) = uuids
      BY <1>2, CheckEffect
    <2>2. job' = [job EXCEPT ![s] = j] /\ records' = records
      BY <1>2, <2>1, Zenon DEF Returns, AddCheck, stores
    <2>3. /\ j.call \in UploadCalls /\ j.call \notin RwCalls /\ j.call \notin DeleteCalls
          /\ job[s].call \in UploadCalls
      BY <1>2, <2>1 DEF AddCheck, UploadCalls, RwCalls, DeleteCalls
    <2>4. CASE uuids' = uuids + 1 /\ Draw(j.name) = uuids
      BY <2>2, <2>3, <2>4, ClaimsDraw
    <2>5. CASE uuids' = uuids /\ j.name = job[s].name
      <3>1. \A u, n : JobClaim(j, u, n) => JobClaim(job[s], u, n)
        BY <2>1, <2>3, <2>5 DEF JobClaim
      <3>2. \A u, n : JobClaim(j, u, n) => Claim(u, n)
        BY <3>1, Zenon DEF Claim
      <3> QED BY <2>2, <2>3, <2>5, <3>2, ClaimsStep, Zenon
    <2> QED BY <2>1, <2>4, <2>5
  <1>3. CASE AddPut(s)
    <2>1. uuids' = uuids /\ records' = records /\ job[s].call = "add_put"
      BY <1>3, Zenon DEF AddPut
    <2>2. CASE Throws(s, {KeyOf(job[s])}, {})
      BY <2>1, <2>2, ClaimsEnd, Zenon DEF Throws
    <2>3. CASE Returns(s, [job[s] EXCEPT !.call = "add_insert"])
      <3> DEFINE j == [job[s] EXCEPT !.call = "add_insert"]
      <3>1. j.call = "add_insert" /\ j.num = job[s].num /\ j.name = job[s].name
        BY <2>1, PutEffect
      <3>2. job' = [job EXCEPT ![s] = j]
        BY <2>3, Zenon DEF Returns
      <3> HIDE DEF j
      <3>3. j.call \notin RwCalls
        BY <3>1 DEF RwCalls
      <3>4. \A u, n : JobClaim(j, u, n) => JobClaim(job[s], u, n)
        BY <2>1, <3>1 DEF JobClaim, UploadCalls, DeleteCalls
      <3>5. \A u, n : JobClaim(j, u, n) => Claim(u, n)
        BY <3>4, Zenon DEF Claim
      <3> QED BY <2>1, <3>2, <3>3, <3>5, ClaimsStep, Zenon
    <2> QED BY <1>3, <2>2, <2>3, Zenon DEF AddPut
  <1>4. CASE AddInsert(s)
    <2> DEFINE r == [id |-> job[s].num, originalName |-> job[s].original,
                     s3Key |-> KeyOf(job[s]), content |-> job[s].num]
    <2>1. /\ records' = records \cup {r} /\ uuids' = uuids
          /\ job[s].call = "add_insert" /\ job' = [job EXCEPT ![s] = Idle]
      BY <1>4, Zenon DEF AddInsert, Inserted, Returns, Throws
    <2>2. r.s3Key.name = job[s].name /\ r.id = job[s].num
      BY DEF KeyOf
    <2> HIDE DEF r
    <2>3. \A u, n : RecordClaim(r, u, n) => JobClaim(job[s], u, n)
      BY <2>1, <2>2 DEF RecordClaim, JobClaim, UploadCalls
    <2>4. \A u, n : RecordClaim(r, u, n) => Claim(u, n)
      BY <2>3, Zenon DEF Claim
    <2>5. \A q \in records' : q \in records \/ \A u, n : RecordClaim(q, u, n) => Claim(u, n)
      BY <2>1, <2>4
    <2> QED BY <2>1, <2>5, ClaimsStep, IdleClaims, IdleRw, Zenon
  <1> QED BY <1>1, <1>2, <1>3, <1>4

LEMMA ClaimsDelete ==
    ASSUME TypeOK, ClaimsInv, NEW s \in Sessions,
           BeginDelete(s) \/ DelFind(s) \/ DelObject(s) \/ DelRecord(s)
    PROVE  ClaimsInv'
  <1>1. CASE BeginDelete(s)
    <2>1. PICK id \in published :
             job' = [job EXCEPT ![s] = [call |-> "del_find", num |-> begun + 1, id |-> id]]
      BY <1>1, Zenon DEF BeginDelete
    <2> DEFINE j == [call |-> "del_find", num |-> begun + 1, id |-> id]
    <2>2. /\ j.call \notin RwCalls /\ \A u, n : ~JobClaim(j, u, n)
      BY DEF RwCalls, JobClaim, UploadCalls, DeleteCalls
    <2>3. uuids' = uuids /\ records' = records
      BY <1>1, Zenon DEF BeginDelete, Begin, stores
    <2> HIDE DEF j
    <2> QED BY <2>1, <2>2, <2>3, ClaimsStep, Zenon DEF j
  <1>2. CASE DelFind(s)
    <2>1. uuids' = uuids /\ records' = records
      BY <1>2, Zenon DEF DelFind, stores
    <2>2. CASE Returns(s, Idle)
      BY <2>1, <2>2, ClaimsEnd, Zenon DEF Returns
    <2>3. CASE \E r \in records :
                 Returns(s, [call |-> "del_object", num |-> job[s].num, source |-> r])
      <3>1. PICK r \in records :
               Returns(s, [call |-> "del_object", num |-> job[s].num, source |-> r])
        BY <2>3
      <3> DEFINE j == [call |-> "del_object", num |-> job[s].num, source |-> r]
      <3>2. j.call \notin RwCalls /\ \A u, n : JobClaim(j, u, n) => RecordClaim(r, u, n)
        BY DEF RwCalls, JobClaim, UploadCalls, DeleteCalls, RecordClaim
      <3>3. job' = [job EXCEPT ![s] = j]
        BY <3>1, Zenon DEF Returns
      <3> HIDE DEF j
      <3>4. \A u, n : JobClaim(j, u, n) => Claim(u, n)
        BY <3>2, Zenon DEF Claim
      <3> QED BY <2>1, <3>2, <3>3, <3>4, ClaimsStep, Zenon
    <2> QED BY <1>2, <2>2, <2>3, Zenon DEF DelFind
  <1>3. CASE DelObject(s)
    <2>1. uuids' = uuids /\ records' = records /\ job[s].call = "del_object"
      BY <1>3, Zenon DEF DelObject
    <2>2. CASE Throws(s, {}, {job[s].source.id})
      BY <2>1, <2>2, ClaimsEnd, Zenon DEF Throws
    <2>3. CASE Returns(s, [job[s] EXCEPT !.call = "del_record"])
      <3> DEFINE j == [job[s] EXCEPT !.call = "del_record"]
      <3>1. j.call = "del_record" /\ j.source = job[s].source
        BY <2>1, DelObjectEffect
      <3>2. job' = [job EXCEPT ![s] = j]
        BY <2>3, Zenon DEF Returns
      <3> HIDE DEF j
      <3>3. j.call \notin RwCalls
        BY <3>1 DEF RwCalls
      <3>4. \A u, n : JobClaim(j, u, n) => JobClaim(job[s], u, n)
        BY <2>1, <3>1 DEF JobClaim, UploadCalls, DeleteCalls
      <3>5. \A u, n : JobClaim(j, u, n) => Claim(u, n)
        BY <3>4, Zenon DEF Claim
      <3> QED BY <2>1, <3>2, <3>3, <3>5, ClaimsStep, Zenon
    <2> QED BY <1>3, <2>2, <2>3, Zenon DEF DelObject
  <1>4. CASE DelRecord(s)
    <2>1. /\ uuids' = uuids /\ records' \subseteq records
          /\ job' = [job EXCEPT ![s] = Idle]
      BY <1>4 DEF DelRecord, Returns, Throws
    <2> QED BY <2>1, ClaimsEnd
  <1> QED BY <1>1, <1>2, <1>3, <1>4

LEMMA ClaimsFail ==
    ASSUME TypeOK, ClaimsInv, (\E s \in Sessions : CallFails(s)) \/ Crash
    PROVE  ClaimsInv'
  <1>1. CASE \E s \in Sessions : CallFails(s)
    BY <1>1, ClaimsEnd, Zenon DEF CallFails, Throws, stores
  <1>2. CASE Crash
    <2>1. /\ uuids' = uuids /\ records' = records
          /\ \A s \in Sessions : job'[s] = Idle
      BY <1>2 DEF Crash, stores
    <2>2. ASSUME NEW u, NEW n, Claim(u, n)'
          PROVE  Claim(u, n)
      <3>1. \A s \in Sessions : ~JobClaim(job'[s], u, n)
        BY <2>1, IdleClaims
      <3>2. \/ \E s \in Sessions : JobClaim(job'[s], u, n)
            \/ \E r \in records' : RecordClaim(r, u, n)
        BY <2>2, Zenon DEF Claim, JobClaim, RecordClaim
      <3> QED BY <2>1, <3>1, <3>2, Zenon DEF Claim
    <2>3. NoCopies'
      BY <2>1, IdleRw DEF NoCopies
    <2>4. ClaimsDrawn' /\ ClaimsUnique'
      BY <2>1, <2>2, ClaimsKept, Zenon DEF ClaimsInv
    <2> QED BY <2>3, <2>4, Zenon DEF ClaimsInv
  <1> QED BY <1>1, <1>2

-----------------------------------------------------------------------------
(* What the claims protect: the object an upload has put is there until its *)
(* record is, a record's object is its own, and only what a client asked to *)
(* delete is touched.                                                       *)

JobDoomed(j) ==
    /\ j.call = "del_find" => j.id \in doomed
    /\ j.call \in DeleteCalls => j.source.id \in doomed
JobPut(j) ==
    j.call = "add_insert" =>
       KeyOf(j) \in DOMAIN objects /\ objects[KeyOf(j)] = j.num
Withdrawn(id) == \E s \in Sessions : Withdrawing(s) /\ job[s].source.id = id
Own(r) ==
    /\ r.content = r.id
    /\ r.s3Key \in DOMAIN objects => objects[r.s3Key] = r.id
    /\ r.s3Key \notin DOMAIN objects => r.id \in halfDeleted \/ Withdrawn(r.id)

DeletesDoomed == halfDeleted \subseteq doomed /\ \A s \in Sessions : JobDoomed(job[s])
PutDone == \A s \in Sessions : JobPut(job[s])
RecordsOwn == \A r \in records : Own(r)
AckedRecorded == \A n \in acked : n \in doomed \/ \E r \in records : r.id = n
StoredInv == DeletesDoomed /\ PutDone /\ RecordsOwn /\ AckedRecorded

LEMMA StoredNext ==
    ASSUME halfDeleted' \subseteq doomed',
           \A s \in Sessions : JobDoomed(job[s])' /\ JobPut(job[s])',
           \A r \in records' : Own(r)',
           \A n \in acked' : n \in doomed' \/ \E r \in records' : r.id = n
    PROVE  StoredInv'
  BY Zenon DEF StoredInv, DeletesDoomed, PutDone, RecordsOwn, AckedRecorded

(* Who was withdrawing still is, but for the job that moved.                *)
LEMMA WithdrawnKept ==
    ASSUME TypeOK, NEW s \in Sessions, NEW j, job' = [job EXCEPT ![s] = j],
           NEW id, Withdrawn(id), ~(Withdrawing(s) /\ job[s].source.id = id)
    PROVE  Withdrawn(id)'
  <1>1. \A t \in Sessions : t # s => job'[t] = job[t]
    BY JobNext
  <1>2. PICK t \in Sessions : Withdrawing(t) /\ job[t].source.id = id
    BY DEF Withdrawn
  <1>3. t # s
    BY <1>2
  <1>4. Withdrawing(t)' /\ job'[t].source.id = id
    BY <1>1, <1>2, <1>3 DEF Withdrawing
  <1> QED BY <1>4, Zenon DEF Withdrawn

LEMMA DoomedKept ==
    ASSUME TypeOK, DeletesDoomed, NEW s \in Sessions, NEW j,
           job' = [job EXCEPT ![s] = j], doomed \subseteq doomed',
           j.call = "del_find" => j.id \in doomed',
           j.call \in DeleteCalls => j.source.id \in doomed'
    PROVE  \A t \in Sessions : JobDoomed(job[t])'
  <1>1. job'[s] = j /\ \A t \in Sessions : t # s => job'[t] = job[t]
    BY JobNext
  <1>2. \A t \in Sessions : JobDoomed(job[t])
    BY DEF DeletesDoomed
  <1>3. JobDoomed(job[s])'
    BY <1>1 DEF JobDoomed
  <1>4. ASSUME NEW t \in Sessions, t # s
        PROVE  JobDoomed(job[t])'
    BY <1>1, <1>2, <1>4 DEF JobDoomed
  <1> QED BY <1>3, <1>4, Zenon

(* A step of one job that touches neither store nor acknowledges anything.  *)
LEMMA StoredKept ==
    ASSUME TypeOK, StoredInv, NEW s \in Sessions, NEW j,
           job' = [job EXCEPT ![s] = j],
           j.call \notin {"add_insert", "del_record"},
           j.call = "del_find" => j.id \in doomed',
           j.call \in DeleteCalls => j.source.id \in doomed',
           UNCHANGED <<objects, records, acked>>, doomed \subseteq doomed',
           halfDeleted \subseteq halfDeleted', halfDeleted' \subseteq doomed',
           Withdrawing(s) => job[s].source.id \in halfDeleted'
    PROVE  StoredInv'
  <1>1. job'[s] = j /\ \A t \in Sessions : t # s => job'[t] = job[t]
    BY JobNext
  <1>2. \A t \in Sessions : JobDoomed(job[t])'
    BY DoomedKept DEF StoredInv
  <1>3. ASSUME NEW t \in Sessions
        PROVE  JobPut(job[t])'
    <2>1. CASE t = s
      BY <1>1, <2>1 DEF JobPut
    <2>2. CASE t # s
      BY <1>1, <2>2 DEF StoredInv, PutDone, JobPut, KeyOf
    <2> QED BY <2>1, <2>2
  <1>4. ASSUME NEW r \in records
        PROVE  Own(r)'
    <2>1. Own(r)
      BY DEF StoredInv, RecordsOwn
    <2>2. Withdrawn(r.id) => r.id \in halfDeleted' \/ Withdrawn(r.id)'
      BY WithdrawnKept
    <2> QED BY <2>1, <2>2 DEF Own
  <1>5. \A n \in acked' : n \in doomed' \/ \E r \in records' : r.id = n
    BY DEF StoredInv, AckedRecorded
  <1> QED BY <1>2, <1>3, <1>4, <1>5, StoredNext, Zenon

(* The keys that a claim protects from an upload or a deletion.             *)
LEMMA KeyClaims ==
    ASSUME NEW s \in Sessions
    PROVE  /\ job[s].call \in UploadCalls => Claim(Draw(KeyOf(job[s]).name), job[s].num)
           /\ job[s].call \in DeleteCalls =>
                 Claim(Draw(job[s].source.s3Key.name), job[s].source.id)
  <1>1. KeyOf(job[s]).name = job[s].name
    BY DEF KeyOf
  <1> QED BY <1>1 DEF Claim, JobClaim

LEMMA JobsApart ==
    ASSUME ClaimsInv, NEW s \in Sessions, NEW t \in Sessions, job[t].call \in UploadCalls
    PROVE  /\ job[s].call \in UploadCalls /\ KeyOf(job[s]) = KeyOf(job[t])
              => job[s].num = job[t].num
           /\ job[s].call \in DeleteCalls /\ job[s].source.s3Key = KeyOf(job[t])
              => job[s].source.id = job[t].num
  BY KeyClaims DEF ClaimsInv, ClaimsUnique

LEMMA RecordsApart ==
    ASSUME ClaimsInv, NEW s \in Sessions, NEW r \in records
    PROVE  /\ job[s].call \in UploadCalls /\ KeyOf(job[s]) = r.s3Key => job[s].num = r.id
           /\ job[s].call \in DeleteCalls /\ job[s].source.s3Key = r.s3Key
              => job[s].source.id = r.id
  <1>1. Claim(Draw(r.s3Key.name), r.id)
    BY DEF Claim, RecordClaim
  <1> QED BY <1>1, KeyClaims DEF ClaimsInv, ClaimsUnique

-----------------------------------------------------------------------------
(* The steps.                                                               *)

LEMMA StoredBegin ==
    ASSUME TypeOK, StoredInv, NEW s \in Sessions, BeginAdd(s) \/ BeginDelete(s)
    PROVE  StoredInv'
  <1>1. /\ UNCHANGED <<objects, records, acked, halfDeleted>>
        /\ job[s] = Idle /\ halfDeleted \subseteq doomed
    BY Zenon DEF BeginAdd, BeginDelete, Begin, stores, StoredInv, DeletesDoomed
  <1>2. ~Withdrawing(s)
    BY <1>1 DEF Idle, Withdrawing
  <1>3. CASE BeginAdd(s)
    <2>1. PICK folder \in Folders, stem \in Stems :
             job' = [job EXCEPT ![s] =
                       [call |-> "add_check", num |-> begun + 1,
                        folder |-> folder, original |-> ClientName(stem),
                        name |-> prepare_filename(ClientName(stem), uuids), counter |-> 1]]
      BY <1>3, Zenon DEF BeginAdd
    <2> DEFINE j == [call |-> "add_check", num |-> begun + 1,
                     folder |-> folder, original |-> ClientName(stem),
                     name |-> prepare_filename(ClientName(stem), uuids), counter |-> 1]
    <2>2. j.call \notin {"add_insert", "del_record", "del_find"} /\ j.call \notin DeleteCalls
      BY DEF DeleteCalls
    <2>3. doomed' = doomed
      BY <1>3, Zenon DEF BeginAdd
    <2> HIDE DEF j
    <2> QED BY <1>1, <1>2, <2>1, <2>2, <2>3, StoredKept DEF j
  <1>4. CASE BeginDelete(s)
    <2>1. PICK id \in published :
             /\ job' = [job EXCEPT ![s] = [call |-> "del_find", num |-> begun + 1, id |-> id]]
             /\ doomed' = doomed \cup {id}
      BY <1>4, Zenon DEF BeginDelete
    <2> DEFINE j == [call |-> "del_find", num |-> begun + 1, id |-> id]
    <2>2. /\ j.call \notin {"add_insert", "del_record"} /\ j.call \notin DeleteCalls
          /\ j.id \in doomed' /\ doomed \subseteq doomed'
      BY <2>1 DEF DeleteCalls
    <2> HIDE DEF j
    <2> QED BY <1>1, <1>2, <2>1, <2>2, StoredKept DEF j
  <1> QED BY <1>3, <1>4

(* The finds, and the calls that were not applied.                          *)
LEMMA StoredReads ==
    ASSUME TypeOK, StoredInv, NEW s \in Sessions,
           AddCheck(s) \/ DelFind(s) \/ CallFails(s)
    PROVE  StoredInv'
  <1>1. /\ UNCHANGED <<objects, records, acked, doomed>>
        /\ halfDeleted \subseteq doomed /\ JobDoomed(job[s])
    BY Zenon DEF AddCheck, DelFind, CallFails, stores, history, StoredInv, DeletesDoomed
  <1>2. /\ Idle.call \notin {"add_insert", "del_record", "del_find"}
        /\ Idle.call \notin DeleteCalls
    BY DEF Idle, DeleteCalls
  <1>3. CASE AddCheck(s)
    <2>1. PICK j : Returns(s, j) /\ j.call \in {"add_check", "add_put"}
      BY <1>3, CheckEffect
    <2>2. /\ j.call \notin {"add_insert", "del_record", "del_find"}
          /\ j.call \notin DeleteCalls
      BY <2>1 DEF DeleteCalls
    <2>3. job' = [job EXCEPT ![s] = j] /\ halfDeleted' = halfDeleted
      BY <2>1, Zenon DEF Returns
    <2>4. ~Withdrawing(s)
      BY <1>3 DEF AddCheck, Withdrawing
    <2> QED BY <1>1, <2>2, <2>3, <2>4, StoredKept
  <1>4. CASE DelFind(s)
    <2>1. ~Withdrawing(s) /\ job[s].id \in doomed
      BY <1>1, <1>4 DEF DelFind, Withdrawing, JobDoomed
    <2>2. CASE Returns(s, Idle)
      <3>1. job' = [job EXCEPT ![s] = Idle] /\ halfDeleted' = halfDeleted
        BY <2>2, Zenon DEF Returns
      <3> QED BY <1>1, <1>2, <2>1, <3>1, StoredKept
    <2>3. CASE \E r \in records :
                 /\ r.id = job[s].id
                 /\ Returns(s, [call |-> "del_object", num |-> job[s].num, source |-> r])
      <3>1. PICK r \in records :
               /\ r.id = job[s].id
               /\ Returns(s, [call |-> "del_object", num |-> job[s].num, source |-> r])
        BY <2>3
      <3> DEFINE j == [call |-> "del_object", num |-> job[s].num, source |-> r]
      <3>2. /\ j.call \notin {"add_insert", "del_record", "del_find"}
            /\ j.source.id \in doomed
        BY <2>1, <3>1
      <3>3. job' = [job EXCEPT ![s] = j] /\ halfDeleted' = halfDeleted
        BY <3>1, Zenon DEF Returns
      <3> HIDE DEF j
      <3> QED BY <1>1, <2>1, <3>2, <3>3, StoredKept
    <2> QED BY <1>4, <2>2, <2>3, Zenon DEF DelFind
  <1>5. CASE CallFails(s)
    <2>1. job' = [job EXCEPT ![s] = Idle]
      BY <1>5, Zenon DEF CallFails, Throws
    <2>2. halfDeleted' = halfDeleted
                         \cup (IF Withdrawing(s) THEN {job[s].source.id} ELSE {})
      BY <1>5, Zenon DEF CallFails, Throws
    <2>3. Withdrawing(s) => job[s].source.id \in doomed
      BY <1>1 DEF Withdrawing, JobDoomed, DeleteCalls
    <2>4. /\ halfDeleted \subseteq halfDeleted' /\ halfDeleted' \subseteq doomed'
          /\ Withdrawing(s) => job[s].source.id \in halfDeleted'
      BY <1>1, <2>2, <2>3
    <2> QED BY <1>1, <1>2, <2>1, <2>4, StoredKept
  <1> QED BY <1>3, <1>4, <1>5

(* An upload puts its object under a key no record and no other job has.    *)
LEMMA StoredAddPut ==
    ASSUME TypeOK, IdsFresh, IdsUnique, ClaimsInv, StoredInv,
           NEW s \in Sessions, AddPut(s)
    PROVE  StoredInv'
  <1> DEFINE k == KeyOf(job[s])
             n == job[s].num
  <1>1. /\ job[s].call = "add_put" /\ job[s].call \in UploadCalls /\ job[s] # Idle
        /\ ~Withdrawing(s)
    BY DEF AddPut, UploadCalls, Idle, Withdrawing
  <1>2. /\ UNCHANGED <<records, doomed, acked>> /\ objects' = Stored(k, n)
        /\ halfDeleted' = halfDeleted
    BY DEF AddPut, history, Returns, Throws
  <1>3. /\ DOMAIN objects' = DOMAIN objects \cup {k} /\ objects'[k] = n
        /\ \A l \in DOMAIN objects : l # k => objects'[l] = objects[l]
    BY <1>2 DEF Stored
  <1>4. PICK j : /\ job' = [job EXCEPT ![s] = j]
                 /\ \/ j = Idle
                    \/ j.call = "add_insert" /\ j.num = n /\ KeyOf(j) = k
    <2>1. CASE Throws(s, {KeyOf(job[s])}, {})
      BY <2>1, Zenon DEF Throws
    <2>2. CASE Returns(s, [job[s] EXCEPT !.call = "add_insert"])
      BY <1>1, <2>2, PutEffect, Zenon DEF Returns
    <2> QED BY <2>1, <2>2, Zenon DEF AddPut
  <1>5. j.call \notin DeleteCalls /\ j.call # "del_find"
    BY <1>4 DEF DeleteCalls, Idle
  <1>6. job'[s] = j /\ \A t \in Sessions : t # s => job'[t] = job[t]
    BY <1>4, JobNext
  <1>7. \A t \in Sessions : JobDoomed(job[t])'
    BY <1>2, <1>4, <1>5, DoomedKept DEF StoredInv
  <1>8. ASSUME NEW t \in Sessions
        PROVE  JobPut(job[t])'
    <2>1. CASE t = s
      <3>1. CASE j = Idle
        BY <1>6, <2>1, <3>1 DEF JobPut, Idle
      <3>2. CASE j.num = n /\ KeyOf(j) = k
        BY <1>3, <1>6, <2>1, <3>2 DEF JobPut, KeyOf
      <3> QED BY <1>4, <3>1, <3>2
    <2>2. CASE t # s /\ job[t].call = "add_insert"
      <3>1. job[t] # Idle /\ job[t].call \in UploadCalls
        BY <2>2 DEF Idle, UploadCalls
      <3>2. job[t].num # n
        BY <1>1, <2>2, <3>1 DEF IdsFresh
      <3>3. KeyOf(job[t]) # k
        BY <1>1, <3>1, <3>2, JobsApart
      <3>4. KeyOf(job[t]) \in DOMAIN objects /\ objects[KeyOf(job[t])] = job[t].num
        BY <2>2 DEF StoredInv, PutDone, JobPut
      <3> QED BY <1>3, <1>6, <2>2, <3>3, <3>4 DEF JobPut, KeyOf
    <2>3. CASE t # s /\ job[t].call # "add_insert"
      BY <1>6, <2>3 DEF JobPut
    <2> QED BY <2>1, <2>2, <2>3
  <1>9. ASSUME NEW r \in records
        PROVE  Own(r)'
    <2>1. Own(r)
      BY DEF StoredInv, RecordsOwn
    <2>2. r.s3Key # k
      <3>1. n \notin published /\ r.id \in published
        BY <1>1 DEF IdsFresh, IdsUnique
      <3> QED BY <1>1, <3>1, RecordsApart
    <2>3. Withdrawn(r.id) => Withdrawn(r.id)'
      BY <1>1, <1>4, WithdrawnKept
    <2> QED BY <1>2, <1>3, <2>1, <2>2, <2>3 DEF Own
  <1>10. \A m \in acked' : m \in doomed' \/ \E r \in records' : r.id = m
    BY <1>2 DEF StoredInv, AckedRecorded
  <1>11. halfDeleted' \subseteq doomed'
    BY <1>2 DEF StoredInv, DeletesDoomed
  <1> QED BY <1>2, <1>7, <1>8, <1>9, <1>10, <1>11, StoredNext, Zenon

LEMMA StoredAddInsert ==
    ASSUME TypeOK, IdsFresh, StoredInv, NEW s \in Sessions, AddInsert(s)
    PROVE  StoredInv'
  <1>1. /\ job[s].call = "add_insert" /\ ~Withdrawing(s) /\ UNCHANGED <<objects, doomed>>
        /\ job' = [job EXCEPT ![s] = Idle] /\ acked' \subseteq acked \cup {job[s].num}
        /\ halfDeleted' = halfDeleted
    BY DEF AddInsert, Inserted, Returns, Throws, Withdrawing
  <1>2. PICK r : /\ r.id = job[s].num /\ r.s3Key = KeyOf(job[s])
                 /\ r.content = job[s].num /\ records' = records \cup {r}
    BY DEF AddInsert
  <1>3. /\ Idle.call \notin DeleteCalls /\ Idle.call # "del_find"
        /\ Idle.call # "add_insert"
    BY DEF Idle, DeleteCalls
  <1>4. job'[s] = Idle /\ \A t \in Sessions : t # s => job'[t] = job[t]
    BY <1>1, JobNext
  <1>5. \A t \in Sessions : JobDoomed(job[t])'
    BY <1>1, <1>3, DoomedKept DEF StoredInv
  <1>6. \A t \in Sessions : JobPut(job[t])'
    BY <1>1, <1>3, <1>4 DEF StoredInv, PutDone, JobPut, KeyOf
  <1>7. Own(r)'
    BY <1>1, <1>2 DEF StoredInv, PutDone, JobPut, Own
  <1>8. ASSUME NEW q \in records
        PROVE  Own(q)'
    <2>1. Own(q)
      BY DEF StoredInv, RecordsOwn
    <2>2. Withdrawn(q.id) => Withdrawn(q.id)'
      BY <1>1, WithdrawnKept
    <2> QED BY <1>1, <2>1, <2>2 DEF Own
  <1>9. \A q \in records' : Own(q)'
    BY <1>2, <1>7, <1>8
  <1>10. \A n \in acked' : n \in doomed' \/ \E q \in records' : q.id = n
    BY <1>1, <1>2 DEF StoredInv, AckedRecorded
  <1>11. halfDeleted' \subseteq doomed'
    BY <1>1 DEF StoredInv, DeletesDoomed
  <1> QED BY <1>5, <1>6, <1>9, <1>10, <1>11, StoredNext, Zenon

(* A deletion removes an object that only the record it deletes refers to.  *)
LEMMA StoredDelObject ==
    ASSUME TypeOK, IdsFresh, IdsUnique, ClaimsInv, StoredInv,
           NEW s \in Sessions, DelObject(s)
    PROVE  StoredInv'
  <1>0. PICK k, id : k = job[s].source.s3Key /\ id = job[s].source.id
    OBVIOUS
  <1>1. /\ job[s].call = "del_object" /\ job[s].call \in DeleteCalls
        /\ HasSource(s) /\ ~Withdrawing(s)
    BY DEF DelObject, DeleteCalls, HasSource, Withdrawing
  <1>2. /\ UNCHANGED <<records, doomed, acked>>
        /\ DOMAIN objects' = DOMAIN objects \ {k}
        /\ \A l \in DOMAIN objects' : objects'[l] = objects[l]
    BY <1>0 DEF DelObject, history
  <1>3. id \in doomed /\ id \in published
    BY <1>0, <1>1 DEF StoredInv, DeletesDoomed, JobDoomed, IdsUnique
  <1>4. PICK j : /\ job' = [job EXCEPT ![s] = j]
                 /\ \/ j = Idle /\ halfDeleted' = halfDeleted \cup {id}
                    \/ /\ j.call = "del_record" /\ j.source = job[s].source
                       /\ halfDeleted' = halfDeleted
    <2>1. CASE Throws(s, {}, {job[s].source.id})
      BY <1>0, <2>1, Zenon DEF Throws
    <2>2. CASE Returns(s, [job[s] EXCEPT !.call = "del_record"])
      BY <1>1, <2>2, DelObjectEffect, Zenon DEF Returns
    <2> QED BY <2>1, <2>2, Zenon DEF DelObject
  <1>5. /\ j.call # "add_insert" /\ j.call # "del_find"
        /\ j.call \in DeleteCalls => j.source.id = id
    BY <1>0, <1>4 DEF DeleteCalls, Idle
  <1>6. job'[s] = j /\ \A t \in Sessions : t # s => job'[t] = job[t]
    BY <1>4, JobNext
  <1>7. \A t \in Sessions : JobDoomed(job[t])'
    BY <1>2, <1>3, <1>4, <1>5, DoomedKept DEF StoredInv
  <1>8. ASSUME NEW t \in Sessions
        PROVE  JobPut(job[t])'
    <2>1. CASE t = s
      BY <1>5, <1>6, <2>1 DEF JobPut
    <2>2. CASE t # s /\ job[t].call = "add_insert"
      <3>1. job[t] # Idle /\ job[t].call \in UploadCalls
        BY <2>2 DEF Idle, UploadCalls
      <3>2. job[t].num \notin published
        BY <3>1 DEF IdsFresh
      <3>3. KeyOf(job[t]) # k
        BY <1>0, <1>1, <1>3, <3>1, <3>2, JobsApart
      <3>4. KeyOf(job[t]) \in DOMAIN objects /\ objects[KeyOf(job[t])] = job[t].num
        BY <2>2 DEF StoredInv, PutDone, JobPut
      <3> QED BY <1>2, <1>6, <2>2, <3>3, <3>4 DEF JobPut, KeyOf
    <2>3. CASE t # s /\ job[t].call # "add_insert"
      BY <1>6, <2>3 DEF JobPut
    <2> QED BY <2>1, <2>2, <2>3
  <1>9. id \in halfDeleted' \/ Withdrawn(id)'
    <2>1. CASE j.call = "del_record" /\ j.source = job[s].source
      <3>1. Withdrawing(s)' /\ job'[s].source.id = id
        BY <1>0, <1>6, <2>1 DEF Withdrawing
      <3> QED BY <3>1, Zenon DEF Withdrawn
    <2> QED BY <1>4, <2>1
  <1>10. ASSUME NEW r \in records
         PROVE  Own(r)'
    <2>1. Own(r)
      BY DEF StoredInv, RecordsOwn
    <2>2. r.s3Key = k => r.id = id
      BY <1>0, <1>1, RecordsApart
    <2>3. Withdrawn(r.id) => Withdrawn(r.id)'
      BY <1>1, <1>4, WithdrawnKept
    <2>4. halfDeleted \subseteq halfDeleted'
      BY <1>4
    <2> QED BY <1>2, <1>9, <2>1, <2>2, <2>3, <2>4 DEF Own
  <1>11. \A m \in acked' : m \in doomed' \/ \E r \in records' : r.id = m
    BY <1>2 DEF StoredInv, AckedRecorded
  <1>12. halfDeleted' \subseteq doomed'
    BY <1>2, <1>3, <1>4 DEF StoredInv, DeletesDoomed
  <1> QED BY <1>2, <1>7, <1>8, <1>10, <1>11, <1>12, StoredNext, Zenon

LEMMA StoredDelRecord ==
    ASSUME TypeOK, StoredInv, NEW s \in Sessions, DelRecord(s)
    PROVE  StoredInv'
  <1> DEFINE id == job[s].source.id
  <1>1. /\ records' = {r \in records : r.id # id}
        /\ UNCHANGED <<objects, doomed, acked>>
        /\ job' = [job EXCEPT ![s] = Idle] /\ halfDeleted' = halfDeleted
    BY DEF DelRecord, Returns, Throws
  <1>2. job[s].call = "del_record" /\ id \in doomed
    BY DEF DelRecord, StoredInv, DeletesDoomed, JobDoomed, DeleteCalls
  <1>3. /\ Idle.call \notin DeleteCalls /\ Idle.call # "del_find"
        /\ Idle.call # "add_insert"
    BY DEF Idle, DeleteCalls
  <1>4. job'[s] = Idle /\ \A t \in Sessions : t # s => job'[t] = job[t]
    BY <1>1, JobNext
  <1>5. \A t \in Sessions : JobDoomed(job[t])'
    BY <1>1, <1>3, DoomedKept DEF StoredInv
  <1>6. \A t \in Sessions : JobPut(job[t])'
    BY <1>1, <1>3, <1>4 DEF StoredInv, PutDone, JobPut, KeyOf
  <1>7. ASSUME NEW r \in records, r.id # id
        PROVE  Own(r)'
    <2>1. Own(r)
      BY DEF StoredInv, RecordsOwn
    <2>2. Withdrawn(r.id) => Withdrawn(r.id)'
      BY <1>1, <1>7, WithdrawnKept
    <2> QED BY <1>1, <2>1, <2>2 DEF Own
  <1>8. \A n \in acked' : n \in doomed' \/ \E r \in records' : r.id = n
    BY <1>1, <1>2 DEF StoredInv, AckedRecorded
  <1>9. halfDeleted' \subseteq doomed' /\ \A r \in records' : Own(r)'
    BY <1>1, <1>7 DEF StoredInv, DeletesDoomed
  <1> QED BY <1>5, <1>6, <1>8, <1>9, StoredNext, Zenon

(* A stop of the server ends what deletions were withdrawing.               *)
LEMMA StoredCrash ==
    ASSUME TypeOK, StoredInv, Crash
    PROVE  StoredInv'
  <1>1. /\ \A s \in Sessions : job'[s] = Idle
        /\ halfDeleted' = halfDeleted
              \cup {job[s].source.id : s \in {t \in Sessions : Withdrawing(t)}}
        /\ UNCHANGED <<objects, records, doomed, acked>>
    BY DEF Crash, stores, history
  <1>2. \A s \in Sessions : JobDoomed(job[s])' /\ JobPut(job[s])'
    BY <1>1 DEF Idle, JobDoomed, JobPut, DeleteCalls
  <1>3. \A id : Withdrawn(id) => id \in halfDeleted'
    BY <1>1 DEF Withdrawn
  <1>4. \A r \in records' : Own(r)'
    BY <1>1, <1>3 DEF StoredInv, RecordsOwn, Own
  <1>5. \A s \in Sessions : Withdrawing(s) => job[s].source.id \in doomed
    BY DEF StoredInv, DeletesDoomed, JobDoomed, Withdrawing, DeleteCalls
  <1>6. halfDeleted' \subseteq doomed'
    BY <1>1, <1>5 DEF StoredInv, DeletesDoomed
  <1>7. \A n \in acked' : n \in doomed' \/ \E r \in records' : r.id = n
    BY <1>1 DEF StoredInv, AckedRecorded
  <1> QED BY <1>2, <1>4, <1>6, <1>7, StoredNext, Zenon

-----------------------------------------------------------------------------
(* Copies included: deletions work on what a client asked to delete, and    *)
(* nothing but a deletion takes a record away.                              *)

DoomedInv == DeletesDoomed /\ AckedRecorded

(* What a step does to the job that makes it, as far as deletions go.       *)
DoomsOwn(s) ==
    /\ \E j : /\ job' = [job EXCEPT ![s] = j]
              /\ j.call = "del_find" => j.id \in doomed'
              /\ j.call \in DeleteCalls => j.source.id \in doomed'
    /\ doomed \subseteq doomed'
    /\ \A id \in halfDeleted' :
          id \in halfDeleted \/ (job[s].call \in DeleteCalls /\ id = job[s].source.id)

(* It takes no record but the one its job deletes, and acknowledges none    *)
(* that it does not insert.                                                 *)
RecordsOnly(s) ==
    /\ \A r \in records :
          r \in records' \/ (job[s].call \in DeleteCalls /\ r.id = job[s].source.id)
    /\ \A n \in acked' : n \in acked \/ \E r \in records' : r.id = n

LEMMA DoomedJob ==
    ASSUME TypeOK, DoomedInv, NEW s \in Sessions, DoomsOwn(s), RecordsOnly(s)
    PROVE  DoomedInv' /\ \A r \in records : r \in records' \/ r.id \in doomed'
  <1>1. \A t \in Sessions : JobDoomed(job[t])'
    BY DoomedKept DEF DoomsOwn, DoomedInv
  <1>2. job[s].call \in DeleteCalls => job[s].source.id \in doomed'
    BY DEF DoomedInv, DeletesDoomed, JobDoomed, DoomsOwn
  <1>3. halfDeleted' \subseteq doomed'
    BY <1>2 DEF DoomedInv, DeletesDoomed, DoomsOwn
  <1>4. \A r \in records : r \in records' \/ r.id \in doomed'
    BY <1>2 DEF RecordsOnly
  <1>5. AckedRecorded'
    BY <1>4 DEF DoomedInv, AckedRecorded, RecordsOnly, DoomsOwn
  <1> QED BY <1>1, <1>3, <1>4, <1>5, Zenon DEF DoomedInv, DeletesDoomed

(* A step that leaves stores and history alone, but for what died.          *)
LEMMA DoomedPasses ==
    ASSUME NEW s \in Sessions, NEW j, job' = [job EXCEPT ![s] = j],
           j.call \notin {"del_find", "del_object", "del_record"},
           UNCHANGED <<records, doomed, acked, halfDeleted>>
    PROVE  DoomsOwn(s) /\ RecordsOnly(s)
  BY DEF DoomsOwn, RecordsOnly, DeleteCalls

LEMMA DoomedBegin ==
    ASSUME TypeOK, NEW s \in Sessions, BeginAdd(s) \/ BeginDelete(s) \/ BeginRewrite(s)
    PROVE  DoomsOwn(s) /\ RecordsOnly(s)
  <1>1. UNCHANGED <<records, acked, halfDeleted>>
    BY Zenon DEF BeginAdd, BeginDelete, BeginRewrite, Begin, stores
  <1>2. CASE BeginAdd(s)
    <2>1. PICK folder \in Folders, stem \in Stems :
             job' = [job EXCEPT ![s] =
                       [call |-> "add_check", num |-> begun + 1,
                        folder |-> folder, original |-> ClientName(stem),
                        name |-> prepare_filename(ClientName(stem), uuids), counter |-> 1]]
      BY <1>2, Zenon DEF BeginAdd
    <2> DEFINE j == [call |-> "add_check", num |-> begun + 1,
                     folder |-> folder, original |-> ClientName(stem),
                     name |-> prepare_filename(ClientName(stem), uuids), counter |-> 1]
    <2>2. j.call \notin {"del_find", "del_object", "del_record"} /\ doomed' = doomed
      BY <1>2 DEF BeginAdd
    <2> HIDE DEF j
    <2> QED BY <1>1, <2>1, <2>2, DoomedPasses DEF j
  <1>3. CASE BeginDelete(s)
    <2>1. PICK id \in published :
             /\ job' = [job EXCEPT ![s] = [call |-> "del_find", num |-> begun + 1, id |-> id]]
             /\ doomed' = doomed \cup {id}
      BY <1>3, Zenon DEF BeginDelete
    <2> DEFINE j == [call |-> "del_find", num |-> begun + 1, id |-> id]
    <2>2. /\ j.call \notin DeleteCalls /\ j.id \in doomed' /\ doomed \subseteq doomed'
          /\ job' = [job EXCEPT ![s] = j]
      BY <2>1 DEF DeleteCalls
    <2> HIDE DEF j
    <2> QED BY <1>1, <2>2 DEF DoomsOwn, RecordsOnly
  <1>4. CASE BeginRewrite(s)
    <2>1. PICK id \in published, folder \in Folders :
             job' = [job EXCEPT ![s] = [call |-> "rw_find", num |-> begun + 1,
                                        id |-> id, folder |-> folder]]
      BY <1>4, Zenon DEF BeginRewrite
    <2> DEFINE j == [call |-> "rw_find", num |-> begun + 1, id |-> id, folder |-> folder]
    <2>2. /\ j.call \notin {"del_find", "del_object", "del_record"} /\ doomed' = doomed
          /\ job' = [job EXCEPT ![s] = j]
      BY <1>4, <2>1 DEF BeginRewrite
    <2> HIDE DEF j
    <2> QED BY <1>1, <2>2, DoomedPasses
  <1> QED BY <1>2, <1>3, <1>4

LEMMA DoomedReads ==
    ASSUME TypeOK, DoomedInv, NEW s \in Sessions,
           AddCheck(s) \/ DelFind(s) \/ RwFind(s) \/ RwHead(s) \/ CallFails(s)
    PROVE  DoomsOwn(s) /\ RecordsOnly(s)
  <1>1. UNCHANGED <<records, doomed, acked>> /\ JobDoomed(job[s])
    BY Zenon DEF AddCheck, DelFind, RwFind, RwHead, CallFails, stores, history,
       DoomedInv, DeletesDoomed
  <1>2. Idle.call \notin {"del_find", "del_object", "del_record"}
    BY DEF Idle
  <1>3. ASSUME Returns(s, Idle) PROVE DoomsOwn(s) /\ RecordsOnly(s)
    <2>1. job' = [job EXCEPT ![s] = Idle] /\ halfDeleted' = halfDeleted
      BY <1>3, Zenon DEF Returns
    <2> QED BY <1>1, <1>2, <2>1, DoomedPasses
  <1>4. CASE AddCheck(s) \/ RwHead(s)
    <2>1. PICK j : /\ Returns(s, j)
                   /\ j.call \notin {"del_find", "del_object", "del_record"}
      BY <1>4, CheckEffect, HeadEffect
    <2>2. job' = [job EXCEPT ![s] = j] /\ halfDeleted' = halfDeleted
      BY <2>1, Zenon DEF Returns
    <2> QED BY <1>1, <2>1, <2>2, DoomedPasses
  <1>5. CASE DelFind(s)
    <2>1. job[s].id \in doomed
      BY <1>1, <1>5 DEF DelFind, JobDoomed
    <2>2. CASE \E r \in records :
                 /\ r.id = job[s].id
                 /\ Returns(s, [call |-> "del_object", num |-> job[s].num, source |-> r])
      <3>1. PICK r \in records :
               /\ r.id = job[s].id
               /\ Returns(s, [call |-> "del_object", num |-> job[s].num, source |-> r])
        BY <2>2
      <3> DEFINE j == [call |-> "del_object", num |-> job[s].num, source |-> r]
      <3>2. j.call # "del_find" /\ j.source.id \in doomed
        BY <2>1, <3>1
      <3>3. job' = [job EXCEPT ![s] = j] /\ halfDeleted' = halfDeleted
        BY <3>1, Zenon DEF Returns
      <3> HIDE DEF j
      <3> QED BY <1>1, <3>2, <3>3 DEF DoomsOwn, RecordsOnly
    <2> QED BY <1>3, <1>5, <2>2, Zenon DEF DelFind
  <1>6. CASE RwFind(s)
    <2>1. ASSUME NEW r,
                 Returns(s, [call |-> "rw_head", num |-> job[s].num, source |-> r,
                             folder |-> job[s].folder, name |-> r.originalName,
                             counter |-> 1])
          PROVE  DoomsOwn(s) /\ RecordsOnly(s)
      <3> DEFINE j == [call |-> "rw_head", num |-> job[s].num, source |-> r,
                       folder |-> job[s].folder, name |-> r.originalName,
                       counter |-> 1]
      <3>1. j.call \notin {"del_find", "del_object", "del_record"}
        OBVIOUS
      <3>2. job' = [job EXCEPT ![s] = j] /\ halfDeleted' = halfDeleted
        BY <2>1, Zenon DEF Returns
      <3> HIDE DEF j
      <3> QED BY <1>1, <3>1, <3>2, DoomedPasses
    <2> QED BY <1>3, <1>6, <2>1, Zenon DEF RwFind
  <1>7. CASE CallFails(s)
    <2>1. job' = [job EXCEPT ![s] = Idle]
      BY <1>7, Zenon DEF CallFails, Throws
    <2>2. halfDeleted' = halfDeleted
                         \cup (IF Withdrawing(s) THEN {job[s].source.id} ELSE {})
      BY <1>7, Zenon DEF CallFails, Throws
    <2> QED BY <1>1, <1>2, <2>1, <2>2 DEF DoomsOwn, RecordsOnly, Withdrawing, DeleteCalls
  <1> QED BY <1>4, <1>5, <1>6, <1>7

LEMMA DoomedWrites ==
    ASSUME TypeOK, DoomedInv, NEW s \in Sessions,
           \/ AddPut(s) \/ AddInsert(s) \/ RwCopy(s) \/ RwInsert(s)
           \/ DelObject(s) \/ DelRecord(s)
    PROVE  DoomsOwn(s) /\ RecordsOnly(s)
  <1>0. /\ Idle.call \notin {"del_find", "del_object", "del_record"}
        /\ Idle.call \notin DeleteCalls /\ JobDoomed(job[s])
    BY DEF Idle, DeleteCalls, DoomedInv, DeletesDoomed
  <1>1. CASE AddPut(s) \/ RwCopy(s)
    <2>1. UNCHANGED <<records, doomed, acked>>
      BY <1>1, Zenon DEF AddPut, RwCopy, history
    <2>2. \E j : /\ job' = [job EXCEPT ![s] = j] /\ halfDeleted' = halfDeleted
                 /\ j.call \notin {"del_find", "del_object", "del_record"}
      <3>1. CASE Returns(s, Idle)
        BY <1>0, <3>1, Zenon DEF Returns
      <3>2. CASE Throws(s, {KeyOf(job[s])}, {})
        BY <1>0, <3>2 DEF Throws
      <3>3. CASE AddPut(s) /\ Returns(s, [job[s] EXCEPT !.call = "add_insert"])
        <4>1. [job[s] EXCEPT !.call = "add_insert"].call = "add_insert"
          BY <3>3, PutEffect DEF AddPut
        <4> QED BY <3>3, <4>1 DEF Returns
      <3>4. CASE RwCopy(s) /\ Returns(s, [job[s] EXCEPT !.call = "rw_insert"])
        <4>1. [job[s] EXCEPT !.call = "rw_insert"].call = "rw_insert"
          BY <3>4, CopyEffect DEF RwCopy
        <4> QED BY <3>4, <4>1 DEF Returns
      <3> QED BY <1>1, <3>1, <3>2, <3>3, <3>4, Zenon DEF AddPut, RwCopy
    <2> QED BY <2>1, <2>2, DoomedPasses
  <1>2. CASE AddInsert(s) \/ RwInsert(s)
    <2>1. /\ job' = [job EXCEPT ![s] = Idle] /\ doomed' = doomed
          /\ halfDeleted' = halfDeleted /\ acked' \subseteq acked \cup {job[s].num}
      BY <1>2 DEF AddInsert, RwInsert, Inserted, Returns, Throws
    <2>2. PICK r : r.id = job[s].num /\ records' = records \cup {r}
      BY <1>2 DEF AddInsert, RwInsert
    <2> QED BY <1>0, <2>1, <2>2 DEF DoomsOwn, RecordsOnly
  <1>3. CASE DelObject(s)
    <2>1. /\ job[s].call \in DeleteCalls /\ job[s].source.id \in doomed
          /\ UNCHANGED <<records, doomed, acked>>
      BY <1>0, <1>3 DEF DelObject, JobDoomed, DeleteCalls, history
    <2>2. PICK j : /\ job' = [job EXCEPT ![s] = j]
                   /\ j = Idle \/ (j.call = "del_record" /\ j.source = job[s].source)
                   /\ halfDeleted' \subseteq halfDeleted \cup {job[s].source.id}
      <3>1. CASE Throws(s, {}, {job[s].source.id})
        BY <3>1 DEF Throws
      <3>2. CASE Returns(s, [job[s] EXCEPT !.call = "del_record"])
        <4> DEFINE j == [job[s] EXCEPT !.call = "del_record"]
        <4>1. j.call = "del_record" /\ j.source = job[s].source
          BY <1>3, DelObjectEffect DEF DelObject
        <4> HIDE DEF j
        <4> QED BY <3>2, <4>1 DEF Returns, j
      <3> QED BY <1>3, <3>1, <3>2, Zenon DEF DelObject
    <2>3. j.call # "del_find" /\ (j.call \in DeleteCalls => j.source.id \in doomed')
      BY <1>0, <2>1, <2>2
    <2>4. \A id \in halfDeleted' : id \in halfDeleted \/ id = job[s].source.id
      BY <2>2
    <2> QED BY <2>1, <2>2, <2>3, <2>4 DEF DoomsOwn, RecordsOnly
  <1>4. CASE DelRecord(s)
    <2>1. /\ job[s].call \in DeleteCalls /\ job' = [job EXCEPT ![s] = Idle]
          /\ UNCHANGED <<doomed, acked, halfDeleted>>
          /\ records' = {r \in records : r.id # job[s].source.id}
      BY <1>4 DEF DelRecord, DeleteCalls, Returns, Throws
    <2> QED BY <1>0, <2>1 DEF DoomsOwn, RecordsOnly
  <1> QED BY <1>1, <1>2, <1>3, <1>4

LEMMA DoomedCrash ==
    ASSUME DoomedInv, Crash
    PROVE  DoomedInv' /\ records' = records
  <1>1. /\ \A s \in Sessions : job'[s] = Idle
        /\ halfDeleted' = halfDeleted
              \cup {job[s].source.id : s \in {t \in Sessions : Withdrawing(t)}}
        /\ UNCHANGED <<records, doomed, acked>>
    BY DEF Crash, stores, history
  <1>2. \A s \in Sessions : JobDoomed(job[s])'
    BY <1>1 DEF Idle, JobDoomed, DeleteCalls
  <1>3. \A s \in Sessions : Withdrawing(s) => job[s].source.id \in doomed
    BY DEF DoomedInv, DeletesDoomed, JobDoomed, Withdrawing, DeleteCalls
  <1>4. halfDeleted' \subseteq doomed'
    BY <1>1, <1>3 DEF DoomedInv, DeletesDoomed
  <1>5. AckedRecorded'
    BY <1>1 DEF DoomedInv, AckedRecorded
  <1> QED BY <1>1, <1>2, <1>4, <1>5, Zenon DEF DoomedInv, DeletesDoomed

LEMMA DoomedStep ==
    ASSUME TypeOK, DoomedInv, [Next]_vars
    PROVE  DoomedInv' /\ \A r \in records : r \in records' \/ r.id \in doomed'
  <1>1. CASE UNCHANGED vars
    BY <1>1, Zenon DEF vars, DoomedInv, DeletesDoomed, AckedRecorded, JobDoomed
  <1>2. CASE \E s \in Sessions : BeginAdd(s) \/ BeginDelete(s) \/ BeginRewrite(s)
    BY <1>2, DoomedBegin, DoomedJob
  <1>3. CASE \E s \in Sessions : StoreCall(s)
    <2>1. PICK s \in Sessions : StoreCall(s)
      BY <1>3
    <2>2. DoomsOwn(s) /\ RecordsOnly(s)
      BY <2>1, DoomedReads, DoomedWrites, Zenon DEF StoreCall
    <2> QED BY <2>2, DoomedJob
  <1>4. CASE Crash
    BY <1>4, DoomedCrash
  <1> QED BY <1>1, <1>2, <1>3, <1>4 DEF Next

LEMMA DoomedGrows ==
    ASSUME [Next]_vars
    PROVE  doomed \subseteq doomed'
  <1>1. CASE UNCHANGED vars \/ Crash
    BY <1>1, Zenon DEF vars, Crash, history
  <1>2. CASE \E s \in Sessions : BeginAdd(s) \/ BeginDelete(s) \/ BeginRewrite(s)
    BY <1>2 DEF BeginAdd, BeginDelete, BeginRewrite
  <1>3. CASE \E s \in Sessions : StoreCall(s)
    <2>1. doomed' = doomed
      BY <1>3, Zenon DEF StoreCall, AddCheck, AddPut, AddInsert, DelFind, DelObject,
         DelRecord, RwFind, RwHead, RwCopy, RwInsert, CallFails, history
    <2> QED BY <2>1
  <1> QED BY <1>1, <1>2, <1>3 DEF Next

LEMMA DoomedInit == Init => DoomedInv
  <1> SUFFICES ASSUME Init PROVE DoomedInv
    OBVIOUS
  <1>1. (\A s \in Sessions : job[s] = Idle) /\ acked = {} /\ halfDeleted = {}
    BY DEF Init
  <1> QED BY <1>1 DEF DoomedInv, DeletesDoomed, AckedRecorded, JobDoomed, Idle, DeleteCalls

(* The record of an upload or a copy that was reported as a success stays    *)
(* until its deletion is asked for, whatever is uploaded, copied and deleted *)
(* meanwhile and whatever fails; only its object may go (copy_race).         *)
THEOREM AckedStayRecorded == Spec => []AckedRecorded
  <1>1. IdsOK /\ DoomedInv /\ [Next]_vars => DoomedInv'
    BY DoomedStep DEF IdsOK
  <1>2. DoomedInv => AckedRecorded
    BY DEF DoomedInv
  <1> QED BY <1>1, <1>2, DoomedInit, IdsAlways, PTL DEF Spec

-----------------------------------------------------------------------------
(* Without copies.                                                          *)

UploadInv == ClaimsInv /\ StoredInv

LEMMA UploadInit == Init => UploadInv
  <1> SUFFICES ASSUME Init PROVE UploadInv
    OBVIOUS
  <1>1. \A s \in Sessions : job[s] = Idle
    BY DEF Init
  <1>2. records = {} /\ acked = {} /\ halfDeleted = {}
    BY DEF Init
  <1>3. \A u, n : ~Claim(u, n)
    BY <1>1, <1>2, IdleClaims DEF Claim
  <1>4. NoCopies /\ ClaimsDrawn /\ ClaimsUnique
    BY <1>1, <1>3, IdleRw DEF NoCopies, ClaimsDrawn, ClaimsUnique
  <1>5. DeletesDoomed /\ PutDone
    BY <1>1, <1>2 DEF DeletesDoomed, PutDone, JobDoomed, JobPut, Idle, DeleteCalls
  <1>6. RecordsOwn /\ AckedRecorded
    BY <1>2 DEF RecordsOwn, AckedRecorded
  <1> QED BY <1>4, <1>5, <1>6 DEF UploadInv, ClaimsInv, StoredInv

LEMMA UploadStutter ==
    ASSUME UploadInv,
           UNCHANGED <<objects, records, job, uuids, doomed, acked, halfDeleted>>
    PROVE  UploadInv'
  <1>2. \A u, n : Claim(u, n)' => Claim(u, n)
    BY Zenon DEF Claim, JobClaim, RecordClaim, Draw
  <1>3. NoCopies'
    BY Zenon DEF UploadInv, ClaimsInv, NoCopies
  <1>4. ClaimsDrawn' /\ ClaimsUnique'
    BY <1>2, ClaimsKept, Zenon DEF UploadInv, ClaimsInv
  <1>5. DeletesDoomed' /\ PutDone'
    BY Zenon DEF UploadInv, StoredInv, DeletesDoomed, PutDone, JobDoomed, JobPut, KeyOf
  <1>6. RecordsOwn'
    BY Zenon DEF UploadInv, StoredInv, RecordsOwn, Own, Withdrawn, Withdrawing
  <1>7. AckedRecorded'
    BY Zenon DEF UploadInv, StoredInv, AckedRecorded
  <1> QED BY <1>3, <1>4, <1>5, <1>6, <1>7, Zenon DEF UploadInv, ClaimsInv, StoredInv

LEMMA UploadStep ==
    ASSUME "rewrite" \notin Ops, TypeOK, IdsFresh, IdsUnique, UploadInv, [Next]_vars
    PROVE  UploadInv'
  <1>1. CASE UNCHANGED vars
    BY <1>1, UploadStutter, Zenon DEF vars
  <1>2. CASE \E s \in Sessions : BeginAdd(s) \/ BeginDelete(s) \/ BeginRewrite(s)
    <2>1. PICK s \in Sessions : BeginAdd(s) \/ BeginDelete(s) \/ BeginRewrite(s)
      BY <1>2
    <2>2. BeginAdd(s) \/ BeginDelete(s)
      BY <2>1, Zenon DEF BeginRewrite, Begin
    <2> QED BY <2>2, ClaimsAdd, ClaimsDelete, StoredBegin DEF UploadInv
  <1>3. CASE \E s \in Sessions : StoreCall(s)
    <2>1. PICK s \in Sessions : StoreCall(s)
      BY <1>3
    <2>2. job[s].call \notin RwCalls
      BY DEF UploadInv, ClaimsInv, NoCopies
    <2>3. ~(RwFind(s) \/ RwHead(s) \/ RwCopy(s) \/ RwInsert(s))
      BY <2>2 DEF RwCalls, RwFind, RwHead, RwCopy, RwInsert
    <2>4. ClaimsInv'
      BY <2>1, <2>3, ClaimsAdd, ClaimsDelete, ClaimsFail, Zenon DEF StoreCall, UploadInv
    <2>5. StoredInv'
      BY <2>1, <2>3, StoredReads, StoredAddPut, StoredAddInsert, StoredDelObject,
         StoredDelRecord, Zenon DEF StoreCall, UploadInv
    <2> QED BY <2>4, <2>5, Zenon DEF UploadInv
  <1>4. CASE Crash
    BY <1>4, ClaimsFail, StoredCrash, Zenon DEF UploadInv
  <1> QED BY <1>1, <1>2, <1>3, <1>4 DEF Next

LEMMA UploadAlways ==
    ASSUME "rewrite" \notin Ops
    PROVE  Spec => [](IdsOK /\ UploadInv)
  <1>1. IdsOK /\ UploadInv /\ [Next]_vars => UploadInv'
    BY UploadStep DEF IdsOK
  <1> QED BY <1>1, UploadInit, IdsAlways, PTL DEF Spec

(* What the invariant promises in each state.                               *)
LEMMA UploadDangling == UploadInv => DanglingAccounted
  BY Zenon DEF UploadInv, StoredInv, RecordsOwn, Own, Withdrawn, DanglingAccounted

LEMMA UploadIntact ==
    ASSUME UploadInv, NEW r \in records, r.id \notin doomed
    PROVE  Intact(r)
  <1>1. Own(r)
    BY DEF UploadInv, StoredInv, RecordsOwn
  <1>2. r.id \notin halfDeleted /\ ~Withdrawn(r.id)
    BY DEF UploadInv, StoredInv, DeletesDoomed, JobDoomed, Withdrawn, Withdrawing, DeleteCalls
  <1> QED BY <1>1, <1>2 DEF Own, Intact

LEMMA UploadStored == UploadInv => AckedStored
  <1> SUFFICES ASSUME UploadInv, NEW n \in acked, n \notin doomed
               PROVE  \E f \in Available : f.id = n
    BY DEF AckedStored
  <1>1. PICK r \in records : r.id = n
    BY DEF UploadInv, StoredInv, AckedRecorded
  <1>2. Intact(r)
    BY <1>1, UploadIntact
  <1>3. [id |-> r.id, content |-> r.content] \in Available
    BY <1>2 DEF Available
  <1> QED BY <1>1, <1>3

(* Uploads and deletions of any number of sessions, with any failures and    *)
(* stops: a record without its object is one a client asked to delete, and   *)
(* whose deletion is past the object or died there.                          *)
THEOREM UploadsDanglingAccounted ==
    ASSUME "rewrite" \notin Ops
    PROVE  Spec => []DanglingAccounted
  BY UploadDangling, UploadAlways, PTL

(* An upload reported as a success stays there for download, whole, until a  *)
(* client asks to delete it: no other session's job overwrites or removes    *)
(* its object, since no two jobs ever draw one uuid.                         *)
THEOREM UploadsAckedStored ==
    ASSUME "rewrite" \notin Ops
    PROVE  Spec => []AckedStored
  BY UploadStored, UploadAlways, PTL

(* Two uploads never share an object, though many store one name.            *)
THEOREM UploadsKeysDistinct ==
    ASSUME "rewrite" \notin Ops
    PROVE  Spec => []KeysDistinct
  <1>1. ASSUME IdsUnique, UploadInv, NEW q \in records, NEW r \in records,
               q.s3Key = r.s3Key
        PROVE  q = r
    <2>1. Claim(Draw(r.s3Key.name), q.id) /\ Claim(Draw(r.s3Key.name), r.id)
      BY <1>1 DEF Claim, RecordClaim
    <2>2. q.id = r.id
      BY <1>1, <2>1 DEF UploadInv, ClaimsInv, ClaimsUnique
    <2> QED BY <1>1, <2>2 DEF IdsUnique
  <1>2. IdsOK /\ UploadInv => KeysDistinct
    BY <1>1 DEF KeysDistinct, IdsOK
  <1> QED BY <1>2, UploadAlways, PTL

-----------------------------------------------------------------------------
(* The catalog.                                                             *)

Reachable == {r \in records : r.s3Key \in DOMAIN objects}
Files == {[id |-> r.id, content |-> r.id] : r \in Reachable}

(* What can be downloaded is what still has an object.                      *)
LEMMA AvailableFiles == StoredInv => Available = Files
  <1> SUFFICES ASSUME StoredInv PROVE Available = Files
    OBVIOUS
  <1>1. \A r \in records :
           r.content = r.id /\ (r.s3Key \in DOMAIN objects => objects[r.s3Key] = r.id)
    BY DEF StoredInv, RecordsOwn, Own
  <1>2. {r \in records : Intact(r)} = Reachable
    BY <1>1 DEF Intact, Reachable
  <1>3. \A r \in Reachable : r.content = r.id
    BY <1>1 DEF Reachable
  <1> QED BY <1>2, <1>3 DEF Available, Files

LEMMA AvailableFilesNext == StoredInv' => Available' = Files'
  <1> SUFFICES ASSUME StoredInv' PROVE Available' = Files'
    OBVIOUS
  <1>1. \A r \in records' : /\ r.content = r.id
                            /\ r.s3Key \in DOMAIN objects' => objects'[r.s3Key] = r.id
    BY DEF StoredInv, RecordsOwn, Own
  <1>2. {r \in records' : r.s3Key \in DOMAIN objects' /\ objects'[r.s3Key] = r.content}
        = Reachable'
    BY <1>1 DEF Reachable
  <1>3. \A r \in Reachable' : r.content = r.id
    BY <1>1 DEF Reachable
  <1>4. Available' = {[id |-> r.id, content |-> r.content] : r \in
           {q \in records' : q.s3Key \in DOMAIN objects' /\ objects'[q.s3Key] = q.content}}
    BY DEF Available, Intact
  <1> QED BY <1>2, <1>3, <1>4 DEF Files

LEMMA NumbersBounded ==
    ASSUME TypeOK
    PROVE  1 .. begun \subseteq 1 .. MaxJobs /\ published \subseteq 1 .. MaxJobs
  <1>1. begun \in 0 .. MaxJobs /\ published \subseteq 1 .. begun /\ MaxJobs \in Nat
    BY BoundsAssumption DEF TypeOK, BoundsAssumption
  <1>2. 1 .. begun \subseteq 1 .. MaxJobs
    BY <1>1
  <1> QED BY <1>1, <1>2

(* The steps that only a session notices.                                   *)
LEMMA CatalogStays ==
    ASSUME UNCHANGED <<objects, records, published, doomed>>
    PROVE  UNCHANGED Catalog!catalogVars
  <1>1. Available' = Available
    BY Zenon DEF Available, Intact
  <1> QED BY <1>1 DEF Catalog!catalogVars

LEMMA CatalogDoom ==
    ASSUME TypeOK, NEW s \in Sessions, BeginDelete(s)
    PROVE  Catalog!Next
  <1>1. PICK id \in published : doomed' = doomed \cup {id}
    BY DEF BeginDelete
  <1>2. UNCHANGED <<objects, records, published>>
    BY Zenon DEF BeginDelete, Begin, stores
  <1>3. Available' = Available
    BY <1>2, Zenon DEF Available, Intact
  <1>4. Catalog!Doom(id)
    BY <1>1, <1>2, <1>3 DEF Catalog!Doom
  <1> QED BY <1>4, NumbersBounded DEF Catalog!Next

(* An object that is put is no file yet.                                    *)
LEMMA CatalogPut ==
    ASSUME IdsFresh, IdsUnique, ClaimsInv, StoredInv, StoredInv',
           NEW s \in Sessions, AddPut(s)
    PROVE  UNCHANGED Catalog!catalogVars
  <1>1. PICK k : /\ k = KeyOf(job[s]) /\ DOMAIN objects' = DOMAIN objects \cup {k}
                 /\ UNCHANGED <<records, published, doomed>>
    BY DEF AddPut, Stored, history
  <1>2. job[s].call \in UploadCalls /\ job[s] # Idle
    BY DEF AddPut, UploadCalls, Idle
  <1>3. ASSUME NEW r \in records
        PROVE  r.s3Key # k
    <2>1. job[s].num \notin published /\ r.id \in published
      BY <1>2 DEF IdsFresh, IdsUnique
    <2> QED BY <1>1, <1>2, <2>1, RecordsApart
  <1>4. Reachable' = Reachable
    BY <1>1, <1>3 DEF Reachable
  <1>5. Files' = Files
    BY <1>4 DEF Files
  <1> QED BY <1>1, <1>5, AvailableFiles, AvailableFilesNext DEF Catalog!catalogVars

(* The record makes it one.                                                 *)
LEMMA CatalogPublish ==
    ASSUME TypeOK, IdsFresh, StoredInv, StoredInv', NEW s \in Sessions, AddInsert(s)
    PROVE  Catalog!Next
  <1>1. PICK r, n : /\ n = job[s].num /\ r.id = n /\ r.s3Key = KeyOf(job[s])
                    /\ records' = records \cup {r}
                    /\ published' = published \cup {n} /\ UNCHANGED <<objects, doomed>>
    BY DEF AddInsert, Inserted
  <1>2. job[s].call = "add_insert" /\ job[s] # Idle
    BY DEF AddInsert, Idle
  <1>3. n \in 1 .. begun /\ n \notin published
    BY <1>1, <1>2 DEF IdsFresh
  <1>4. r.s3Key \in DOMAIN objects
    BY <1>1, <1>2 DEF StoredInv, PutDone, JobPut
  <1>5. Reachable' = Reachable \cup {r}
    BY <1>1, <1>4 DEF Reachable
  <1>6. Files' = Files \cup {[id |-> n, content |-> n]}
    BY <1>1, <1>5 DEF Files
  <1>7. Available' = Available \cup {[id |-> n, content |-> n]}
    BY <1>6, AvailableFiles, AvailableFilesNext
  <1>8. Catalog!Publish(n, n)
    BY <1>1, <1>3, <1>7 DEF Catalog!Publish
  <1>9. n \in 1 .. MaxJobs
    BY <1>3, NumbersBounded
  <1> QED BY <1>8, <1>9 DEF Catalog!Next

(* A deletion withdraws its file with the object; the record follows.       *)
LEMMA CatalogWithdraw ==
    ASSUME TypeOK, IdsUnique, ClaimsInv, StoredInv, StoredInv',
           NEW s \in Sessions, DelObject(s) \/ DelRecord(s)
    PROVE  Catalog!Next
  <1>1. PICK k, id : k = job[s].source.s3Key /\ id = job[s].source.id
    OBVIOUS
  <1>2. /\ job[s].call \in DeleteCalls /\ HasSource(s)
        /\ UNCHANGED <<published, doomed>>
    BY DEF DelObject, DelRecord, DeleteCalls, HasSource, history
  <1>3. id \in doomed /\ id \in published
    BY <1>1, <1>2 DEF StoredInv, DeletesDoomed, JobDoomed, IdsUnique
  <1>4. \A r \in records : r.s3Key = k <=> r.id = id
    <2>1. \A r \in records : r.s3Key = k => r.id = id
      BY <1>1, <1>2, RecordsApart
    <2>2. \A r \in records : r.id = id => r.s3Key = k
      BY <1>1, <1>2 DEF IdsUnique
    <2> QED BY <2>1, <2>2
  <1>5. Reachable' = {r \in Reachable : r.id # id}
    <2>1. CASE DelObject(s)
      <3>1. DOMAIN objects' = DOMAIN objects \ {k} /\ records' = records
        BY <1>1, <2>1 DEF DelObject
      <3> QED BY <1>4, <3>1 DEF Reachable
    <2>2. CASE DelRecord(s)
      <3>1. objects' = objects /\ records' = {r \in records : r.id # id}
        BY <1>1, <2>2 DEF DelRecord
      <3> QED BY <3>1 DEF Reachable
    <2> QED BY <2>1, <2>2
  <1>6. Files' = {f \in Files : f.id # id}
    BY <1>5 DEF Files
  <1>7. Available' = {f \in Available : f.id # id}
    BY <1>6, AvailableFiles, AvailableFilesNext
  <1>8. Catalog!Withdraw(id)
    BY <1>2, <1>3, <1>7 DEF Catalog!Withdraw
  <1> QED BY <1>3, <1>8, NumbersBounded DEF Catalog!Next

LEMMA CatalogStep ==
    ASSUME "rewrite" \notin Ops, TypeOK, IdsFresh, IdsUnique, UploadInv, UploadInv',
           [Next]_vars
    PROVE  [Catalog!Next]_(Catalog!catalogVars)
  <1>0. ClaimsInv /\ StoredInv /\ StoredInv'
    BY DEF UploadInv
  <1>1. CASE UNCHANGED vars
    BY <1>1, CatalogStays DEF vars
  <1>2. CASE \E s \in Sessions : BeginAdd(s) \/ BeginDelete(s) \/ BeginRewrite(s)
    <2>1. PICK s \in Sessions : BeginAdd(s) \/ BeginDelete(s)
      BY <1>2, Zenon DEF BeginRewrite, Begin
    <2>2. CASE BeginAdd(s)
      <3>1. UNCHANGED <<objects, records, published, doomed>>
        BY <2>2, Zenon DEF BeginAdd, Begin, stores
      <3> QED BY <3>1, CatalogStays
    <2> QED BY <2>1, <2>2, CatalogDoom
  <1>3. CASE \E s \in Sessions : StoreCall(s)
    <2>1. PICK s \in Sessions : StoreCall(s)
      BY <1>3
    <2>2. job[s].call \notin RwCalls
      BY DEF UploadInv, ClaimsInv, NoCopies
    <2>3. ~(RwFind(s) \/ RwHead(s) \/ RwCopy(s) \/ RwInsert(s))
      BY <2>2 DEF RwCalls, RwFind, RwHead, RwCopy, RwInsert
    <2>4. CASE AddCheck(s) \/ DelFind(s) \/ CallFails(s)
      <3>1. UNCHANGED <<objects, records, published, doomed>>
        BY <2>4, Zenon DEF AddCheck, DelFind, CallFails, stores, history
      <3> QED BY <3>1, CatalogStays
    <2>5. CASE AddPut(s)
      BY <1>0, <2>5, CatalogPut
    <2>6. CASE AddInsert(s)
      BY <1>0, <2>6, CatalogPublish
    <2>7. CASE DelObject(s) \/ DelRecord(s)
      BY <1>0, <2>7, CatalogWithdraw
    <2> QED BY <2>1, <2>3, <2>4, <2>5, <2>6, <2>7, Zenon DEF StoreCall
  <1>4. CASE Crash
    <2>1. UNCHANGED <<objects, records, published, doomed>>
      BY <1>4, Zenon DEF Crash, stores, history
    <2> QED BY <2>1, CatalogStays
  <1> QED BY <1>1, <1>2, <1>3, <1>4, Zenon DEF Next

(* Uploads and deletions keep the promise of FileCatalog, whatever fails and *)
(* whenever the server stops: a file appears whole, never changes, and goes  *)
(* only after a client asked for that, never to come back.                   *)
THEOREM UploadsKeepCatalog ==
    ASSUME "rewrite" \notin Ops
    PROVE  Spec => CatalogSpec
  <1>1. Init => Catalog!Init
    BY DEF Init, Catalog!Init, Available
  <1>2. IdsOK /\ UploadInv /\ UploadInv' /\ [Next]_vars
        => [Catalog!Next]_(Catalog!catalogVars)
    BY CatalogStep DEF IdsOK
  <1> QED BY <1>1, <1>2, UploadAlways, PTL DEF Spec, CatalogSpec, Catalog!Spec

-----------------------------------------------------------------------------
(* One session, copies included: no uuid protects the key of a copy, but    *)
(* nobody else's calls come between those of a job.                         *)

(* A uuid before name, if any, is among the first n.                        *)
Before(name, n) == name.uuid = <<>> \/ (Draw(name) \in Nat /\ Draw(name) < n)

(* The names a job works with are drawn before; the record it read is still *)
(* there, and the key of an upload is new.                                  *)
JobNames(j) ==
    /\ j.call \in UploadCalls =>
          /\ Before(j.original, uuids) /\ Before(j.name, uuids) /\ j.name.uuid # <<>>
          /\ \A r \in records : r.s3Key.name # j.name
    /\ j.call \in {"rw_head", "rw_copy", "rw_insert"} => Before(j.name, uuids)
    /\ j.call \in SourceCalls => j.source \in records
RecordNames(r) == Before(r.originalName, uuids) /\ Before(r.s3Key.name, uuids)

NamesInv == (\A r \in records : RecordNames(r)) /\ \A s \in Sessions : JobNames(job[s])

LEMMA OnlyJob ==
    ASSUME NEW one, Sessions = {one}, TypeOK, NEW s \in Sessions, NEW j,
           job' = [job EXCEPT ![s] = j]
    PROVE  \A t \in Sessions : t = s /\ job'[t] = j
  BY JobNext

LEMMA BeforeGrows ==
    ASSUME NEW n \in Nat, NEW name, Before(name, n)
    PROVE  Before(name, n + 1)
  BY DEF Before

LEMMA NewName ==
    ASSUME TypeOK, NEW j, Draw(j.name) = uuids, j.name.uuid # <<>>,
           \A r \in records : RecordNames(r)
    PROVE  /\ Before(j.name, uuids + 1)
           /\ \A r \in records : r.s3Key.name # j.name
  BY DEF TypeOK, Before, RecordNames

LEMMA IdleNames == JobNames(Idle)' /\ JobNames(Idle)
  BY DEF JobNames, Idle, UploadCalls, SourceCalls

(* A job ends, perhaps with a new record.                                   *)
LEMMA NamesEnd ==
    ASSUME NEW one, Sessions = {one}, TypeOK, NamesInv, NEW s \in Sessions,
           job' = [job EXCEPT ![s] = Idle], uuids' = uuids,
           \A r \in records' : r \in records \/ RecordNames(r)
    PROVE  NamesInv'
  <1>1. \A t \in Sessions : job'[t] = Idle
    BY OnlyJob
  <1>2. \A r \in records' : RecordNames(r)'
    BY DEF NamesInv, RecordNames
  <1> QED BY <1>1, <1>2, IdleNames DEF NamesInv

LEMMA NamesAdd ==
    ASSUME NEW one, Sessions = {one}, TypeOK, NamesInv, NEW s \in Sessions,
           BeginAdd(s) \/ AddCheck(s) \/ AddPut(s) \/ AddInsert(s)
    PROVE  NamesInv'
  <1>0. /\ uuids \in Nat /\ \A r \in records : RecordNames(r)
        /\ JobNames(job[s])
    BY DEF TypeOK, NamesInv
  <1>1. \A r \in records : Before(r.originalName, uuids + 1) /\ Before(r.s3Key.name, uuids + 1)
    BY <1>0, BeforeGrows DEF RecordNames
  <1>2. CASE BeginAdd(s)
    <2>1. PICK folder \in Folders, stem \in Stems :
             job' = [job EXCEPT ![s] =
                       [call |-> "add_check", num |-> begun + 1,
                        folder |-> folder, original |-> ClientName(stem),
                        name |-> prepare_filename(ClientName(stem), uuids),
                        counter |-> 1]]
      BY <1>2 DEF BeginAdd
    <2> DEFINE j == [call |-> "add_check", num |-> begun + 1,
                     folder |-> folder, original |-> ClientName(stem),
                     name |-> prepare_filename(ClientName(stem), uuids),
                     counter |-> 1]
    <2>2. ClientName(stem) \in Name /\ ClientName(stem).uuid = <<>>
      BY DEF ClientName, Name
    <2>3. Draw(j.name) = uuids /\ j.name.uuid # <<>> /\ j.call = "add_check"
          /\ j.original = ClientName(stem)
      BY <2>2, DrawOf
    <2> HIDE DEF j
    <2>4. Before(j.name, uuids + 1) /\ \A r \in records : r.s3Key.name # j.name
      BY <1>0, <2>3, NewName
    <2>5. uuids' = uuids + 1 /\ records' = records
      BY <1>2 DEF BeginAdd, Begin, stores
    <2>6. job' = [job EXCEPT ![s] = j]
      BY <2>1 DEF j
    <2>7. \A t \in Sessions : job'[t] = j
      BY <2>6, OnlyJob
    <2>8. Before(j.original, uuids + 1)
      BY <2>2, <2>3 DEF Before
    <2> QED BY <1>1, <2>3, <2>4, <2>5, <2>7, <2>8
            DEF NamesInv, RecordNames, JobNames, UploadCalls, SourceCalls
  <1>3. CASE AddCheck(s)
    <2>1. records' = records /\ job[s].call \in UploadCalls
      BY <1>3 DEF AddCheck, stores, UploadCalls
    <2>2. PICK j : /\ Returns(s, j) /\ j.call \in {"add_check", "add_put"}
                   /\ \/ /\ uuids' = uuids /\ j.name = job[s].name
                         /\ \/ j.original = job[s].original
                            \/ j.original.uuid = job[s].name.uuid
                      \/ /\ uuids' = uuids + 1 /\ Draw(j.name) = uuids
                         /\ j.name.uuid # <<>> /\ j.original = job[s].original
      BY <1>3, CheckEffect, Zenon
    <2>3. \A t \in Sessions : job'[t] = j
      BY <2>2, OnlyJob DEF Returns
    <2>4. CASE uuids' = uuids /\ j.name = job[s].name
      <3>1. Before(j.original, uuids)
        BY <1>0, <2>1, <2>2, <2>4 DEF JobNames, Before, Draw
      <3> QED BY <1>0, <2>1, <2>2, <2>3, <2>4, <3>1
              DEF NamesInv, RecordNames, JobNames, UploadCalls, SourceCalls
    <2>5. CASE uuids' = uuids + 1 /\ Draw(j.name) = uuids /\ j.name.uuid # <<>>
               /\ j.original = job[s].original
      <3>1. Before(j.name, uuids + 1) /\ \A r \in records : r.s3Key.name # j.name
        BY <1>0, <2>5, NewName
      <3>2. Before(j.original, uuids + 1)
        BY <1>0, <2>1, <2>5, BeforeGrows DEF JobNames
      <3> QED BY <1>1, <2>1, <2>2, <2>3, <2>5, <3>1, <3>2
              DEF NamesInv, RecordNames, JobNames, UploadCalls, SourceCalls
    <2> QED BY <2>2, <2>4, <2>5
  <1>4. CASE AddPut(s)
    <2>1. records' = records /\ uuids' = uuids /\ job[s].call = "add_put"
      BY <1>4 DEF AddPut
    <2>2. CASE Throws(s, {KeyOf(job[s])}, {})
      BY <2>1, <2>2, NamesEnd DEF Throws
    <2>3. CASE Returns(s, [job[s] EXCEPT !.call = "add_insert"])
      <3> DEFINE j == [job[s] EXCEPT !.call = "add_insert"]
      <3>1. job[s] \in Upload
        BY <2>1, JobForms DEF TypeOK
      <3>2. j.call = "add_insert" /\ j.name = job[s].name /\ j.original = job[s].original
        BY <3>1 DEF Upload
      <3> HIDE DEF j
      <3>3. \A t \in Sessions : job'[t] = j
        BY <2>3, OnlyJob DEF Returns, j
      <3> QED BY <1>0, <2>1, <3>2, <3>3
              DEF NamesInv, RecordNames, JobNames, UploadCalls, SourceCalls
    <2> QED BY <1>4, <2>2, <2>3 DEF AddPut
  <1>5. CASE AddInsert(s)
    <2> DEFINE j == job[s]
               new == [id |-> j.num, originalName |-> j.original,
                       s3Key |-> KeyOf(j), content |-> j.num]
    <2>1. /\ records' = records \cup {new} /\ uuids' = uuids /\ j.call = "add_insert"
          /\ job' = [job EXCEPT ![s] = Idle]
      BY <1>5 DEF AddInsert, Inserted, Returns, Throws
    <2>2. RecordNames(new)
      BY <1>0, <2>1 DEF JobNames, UploadCalls, RecordNames, KeyOf
    <2> HIDE DEF new
    <2> QED BY <2>1, <2>2, NamesEnd
  <1> QED BY <1>2, <1>3, <1>4, <1>5

LEMMA NamesDelete ==
    ASSUME NEW one, Sessions = {one}, TypeOK, NamesInv, NEW s \in Sessions,
           BeginDelete(s) \/ DelFind(s) \/ DelObject(s) \/ DelRecord(s)
    PROVE  NamesInv'
  <1>0. JobNames(job[s])
    BY DEF NamesInv
  <1>1. CASE BeginDelete(s)
    <2>1. PICK id \in published :
             job' = [job EXCEPT ![s] = [call |-> "del_find", num |-> begun + 1, id |-> id]]
      BY <1>1 DEF BeginDelete
    <2> DEFINE j == [call |-> "del_find", num |-> begun + 1, id |-> id]
    <2>2. j.call = "del_find" /\ records' = records /\ uuids' = uuids
      BY <1>1 DEF BeginDelete, Begin, stores
    <2> HIDE DEF j
    <2>3. \A t \in Sessions : job'[t] = j
      BY <2>1, OnlyJob DEF j
    <2> QED BY <2>2, <2>3 DEF NamesInv, RecordNames, JobNames, UploadCalls, SourceCalls
  <1>2. CASE DelFind(s)
    <2>0. records' = records /\ uuids' = uuids
      BY <1>2 DEF DelFind, stores
    <2>1. CASE Returns(s, Idle)
      BY <2>0, <2>1, NamesEnd DEF Returns
    <2>2. ASSUME NEW r \in records,
                 Returns(s, [call |-> "del_object", num |-> job[s].num, source |-> r])
          PROVE  NamesInv'
      <3> DEFINE j == [call |-> "del_object", num |-> job[s].num, source |-> r]
      <3>1. j.call = "del_object" /\ j.source = r
        OBVIOUS
      <3> HIDE DEF j
      <3>2. \A t \in Sessions : job'[t] = j
        BY <2>2, OnlyJob DEF Returns, j
      <3> QED BY <2>0, <3>1, <3>2 DEF NamesInv, RecordNames, JobNames, UploadCalls
    <2> QED BY <1>2, <2>1, <2>2, Zenon DEF DelFind
  <1>3. CASE DelObject(s)
    <2>0. records' = records /\ uuids' = uuids /\ job[s].call = "del_object"
      BY <1>3 DEF DelObject
    <2>1. CASE Throws(s, {}, {job[s].source.id})
      BY <2>0, <2>1, NamesEnd DEF Throws
    <2>2. CASE Returns(s, [job[s] EXCEPT !.call = "del_record"])
      <3> DEFINE j == [job[s] EXCEPT !.call = "del_record"]
      <3>1. j.call = "del_record" /\ j.source = job[s].source
        BY <2>0, DelObjectEffect
      <3> HIDE DEF j
      <3>2. \A t \in Sessions : job'[t] = j
        BY <2>2, OnlyJob DEF Returns, j
      <3> QED BY <1>0, <2>0, <3>1, <3>2
              DEF NamesInv, RecordNames, JobNames, UploadCalls, SourceCalls
    <2> QED BY <1>3, <2>1, <2>2 DEF DelObject
  <1>4. CASE DelRecord(s)
    <2>1. job' = [job EXCEPT ![s] = Idle] /\ uuids' = uuids /\ records' \subseteq records
      BY <1>4 DEF DelRecord, Returns, Throws
    <2> QED BY <2>1, NamesEnd
  <1> QED BY <1>1, <1>2, <1>3, <1>4

LEMMA NamesRewrite ==
    ASSUME NEW one, Sessions = {one}, TypeOK, NamesInv, NEW s \in Sessions,
           BeginRewrite(s) \/ RwFind(s) \/ RwHead(s) \/ RwCopy(s) \/ RwInsert(s)
    PROVE  NamesInv'
  <1>0. JobNames(job[s]) /\ \A r \in records : RecordNames(r)
    BY DEF NamesInv
  <1>1. CASE BeginRewrite(s)
    <2>1. PICK id \in published, folder \in Folders :
             job' = [job EXCEPT ![s] = [call |-> "rw_find", num |-> begun + 1,
                                        id |-> id, folder |-> folder]]
      BY <1>1 DEF BeginRewrite
    <2> DEFINE j == [call |-> "rw_find", num |-> begun + 1, id |-> id, folder |-> folder]
    <2>2. j.call = "rw_find" /\ records' = records /\ uuids' = uuids
      BY <1>1 DEF BeginRewrite, Begin, stores
    <2> HIDE DEF j
    <2>3. \A t \in Sessions : job'[t] = j
      BY <2>1, OnlyJob DEF j
    <2> QED BY <2>2, <2>3 DEF NamesInv, RecordNames, JobNames, UploadCalls, SourceCalls
  <1>2. CASE RwFind(s)
    <2>0. records' = records /\ uuids' = uuids
      BY <1>2 DEF RwFind, stores
    <2>1. CASE Returns(s, Idle)
      BY <2>0, <2>1, NamesEnd DEF Returns
    <2>2. ASSUME NEW r \in records,
                 Returns(s, [call |-> "rw_head", num |-> job[s].num, source |-> r,
                             folder |-> job[s].folder, name |-> r.originalName,
                             counter |-> 1])
          PROVE  NamesInv'
      <3> DEFINE j == [call |-> "rw_head", num |-> job[s].num, source |-> r,
                       folder |-> job[s].folder, name |-> r.originalName,
                       counter |-> 1]
      <3>1. j.call = "rw_head" /\ j.source = r /\ j.name = r.originalName
        OBVIOUS
      <3> HIDE DEF j
      <3>2. \A t \in Sessions : job'[t] = j
        BY <2>2, OnlyJob DEF Returns, j
      <3> QED BY <2>0, <3>1, <3>2 DEF NamesInv, RecordNames, JobNames, UploadCalls
    <2> QED BY <1>2, <2>1, <2>2, Zenon DEF RwFind
  <1>3. CASE RwHead(s)
    <2>0. /\ records' = records /\ uuids' = uuids /\ job[s].call = "rw_head"
          /\ job[s].source \in records /\ Before(job[s].name, uuids)
      BY <1>0, <1>3 DEF RwHead, stores, JobNames, SourceCalls
    <2>1. PICK j : /\ Returns(s, j) /\ j.source = job[s].source
                   /\ \/ j.call = "rw_copy" /\ KeyOf(j) = KeyOf(job[s])
                      \/ /\ j.call = "rw_head"
                         /\ j.name = Numbered(job[s].source.originalName, job[s].counter)
      BY <1>3, HeadEffect, Zenon
    <2>2. \A t \in Sessions : job'[t] = j
      BY <2>1, OnlyJob DEF Returns
    <2>3. Before(j.name, uuids)
      <3>1. CASE KeyOf(j) = KeyOf(job[s])
        BY <2>0, <3>1 DEF KeyOf
      <3>2. CASE j.name = Numbered(job[s].source.originalName, job[s].counter)
        <4>1. job[s].source.originalName \in Name
          BY <2>0, RecordForm DEF TypeOK
        <4>2. j.name.uuid = job[s].source.originalName.uuid
          BY <3>2, <4>1, NumberedUuid
        <4> QED BY <1>0, <2>0, <4>2 DEF RecordNames, Before, Draw
      <3> QED BY <2>1, <3>1, <3>2
    <2> QED BY <2>0, <2>1, <2>2, <2>3 DEF NamesInv, RecordNames, JobNames, UploadCalls
  <1>4. CASE RwCopy(s)
    <2>0. records' = records /\ uuids' = uuids /\ job[s].call = "rw_copy"
      BY <1>4 DEF RwCopy
    <2>1. CASE job' = [job EXCEPT ![s] = Idle]
      BY <2>0, <2>1, NamesEnd
    <2>2. CASE Returns(s, [job[s] EXCEPT !.call = "rw_insert"])
      <3> DEFINE j == [job[s] EXCEPT !.call = "rw_insert"]
      <3>1. j.call = "rw_insert" /\ j.source = job[s].source /\ j.name = job[s].name
        BY <2>0, CopyEffect DEF KeyOf
      <3> HIDE DEF j
      <3>2. \A t \in Sessions : job'[t] = j
        BY <2>2, OnlyJob DEF Returns, j
      <3> QED BY <1>0, <2>0, <3>1, <3>2
              DEF NamesInv, RecordNames, JobNames, UploadCalls, SourceCalls
    <2> QED BY <1>4, <2>1, <2>2, Zenon DEF RwCopy, Returns, Throws
  <1>5. CASE RwInsert(s)
    <2> DEFINE j == job[s]
               new == [id |-> j.num, s3Key |-> KeyOf(j),
                       originalName |-> j.source.originalName,
                       content |-> j.source.content]
    <2>1. /\ records' = records \cup {new} /\ uuids' = uuids /\ j.call = "rw_insert"
          /\ job' = [job EXCEPT ![s] = Idle]
      BY <1>5 DEF RwInsert, Inserted, Returns, Throws
    <2>2. RecordNames(new)
      BY <1>0, <2>1 DEF JobNames, SourceCalls, RecordNames, KeyOf
    <2> HIDE DEF new
    <2> QED BY <2>1, <2>2, NamesEnd
  <1> QED BY <1>1, <1>2, <1>3, <1>4, <1>5

LEMMA NamesStep ==
    ASSUME NEW one, Sessions = {one}, TypeOK, NamesInv, [Next]_vars
    PROVE  NamesInv'
  <1>1. CASE UNCHANGED vars
    BY <1>1 DEF vars, NamesInv, RecordNames, JobNames
  <1>2. CASE \E s \in Sessions : CallFails(s)
    BY <1>2, NamesEnd DEF CallFails, Throws, stores
  <1>3. CASE Crash
    <2>1. records' = records /\ uuids' = uuids /\ \A t \in Sessions : job'[t] = Idle
      BY <1>3 DEF Crash, stores
    <2> QED BY <2>1, IdleNames DEF NamesInv, RecordNames
  <1> QED BY <1>1, <1>2, <1>3, NamesAdd, NamesDelete, NamesRewrite, Zenon
          DEF Next, StoreCall

(* What a job may rely on: a copy's key is free, an object it put is there. *)
JobObjects(j) ==
    /\ j.call = "rw_copy" => KeyOf(j) \notin DOMAIN objects
    /\ j.call = "add_insert" =>
          KeyOf(j) \in DOMAIN objects /\ objects[KeyOf(j)] = j.num
    /\ halfDeleted = {} /\ j.call = "rw_insert" =>
          /\ KeyOf(j) \in DOMAIN objects /\ objects[KeyOf(j)] = j.source.content
          /\ \A r \in records : r.s3Key # KeyOf(j)

(* Unless a deletion died half way, each record has its own object, but for *)
(* the one that is just being deleted.                                      *)
EachIntact == \A r \in records : Intact(r) \/ Withdrawn(r.id)
CalmInv == halfDeleted = {} => KeysDistinct /\ EachIntact
ObjectsInv == CalmInv /\ \A s \in Sessions : JobObjects(job[s])

LEMMA NotWithdrawn ==
    ASSUME NEW one, Sessions = {one}, NEW s \in Sessions, ~Withdrawing(s)
    PROVE  \A id : ~Withdrawn(id)
  BY DEF Withdrawn

LEMMA NotWithdrawnNext ==
    ASSUME NEW one, Sessions = {one}, TypeOK, NEW s \in Sessions, NEW j,
           job' = [job EXCEPT ![s] = j], j.call # "del_record"
    PROVE  \A id : ~Withdrawn(id)'
  BY OnlyJob DEF Withdrawn, Withdrawing

(* A call that changes neither store.                                       *)
LEMMA ObjectsStay ==
    ASSUME NEW one, Sessions = {one}, TypeOK, ObjectsInv, NEW s \in Sessions, NEW j,
           job' = [job EXCEPT ![s] = j], UNCHANGED <<objects, records>>,
           j.call \notin {"add_insert", "rw_insert", "del_record"},
           j.call = "rw_copy" => KeyOf(j) \notin DOMAIN objects,
           halfDeleted' = {} => halfDeleted = {} /\ ~Withdrawing(s)
    PROVE  ObjectsInv'
  <1>1. \A t \in Sessions : job'[t] = j
    BY OnlyJob
  <1>2. \A t \in Sessions : JobObjects(job[t])'
    BY <1>1 DEF JobObjects, KeyOf
  <1>3. ASSUME halfDeleted' = {} PROVE KeysDistinct' /\ EachIntact'
    <2>1. KeysDistinct /\ \A r \in records : Intact(r)
      BY <1>3, NotWithdrawn DEF ObjectsInv, CalmInv, EachIntact
    <2> QED BY <2>1 DEF KeysDistinct, EachIntact, Intact
  <1> QED BY <1>2, <1>3 DEF ObjectsInv, CalmInv

LEMMA IdleCall == Idle.call = "none"
  BY DEF Idle

LEMMA ObjectsBegin ==
    ASSUME NEW one, Sessions = {one}, TypeOK, ObjectsInv, NEW s \in Sessions,
           BeginAdd(s) \/ BeginDelete(s) \/ BeginRewrite(s)
    PROVE  ObjectsInv'
  <1>1. /\ UNCHANGED <<objects, records, halfDeleted>> /\ ~Withdrawing(s)
    BY IdleCall DEF BeginAdd, BeginDelete, BeginRewrite, Begin, stores, Withdrawing
  <1>2. ASSUME NEW j, job' = [job EXCEPT ![s] = j],
               j.call \in {"add_check", "del_find", "rw_find"}
        PROVE  ObjectsInv'
    BY <1>1, <1>2, ObjectsStay
  <1>3. CASE BeginAdd(s)
    <2>1. PICK folder \in Folders, stem \in Stems :
             job' = [job EXCEPT ![s] =
                       [call |-> "add_check", num |-> begun + 1,
                        folder |-> folder, original |-> ClientName(stem),
                        name |-> prepare_filename(ClientName(stem), uuids),
                        counter |-> 1]]
      BY <1>3 DEF BeginAdd
    <2> DEFINE j == [call |-> "add_check", num |-> begun + 1,
                     folder |-> folder, original |-> ClientName(stem),
                     name |-> prepare_filename(ClientName(stem), uuids),
                     counter |-> 1]
    <2>2. j.call = "add_check" /\ job' = [job EXCEPT ![s] = j]
      BY <2>1
    <2> HIDE DEF j
    <2> QED BY <1>2, <2>2
  <1>4. CASE BeginDelete(s)
    <2>1. PICK id \in published :
             job' = [job EXCEPT ![s] = [call |-> "del_find", num |-> begun + 1, id |-> id]]
      BY <1>4 DEF BeginDelete
    <2> DEFINE j == [call |-> "del_find", num |-> begun + 1, id |-> id]
    <2>2. j.call = "del_find" /\ job' = [job EXCEPT ![s] = j]
      BY <2>1
    <2> HIDE DEF j
    <2> QED BY <1>2, <2>2
  <1>5. CASE BeginRewrite(s)
    <2>1. PICK id \in published, folder \in Folders :
             job' = [job EXCEPT ![s] = [call |-> "rw_find", num |-> begun + 1,
                                        id |-> id, folder |-> folder]]
      BY <1>5 DEF BeginRewrite
    <2> DEFINE j == [call |-> "rw_find", num |-> begun + 1, id |-> id, folder |-> folder]
    <2>2. j.call = "rw_find" /\ job' = [job EXCEPT ![s] = j]
      BY <2>1
    <2> HIDE DEF j
    <2> QED BY <1>2, <2>2
  <1> QED BY <1>3, <1>4, <1>5

LEMMA ObjectsReads ==
    ASSUME NEW one, Sessions = {one}, TypeOK, ObjectsInv, NEW s \in Sessions,
           AddCheck(s) \/ DelFind(s) \/ RwFind(s) \/ RwHead(s) \/ CallFails(s)
    PROVE  ObjectsInv'
  <1>1. UNCHANGED <<objects, records>>
    BY Zenon DEF AddCheck, DelFind, RwFind, RwHead, CallFails, stores
  <1>2. ASSUME NEW j, Returns(s, j), ~Withdrawing(s),
               j.call \notin {"add_insert", "rw_insert", "del_record"},
               j.call = "rw_copy" => KeyOf(j) \notin DOMAIN objects
        PROVE  ObjectsInv'
    <2>1. job' = [job EXCEPT ![s] = j] /\ halfDeleted' = halfDeleted
      BY <1>2, Zenon DEF Returns
    <2> QED BY <1>1, <1>2, <2>1, ObjectsStay
  <1>3. CASE AddCheck(s)
    <2>1. \E j : Returns(s, j) /\ j.call \in {"add_check", "add_put"}
      BY <1>3, CheckEffect, Zenon
    <2>2. ~Withdrawing(s)
      BY <1>3 DEF AddCheck, Withdrawing
    <2> QED BY <1>2, <2>1, <2>2
  <1>4. CASE DelFind(s)
    <2>1. ~Withdrawing(s)
      BY <1>4 DEF DelFind, Withdrawing
    <2>2. \E j : Returns(s, j) /\ j.call \in {"none", "del_object"}
      <3>1. CASE Returns(s, Idle)
        BY <3>1, IdleCall
      <3>2. ASSUME NEW r, Returns(s, [call |-> "del_object", num |-> job[s].num, source |-> r])
            PROVE  \E j : Returns(s, j) /\ j.call \in {"none", "del_object"}
        <4> DEFINE j == [call |-> "del_object", num |-> job[s].num, source |-> r]
        <4>1. j.call = "del_object" /\ Returns(s, j)
          BY <3>2
        <4> HIDE DEF j
        <4> QED BY <4>1
      <3> QED BY <1>4, <3>1, <3>2, Zenon DEF DelFind
    <2> QED BY <1>2, <2>1, <2>2
  <1>5. CASE RwFind(s)
    <2>1. ~Withdrawing(s)
      BY <1>5 DEF RwFind, Withdrawing
    <2>2. \E j : Returns(s, j) /\ j.call \in {"none", "rw_head"}
      <3>1. CASE Returns(s, Idle)
        BY <3>1, IdleCall
      <3>2. ASSUME NEW r,
                   Returns(s, [call |-> "rw_head", num |-> job[s].num, source |-> r,
                               folder |-> job[s].folder, name |-> r.originalName,
                               counter |-> 1])
            PROVE  \E j : Returns(s, j) /\ j.call \in {"none", "rw_head"}
        <4> DEFINE j == [call |-> "rw_head", num |-> job[s].num, source |-> r,
                         folder |-> job[s].folder, name |-> r.originalName,
                         counter |-> 1]
        <4>1. j.call = "rw_head" /\ Returns(s, j)
          BY <3>2
        <4> HIDE DEF j
        <4> QED BY <4>1
      <3> QED BY <1>5, <3>1, <3>2, Zenon DEF RwFind
    <2> QED BY <1>2, <2>1, <2>2
  <1>6. CASE RwHead(s)
    <2>1. ~Withdrawing(s)
      BY <1>6 DEF RwHead, Withdrawing
    <2>2. \E j : /\ Returns(s, j) /\ j.call \in {"rw_head", "rw_copy"}
                 /\ j.call = "rw_copy" => KeyOf(j) \notin DOMAIN objects
      BY <1>6, HeadEffect
    <2> QED BY <1>2, <2>1, <2>2
  <1>7. CASE CallFails(s)
    <2>1. /\ job' = [job EXCEPT ![s] = Idle]
          /\ halfDeleted' = halfDeleted
                            \cup (IF Withdrawing(s) THEN {job[s].source.id} ELSE {})
      BY <1>7, Zenon DEF CallFails, Throws
    <2>2. halfDeleted' = {} => halfDeleted = {} /\ ~Withdrawing(s)
      BY <2>1
    <2> QED BY <1>1, <2>1, <2>2, IdleCall, ObjectsStay
  <1> QED BY <1>3, <1>4, <1>5, <1>6, <1>7

LEMMA ObjectsCrash ==
    ASSUME ObjectsInv, Crash
    PROVE  ObjectsInv'
  <1>1. /\ \A t \in Sessions : job'[t] = Idle
        /\ halfDeleted' = halfDeleted
              \cup {job[s].source.id : s \in {t \in Sessions : Withdrawing(t)}}
        /\ UNCHANGED <<objects, records>>
    BY DEF Crash, stores
  <1>2. \A t \in Sessions : JobObjects(job[t])'
    BY <1>1, IdleCall DEF JobObjects
  <1>3. ASSUME halfDeleted' = {} PROVE KeysDistinct' /\ EachIntact'
    <2>1. halfDeleted = {} /\ \A s \in Sessions : ~Withdrawing(s)
      BY <1>1, <1>3
    <2>2. KeysDistinct /\ \A r \in records : Intact(r)
      BY <2>1 DEF ObjectsInv, CalmInv, EachIntact, Withdrawn
    <2> QED BY <1>1, <2>2 DEF KeysDistinct, EachIntact, Intact
  <1> QED BY <1>2, <1>3 DEF ObjectsInv, CalmInv

(* An object is put under a key that no record has.                         *)
LEMMA EachKept ==
    ASSUME NEW key, NEW content, objects' = Stored(key, content), records' = records,
           \A r \in records : r.s3Key # key, \A r \in records : Intact(r)
    PROVE  \A r \in records' : Intact(r)'
  <1>1. /\ DOMAIN objects' = DOMAIN objects \cup {key}
        /\ \A k \in DOMAIN objects : k # key => objects'[k] = objects[k]
    BY DEF Stored
  <1> QED BY <1>1 DEF Intact

LEMMA ObjectsAdd ==
    ASSUME NEW one, Sessions = {one}, TypeOK, NamesInv, ObjectsInv, NEW s \in Sessions,
           AddPut(s) \/ AddInsert(s)
    PROVE  ObjectsInv'
  <1>0. /\ JobObjects(job[s]) /\ job[s].call \in UploadCalls
        /\ \A r \in records : r.s3Key # KeyOf(job[s])
        /\ ~Withdrawing(s) /\ \A r \in records : halfDeleted = {} => Intact(r)
    <2>1. job[s].call \in {"add_put", "add_insert"}
      BY DEF AddPut, AddInsert
    <2>2. \A r \in records : r.s3Key.name # job[s].name
      BY <2>1 DEF NamesInv, JobNames, UploadCalls
    <2>3. ~Withdrawing(s)
      BY <2>1 DEF Withdrawing
    <2>4. halfDeleted = {} => \A r \in records : Intact(r)
      BY <2>3, NotWithdrawn DEF ObjectsInv, CalmInv, EachIntact
    <2> QED BY <2>1, <2>2, <2>3, <2>4 DEF ObjectsInv, UploadCalls, KeyOf
  <1>1. CASE AddPut(s)
    <2>1. /\ objects' = Stored(KeyOf(job[s]), job[s].num) /\ records' = records
          /\ job[s].call = "add_put"
      BY <1>1 DEF AddPut
    <2>2. PICK j : /\ job' = [job EXCEPT ![s] = j] /\ halfDeleted' = halfDeleted
                   /\ \/ j.call = "none"
                      \/ /\ j.call = "add_insert" /\ KeyOf(j) = KeyOf(job[s])
                         /\ j.num = job[s].num
      <3>1. CASE Throws(s, {KeyOf(job[s])}, {})
        BY <3>1, IdleCall DEF Throws
      <3>2. CASE Returns(s, [job[s] EXCEPT !.call = "add_insert"])
        <4> DEFINE j == [job[s] EXCEPT !.call = "add_insert"]
        <4>1. j.call = "add_insert" /\ KeyOf(j) = KeyOf(job[s]) /\ j.num = job[s].num
          BY <2>1, PutEffect
        <4> HIDE DEF j
        <4> QED BY <3>2, <4>1 DEF Returns, j
      <3> QED BY <1>1, <3>1, <3>2 DEF AddPut
    <2>3. \A t \in Sessions : job'[t] = j
      BY <2>2, OnlyJob
    <2>4. KeyOf(job[s]) \in DOMAIN objects' /\ objects'[KeyOf(job[s])] = job[s].num
      BY <2>1 DEF Stored
    <2>5. \A t \in Sessions : JobObjects(job[t])'
      <3>1. \A t \in Sessions : KeyOf(job[t])' = KeyOf(j)
        BY <2>3 DEF KeyOf
      <3> QED BY <2>2, <2>3, <2>4, <3>1 DEF JobObjects
    <2>6. ASSUME halfDeleted' = {} PROVE KeysDistinct' /\ EachIntact'
      <3>1. \A r \in records' : Intact(r)'
        BY <1>0, <2>1, <2>2, <2>6, EachKept
      <3>2. KeysDistinct
        BY <2>2, <2>6 DEF ObjectsInv, CalmInv
      <3> QED BY <2>1, <3>1, <3>2 DEF KeysDistinct, EachIntact
    <2> QED BY <2>5, <2>6 DEF ObjectsInv, CalmInv
  <1>2. CASE AddInsert(s)
    <2> DEFINE j == job[s]
               new == [id |-> j.num, originalName |-> j.original,
                       s3Key |-> KeyOf(j), content |-> j.num]
    <2>1. /\ records' = records \cup {new} /\ objects' = objects /\ j.call = "add_insert"
          /\ job' = [job EXCEPT ![s] = Idle] /\ halfDeleted' = halfDeleted
      BY <1>2 DEF AddInsert, Inserted, Returns, Throws
    <2>2. Intact(new) /\ new.s3Key = KeyOf(j)
      BY <1>0, <2>1 DEF JobObjects, Intact
    <2>3. \A t \in Sessions : job'[t] = Idle
      BY <2>1, OnlyJob
    <2>4. \A t \in Sessions : JobObjects(job[t])'
      BY <2>3, IdleCall DEF JobObjects
    <2> HIDE DEF new
    <2>5. ASSUME halfDeleted' = {} PROVE KeysDistinct' /\ EachIntact'
      <3>1. \A r \in records' : Intact(r)'
        BY <1>0, <2>1, <2>2, <2>5 DEF Intact
      <3>2. KeysDistinct
        BY <2>1, <2>5 DEF ObjectsInv, CalmInv
      <3> QED BY <1>0, <2>1, <2>2, <3>1, <3>2 DEF KeysDistinct, EachIntact
    <2> QED BY <2>4, <2>5 DEF ObjectsInv, CalmInv
  <1> QED BY <1>1, <1>2

LEMMA ObjectsDelete ==
    ASSUME NEW one, Sessions = {one}, TypeOK, IdsUnique, NamesInv, ObjectsInv,
           NEW s \in Sessions, DelObject(s) \/ DelRecord(s)
    PROVE  ObjectsInv'
  <1>0. job[s].source \in records
    BY DEF NamesInv, JobNames, SourceCalls, DelObject, DelRecord
  <1>1. CASE DelObject(s)
    <2>0. PICK r0 \in records : job[s].source = r0
      BY <1>0
    <2>1. /\ objects' = [k \in DOMAIN objects \ {r0.s3Key} |-> objects[k]]
          /\ records' = records /\ job[s].call = "del_object" /\ ~Withdrawing(s)
      BY <1>1, <2>0 DEF DelObject, Withdrawing
    <2>2. PICK j : /\ job' = [job EXCEPT ![s] = j]
                   /\ \/ j.call = "none" /\ halfDeleted' # {}
                      \/ /\ j.call = "del_record" /\ j.source = r0
                         /\ halfDeleted' = halfDeleted
      <3>1. CASE Throws(s, {}, {job[s].source.id})
        BY <3>1, IdleCall DEF Throws
      <3>2. CASE Returns(s, [job[s] EXCEPT !.call = "del_record"])
        <4> DEFINE j == [job[s] EXCEPT !.call = "del_record"]
        <4>1. j.call = "del_record" /\ j.source = job[s].source
          BY <2>1, DelObjectEffect
        <4> HIDE DEF j
        <4> QED BY <2>0, <3>2, <4>1 DEF Returns, j
      <3> QED BY <1>1, <3>1, <3>2 DEF DelObject
    <2>3. \A t \in Sessions : job'[t] = j
      BY <2>2, OnlyJob
    <2>4. \A t \in Sessions : JobObjects(job[t])'
      BY <2>2, <2>3 DEF JobObjects
    <2>5. ASSUME halfDeleted' = {} PROVE KeysDistinct' /\ EachIntact'
      <3>1. KeysDistinct /\ \A r \in records : Intact(r)
        BY <2>1, <2>2, <2>5, NotWithdrawn DEF ObjectsInv, CalmInv, EachIntact
      <3>2. Withdrawn(r0.id)'
        BY <2>2, <2>3, <2>5 DEF Withdrawn, Withdrawing
      <3>3. \A r \in records : r = r0 \/ r.s3Key # r0.s3Key
        BY <3>1 DEF KeysDistinct
      <3>4. \A r \in records : r = r0 \/ Intact(r)'
        BY <2>1, <3>1, <3>3 DEF Intact
      <3>5. EachIntact'
        BY <2>1, <3>2, <3>4 DEF EachIntact
      <3> QED BY <2>1, <3>1, <3>5 DEF KeysDistinct
    <2> QED BY <2>4, <2>5 DEF ObjectsInv, CalmInv
  <1>2. CASE DelRecord(s)
    <2>1. /\ job' = [job EXCEPT ![s] = Idle] /\ objects' = objects
          /\ halfDeleted' = halfDeleted
          /\ records' = {r \in records : r.id # job[s].source.id}
      BY <1>2 DEF DelRecord, Returns, Throws
    <2>2. \A t \in Sessions : t = s /\ job'[t] = Idle
      BY <2>1, OnlyJob
    <2>3. \A t \in Sessions : JobObjects(job[t])'
      BY <2>2, IdleCall DEF JobObjects
    <2>4. ASSUME halfDeleted' = {} PROVE KeysDistinct' /\ EachIntact'
      <3>1. \A r \in records' : Intact(r)
        BY <2>1, <2>2, <2>4 DEF ObjectsInv, CalmInv, EachIntact, Withdrawn
      <3>2. KeysDistinct
        BY <2>1, <2>4 DEF ObjectsInv, CalmInv
      <3> QED BY <2>1, <3>1, <3>2 DEF KeysDistinct, EachIntact, Intact
    <2> QED BY <2>3, <2>4 DEF ObjectsInv, CalmInv
  <1> QED BY <1>1, <1>2

LEMMA ObjectsCopy ==
    ASSUME NEW one, Sessions = {one}, TypeOK, NamesInv, ObjectsInv, NEW s \in Sessions,
           RwCopy(s) \/ RwInsert(s)
    PROVE  ObjectsInv'
  <1>0. /\ JobObjects(job[s]) /\ job[s].source \in records /\ ~Withdrawing(s)
        /\ halfDeleted = {} => KeysDistinct /\ \A r \in records : Intact(r)
    <2>1. job[s].call \in {"rw_copy", "rw_insert"}
      BY DEF RwCopy, RwInsert
    <2>2. job[s].source \in records
      BY <2>1 DEF NamesInv, JobNames, SourceCalls
    <2>3. ~Withdrawing(s)
      BY <2>1 DEF Withdrawing
    <2>4. halfDeleted = {} => KeysDistinct /\ \A r \in records : Intact(r)
      BY <2>3, NotWithdrawn DEF ObjectsInv, CalmInv, EachIntact
    <2> QED BY <2>2, <2>3, <2>4 DEF ObjectsInv
  <1>1. CASE RwCopy(s)
    <2>0. job[s].call = "rw_copy" /\ records' = records
      BY <1>1 DEF RwCopy
    <2>1. CASE UNCHANGED objects /\ Returns(s, Idle)
      BY <1>0, <2>0, <2>1, IdleCall, ObjectsStay DEF Returns
    <2>2. CASE /\ job[s].source.s3Key \in DOMAIN objects
               /\ objects' = Stored(KeyOf(job[s]), objects[job[s].source.s3Key])
               /\ \/ Returns(s, [job[s] EXCEPT !.call = "rw_insert"])
                  \/ Throws(s, {KeyOf(job[s])}, {})
      <3>1. PICK j : /\ job' = [job EXCEPT ![s] = j] /\ halfDeleted' = halfDeleted
                     /\ \/ j.call = "none"
                        \/ /\ j.call = "rw_insert" /\ KeyOf(j) = KeyOf(job[s])
                           /\ j.source = job[s].source
        <4>1. CASE Throws(s, {KeyOf(job[s])}, {})
          BY <4>1, IdleCall DEF Throws
        <4>2. CASE Returns(s, [job[s] EXCEPT !.call = "rw_insert"])
          <5> DEFINE j == [job[s] EXCEPT !.call = "rw_insert"]
          <5>1. j.call = "rw_insert" /\ KeyOf(j) = KeyOf(job[s]) /\ j.source = job[s].source
            BY <2>0, CopyEffect
          <5> HIDE DEF j
          <5> QED BY <4>2, <5>1 DEF Returns, j
        <4> QED BY <2>2, <4>1, <4>2
      <3>2. \A t \in Sessions : job'[t] = j
        BY <3>1, OnlyJob
      <3>3. KeyOf(job[s]) \notin DOMAIN objects
        BY <1>0, <2>0 DEF JobObjects
      <3>4. halfDeleted = {} => \A r \in records : r.s3Key # KeyOf(job[s])
        BY <1>0, <3>3 DEF Intact
      <3>5. /\ KeyOf(job[s]) \in DOMAIN objects'
            /\ objects'[KeyOf(job[s])] = objects[job[s].source.s3Key]
        BY <2>2 DEF Stored
      <3>6. halfDeleted = {} => objects[job[s].source.s3Key] = job[s].source.content
        BY <1>0 DEF Intact
      <3>7. \A t \in Sessions : JobObjects(job[t])'
        <4>1. \A t \in Sessions : KeyOf(job[t])' = KeyOf(j)
          BY <3>2 DEF KeyOf
        <4> QED BY <2>0, <3>1, <3>2, <3>4, <3>5, <3>6, <4>1 DEF JobObjects
      <3>8. ASSUME halfDeleted' = {} PROVE KeysDistinct' /\ EachIntact'
        <4>1. \A r \in records' : Intact(r)'
          BY <1>0, <2>0, <2>2, <3>1, <3>4, <3>8, EachKept
        <4> QED BY <1>0, <2>0, <3>1, <3>8, <4>1 DEF KeysDistinct, EachIntact
      <3> QED BY <3>7, <3>8 DEF ObjectsInv, CalmInv
    <2> QED BY <1>1, <2>1, <2>2, Zenon DEF RwCopy
  <1>2. CASE RwInsert(s)
    <2> DEFINE j == job[s]
               new == [id |-> j.num, s3Key |-> KeyOf(j),
                       originalName |-> j.source.originalName,
                       content |-> j.source.content]
    <2>1. /\ records' = records \cup {new} /\ objects' = objects /\ j.call = "rw_insert"
          /\ job' = [job EXCEPT ![s] = Idle] /\ halfDeleted' = halfDeleted
      BY <1>2 DEF RwInsert, Inserted, Returns, Throws
    <2>2. /\ new.s3Key = KeyOf(j)
          /\ halfDeleted = {} => Intact(new) /\ \A r \in records : r.s3Key # KeyOf(j)
      BY <1>0, <2>1 DEF JobObjects, Intact
    <2>3. \A t \in Sessions : job'[t] = Idle
      BY <2>1, OnlyJob
    <2>4. \A t \in Sessions : JobObjects(job[t])'
      BY <2>3, IdleCall DEF JobObjects
    <2> HIDE DEF new
    <2>5. ASSUME halfDeleted' = {} PROVE KeysDistinct' /\ EachIntact'
      <3>1. \A r \in records' : Intact(r)'
        BY <1>0, <2>1, <2>2, <2>5 DEF Intact
      <3> QED BY <1>0, <2>1, <2>2, <2>5, <3>1 DEF KeysDistinct, EachIntact
    <2> QED BY <2>4, <2>5 DEF ObjectsInv, CalmInv
  <1> QED BY <1>1, <1>2

LEMMA ObjectsStep ==
    ASSUME NEW one, Sessions = {one}, TypeOK, IdsUnique, NamesInv, ObjectsInv, [Next]_vars
    PROVE  ObjectsInv'
  <1>1. CASE UNCHANGED vars
    <2>1. UNCHANGED <<objects, records, job, halfDeleted>>
      BY <1>1 DEF vars
    <2> QED BY <2>1 DEF ObjectsInv, CalmInv, KeysDistinct, EachIntact, Intact, Withdrawn,
                        Withdrawing, JobObjects, KeyOf
  <1>2. CASE \E s \in Sessions : BeginAdd(s) \/ BeginDelete(s) \/ BeginRewrite(s)
    BY <1>2, ObjectsBegin
  <1>3. CASE \E s \in Sessions : StoreCall(s)
    BY <1>3, ObjectsReads, ObjectsAdd, ObjectsDelete, ObjectsCopy, Zenon DEF StoreCall
  <1>4. CASE Crash
    BY <1>4, ObjectsCrash
  <1> QED BY <1>1, <1>2, <1>3, <1>4 DEF Next

AloneInv == IdsOK /\ DoomedInv /\ NamesInv /\ ObjectsInv

LEMMA AloneInit == Init => AloneInv
  <1> SUFFICES ASSUME Init PROVE AloneInv
    OBVIOUS
  <1>1. records = {} /\ \A s \in Sessions : job[s] = Idle
    BY DEF Init
  <1>2. NamesInv /\ ObjectsInv
    BY <1>1, IdleNames, IdleCall
       DEF NamesInv, ObjectsInv, CalmInv, KeysDistinct, EachIntact, JobObjects
  <1> QED BY <1>2, TypeInit, IdsInit, DoomedInit DEF AloneInv, IdsOK

LEMMA AloneStep ==
    ASSUME NEW one, Sessions = {one}, AloneInv, [Next]_vars
    PROVE  AloneInv'
  <1>1. TypeOK /\ IdsUnique /\ IdsOK /\ DoomedInv /\ NamesInv /\ ObjectsInv
    BY DEF AloneInv, IdsOK
  <1>2. IdsOK'
    BY <1>1, TypeStep, IdsStep DEF IdsOK
  <1> QED BY <1>1, <1>2, DoomedStep, NamesStep, ObjectsStep DEF AloneInv

LEMMA AloneAlways ==
    ASSUME NEW one, Sessions = {one}
    PROVE  Spec => []AloneInv
  <1>1. AloneInv /\ [Next]_vars => AloneInv'
    BY AloneStep
  <1> QED BY <1>1, AloneInit, PTL DEF Spec

LEMMA AloneIntact ==
    ASSUME AloneInv, halfDeleted = {}, NEW r \in records, r.id \notin doomed
    PROVE  Intact(r)
  <1>1. ~Withdrawn(r.id)
    BY DEF AloneInv, DoomedInv, DeletesDoomed, JobDoomed, Withdrawn, Withdrawing, DeleteCalls
  <1> QED BY <1>1 DEF AloneInv, ObjectsInv, CalmInv, EachIntact

(* A session alone, whatever it asks for and however often the server stops: *)
(* no two records share an object, as the search for a free key promises     *)
(* (wssSession.cpp:959), unless a deletion died half way.                    *)
THEOREM AloneKeysUnique ==
    ASSUME NEW one, Sessions = {one}
    PROVE  Spec => []KeysUnique
  <1>1. AloneInv => KeysUnique
    BY DEF AloneInv, ObjectsInv, CalmInv, KeysUnique
  <1> QED BY <1>1, AloneAlways, PTL

(* And then every upload and every copy that was reported as a success can   *)
(* be downloaded, whole, until its deletion is asked for.                    *)
THEOREM AloneAckedStored ==
    ASSUME NEW one, Sessions = {one}
    PROVE  Spec => [](halfDeleted = {} => AckedStored)
  <1>1. ASSUME AloneInv, halfDeleted = {}, NEW n \in acked, n \notin doomed
        PROVE  \E f \in Available : f.id = n
    <2>1. PICK r \in records : r.id = n
      BY <1>1 DEF AloneInv, DoomedInv, AckedRecorded
    <2>2. Intact(r)
      BY <1>1, <2>1, AloneIntact
    <2>3. [id |-> r.id, content |-> r.content] \in Available
      BY <2>2 DEF Available
    <2> QED BY <2>1, <2>3
  <1>2. AloneInv => (halfDeleted = {} => AckedStored)
    BY <1>1 DEF AckedStored
  <1> QED BY <1>2, AloneAlways, PTL

=============================================================================
