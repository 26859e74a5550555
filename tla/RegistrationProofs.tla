-------------------------- MODULE RegistrationProofs --------------------------
(***************************************************************************)
(* Proofs about Registration, for all sessions, logins, passwords,         *)
(* failures and stops: types, what a token and a report of success mean,   *)
(* what a half done registration leaves, and that only registrations that  *)
(* overlap give one login two users.                                       *)
(***************************************************************************)
EXTENDS Registration, TLAPS

-----------------------------------------------------------------------------
(* Forms of a job.                                                          *)

Looking(j) == j.call \in {"reg_head", "reg_create", "reg_insert"}
Owning(j) == j.call \in {"reg_put", "reg_record"}

LEMMA JobForms ==
    ASSUME NEW j \in Jobs
    PROVE  /\ j.call \in {"reg_find", "login_find"} =>
                 j.login \in Logins /\ j.password \in Passwords
           /\ Looking(j) =>
                 j.login \in Logins /\ j.password \in Passwords /\ j.seen \in Nat
           /\ Owning(j) =>
                 j.login \in Logins /\ j.password \in Passwords /\ j.id \in Nat
           /\ Looking(j) => j \in Looked
           /\ Owning(j) => j \in Owned
  BY DEF Jobs, Idle, Entering, Looked, Owned, Looking, Owning

LEMMA IdleForm == Idle \in Jobs /\ ~Looking(Idle) /\ ~Owning(Idle)
  BY DEF Jobs, Idle, Looking, Owning

LEMMA FaultBound ==
    ASSUME TypeOK, faults < MaxFaults, faults' = faults + 1
    PROVE  faults' \in 0 .. MaxFaults
  BY BoundsAssumption DEF TypeOK, BoundsAssumption

(* A call ends in one of these ways, which is all it does to the jobs.      *)
Ended(s, half) ==
    /\ job' = [job EXCEPT ![s] = Idle]
    /\ faults' \in 0 .. MaxFaults
    /\ broken' = broken \cup half

LEMMA ThrowsEnds ==
    ASSUME TypeOK, NEW s \in Sessions, NEW half, Throws(s, half)
    PROVE  Ended(s, half)
  BY FaultBound DEF Throws, Ended

-----------------------------------------------------------------------------
(* Every action is of one of these kinds, with what it does to jobs and     *)
(* documents.                                                               *)

Same == UNCHANGED <<users, ids, placeholders, records>>
NoNews == UNCHANGED <<registered, tokens, denied>>

Moves(s) ==
    /\ \E j \in Jobs :
          /\ job' = [job EXCEPT ![s] = j]
          /\ ~Owning(job[s]) /\ ~Owning(j)
          /\ Looking(j) =>
                \/ /\ Looking(job[s]) /\ j.login = job[s].login
                   /\ j.password = job[s].password /\ j.seen = job[s].seen
                \/ ~Known(j.login) /\ j.seen = ids
    /\ Same /\ NoNews /\ broken' = broken

Inserts(s) ==
    /\ Looking(job[s])
    /\ LET u == [id |-> ids + 1, login |-> job[s].login,
                 password |-> job[s].password, seen |-> job[s].seen]
       IN  /\ users' = users \cup {u}
           /\ \/ /\ job' = [job EXCEPT ![s] =
                               [call |-> "reg_put", login |-> job[s].login,
                                password |-> job[s].password, id |-> ids + 1]]
                 /\ broken' = broken
              \/ Ended(s, {ids + 1})
    /\ ids' = ids + 1
    /\ UNCHANGED <<placeholders, records>> /\ NoNews

Puts(s) ==
    /\ job[s].call = "reg_put"
    /\ placeholders' = placeholders \cup {job[s].id}
    /\ \/ /\ job' = [job EXCEPT ![s] =
                        [call |-> "reg_record", login |-> job[s].login,
                         password |-> job[s].password, id |-> job[s].id]]
          /\ broken' = broken
       \/ Ended(s, {job[s].id})
    /\ UNCHANGED <<users, ids, records>> /\ NoNews

Describes(s) ==
    /\ job[s].call = "reg_record"
    /\ records' = records \cup {job[s].id}
    /\ job' = [job EXCEPT ![s] = Idle]
    /\ broken' = broken
    /\ \/ /\ registered' = registered \cup {Account(job[s], job[s].id)}
          /\ tokens' = tokens \cup {Account(job[s], job[s].id)}
       \/ UNCHANGED <<registered, tokens>>
    /\ UNCHANGED <<users, ids, placeholders, denied>>

Answers(s) ==
    /\ job[s].call = "login_find"
    /\ job' = [job EXCEPT ![s] = Idle]
    /\ \/ UNCHANGED <<tokens, denied>>
       \/ \E u \in users :
             /\ u.login = job[s].login
             /\ \/ /\ u.password = job[s].password
                   /\ tokens' = tokens \cup {Account(job[s], u.id)}
                   /\ UNCHANGED denied
                \/ /\ u.password # job[s].password
                   /\ denied' = denied \cup {[login |-> job[s].login,
                                              password |-> job[s].password]}
                   /\ UNCHANGED tokens
    /\ Same /\ UNCHANGED registered /\ broken' = broken

Drops(s) ==
    /\ job' = [job EXCEPT ![s] = Idle]
    /\ broken' = broken \cup (IF Owning(job[s]) THEN {job[s].id} ELSE {})
    /\ Same /\ NoNews

Stops ==
    /\ job' = [s \in Sessions |-> Idle]
    /\ broken' = broken \cup {job[s].id : s \in {t \in Sessions : Owning(job[t])}}
    /\ Same /\ NoNews

Stays == UNCHANGED job /\ broken' = broken /\ Same /\ NoNews

Step ==
    \/ \E s \in Sessions : \/ Moves(s) \/ Inserts(s) \/ Puts(s)
                           \/ Describes(s) \/ Answers(s) \/ Drops(s)
    \/ Stops
    \/ Stays

(* What is left of the type invariant: the bounds.                          *)
Bounds ==
    /\ bucket \in BOOLEAN
    /\ begun \in 0 .. MaxJobs
    /\ faults \in 0 .. MaxFaults
    /\ crashes \in 0 .. MaxCrashes

LEMMA BeginKind ==
    ASSUME TypeOK, NEW s \in Sessions, NEW call \in {"reg_find", "login_find"},
           Begin(s, call)
    PROVE  Moves(s) /\ Bounds'
  <1>1. Bounds'
    BY BoundsAssumption DEF TypeOK, Begin, Bounds, BoundsAssumption, stores
  <1>2. PICK login \in Logins, password \in Passwords :
           job' = [job EXCEPT ![s] =
                      [call |-> call, login |-> login, password |-> password]]
    BY Zenon DEF Begin
  <1> DEFINE j == [call |-> call, login |-> login, password |-> password]
  <1>3. j \in Jobs /\ ~Owning(j) /\ ~Looking(j)
    BY DEF Jobs, Entering, Owning, Looking
  <1>4. ~Owning(job[s])
    BY IdleForm DEF Begin
  <1>5. Same /\ NoNews /\ broken' = broken
    BY DEF Begin, stores, history, Same, NoNews
  <1> HIDE DEF j
  <1>6. job' = [job EXCEPT ![s] = j]
    BY <1>2 DEF j
  <1>7. Moves(s)
    BY <1>3, <1>4, <1>5, <1>6, Zenon DEF Moves
  <1> QED BY <1>1, <1>7

LEMMA FindKind ==
    ASSUME TypeOK, NEW s \in Sessions, RegFind(s)
    PROVE  Moves(s) /\ Bounds'
  <1>1. Bounds'
    BY DEF TypeOK, RegFind, Returns, Bounds, stores
  <1>2. Same /\ NoNews /\ broken' = broken
    BY DEF RegFind, Returns, stores, history, Same, NoNews
  <1>3. job[s] \in Jobs /\ job[s].call = "reg_find" /\ ~Owning(job[s])
    BY DEF TypeOK, RegFind, Owning
  <1>4. CASE Returns(s, Idle)
    BY <1>1, <1>2, <1>3, <1>4, IdleForm, Zenon DEF Moves, Returns
  <1>5. CASE /\ ~Known(job[s].login)
             /\ Returns(s, [call |-> "reg_head", login |-> job[s].login,
                            password |-> job[s].password, seen |-> ids])
    <2> DEFINE j == [call |-> "reg_head", login |-> job[s].login,
                     password |-> job[s].password, seen |-> ids]
    <2>1. j \in Jobs /\ ~Owning(j) /\ j.login = job[s].login /\ j.seen = ids
      BY <1>3, JobForms DEF Jobs, Looked, Owning, TypeOK
    <2> HIDE DEF j
    <2>2. job' = [job EXCEPT ![s] = j]
      BY <1>5 DEF Returns, j
    <2> QED BY <1>1, <1>2, <1>3, <1>5, <2>1, <2>2, Zenon DEF Moves
  <1> QED BY <1>4, <1>5, Zenon DEF RegFind

LEMMA LookedOn ==
    ASSUME NEW j \in Jobs, Looking(j)
    PROVE  LET k == [j EXCEPT !.call = "reg_insert"]
               l == [j EXCEPT !.call = "reg_create"]
           IN  /\ k \in Jobs /\ ~Owning(k) /\ k.login = j.login
               /\ k.password = j.password /\ k.seen = j.seen
               /\ l \in Jobs /\ ~Owning(l) /\ l.login = j.login
               /\ l.password = j.password /\ l.seen = j.seen
  <1>1. j \in Looked
    BY JobForms
  <1> QED BY <1>1 DEF Jobs, Looked, Owning

LEMMA MovesOn ==
    ASSUME TypeOK, NEW s \in Sessions, Looking(job[s]), NEW call,
           call = "reg_insert" \/ call = "reg_create",
           job' = [job EXCEPT ![s] = [job[s] EXCEPT !.call = call]],
           Same, NoNews, broken' = broken
    PROVE  Moves(s)
  <1> DEFINE j == [job[s] EXCEPT !.call = call]
  <1>1. job[s] \in Jobs
    BY DEF TypeOK
  <1>2. /\ j \in Jobs /\ ~Owning(j) /\ j.login = job[s].login
        /\ j.password = job[s].password /\ j.seen = job[s].seen
    BY <1>1, LookedOn
  <1>3. ~Owning(job[s])
    BY DEF Owning, Looking
  <1>4. job' = [job EXCEPT ![s] = j]
    OBVIOUS
  <1> HIDE DEF j
  <1> QED BY <1>2, <1>3, <1>4, Zenon DEF Moves

LEMMA HeadKind ==
    ASSUME TypeOK, NEW s \in Sessions, RegHead(s)
    PROVE  Moves(s) /\ Bounds'
  <1>1. Bounds'
    BY DEF TypeOK, RegHead, Returns, Bounds, stores
  <1>2. Same /\ NoNews /\ broken' = broken /\ Looking(job[s])
    BY DEF RegHead, Returns, stores, history, Same, NoNews, Looking
  <1>3. PICK call : /\ call = "reg_insert" \/ call = "reg_create"
                    /\ job' = [job EXCEPT ![s] = [job[s] EXCEPT !.call = call]]
    BY DEF RegHead, Returns
  <1> QED BY <1>1, <1>2, <1>3, MovesOn

LEMMA IdleMoves ==
    ASSUME NEW s \in Sessions, ~Owning(job[s]), job' = [job EXCEPT ![s] = Idle],
           Same, NoNews, broken' = broken
    PROVE  Moves(s)
  BY IdleForm, Zenon DEF Moves

LEMMA CreateKind ==
    ASSUME TypeOK, NEW s \in Sessions, RegCreate(s)
    PROVE  Moves(s) /\ Bounds'
  <1>1. Looking(job[s]) /\ ~Owning(job[s]) /\ Same /\ NoNews
    BY DEF RegCreate, Looking, Owning, Same, NoNews, history
  <1>2. CASE Returns(s, [job[s] EXCEPT !.call = "reg_insert"])
    <2>1. job' = [job EXCEPT ![s] = [job[s] EXCEPT !.call = "reg_insert"]]
          /\ broken' = broken /\ faults' = faults
      BY <1>2 DEF Returns
    <2>2. Bounds'
      BY <2>1 DEF TypeOK, RegCreate, Bounds
    <2> QED BY <1>1, <2>1, <2>2, MovesOn
  <1>3. CASE Returns(s, Idle)
    <2>1. job' = [job EXCEPT ![s] = Idle] /\ broken' = broken /\ faults' = faults
      BY <1>3 DEF Returns
    <2>2. Bounds'
      BY <2>1 DEF TypeOK, RegCreate, Bounds
    <2> QED BY <1>1, <2>1, <2>2, IdleMoves
  <1>4. CASE Throws(s, {})
    <2>1. Ended(s, {})
      BY <1>4, ThrowsEnds
    <2>2. job' = [job EXCEPT ![s] = Idle] /\ broken' = broken
      BY <2>1 DEF Ended
    <2>3. Bounds'
      BY <2>1 DEF TypeOK, RegCreate, Bounds, Ended
    <2> QED BY <1>1, <2>2, <2>3, IdleMoves
  <1> QED BY <1>2, <1>3, <1>4, Zenon DEF RegCreate

LEMMA InsertKind ==
    ASSUME TypeOK, NEW s \in Sessions, RegInsert(s)
    PROVE  Inserts(s) /\ Bounds'
  <1> DEFINE j == [call |-> "reg_put", login |-> job[s].login,
                   password |-> job[s].password, id |-> ids + 1]
  <1>1. Looking(job[s]) /\ NoNews /\ UNCHANGED <<placeholders, records>>
        /\ ids' = ids + 1
        /\ users' = users \cup {[id |-> ids + 1, login |-> job[s].login,
                                 password |-> job[s].password, seen |-> job[s].seen]}
    BY DEF RegInsert, Looking, NoNews, history
  <1>2. CASE Returns(s, j)
    <2>1. Bounds'
      BY <1>2 DEF TypeOK, RegInsert, Bounds, Returns
    <2>2. job' = [job EXCEPT ![s] = j] /\ broken' = broken
      BY <1>2 DEF Returns
    <2> QED BY <1>1, <2>1, <2>2, Zenon DEF Inserts
  <1>3. CASE Throws(s, {ids + 1})
    <2>1. Ended(s, {ids + 1})
      BY <1>3, ThrowsEnds
    <2>2. Bounds'
      BY <2>1 DEF TypeOK, RegInsert, Bounds, Ended
    <2> QED BY <1>1, <2>1, <2>2, Zenon DEF Inserts
  <1> QED BY <1>2, <1>3, Zenon DEF RegInsert

LEMMA OwnedOn ==
    ASSUME NEW j \in Owned
    PROVE  [j EXCEPT !.call = "reg_record"] =
              [call |-> "reg_record", login |-> j.login,
               password |-> j.password, id |-> j.id]
  BY DEF Owned

LEMMA PutKind ==
    ASSUME TypeOK, NEW s \in Sessions, RegPut(s)
    PROVE  Puts(s) /\ Bounds'
  <1>1. /\ job[s].call = "reg_put" /\ NoNews /\ UNCHANGED <<users, ids, records>>
        /\ placeholders' = placeholders \cup {job[s].id}
    BY DEF RegPut, NoNews, history
  <1>2. job[s] \in Owned
    BY <1>1, JobForms DEF TypeOK, Owning
  <1>3. CASE Returns(s, [job[s] EXCEPT !.call = "reg_record"])
    <2>1. Bounds'
      BY <1>3 DEF TypeOK, RegPut, Bounds, Returns
    <2>2. job' = [job EXCEPT ![s] = [call |-> "reg_record", login |-> job[s].login,
                                     password |-> job[s].password, id |-> job[s].id]]
          /\ broken' = broken
      BY <1>2, <1>3, OwnedOn DEF Returns
    <2> QED BY <1>1, <2>1, <2>2, Zenon DEF Puts
  <1>4. CASE Throws(s, {job[s].id})
    <2>1. Ended(s, {job[s].id})
      BY <1>4, ThrowsEnds
    <2>2. Bounds'
      BY <2>1 DEF TypeOK, RegPut, Bounds, Ended
    <2> QED BY <1>1, <2>1, <2>2, Zenon DEF Puts
  <1> QED BY <1>3, <1>4, Zenon DEF RegPut

LEMMA DescribeKind ==
    ASSUME TypeOK, NEW s \in Sessions, RegRecord(s)
    PROVE  Describes(s) /\ Bounds'
  <1>1. /\ job[s].call = "reg_record" /\ records' = records \cup {job[s].id}
        /\ UNCHANGED <<users, ids, placeholders, denied>>
    BY DEF RegRecord
  <1>2. CASE /\ Returns(s, Idle)
             /\ registered' = registered \cup {Account(job[s], job[s].id)}
             /\ tokens' = tokens \cup {Account(job[s], job[s].id)}
    <2>1. Bounds'
      BY <1>2 DEF TypeOK, RegRecord, Bounds, Returns
    <2>2. job' = [job EXCEPT ![s] = Idle] /\ broken' = broken
      BY <1>2 DEF Returns
    <2> QED BY <1>1, <1>2, <2>1, <2>2, Zenon DEF Describes
  <1>3. CASE Throws(s, {}) /\ UNCHANGED <<registered, tokens>>
    <2>1. Ended(s, {})
      BY <1>3, ThrowsEnds
    <2>2. Bounds'
      BY <2>1 DEF TypeOK, RegRecord, Bounds, Ended
    <2>3. job' = [job EXCEPT ![s] = Idle] /\ broken' = broken
      BY <2>1 DEF Ended
    <2> QED BY <1>1, <1>3, <2>2, <2>3, Zenon DEF Describes
  <1> QED BY <1>2, <1>3, Zenon DEF RegRecord

LEMMA AnswerKind ==
    ASSUME TypeOK, NEW s \in Sessions, LoginFind(s)
    PROVE  Answers(s) /\ Bounds'
  <1>1. Bounds'
    BY DEF TypeOK, LoginFind, Returns, Bounds, stores
  <1>2. /\ job[s].call = "login_find" /\ job' = [job EXCEPT ![s] = Idle]
        /\ Same /\ UNCHANGED registered /\ broken' = broken
    BY DEF LoginFind, Returns, stores, Same
  <1> QED BY <1>1, <1>2, Zenon DEF LoginFind, Answers

LEMMA DropKind ==
    ASSUME TypeOK, NEW s \in Sessions, CallFails(s)
    PROVE  Drops(s) /\ Bounds'
  <1>1. Ended(s, IF Owner(s) THEN {job[s].id} ELSE {})
    BY ThrowsEnds DEF CallFails
  <1>2. Bounds'
    BY <1>1 DEF TypeOK, CallFails, Bounds, Ended, stores
  <1>3. Same /\ NoNews
    BY DEF CallFails, stores, history, Same, NoNews
  <1>4. Owner(s) <=> Owning(job[s])
    BY DEF Owner, Owning
  <1> QED BY <1>1, <1>2, <1>3, <1>4 DEF Drops, Ended

LEMMA StopKind ==
    ASSUME TypeOK, Crash
    PROVE  Stops /\ Bounds'
  <1>1. Bounds'
    BY BoundsAssumption DEF TypeOK, Crash, Bounds, stores, BoundsAssumption
  <1>2. Same /\ NoNews
    BY DEF Crash, stores, history, Same, NoNews
  <1> QED BY <1>1, <1>2 DEF Stops, Crash, Owner, Owning

LEMMA StepKind == ASSUME TypeOK, [Next]_vars PROVE Step /\ Bounds'
  <1>1. CASE UNCHANGED vars
    BY <1>1 DEF vars, Step, Stays, Same, NoNews, Bounds, TypeOK
  <1>2. CASE Crash
    BY <1>2, StopKind DEF Step
  <1>3. ASSUME NEW s \in Sessions, BeginRegister(s) \/ BeginLogin(s) \/ StoreCall(s)
        PROVE  Step /\ Bounds'
    <2>1. CASE BeginRegister(s)
      BY <2>1, BeginKind DEF BeginRegister, Step
    <2>2. CASE BeginLogin(s)
      BY <2>2, BeginKind DEF BeginLogin, Step
    <2>3. CASE RegFind(s) \/ RegHead(s) \/ RegCreate(s)
      BY <2>3, FindKind, HeadKind, CreateKind DEF Step
    <2>4. CASE RegInsert(s) \/ RegPut(s) \/ RegRecord(s)
      BY <2>4, InsertKind, PutKind, DescribeKind DEF Step
    <2>5. CASE LoginFind(s) \/ CallFails(s)
      BY <2>5, AnswerKind, DropKind DEF Step
    <2> QED BY <1>3, <2>1, <2>2, <2>3, <2>4, <2>5, Zenon DEF StoreCall
  <1> QED BY <1>1, <1>2, <1>3, Zenon DEF Next

-----------------------------------------------------------------------------
(* Types.                                                                   *)

LEMMA TypeInit == Init => TypeOK
  BY BoundsAssumption DEF Init, TypeOK, Jobs, BoundsAssumption

LEMMA AccountForm ==
    ASSUME NEW j, j.login \in Logins, j.password \in Passwords, NEW n \in Nat
    PROVE  Account(j, n) \in AccountType
  BY DEF Account, AccountType

Data ==
    /\ users \subseteq User
    /\ placeholders \subseteq Nat
    /\ records \subseteq Nat
    /\ ids \in Nat
    /\ job \in [Sessions -> Jobs]
    /\ registered \subseteq AccountType
    /\ tokens \subseteq AccountType
    /\ denied \subseteq [login : Logins, password : Passwords]
    /\ broken \subseteq Nat

LEMMA TypeParts == TypeOK <=> Data /\ Bounds
  BY Zenon DEF TypeOK, Data, Bounds
LEMMA TypePartsNext == TypeOK' <=> Data' /\ Bounds'
  BY Zenon DEF TypeOK, Data, Bounds

LEMMA DataStep == ASSUME TypeOK, Step PROVE Data'
  <1> USE IdleForm
  <1>0. Data
    BY TypeParts
  <1>1. ASSUME NEW s \in Sessions, Moves(s) PROVE Data'
    BY <1>0, <1>1 DEF Moves, Same, NoNews, Data
  <1>2. ASSUME NEW s \in Sessions, Inserts(s) PROVE Data'
    <2>1. /\ job[s].login \in Logins /\ job[s].password \in Passwords
          /\ job[s].seen \in Nat /\ ids + 1 \in Nat
      BY <1>0, <1>2, JobForms DEF Inserts, Data
    <2>2. users' \subseteq User
      BY <1>0, <1>2, <2>1 DEF Inserts, Data, User
    <2>3. job' \in [Sessions -> Jobs]
      <3>1. [call |-> "reg_put", login |-> job[s].login,
             password |-> job[s].password, id |-> ids + 1] \in Jobs
        BY <2>1 DEF Jobs, Owned
      <3> QED BY <1>0, <1>2, <3>1 DEF Inserts, Ended, Data
    <2>4. broken' \subseteq Nat
      BY <1>0, <1>2, <2>1 DEF Inserts, Ended, Data
    <2> QED BY <1>0, <1>2, <2>1, <2>2, <2>3, <2>4 DEF Inserts, NoNews, Data
  <1>3. ASSUME NEW s \in Sessions, Puts(s) PROVE Data'
    <2>1. /\ job[s].login \in Logins /\ job[s].password \in Passwords
          /\ job[s].id \in Nat
      BY <1>0, <1>3, JobForms DEF Puts, Data, Owning
    <2>2. [call |-> "reg_record", login |-> job[s].login,
           password |-> job[s].password, id |-> job[s].id] \in Jobs
      BY <2>1 DEF Jobs, Owned
    <2>3. job' \in [Sessions -> Jobs] /\ broken' \subseteq Nat
      BY <1>0, <1>3, <2>1, <2>2 DEF Puts, Ended, Data
    <2> QED BY <1>0, <1>3, <2>1, <2>3 DEF Puts, NoNews, Data
  <1>4. ASSUME NEW s \in Sessions, Describes(s) PROVE Data'
    <2>1. Account(job[s], job[s].id) \in AccountType /\ job[s].id \in Nat
      BY <1>0, <1>4, JobForms, AccountForm DEF Describes, Data, Owning
    <2>2. job' \in [Sessions -> Jobs] /\ records' \subseteq Nat
      BY <1>0, <1>4, <2>1 DEF Describes, Data
    <2>3. registered' \subseteq AccountType /\ tokens' \subseteq AccountType
      BY <1>0, <1>4, <2>1 DEF Describes, Data
    <2> QED BY <1>0, <1>4, <2>2, <2>3 DEF Describes, Data
  <1>5. ASSUME NEW s \in Sessions, Answers(s) PROVE Data'
    <2>1. /\ job[s].login \in Logins /\ job[s].password \in Passwords
      BY <1>0, <1>5, JobForms DEF Answers, Data
    <2>2. \A u \in users : Account(job[s], u.id) \in AccountType
      BY <1>0, <2>1, AccountForm DEF Data, User
    <2>3. tokens' \subseteq AccountType
      BY <1>0, <1>5, <2>2 DEF Answers, Data
    <2>4. denied' \subseteq [login : Logins, password : Passwords]
      BY <1>0, <1>5, <2>1 DEF Answers, Data
    <2>5. job' \in [Sessions -> Jobs]
      BY <1>0, <1>5 DEF Answers, Data
    <2> QED BY <1>0, <1>5, <2>3, <2>4, <2>5 DEF Answers, Same, Data
  <1>6. ASSUME NEW s \in Sessions, Drops(s) PROVE Data'
    <2>1. Owning(job[s]) => job[s].id \in Nat
      BY <1>0, JobForms DEF Data
    <2> QED BY <1>0, <1>6, <2>1 DEF Drops, Same, NoNews, Data
  <1>7. CASE Stops
    <2>1. \A t \in Sessions : Owning(job[t]) => job[t].id \in Nat
      BY <1>0, JobForms DEF Data
    <2> QED BY <1>0, <1>7, <2>1 DEF Stops, Same, NoNews, Data
  <1>8. CASE Stays
    BY <1>0, <1>8 DEF Stays, Same, NoNews, Data
  <1> QED BY <1>1, <1>2, <1>3, <1>4, <1>5, <1>6, <1>7, <1>8, Zenon DEF Step

LEMMA TypeStep == TypeOK /\ [Next]_vars => TypeOK'
  BY StepKind, DataStep, TypePartsNext

(* The state is always of the declared types and within the bounds.         *)
THEOREM TypeCorrect == Spec => []TypeOK
  BY TypeInit, TypeStep, PTL DEF Spec

-----------------------------------------------------------------------------
(* Overlap.  A registration that has not inserted yet has seen every user   *)
(* of its login there is: any such user came after it looked.               *)

LookedBefore ==
    /\ \A u \in users : u.id \in Nat /\ u.id <= ids
    /\ \A s \in Sessions :
          Looking(job[s]) =>
             /\ job[s].seen \in Nat /\ job[s].seen <= ids
             /\ \A u \in users : u.login = job[s].login => job[s].seen < u.id

LEMMA OverlapStep ==
    ASSUME TypeOK, LookedBefore, DuplicatesOverlap, Step
    PROVE  LookedBefore' /\ DuplicatesOverlap'
  <1> USE IdleForm
  <1>0. ids \in Nat /\ job \in [Sessions -> Jobs]
    BY DEF TypeOK
  <1>1. ASSUME NEW s \in Sessions, Moves(s) PROVE LookedBefore' /\ DuplicatesOverlap'
    <2>1. UNCHANGED <<users, ids>>
      BY <1>1 DEF Moves, Same
    <2>2. PICK j \in Jobs :
             /\ job' = [job EXCEPT ![s] = j]
             /\ Looking(j) =>
                   \/ /\ Looking(job[s]) /\ j.login = job[s].login
                      /\ j.password = job[s].password /\ j.seen = job[s].seen
                   \/ ~Known(j.login) /\ j.seen = ids
      BY <1>1 DEF Moves
    <2>3. \A t \in Sessions : job'[t] = IF t = s THEN j ELSE job[t]
      BY <1>0, <2>2
    <2>4. Looking(j) =>
             /\ j.seen \in Nat /\ j.seen <= ids
             /\ \A u \in users : u.login = j.login => j.seen < u.id
      BY <1>0, <2>2 DEF LookedBefore, Known
    <2> QED BY <2>1, <2>3, <2>4 DEF LookedBefore, DuplicatesOverlap
  <1>2. ASSUME NEW s \in Sessions, Inserts(s) PROVE LookedBefore' /\ DuplicatesOverlap'
    <2> DEFINE v == [id |-> ids + 1, login |-> job[s].login,
                     password |-> job[s].password, seen |-> job[s].seen]
    <2>1. users' = users \cup {v} /\ ids' = ids + 1 /\ Looking(job[s])
      BY <1>2 DEF Inserts
    <2>2. v.id = ids + 1 /\ v.login = job[s].login /\ v.seen = job[s].seen
      OBVIOUS
    <2> HIDE DEF v
    <2>3. /\ v.seen \in Nat /\ v.seen <= ids
          /\ \A u \in users : u.login = v.login => v.seen < u.id
      BY <2>1, <2>2 DEF LookedBefore
    <2>4. \A t \in Sessions : Looking(job'[t]) => job'[t] = job[t]
      BY <1>0, <1>2 DEF Inserts, Ended, Looking
    <2>5. \A u \in users' : u.id \in Nat /\ u.id <= ids'
      BY <1>0, <2>1, <2>2 DEF LookedBefore
    <2>6. ASSUME NEW t \in Sessions, Looking(job'[t])
          PROVE  /\ job'[t].seen \in Nat /\ job'[t].seen <= ids'
                 /\ \A u \in users' : u.login = job'[t].login => job'[t].seen < u.id
      <3>1. job'[t] = job[t] /\ Looking(job[t])
        BY <2>4, <2>6
      <3>2. job[t].seen \in Nat /\ job[t].seen <= ids
        BY <3>1 DEF LookedBefore
      <3>3. job[t].seen < v.id
        BY <1>0, <2>2, <3>2
      <3> QED BY <1>0, <2>1, <3>1, <3>2, <3>3 DEF LookedBefore
    <2>7. ASSUME NEW u \in users', NEW w \in users', u.login = w.login, u.id < w.id
          PROVE  w.seen < u.id
      <3>1. CASE w = v
        BY <1>0, <2>1, <2>2, <2>3, <2>7, <3>1
      <3>2. CASE w # v /\ u = v
        BY <1>0, <2>1, <2>2, <2>7, <3>2 DEF LookedBefore
      <3>3. CASE w # v /\ u # v
        BY <2>1, <2>7, <3>3 DEF DuplicatesOverlap
      <3> QED BY <3>1, <3>2, <3>3
    <2> QED BY <2>5, <2>6, <2>7, Zenon DEF LookedBefore, DuplicatesOverlap
  <1>3. ASSUME UNCHANGED <<users, ids>>,
               \A t \in Sessions : Looking(job'[t]) => job'[t] = job[t]
        PROVE  LookedBefore' /\ DuplicatesOverlap'
    BY <1>3 DEF LookedBefore, DuplicatesOverlap
  <1>4. ASSUME NEW s \in Sessions,
               Puts(s) \/ Describes(s) \/ Answers(s) \/ Drops(s)
        PROVE  LookedBefore' /\ DuplicatesOverlap'
    <2>1. UNCHANGED <<users, ids>>
      BY <1>4 DEF Puts, Describes, Answers, Drops, Same
    <2>2. \A t \in Sessions : Looking(job'[t]) => job'[t] = job[t]
      BY <1>0, <1>4 DEF Puts, Describes, Answers, Drops, Ended, Looking
    <2> QED BY <1>3, <2>1, <2>2
  <1>5. CASE Stops \/ Stays
    BY <1>0, <1>3, <1>5 DEF Stops, Stays, Same
  <1> QED BY <1>1, <1>2, <1>4, <1>5, Zenon DEF Step

(* Two users of one login come from registrations that overlapped.          *)
THEOREM OnlyOverlapsDuplicate == Spec => []DuplicatesOverlap
  <1>1. Init => LookedBefore /\ DuplicatesOverlap
    BY IdleForm DEF Init, LookedBefore, DuplicatesOverlap, Looking
  <1>2. /\ TypeOK /\ LookedBefore /\ DuplicatesOverlap /\ [Next]_vars
        => LookedBefore' /\ DuplicatesOverlap'
    BY StepKind, OverlapStep
  <1> QED BY <1>1, <1>2, TypeCorrect, PTL DEF Spec

-----------------------------------------------------------------------------
(* With a single session registrations never overlap.                       *)

LooksAlone ==
    \A s \in Sessions : Looking(job[s]) => ~Known(job[s].login)

LEMMA AloneStep ==
    ASSUME NEW one, Sessions = {one}, TypeOK, LooksAlone, LoginsUnique, Step
    PROVE  LooksAlone' /\ LoginsUnique'
  <1> USE IdleForm
  <1>0. job \in [Sessions -> Jobs] /\ one \in Sessions
    BY DEF TypeOK
  <1>1. ASSUME UNCHANGED users, ~Looking(job'[one])
        PROVE  LooksAlone' /\ LoginsUnique'
    BY <1>1 DEF LooksAlone, LoginsUnique, Known
  <1>2. CASE Moves(one)
    <2>1. UNCHANGED users
      BY <1>2 DEF Moves, Same
    <2>2. Looking(job'[one]) => ~Known(job'[one].login)
      BY <1>0, <1>2 DEF Moves, LooksAlone
    <2> QED BY <2>1, <2>2 DEF LooksAlone, LoginsUnique, Known
  <1>3. CASE Inserts(one)
    <2>1. ~Known(job[one].login)
      BY <1>0, <1>3 DEF Inserts, LooksAlone
    <2>2. LoginsUnique'
      BY <1>3, <2>1 DEF Inserts, LoginsUnique, Known
    <2>3. ~Looking(job'[one])
      BY <1>0, <1>3 DEF Inserts, Ended, Looking
    <2> QED BY <2>2, <2>3 DEF LooksAlone
  <1>4. CASE Puts(one) \/ Describes(one) \/ Answers(one) \/ Drops(one)
    BY <1>0, <1>1, <1>4 DEF Puts, Describes, Answers, Drops, Ended, Same, Looking
  <1>5. CASE Stops
    BY <1>0, <1>1, <1>5 DEF Stops, Same
  <1>6. CASE Stays
    BY <1>6 DEF Stays, Same, LooksAlone, LoginsUnique, Known
  <1> QED BY <1>0, <1>2, <1>3, <1>4, <1>5, <1>6, Zenon DEF Step

(* One session alone gives every login one user, whatever fails.            *)
THEOREM AloneLoginsUnique ==
    ASSUME NEW one, Sessions = {one}
    PROVE  Spec => []LoginsUnique
  <1>1. Init => LooksAlone /\ LoginsUnique
    BY IdleForm DEF Init, LooksAlone, LoginsUnique, Looking
  <1>2. /\ TypeOK /\ LooksAlone /\ LoginsUnique /\ [Next]_vars
        => LooksAlone' /\ LoginsUnique'
    BY StepKind, AloneStep
  <1> QED BY <1>1, <1>2, TypeCorrect, PTL DEF Spec

-----------------------------------------------------------------------------
(* What users, placeholders, tokens and reports have to do with each other. *)

IsUser(a) == \E u \in users : u.id = a.id /\ u.login = a.login /\ u.password = a.password

(* A registration that has inserted its user works for that user, and has   *)
(* put the placeholder before it describes it.                              *)
OwnersKnown ==
    \A s \in Sessions :
       /\ Owning(job[s]) => IsUser(job[s])
       /\ job[s].call = "reg_record" => job[s].id \in placeholders

(* Who was told "wrong password" met a user of that login with another.     *)
DenialsSeen ==
    \A d \in denied : \E u \in users : u.login = d.login /\ u.password # d.password

PartsInv ==
    /\ OwnersKnown
    /\ TokensTrue
    /\ RegisteredComplete
    /\ HalfRegisteredAccounted
    /\ DenialsSeen

LEMMA PartsDef ==
    /\ TokensTrue <=> \A t \in tokens : IsUser(t)
    /\ RegisteredComplete <=>
          \A r \in registered : IsUser(r) /\ r.id \in placeholders /\ r.id \in records
    /\ HalfRegisteredAccounted <=>
          \A u \in users : \/ u.id \in placeholders /\ u.id \in records
                           \/ u.id \in broken
                           \/ \E s \in Sessions : Owning(job[s]) /\ job[s].id = u.id
  BY DEF TokensTrue, RegisteredComplete, HalfRegisteredAccounted, IsUser, Owner, Owning

LEMMA PartsDefNext ==
    /\ TokensTrue' <=> \A t \in tokens' : IsUser(t)'
    /\ RegisteredComplete' <=>
          \A r \in registered' : IsUser(r)' /\ r.id \in placeholders' /\ r.id \in records'
    /\ HalfRegisteredAccounted' <=>
          \A u \in users' : \/ u.id \in placeholders' /\ u.id \in records'
                            \/ u.id \in broken'
                            \/ \E s \in Sessions : Owning(job'[s]) /\ job'[s].id = u.id
  BY DEF TokensTrue, RegisteredComplete, HalfRegisteredAccounted, IsUser, Owner, Owning

LEMMA UsersStay ==
    ASSUME Step, NEW a, IsUser(a)
    PROVE  \E u \in users' : u.id = a.id /\ u.login = a.login /\ u.password = a.password
  <1>1. users \subseteq users'
    BY DEF Step, Moves, Inserts, Puts, Describes, Answers, Drops, Stops, Stays, Same
  <1> QED BY <1>1 DEF IsUser

LEMMA StoresGrow ==
    ASSUME Step
    PROVE  /\ users \subseteq users' /\ placeholders \subseteq placeholders'
           /\ records \subseteq records' /\ broken \subseteq broken'
  <1>1. users \subseteq users'
    BY DEF Step, Moves, Inserts, Puts, Describes, Answers, Drops, Stops, Stays, Same
  <1>2. placeholders \subseteq placeholders' /\ records \subseteq records'
    BY DEF Step, Moves, Inserts, Puts, Describes, Answers, Drops, Stops, Stays, Same
  <1>3. broken \subseteq broken'
    BY DEF Step, Moves, Inserts, Puts, Describes, Answers, Drops, Stops, Stays, Ended
  <1> QED BY <1>1, <1>2, <1>3

LEMMA OwnersStep ==
    ASSUME TypeOK, OwnersKnown, Step
    PROVE  OwnersKnown'
  <1> USE IdleForm
  <1>0. job \in [Sessions -> Jobs]
    BY DEF TypeOK
  <1>1. SUFFICES ASSUME NEW t \in Sessions
                 PROVE  /\ Owning(job'[t]) =>
                              \E u \in users' : /\ u.id = job'[t].id
                                                /\ u.login = job'[t].login
                                                /\ u.password = job'[t].password
                        /\ job'[t].call = "reg_record" => job'[t].id \in placeholders'
    BY DEF OwnersKnown, IsUser
  <1>2. CASE job'[t] = job[t] \/ ~Owning(job'[t])
    BY <1>2, UsersStay, StoresGrow DEF OwnersKnown, Owning
  <1>3. CASE job'[t] # job[t] /\ Owning(job'[t])
    <2>1. Inserts(t) \/ Puts(t)
      BY <1>0, <1>3 DEF Step, Moves, Inserts, Puts, Describes, Answers, Drops, Ended,
                        Stops, Stays, Same
    <2>2. CASE Inserts(t)
      <3>1. job'[t] = [call |-> "reg_put", login |-> job[t].login,
                       password |-> job[t].password, id |-> ids + 1]
        BY <1>0, <1>3, <2>2 DEF Inserts, Ended
      <3>2. [id |-> ids + 1, login |-> job[t].login, password |-> job[t].password,
             seen |-> job[t].seen] \in users'
        BY <2>2 DEF Inserts
      <3> QED BY <3>1, <3>2
    <2>3. CASE Puts(t)
      <3>1. /\ job'[t] = [call |-> "reg_record", login |-> job[t].login,
                          password |-> job[t].password, id |-> job[t].id]
            /\ job[t].id \in placeholders'
        BY <1>0, <1>3, <2>3 DEF Puts, Ended
      <3>2. IsUser(job[t])
        BY <2>3 DEF Puts, OwnersKnown, Owning
      <3> QED BY <3>1, <3>2, UsersStay
    <2> QED BY <2>1, <2>2, <2>3
  <1> QED BY <1>2, <1>3

LEMMA NewsStep ==
    ASSUME TypeOK, PartsInv, Step
    PROVE  TokensTrue' /\ RegisteredComplete' /\ DenialsSeen'
  <1>0. /\ \A t \in tokens : IsUser(t)
        /\ \A r \in registered : IsUser(r) /\ r.id \in placeholders /\ r.id \in records
    BY PartsDef DEF PartsInv
  <1>1. \A a : IsUser(a) => IsUser(a)'
    BY UsersStay DEF IsUser
  <1>2. ASSUME NoNews PROVE TokensTrue' /\ RegisteredComplete' /\ DenialsSeen'
    <2>1. TokensTrue' /\ RegisteredComplete'
      BY <1>0, <1>1, <1>2, StoresGrow, PartsDefNext DEF NoNews
    <2>2. DenialsSeen'
      BY <1>2, StoresGrow DEF NoNews, DenialsSeen, PartsInv
    <2> QED BY <2>1, <2>2
  <1>3. ASSUME NEW s \in Sessions, Describes(s)
        PROVE  TokensTrue' /\ RegisteredComplete' /\ DenialsSeen'
    <2> DEFINE a == Account(job[s], job[s].id)
    <2>1. /\ IsUser(job[s]) /\ job[s].id \in placeholders
      BY <1>3 DEF PartsInv, OwnersKnown, Describes, Owning
    <2>2. IsUser(a) /\ a.id = job[s].id
      BY <2>1 DEF Account, IsUser
    <2>3. a.id \in records' /\ a.id \in placeholders'
      BY <1>3, <2>1, <2>2 DEF Describes
    <2>4. registered' \subseteq registered \cup {a} /\ tokens' \subseteq tokens \cup {a}
      BY <1>3 DEF Describes
    <2> HIDE DEF a
    <2>5. TokensTrue' /\ RegisteredComplete'
      BY <1>0, <1>1, <2>2, <2>3, <2>4, StoresGrow, PartsDefNext
    <2>6. DenialsSeen'
      BY <1>3 DEF Describes, DenialsSeen, PartsInv
    <2> QED BY <2>5, <2>6
  <1>4. ASSUME NEW s \in Sessions, Answers(s)
        PROVE  TokensTrue' /\ RegisteredComplete' /\ DenialsSeen'
    <2>1. UNCHANGED <<users, registered>>
      BY <1>4 DEF Answers, Same
    <2>2. RegisteredComplete'
      BY <1>0, <1>1, <2>1, StoresGrow, PartsDefNext
    <2>3. TokensTrue'
      <3>1. ASSUME NEW u \in users, u.login = job[s].login, u.password = job[s].password
            PROVE  IsUser(Account(job[s], u.id))
        BY <3>1 DEF IsUser, Account
      <3>2. \A t \in tokens' : IsUser(t)
        BY <1>0, <1>4, <3>1 DEF Answers
      <3> QED BY <1>1, <3>2, PartsDefNext
    <2>4. DenialsSeen'
      BY <1>4, <2>1 DEF Answers, DenialsSeen, PartsInv
    <2> QED BY <2>2, <2>3, <2>4
  <1> QED BY <1>2, <1>3, <1>4
          DEF Step, Moves, Inserts, Puts, Drops, Stops, Stays

LEMMA HalfStep ==
    ASSUME TypeOK, PartsInv, Step
    PROVE  HalfRegisteredAccounted'
  <1> USE IdleForm
  <1>0. job \in [Sessions -> Jobs]
    BY DEF TypeOK
  <1>1. \A u \in users : \/ u.id \in placeholders /\ u.id \in records
                         \/ u.id \in broken
                         \/ \E s \in Sessions : Owning(job[s]) /\ job[s].id = u.id
    BY PartsDef DEF PartsInv
  <1>2. ASSUME NEW s \in Sessions, Owning(job[s]), ~(Owning(job'[s]) /\ job'[s].id = job[s].id)
        PROVE  \/ job[s].id \in placeholders' /\ job[s].id \in records'
               \/ job[s].id \in broken'
    <2>1. \/ Puts(s) \/ Describes(s) \/ Drops(s) \/ Stops
      BY <1>0, <1>2 DEF Step, Moves, Inserts, Puts, Describes, Answers, Drops, Ended,
                        Stops, Stays, Same, Looking, Owning
    <2>2. CASE Puts(s)
      BY <1>0, <1>2, <2>2 DEF Puts, Ended, Owning
    <2>3. CASE Describes(s)
      BY <2>3 DEF Describes, PartsInv, OwnersKnown
    <2>4. CASE Drops(s) \/ Stops
      BY <1>2, <2>4 DEF Drops, Stops
    <2> QED BY <2>1, <2>2, <2>3, <2>4
  <1>3. ASSUME NEW u \in users' \ users
        PROVE  \/ u.id \in broken'
               \/ \E s \in Sessions : Owning(job'[s]) /\ job'[s].id = u.id
    <2>1. PICK s \in Sessions : Inserts(s)
      BY <1>3 DEF Step, Moves, Puts, Describes, Answers, Drops, Stops, Stays, Same
    <2>2. u.id = ids + 1
      BY <1>3, <2>1 DEF Inserts
    <2> QED BY <1>0, <2>1, <2>2 DEF Inserts, Ended, Owning
  <1>4. ASSUME NEW u \in users
        PROVE  \/ u.id \in placeholders' /\ u.id \in records'
               \/ u.id \in broken'
               \/ \E s \in Sessions : Owning(job'[s]) /\ job'[s].id = u.id
    BY <1>1, <1>2, <1>4, StoresGrow
  <1> QED BY <1>3, <1>4, PartsDefNext

LEMMA PartsHold == Spec => []PartsInv
  <1>1. Init => PartsInv
    BY IdleForm DEF Init, PartsInv, OwnersKnown, TokensTrue, RegisteredComplete,
                    HalfRegisteredAccounted, DenialsSeen, Idle, Owning
  <1>2. TypeOK /\ PartsInv /\ [Next]_vars => PartsInv'
    <2> SUFFICES ASSUME TypeOK, PartsInv, [Next]_vars PROVE PartsInv'
      OBVIOUS
    <2>1. Step
      BY StepKind
    <2> QED BY <2>1, OwnersStep, NewsStep, HalfStep DEF PartsInv
  <1> QED BY <1>1, <1>2, TypeCorrect, PTL DEF Spec

(* A token is for a user whose login and password its client gave.          *)
THEOREM TokensAreTrue == Spec => []TokensTrue
  <1>1. PartsInv => TokensTrue
    BY DEF PartsInv
  <1> QED BY <1>1, PartsHold, PTL

(* A registration reported as created left all its parts.                   *)
THEOREM CreatedIsComplete == Spec => []RegisteredComplete
  <1>1. PartsInv => RegisteredComplete
    BY DEF PartsInv
  <1> QED BY <1>1, PartsHold, PTL

(* A user without a placeholder is the work of a registration that is still *)
(* running or died.                                                         *)
THEOREM HalvesAccounted == Spec => []HalfRegisteredAccounted
  <1>1. PartsInv => HalfRegisteredAccounted
    BY DEF PartsInv
  <1> QED BY <1>1, PartsHold, PTL

(* A registered client is only refused when another user has the login too. *)
THEOREM RefusalsAreDuplicates == Spec => []DenialsAccounted
  <1>1. PartsInv => DenialsAccounted
    <2> SUFFICES ASSUME PartsInv, NEW d \in denied, NEW r \in registered,
                        r.login = d.login, r.password = d.password
                 PROVE  \E u, v \in users : u.login = d.login /\ v.login = d.login /\ u # v
      BY DEF DenialsAccounted
    <2>1. PICK u \in users : u.login = d.login /\ u.password # d.password
      BY DEF PartsInv, DenialsSeen
    <2>2. PICK v \in users : v.login = d.login /\ v.password = d.password
      BY DEF PartsInv, RegisteredComplete
    <2> QED BY <2>1, <2>2
  <1> QED BY <1>1, PartsHold, PTL

-----------------------------------------------------------------------------
(* One session alone implements what Users promises.                        *)

Accounts == {Account(u, u.id) : u \in users}
Promised == INSTANCE Users WITH Ids <- Nat, accounts <- Accounts

LEMMA AccountOfUser ==
    ASSUME NEW a, IsUser(a)
    PROVE  Account(a, a.id) \in Accounts
  BY DEF IsUser, Account, Accounts

LEMMA AccountsTyped ==
    ASSUME TypeOK, NEW a \in Accounts
    PROVE  a \in Promised!Account
  <1>1. PICK u \in users : a = Account(u, u.id)
    BY DEF Accounts
  <1>2. u.id \in Nat /\ u.login \in Logins /\ u.password \in Passwords
    BY DEF TypeOK, User
  <1> QED BY <1>1, <1>2 DEF Account, Promised!Account

LEMMA AbstractStep ==
    ASSUME NEW one, Sessions = {one}, TypeOK, LookedBefore, LooksAlone, PartsInv, Step
    PROVE  [Promised!Next]_(Promised!vars)
  <1>0. one \in Sessions /\ ids \in Nat
    BY DEF TypeOK
  <1>1. CASE Inserts(one)
    <2> DEFINE v == [id |-> ids + 1, login |-> job[one].login,
                     password |-> job[one].password, seen |-> job[one].seen]
               a == Account(job[one], ids + 1)
    <2>1. users' = users \cup {v} /\ Looking(job[one]) /\ UNCHANGED <<registered, tokens>>
      BY <1>1 DEF Inserts, NoNews
    <2>2. a = Account(v, v.id) /\ a.login = job[one].login /\ a.id = ids + 1
      BY DEF Account
    <2> HIDE DEF v, a
    <2>3. Accounts' = Accounts \cup {a}
      BY <2>1, <2>2 DEF Accounts
    <2>4. \A b \in Accounts : b.login # a.login /\ b.id # a.id
      <3>1. \A u \in users : u.login # job[one].login /\ u.id # ids + 1
        BY <1>0, <2>1 DEF LooksAlone, Known, LookedBefore
      <3> QED BY <2>2, <3>1 DEF Accounts, Account
    <2>5. a \in Promised!Account
      <3>1. job[one].login \in Logins /\ job[one].password \in Passwords
        BY <1>0, <2>1, JobForms DEF TypeOK
      <3> QED BY <1>0, <3>1 DEF a, Account, Promised!Account
    <2>6. Promised!Register(a)
      BY <2>1, <2>3, <2>4 DEF Promised!Register
    <2> QED BY <2>5, <2>6 DEF Promised!Next
  <1>2. ASSUME UNCHANGED users PROVE Accounts' = Accounts
    BY <1>2 DEF Accounts
  <1>3. CASE Describes(one)
    <2> DEFINE a == Account(job[one], job[one].id)
    <2>1. a \in Accounts
      BY <1>0, <1>3, AccountOfUser DEF Describes, Owning, PartsInv, OwnersKnown
    <2>2. a \in Promised!Account
      BY <2>1, AccountsTyped
    <2>3. Accounts' = Accounts
      BY <1>2, <1>3 DEF Describes
    <2>4. \/ registered' = registered \cup {a} /\ tokens' = tokens \cup {a}
          \/ UNCHANGED <<registered, tokens>>
      BY <1>3 DEF Describes
    <2> HIDE DEF a
    <2> QED BY <2>1, <2>2, <2>3, <2>4
            DEF Promised!Next, Promised!Confirm, Promised!vars
  <1>4. CASE Answers(one)
    <2>1. Accounts' = Accounts /\ UNCHANGED registered
      BY <1>2, <1>4 DEF Answers, Same
    <2>2. CASE UNCHANGED tokens
      BY <2>1, <2>2 DEF Promised!vars
    <2>3. CASE \E u \in users : /\ u.login = job[one].login
                                /\ u.password = job[one].password
                                /\ tokens' = tokens \cup {Account(job[one], u.id)}
      <3>1. PICK u \in users : /\ u.login = job[one].login
                               /\ u.password = job[one].password
                               /\ tokens' = tokens \cup {Account(job[one], u.id)}
        BY <2>3
      <3> DEFINE a == Account(job[one], u.id)
      <3>2. a = Account(u, u.id)
        BY <3>1 DEF Account
      <3>3. a \in Accounts /\ a \in Promised!Account
        BY <3>2, AccountsTyped DEF Accounts
      <3>4. tokens' = tokens \cup {a}
        BY <3>1
      <3> HIDE DEF a
      <3> QED BY <2>1, <3>3, <3>4 DEF Promised!Next, Promised!Login
    <2> QED BY <1>4, <2>2, <2>3 DEF Answers
  <1>5. CASE Moves(one) \/ Puts(one) \/ Drops(one) \/ Stops \/ Stays
    <2>1. UNCHANGED <<users, registered, tokens>>
      BY <1>5 DEF Moves, Puts, Drops, Stops, Stays, Same, NoNews
    <2> QED BY <1>2, <2>1 DEF Promised!vars
  <1> QED BY <1>0, <1>1, <1>3, <1>4, <1>5, Zenon DEF Step

(* Registrations that do not overlap keep the promise of Users.             *)
THEOREM AloneKeepsPromise ==
    ASSUME NEW one, Sessions = {one}
    PROVE  Spec => Promised!Spec
  <1>1. Init => Promised!Init
    BY DEF Init, Promised!Init, Accounts
  <1>2. Init => LookedBefore /\ DuplicatesOverlap /\ LooksAlone /\ LoginsUnique
    BY IdleForm DEF Init, LookedBefore, DuplicatesOverlap, LooksAlone, LoginsUnique,
                    Looking
  <1>3. /\ TypeOK /\ LookedBefore /\ DuplicatesOverlap /\ LooksAlone /\ LoginsUnique
        /\ [Next]_vars
        => LookedBefore' /\ DuplicatesOverlap' /\ LooksAlone' /\ LoginsUnique'
    BY StepKind, OverlapStep, AloneStep
  <1>4. TypeOK /\ LookedBefore /\ LooksAlone /\ PartsInv /\ [Next]_vars
        => [Promised!Next]_(Promised!vars)
    BY StepKind, AbstractStep
  <1> QED BY <1>1, <1>2, <1>3, <1>4, TypeCorrect, PartsHold, PTL
          DEF Spec, Promised!Spec

=============================================================================
