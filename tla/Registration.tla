----------------------------- MODULE Registration -----------------------------
(***************************************************************************)
(* Registration and login (handle_rest_api of                              *)
(* src/src/httpServerSession.cpp): the collection users, the bucket and    *)
(* the placeholder that every user gets there.                             *)
(*                                                                         *)
(* A session runs one job at a time, the jobs of different sessions run on *)
(* different threads, and every call to a store is an action.  There is no *)
(* unique index on the login and no lock: what keeps logins apart is the   *)
(* find_one before the insert_one.  A call may fail, applied or not, which *)
(* ends the job with an error reply; the server may stop.                  *)
(***************************************************************************)
EXTENDS Integers

CONSTANTS
    Sessions,
    Logins, Passwords,
    MaxJobs,            \* bound: requests in a run
    MaxFaults,          \* bound: failing calls in a run
    MaxCrashes          \* bound: stops of the server in a run

ASSUME BoundsAssumption ==
    /\ MaxJobs \in Nat
    /\ MaxFaults \in Nat
    /\ MaxCrashes \in Nat

VARIABLES
    users,          \* documents of the collection users
    bucket,         \* the bucket exists
    placeholders,   \* ids whose object USERS/<id>/.placeholder exists
    records,        \* ids whose placeholder has its ImageRecord
    ids,            \* the last id insert_one made
    job,            \* what each session is doing
    begun,          \* requests begun
    faults,         \* calls that failed
    crashes,        \* stops of the server
    \* history:
    registered,     \* accounts whose client was told "created"
    tokens,         \* accounts a token was given out for, with what was asked
    denied,         \* logins and passwords that were answered "wrong password"
    broken          \* ids whose registration died after the user was inserted

stores == <<users, bucket, placeholders, records, ids>>
history == <<registered, tokens, denied>>
vars == <<users, bucket, placeholders, records, ids, job, begun, faults,
          crashes, registered, tokens, denied, broken>>

Idle == [call |-> "idle"]

(* seen is a history field: how many users there were when the registration *)
(* looked for its login.                                                    *)
User == [id : Nat, login : Logins, password : Passwords, seen : Nat]

Entering == [call : {"reg_find", "login_find"}, login : Logins, password : Passwords]
Looked == [call : {"reg_head", "reg_create", "reg_insert"},
           login : Logins, password : Passwords, seen : Nat]
Owned == [call : {"reg_put", "reg_record"},
          login : Logins, password : Passwords, id : Nat]
Jobs == {Idle} \cup Entering \cup Looked \cup Owned

Owner(s) == job[s].call \in {"reg_put", "reg_record"}
Account(j, id) == [id |-> id, login |-> j.login, password |-> j.password]

-----------------------------------------------------------------------------
Init ==
    /\ users = {}
    /\ bucket \in BOOLEAN
    /\ placeholders = {}
    /\ records = {}
    /\ ids = 0
    /\ job = [s \in Sessions |-> Idle]
    /\ begun = 0
    /\ faults = 0
    /\ crashes = 0
    /\ registered = {}
    /\ tokens = {}
    /\ denied = {}
    /\ broken = {}

-----------------------------------------------------------------------------
(* A call returns and leaves j as the rest of its job.                      *)
Returns(s, j) ==
    /\ job' = [job EXCEPT ![s] = j]
    /\ UNCHANGED <<faults, broken>>

(* A call throws or its outcome is an error: the reply is "server error",   *)
(* and whatever the job has stored stays.                                   *)
Throws(s, half) ==
    /\ faults < MaxFaults
    /\ faults' = faults + 1
    /\ job' = [job EXCEPT ![s] = Idle]
    /\ broken' = broken \cup half

(* Both requests refuse empty fields before they begin a job.               *)
Begin(s, call) ==
    /\ job[s] = Idle
    /\ begun < MaxJobs
    /\ begun' = begun + 1
    /\ \E login \in Logins, password \in Passwords :
          job' = [job EXCEPT ![s] =
                     [call |-> call, login |-> login, password |-> password]]
    /\ UNCHANGED <<stores, faults, crashes, history, broken>>

BeginRegister(s) == Begin(s, "reg_find")
BeginLogin(s) == Begin(s, "login_find")

-----------------------------------------------------------------------------
Known(login) == \E u \in users : u.login = login

(* Deviation for a mutant: the answer of find_one is not looked at.         *)
RegFind_Blind(s) ==
    /\ job[s].call = "reg_find"
    /\ LET j == job[s] IN
          Returns(s, [call |-> "reg_head", login |-> j.login,
                      password |-> j.password, seen |-> ids])
    /\ UNCHANGED <<stores, begun, crashes, history>>

(* find_one: a login that is known is refused with "user already exists".   *)
RegFind(s) ==
    /\ job[s].call = "reg_find"
    /\ LET j == job[s] IN
          \/ Known(j.login) /\ Returns(s, Idle)
          \/ /\ ~Known(j.login)
             /\ Returns(s, [call |-> "reg_head", login |-> j.login,
                            password |-> j.password, seen |-> ids])
    /\ UNCHANGED <<stores, begun, crashes, history>>

(* HeadBucket also fails when the bucket is there but cannot be asked.      *)
RegHead(s) ==
    /\ job[s].call = "reg_head"
    /\ \/ bucket /\ Returns(s, [job[s] EXCEPT !.call = "reg_insert"])
       \/ Returns(s, [job[s] EXCEPT !.call = "reg_create"])
    /\ UNCHANGED <<stores, begun, crashes, history>>

(* CreateBucket of a bucket that has appeared meanwhile succeeds or not,    *)
(* depending on the store; if not, the reply is "server error".             *)
RegCreate(s) ==
    /\ job[s].call = "reg_create"
    /\ bucket' = TRUE
    /\ \/ Returns(s, [job[s] EXCEPT !.call = "reg_insert"])
       \/ bucket /\ Returns(s, Idle)
       \/ Throws(s, {})
    /\ UNCHANGED <<users, placeholders, records, ids, begun, crashes, history>>

RegInsert(s) ==
    /\ job[s].call = "reg_insert"
    /\ LET j == job[s] IN
          /\ users' = users \cup {[id |-> ids + 1, login |-> j.login,
                                   password |-> j.password, seen |-> j.seen]}
          /\ \/ Returns(s, [call |-> "reg_put", login |-> j.login,
                            password |-> j.password, id |-> ids + 1])
             \/ Throws(s, {ids + 1})
    /\ ids' = ids + 1
    /\ UNCHANGED <<bucket, placeholders, records, begun, crashes, history>>

(* Deviation for a mutant: the outcome of PutObject is not looked at.       *)
RegPut_Unchecked(s) ==
    /\ job[s].call = "reg_put"
    /\ placeholders' \in {placeholders, placeholders \cup {job[s].id}}
    /\ Returns(s, [job[s] EXCEPT !.call = "reg_record"])
    /\ UNCHANGED <<users, bucket, records, ids, begun, crashes, history>>

RegPut(s) ==
    /\ job[s].call = "reg_put"
    /\ placeholders' = placeholders \cup {job[s].id}
    /\ \/ Returns(s, [job[s] EXCEPT !.call = "reg_record"])
       \/ Throws(s, {job[s].id})
    /\ UNCHANGED <<users, bucket, records, ids, begun, crashes, history>>

(* The last call; the reply is "created" and a token for the new id.        *)
RegRecord(s) ==
    /\ job[s].call = "reg_record"
    /\ LET j == job[s] IN
          /\ records' = records \cup {j.id}
          /\ \/ /\ Returns(s, Idle)
                /\ registered' = registered \cup {Account(j, j.id)}
                /\ tokens' = tokens \cup {Account(j, j.id)}
             \/ /\ Throws(s, {})
                /\ UNCHANGED <<registered, tokens>>
    /\ UNCHANGED <<users, bucket, placeholders, ids, begun, crashes, denied>>

-----------------------------------------------------------------------------
(* Deviation for a mutant: the hashes are not compared.                     *)
LoginFind_AnyPassword(s) ==
    /\ job[s].call = "login_find"
    /\ LET j == job[s] IN
          \/ /\ ~Known(j.login)
             /\ UNCHANGED <<tokens, denied>>
          \/ \E u \in users :
                /\ u.login = j.login
                /\ tokens' = tokens \cup {Account(j, u.id)}
                /\ UNCHANGED denied
    /\ Returns(s, Idle)
    /\ UNCHANGED <<stores, begun, crashes, registered>>

(* Deviation for a mutant: a stale hash, one that matches no password, is   *)
(* compared.                                                                *)
LoginFind_Stale(s) ==
    /\ job[s].call = "login_find"
    /\ LET j == job[s] IN
          \/ ~Known(j.login) /\ UNCHANGED denied
          \/ /\ Known(j.login)
             /\ denied' = denied \cup {[login |-> j.login, password |-> j.password]}
    /\ Returns(s, Idle)
    /\ UNCHANGED <<stores, begun, crashes, registered, tokens>>

(* find_one of the login, one of the documents when there are several, and  *)
(* the comparison of the hashes.                                            *)
LoginFind(s) ==
    /\ job[s].call = "login_find"
    /\ LET j == job[s] IN
          \/ /\ ~Known(j.login)
             /\ UNCHANGED <<tokens, denied>>
          \/ \E u \in users :
                /\ u.login = j.login
                /\ \/ /\ u.password = j.password
                      /\ tokens' = tokens \cup {Account(j, u.id)}
                      /\ UNCHANGED denied
                   \/ /\ u.password # j.password
                      /\ denied' = denied \cup {[login |-> j.login,
                                                 password |-> j.password]}
                      /\ UNCHANGED tokens
    /\ Returns(s, Idle)
    /\ UNCHANGED <<stores, begun, crashes, registered>>

-----------------------------------------------------------------------------
(* The next call of a job fails without having been applied.                *)
CallFails(s) ==
    /\ job[s] # Idle
    /\ Throws(s, IF Owner(s) THEN {job[s].id} ELSE {})
    /\ UNCHANGED <<stores, begun, crashes, history>>

(* The server stops; the stores remain.                                     *)
Crash ==
    /\ crashes < MaxCrashes
    /\ crashes' = crashes + 1
    /\ job' = [s \in Sessions |-> Idle]
    /\ broken' = broken \cup {job[s].id : s \in {t \in Sessions : Owner(t)}}
    /\ UNCHANGED <<stores, begun, faults, history>>

StoreCall(s) ==
    \/ RegFind(s) \/ RegHead(s) \/ RegCreate(s) \/ RegInsert(s)
    \/ RegPut(s) \/ RegRecord(s) \/ LoginFind(s)
    \/ CallFails(s)

Next ==
    \/ \E s \in Sessions : BeginRegister(s) \/ BeginLogin(s) \/ StoreCall(s)
    \/ Crash

Spec == Init /\ [][Next]_vars

-----------------------------------------------------------------------------
AccountType == [id : Nat, login : Logins, password : Passwords]

TypeOK ==
    /\ users \subseteq User
    /\ bucket \in BOOLEAN
    /\ placeholders \subseteq Nat
    /\ records \subseteq Nat
    /\ ids \in Nat
    /\ job \in [Sessions -> Jobs]
    /\ begun \in 0 .. MaxJobs
    /\ faults \in 0 .. MaxFaults
    /\ crashes \in 0 .. MaxCrashes
    /\ registered \subseteq AccountType
    /\ tokens \subseteq AccountType
    /\ denied \subseteq [login : Logins, password : Passwords]
    /\ broken \subseteq Nat

(* A login has two users only when their registrations overlapped: the one  *)
(* that inserted last had looked for the login before the other inserted    *)
(* (httpServerSession.cpp:148 and :179).                                    *)
DuplicatesOverlap ==
    \A u, v \in users : u.login = v.login /\ u.id < v.id => v.seen < u.id

(* A token that was given out is for a user whose login and password its    *)
(* client gave, whatever else was registered meanwhile.                     *)
TokensTrue ==
    \A t \in tokens :
       \E u \in users : u.id = t.id /\ u.login = t.login /\ u.password = t.password

(* A registration that was reported as created has all its parts: the user, *)
(* the placeholder object and the placeholder record.                       *)
RegisteredComplete ==
    \A r \in registered :
       /\ \E u \in users : u.id = r.id /\ u.login = r.login /\ u.password = r.password
       /\ r.id \in placeholders
       /\ r.id \in records

(* A user who lacks the placeholder or its record is being registered, or   *)
(* the registration died there: its client was told of an error (or of      *)
(* nothing), and yet the login is taken for ever.                           *)
HalfRegisteredAccounted ==
    \A u \in users :
       \/ u.id \in placeholders /\ u.id \in records
       \/ u.id \in broken
       \/ \E s \in Sessions : Owner(s) /\ job[s].id = u.id

(* Who registered successfully and is told "wrong password" nevertheless    *)
(* shares the login with another user.                                      *)
DenialsAccounted ==
    \A d \in denied, r \in registered :
       r.login = d.login /\ r.password = d.password =>
          \E u, v \in users : u.login = d.login /\ v.login = d.login /\ u # v

(* A login names one user (the reply "user already exists",                 *)
(* httpServerSession.cpp:156).                                              *)
LoginsUnique == \A u, v \in users : u.login = v.login => u = v

=============================================================================
