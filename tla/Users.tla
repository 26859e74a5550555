--------------------------------- MODULE Users ---------------------------------
(***************************************************************************)
(* What registration and login promise: a login names one account, an      *)
(* account keeps its password, and tokens are for the accounts whose       *)
(* password was given.                                                     *)
(***************************************************************************)
CONSTANTS Logins, Passwords, Ids

VARIABLES
    accounts,       \* the accounts there are
    registered,     \* those whose client was told so
    tokens          \* those a token was given out for

vars == <<accounts, registered, tokens>>

Account == [id : Ids, login : Logins, password : Passwords]

Init ==
    /\ accounts = {}
    /\ registered = {}
    /\ tokens = {}

Register(a) ==
    /\ \A b \in accounts : b.login # a.login /\ b.id # a.id
    /\ accounts' = accounts \cup {a}
    /\ UNCHANGED <<registered, tokens>>

Confirm(a) ==
    /\ a \in accounts
    /\ registered' = registered \cup {a}
    /\ tokens' = tokens \cup {a}
    /\ UNCHANGED accounts

Login(a) ==
    /\ a \in accounts
    /\ tokens' = tokens \cup {a}
    /\ UNCHANGED <<accounts, registered>>

Next == \E a \in Account : Register(a) \/ Confirm(a) \/ Login(a)

Spec == Init /\ [][Next]_vars

=============================================================================
