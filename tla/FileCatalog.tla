------------------------------ MODULE FileCatalog ------------------------------
(***************************************************************************)
(* What the two stores of FileStore.tla promise together: a catalog of     *)
(* files.  A file appears whole, never changes, and disappears only after  *)
(* a client has asked for its deletion, never to come back.                *)
(***************************************************************************)
EXTENDS Naturals

CONSTANTS Ids, Contents

VARIABLES
    available,     \* the files that can be downloaded, with their contents
    used,          \* the ids of all files there have been
    doomed         \* the ids a client has asked to delete

catalogVars == <<available, used, doomed>>

Init ==
    /\ available = {}
    /\ used = {}
    /\ doomed = {}

Publish(id, content) ==
    /\ id \notin used
    /\ available' = available \cup {[id |-> id, content |-> content]}
    /\ used' = used \cup {id}
    /\ UNCHANGED doomed

(* Doom need not be the first request to delete that file.                  *)
Doom(id) ==
    /\ id \in used
    /\ doomed' = doomed \cup {id}
    /\ UNCHANGED <<available, used>>

Withdraw(id) ==
    /\ id \in doomed
    /\ available' = {f \in available : f.id # id}
    /\ UNCHANGED <<used, doomed>>

Next ==
    \/ \E id \in Ids, content \in Contents : Publish(id, content)
    \/ \E id \in Ids : Doom(id) \/ Withdraw(id)

Spec == Init /\ [][Next]_catalogVars

=============================================================================
