------------------------------ MODULE MCFileStore ------------------------------
(* Instances of FileStore for TLC.                                           *)
EXTENDS FileStore

CONSTANTS S1, S2, Root, Sub, Cat, StarCat

OneSession  == {S1}
TwoSessions == {S1, S2}

OneFolder == {Root}

(* Two names that sanitize makes equal ("cat.jpg" and "*cat.jpg").           *)
OneStem  == {Cat}
TwoStems == {Cat, StarCat}
Same     == [stem \in OneStem |-> stem]
ToCat    == [stem \in TwoStems |-> Cat]

AddDelete == {"add", "delete"}
AddRewrite == {"add", "rewrite"}
AllOps    == {"add", "delete", "rewrite"}

=============================================================================
