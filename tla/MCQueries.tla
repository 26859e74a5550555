------------------------------- MODULE MCQueries -------------------------------
(* Instances of Queries for TLC.                                            *)
EXTENDS Queries, MCFileStore

CONSTANTS Deep, sub, deep

RootOnly == {Root}
RootAndDeep == {Root, Deep}
AllFolders == {Root, Sub, Deep}

(* Deep lies in Sub and Sub in Root.  The name of Sub begins with that of   *)
(* the file Cat, so that the path of that file in Root begins two folders.  *)
Segment(f, g) ==
    CASE f = Root /\ g \in {Sub, Deep} -> sub
      [] f = Sub /\ g = Deep -> deep
      [] OTHER -> NoSegment

Segments == [f \in Folders |-> [g \in Folders |-> Segment(f, g)]]

Begins(path, g) ==
    \/ IsFolder(path) /\ InOrBelow(path.folder, g)
    \/ /\ path.kind = "name" /\ path.folder = Root /\ path.name = ClientName(Cat)
       /\ g \in {Sub, Deep}

Lists == {"list"}
LookUps == {"ids", "path_inf", "file_path", "placeholder"}

=============================================================================
