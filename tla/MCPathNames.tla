---------------------------- MODULE MCPathNames ----------------------------
(* PathNames for TLC: "USERS" is U, the id of the user 1; a colon stands   *)
(* for the banned characters, the name AA for the reserved ones.  Of the   *)
(* signs the backslash is typed; no property depends on what it matches.   *)
EXTENDS PathNames

TheUsers == <<"U">>
TheId == <<"1">>
TheBanned == {":", "/", "\\"}
ThePathChars == {"a", ".", " ", "/", "\\", ":", "(", ")"}
TheSigns == {"\\", "[", "]", "{", "}", "^", "$", "|", "+", "*", "?"}
MatchesNothing(p, s) == FALSE
TheUpper == [c \in {"a"} |-> "A"]
TheReserved == {<<"A", "A">>}
TheFormChars == {"a", "4", "%", "+", "=", "&", " "}
ThePlain == {"a", "4"}
TheCode == [c \in {" ", "%", "&", "+", "4", "=", "a"} |->
    CASE c = " " -> 32 [] c = "%" -> 37 [] c = "&" -> 38 [] c = "+" -> 43
      [] c = "4" -> 52 [] c = "=" -> 61 [] c = "a" -> 97]
=============================================================================
