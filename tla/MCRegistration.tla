---------------------------- MODULE MCRegistration ----------------------------
(* Instances of Registration for TLC.                                       *)
EXTENDS Registration, TLC

CONSTANTS s1, s2, anna, boris, p1, p2

TwoSessions == {s1, s2}
OneLogin == {anna}
TwoLogins == {anna, boris}
TwoPasswords == {p1, p2}

Symmetry == Permutations(Sessions) \cup Permutations(Passwords)

=============================================================================
