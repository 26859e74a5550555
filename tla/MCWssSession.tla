----------------------------- MODULE MCWssSession -----------------------------
(* WssSession as TLC checks it: with every kind of request, and with the one *)
(* that the comment refuted in `overlap' is about.                           *)
EXTENDS WssSession

=============================================================================
