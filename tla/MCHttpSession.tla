----------------------------- MODULE MCHttpSession -----------------------------
(* HttpSession for TLC: a few requests on either port.                      *)
EXTENDS HttpSession
=============================================================================
