------------------------------- MODULE MCWire -------------------------------
(* The messages of Wire.tla for TLC: all message types, byte strings that  *)
(* are and are not UTF-8, a blob whose length takes two bytes, numbers     *)
(* that take two and all bytes of an integer.                              *)
EXTENDS Wire, Messages

AllTypes == DOMAIN Layout
SomeStrings == {<<97>>, <<200>>}
SomeBlobs == {[i \in 1 .. 128 |-> 200]}
SomeNumbers == {-1, 128}

(* An explicit empty field, a field of another wire type, one no message   *)
(* has, an overlong number, a number that is cut off, a length beyond the  *)
(* end, field number 0, a string that is not UTF-8, the same field twice.  *)
SomeBytes ==
    {<<10, 0>>, <<8, 1, 10, 1, 97>>, <<160, 6, 129, 0>>, <<8, 129>>,
     <<10, 3, 97>>, <<2, 1, 97>>, <<10, 1, 200>>, <<10, 1, 97, 10, 1, 98>>}

(* The answers of a server are many and alike: one call for an envelope of *)
(* them, which Copy and Merge then bring into the other object.            *)
EditsOf(T) == IF T = "ServerEnvelope" THEN 1 ELSE 2
=============================================================================
