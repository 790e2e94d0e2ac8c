--------------------------- MODULE MCResponseDrain ---------------------------
(* A small instance of ResponseDrain for TLC.                               *)
EXTENDS ResponseDrain

CONSTANTS c1, c2

TwoConns == {c1, c2}

(* One connection is kept alive for a second request.                      *)
TwoAndOne == [c \in TwoConns |-> IF c = c1 THEN 2 ELSE 1]
=============================================================================
