---------------------------- MODULE MCIdempotency ----------------------------
(* A small instance of Idempotency for TLC.                                *)
EXTENDS Idempotency

CONSTANTS k1, k2, p1, p2, c1, c2, c3, e1, e2, t1, t2

TwoKeys == {k1, k2}
TwoPrints == {p1, p2}
ThreeCallers == {c1, c2, c3}
TwoCalls == {e1, e2}
TwoTimers == {t1, t2}
=============================================================================
