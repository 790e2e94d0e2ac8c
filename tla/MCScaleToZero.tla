---------------------------- MODULE MCScaleToZero ----------------------------
(* Small instances of ScaleToZero for TLC.                                 *)
EXTENDS ScaleToZero

CONSTANTS h1, h2, h3, t1, t2, t3

MCHolders == {h1, h2, h3}
MCTimers == {t1, t2, t3}
=============================================================================
