---------------------------- MODULE MCKnockReplay ----------------------------
(* Small instances of KnockReplay; negative numbers cannot stand in a .cfg.  *)
EXTENDS KnockReplay

\* Differences up to, and without, the tolerated one ahead.
NearClocks == {-Skew, 0, Skew - 1}
=============================================================================
