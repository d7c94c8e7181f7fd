----------------------------- MODULE MCCardSync -----------------------------
(* CardSync for TLC: two handler slots, one file name beside the deterministic. *)
EXTENDS CardSync

CONSTANTS m1, m2, det, old
=============================================================================
