------------------------------ MODULE MCHosting ------------------------------
(* Hosting for TLC: two overlapping requests, one or two ports. *)
EXTENDS Hosting

CONSTANTS r1, r2, p, q
=============================================================================
