----------------------------- MODULE MCChatSync -----------------------------
(* ChatSync for TLC: clients and texts are interchangeable. *)
EXTENDS ChatSync, TLC

CONSTANTS c1, c2, ta, tb

NoHistory  == <<>>
OldRows    == <<ta, tb>>
OneOldRow  == <<ta>>
Symmetry   == Permutations(Client)
=============================================================================
