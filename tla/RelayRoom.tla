------------------------------- MODULE RelayRoom -------------------------------
(* The relay implements Room: which connection is where, and who owns the room. *)
EXTENDS Relay

SeatOf ==
  [c \in Conn |->
     IF c \in peers THEN (IF c \in admitted THEN "seated" ELSE "lobby")
     ELSE IF stage[c] \in {"peer", "left"} THEN "left" ELSE "out"]

Abstract == INSTANCE Room WITH seat <- SeatOf, owner <- host

\* Every step of the relay is a step of Room or changes no seat: in particular an
\* admission that ends after its peer has left, or was rotated out, seats nobody.
ImplementsRoom == Abstract!Spec
=============================================================================
