------------------------------- MODULE MCRelay -------------------------------
(* TLC instances of Relay: sockets of two addresses, of which h and h2 are the *)
(* host's own browser tabs.                                                    *)
EXTENDS RelayRoom, TLC

CONSTANTS h, h2, c1, c2, home, away, ra, rb

\* The host's tabs share the loopback address, the clients another one.
MCIpOf == [c \in Conn |-> IF c \in HostTabs THEN home ELSE away]

\* Clients are interchangeable, and so are fingerprints; used with safety only.
Symmetry == Permutations({c1, c2}) \cup Permutations({ra, rb})
=============================================================================
