--------------------------------- MODULE Room ---------------------------------
(***************************************************************************)
(* What the relay promises about seats, whatever the handshake, the parity *)
(* gate and the handlers' awaits do: a connection enters the lobby once,   *)
(* is seated at most once, leaves for good, and the room has at most one   *)
(* owner, who is present and frees the slot only by leaving.               *)
(***************************************************************************)
CONSTANTS Conn, None

VARIABLES
  seat,   \* per connection: out, lobby, seated or left
  owner   \* the connection in the host slot, or None

Present == {c \in Conn : seat[c] \in {"lobby", "seated"}}

Init == seat = [c \in Conn |-> "out"] /\ owner = None

\* A newcomer may take the slot, but only an empty one.
Enter(c) ==
  /\ seat[c] = "out"
  /\ seat' = [seat EXCEPT ![c] = "lobby"]
  /\ owner' = owner \/ (owner = None /\ owner' = c)

Sit(c) ==
  /\ seat[c] = "lobby"
  /\ seat' = [seat EXCEPT ![c] = "seated"]
  /\ UNCHANGED owner

\* One departure, or everyone's (a rotated code, a stopped relay).
Leave(S) ==
  /\ S # {} /\ S \subseteq Present
  /\ seat' = [c \in Conn |-> IF c \in S THEN "left" ELSE seat[c]]
  /\ owner' = IF owner \in S THEN None ELSE owner

Next ==
  \/ \E c \in Conn : Enter(c) \/ Sit(c)
  \/ \E S \in SUBSET Conn : Leave(S)

Spec == Init /\ [][Next]_<<seat, owner>>
=============================================================================
