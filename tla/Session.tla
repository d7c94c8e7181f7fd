------------------------------ MODULE Session ------------------------------
(***************************************************************************)
(* The session's hold on its connection, #openSocket in src/lib/session.js: *)
(* entering and leaving a room, the epochs of its connections, and the     *)
(* routing chain on which payloads wait for those before them.             *)
(***************************************************************************)
EXTENDS Transport, FiniteSets

CONSTANT
  UnreachableAfter   \* dials that reach nobody before the session gives up: three

ASSUME SessionAssumption == UnreachableAfter \in Nat

VARIABLES
  held,           \* the SecureSocket this.socket stands for, 0 for null
  epoch,          \* _epoch
  chain,          \* the chain of promises _routes stands for
  routes,         \* payloads on their chains
  routing         \* payloads whose handler is awaiting something

roomVars == <<held, epoch, chain>>
svars == <<roomVars, routes, routing>>
vars  == <<tvars, svars>>

\* Sockets, epochs and chains need a number no payload that waits still carries: the
\* counters of the code, with numbers used again that nothing remembers.
Names == Nat \ {0}
Task  == [from : Dial, of : Names, epoch : Names, chain : Names, kind : {"data", "kick"}]

SessionTypeOK ==
  /\ TypeOK
  /\ held \in Names \cup {0} /\ epoch \in Names /\ chain \in Names
  /\ routes \in Seq(Task) /\ routing \subseteq Task

SessionInit ==
  /\ Init
  /\ held = 0 /\ epoch = 1 /\ chain = 1 /\ routes = <<>> /\ routing = {}

-----------------------------------------------------------------------------
(* Rooms *)

Waiting == {routes[k] : k \in DOMAIN routes} \cup routing
Fresh(used) == CHOOSE n \in 1..(Cardinality(used) + 1) : n \notin used

NewEpoch  == epoch' = Fresh({epoch} \cup {task.epoch : task \in Waiting})
NewChain  == chain' = Fresh({chain} \cup {task.chain : task \in Waiting})

\* #openSocket: join() wants an idle session, rotateCode() has let go of its socket.
Enters ==
  /\ held = 0
  /\ OpensInVain \/ \E setting \in BOOLEAN : Opens(setting)
  /\ held' = Fresh({task.of : task \in Waiting}) /\ NewEpoch
  /\ UNCHANGED <<chain, routes, routing>>

\* leave(): also what a "kick" makes of itself.
LeavesRoom ==
  /\ held # 0 /\ Closes
  /\ held' = 0 /\ NewEpoch /\ NewChain

Leaves == LeavesRoom /\ UNCHANGED <<routes, routing>>

\* rotateCode() lets go of the socket; a new one is opened when the relay has answered.
Rotates ==
  /\ held # 0 /\ Closes /\ held' = 0
  /\ UNCHANGED <<epoch, chain, routes, routing>>

\* #reportUnreachable: the dial itself has failed too often.
GivesUp == state = "connecting" /\ failedDials + 1 >= UnreachableAfter

-----------------------------------------------------------------------------
(* What the session hears *)

HearsOpen ==
  /\ NewEpoch /\ NewChain
  /\ UNCHANGED <<held, routes, routing>>

\* Mutant: a lost connection is noticed only once the next one opens.
HearsCloseLate == UNCHANGED svars

HearsClose ==
  /\ NewEpoch
  /\ UNCHANGED <<held, chain, routes, routing>>

HearsMessage(kind) ==
  /\ routes' = Append(routes,
       [from |-> socket, of |-> held, epoch |-> epoch, chain |-> chain, kind |-> kind])
  /\ UNCHANGED <<roomVars, routing>>

-----------------------------------------------------------------------------
(* The routing chain *)

IsCurrent(task) == task.of = held /\ task.epoch = epoch

\* Nothing before it on its chain.
First(k) ==
  /\ \A j \in 1..(k - 1) : routes[j].chain # routes[k].chain
  /\ \A task \in routing : task.chain # routes[k].chain

Takeoff(k) == routes' = SubSeq(routes, 1, k - 1) \o SubSeq(routes, k + 1, Len(routes))

\* #route for a payload of the present connection, up to its handler's first await.
Routes(k) ==
  /\ First(k) /\ IsCurrent(routes[k]) /\ Takeoff(k)
  /\ routing' = routing \cup {routes[k]}
  /\ IF routes[k].kind = "kick" THEN LeavesRoom ELSE UNCHANGED <<tvars, roomVars>>

Skips(k) ==
  /\ First(k) /\ ~IsCurrent(routes[k]) /\ Takeoff(k)
  /\ UNCHANGED <<tvars, roomVars, routing>>

RouteEnds(task) ==
  /\ task \in routing /\ routing' = routing \ {task}
  /\ UNCHANGED <<tvars, roomVars, routes>>

-----------------------------------------------------------------------------
(* Specification *)

Lost == \E final \in BOOLEAN : OnClose(final, GivesUp) /\ HearsClose

SessionNext ==
  \/ Quietly /\ UNCHANGED svars
  \/ Lost
  \/ \E d \in Dial : (Accepts(d) /\ HearsOpen) \/ (Delivers(d) /\ HearsMessage(rx[d]))
  \/ Enters \/ Leaves \/ Rotates
  \/ \E k \in DOMAIN routes : Routes(k) \/ Skips(k)
  \/ \E task \in routing : RouteEnds(task)

\* The handshake timer fires, a WebSocket that is closing reports its close event, and
\* the relay closes what it has refused.
Fairness ==
  /\ WF_vars(HandshakeTimeout /\ UNCHANGED svars)
  /\ WF_vars((ready = "closing" \/ relay = "refused") /\ Lost)

SessionSpec == SessionInit /\ [][SessionNext]_vars /\ Fairness

-----------------------------------------------------------------------------
(* Properties *)

\* _epoch and isCurrent: a payload is routed only while the connection it arrived on is
\* up, though it may have waited behind another while that connection was lost,
\* replaced, rotated away or left.
RoutedWhileUp ==
  [][\A task \in routing' \ routing : task.from = socket /\ state = "open"]_vars

\* #startHandshake: a handshake ends, in an open channel or a closed one, wherever the
\* relay falls silent; once it has refused, #onReject has stopped the timer and the
\* relay's own close is what ends it.
HandshakesFinish == state = "handshaking" ~> state # "handshaking"

=============================================================================
