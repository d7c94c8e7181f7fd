--------------------------- MODULE SessionProofs ---------------------------
(***************************************************************************)
(* Theorems about Session: what is proved of its connections holds of the  *)
(* session that opens, leaves and replaces them, and the session routes a  *)
(* payload only while the connection it came over is up.                   *)
(***************************************************************************)
EXTENDS Session, TransportProofs, FiniteSetTheorems, SequenceTheorems

\* A step of the session is a step of its connection or leaves it alone.
LEMMA SessionStep ==
  ASSUME SessionNext
  PROVE  [Next]_tvars
<1>1. CASE Quietly /\ UNCHANGED svars
  BY <1>1 DEF Next
<1>2. CASE Lost
  <2>1. PICK final \in BOOLEAN : OnClose(final, GivesUp)
    BY <1>2 DEF Lost
  <2>2. GivesUp \in BOOLEAN
    BY DEF GivesUp
  <2>3. QED
    BY <2>1, <2>2 DEF Next
<1>3. ASSUME NEW d \in Dial, (Accepts(d) /\ HearsOpen) \/ (Delivers(d) /\ HearsMessage(rx[d]))
      PROVE  Next
  BY <1>3 DEF Next
<1>4. CASE Enters
  BY <1>4 DEF Enters, Next
<1>5. CASE Leaves \/ Rotates
  BY <1>5 DEF Leaves, LeavesRoom, Rotates, Next
<1>6. ASSUME NEW k \in DOMAIN routes, Routes(k) \/ Skips(k)
      PROVE  [Next]_tvars
  BY <1>6 DEF Routes, Skips, LeavesRoom, Next
<1>7. ASSUME NEW task \in routing, RouteEnds(task)
      PROVE  [Next]_tvars
  BY <1>7 DEF RouteEnds
<1>8. QED
  BY <1>1, <1>2, <1>3, <1>4, <1>5, <1>6, <1>7 DEF SessionNext

\* A session's connections behave as Transport says, so its theorems hold of them.
THEOREM SessionUsesTransport == SessionSpec => Spec
<1>1. SessionInit => Init
  BY DEF SessionInit
<1>2. [SessionNext]_vars => [Next]_tvars
  BY SessionStep DEF vars
<1>3. QED
  BY <1>1, <1>2, PTL DEF SessionSpec, Spec

\* In every session, an open channel is agreed with the relay on this very WebSocket:
\* #handleAccepted.
THEOREM SessionChannelIsAgreed == SessionSpec => []OpenAgreed
BY SessionUsesTransport, ChannelIsAgreed, PTL

\* In every session, frames stay on their connection and in order, however rooms are
\* left, rotated and entered: the send chain.
THEOREM SessionFramesStayInOrder == SessionSpec => []WireOrder
BY SessionUsesTransport, FramesStayInOrder, PTL

\* In every session, a lost connection is dialled again exactly when that is wanted:
\* #onClose, close(), leave() and rotateCode().
THEOREM SessionRetriesAreWanted == SessionSpec => []RetryWanted
BY SessionUsesTransport, RetriesAreWanted, PTL

\* In every session, unstable retries end: the count of #onClose.
THEOREM SessionRetriesEnd == SessionSpec => []RetryBudget
BY SessionUsesTransport, RetriesEnd, PTL

-----------------------------------------------------------------------------
(* The routing chain *)

\* The present connection has a socket of its own, and a payload that counts as
\* present came over it, with the channel open.
Live ==
  /\ held = 0 => socket = 0 /\ ~retryTimer
  /\ \A k \in DOMAIN routes : IsCurrent(routes[k]) => routes[k].from = socket /\ state = "open"

Chained ==
  /\ held \in Names \cup {0} /\ epoch \in Names /\ chain \in Names
  /\ routes \in Seq(Task) /\ routing \subseteq Task /\ IsFiniteSet(routing)

SInv == IInv /\ Chained /\ Live

\* A set that is finite stays so under a map.
LEMMA FiniteImage ==
  ASSUME NEW S, IsFiniteSet(S), NEW f, DOMAIN f = S
  PROVE  IsFiniteSet({f[x] : x \in S})
<1> DEFINE T == {f[x] : x \in S}
           g == [x \in S |-> f[x]]
<1>1. g \in Surjection(S, T)
  BY DEF Surjection
<1>2. QED
  BY <1>1, FS_Surjection

\* A number outside a finite set is found among the first few.
LEMMA FreshIsNew ==
  ASSUME NEW used, IsFiniteSet(used)
  PROVE  Fresh(used) \in Names /\ Fresh(used) \notin used
<1> DEFINE n == Cardinality(used)
<1>1. n \in Nat
  BY FS_CardinalityType
<1>2. \E m \in 1..(n + 1) : m \notin used
  <2> SUFFICES ASSUME 1..(n + 1) \subseteq used PROVE FALSE
    OBVIOUS
  <2>1. Cardinality(1..(n + 1)) = n + 1
    BY <1>1, FS_Interval
  <2>2. Cardinality(1..(n + 1)) <= n
    BY FS_Subset
  <2>3. QED
    BY <1>1, <2>1, <2>2
<1>3. Fresh(used) \in 1..(n + 1) /\ Fresh(used) \notin used
  BY <1>2 DEF Fresh
<1>4. QED
  BY <1>1, <1>3 DEF Names

LEMMA WaitingFinite ==
  ASSUME Chained
  PROVE  /\ Waiting \subseteq Task
         /\ IsFiniteSet({task.of : task \in Waiting})
         /\ IsFiniteSet({epoch} \cup {task.epoch : task \in Waiting})
         /\ IsFiniteSet({chain} \cup {task.chain : task \in Waiting})
<1>1. Len(routes) \in Nat /\ DOMAIN routes = 1..Len(routes) /\ \A k \in DOMAIN routes : routes[k] \in Task
  BY DEF Chained
<1>2. IsFiniteSet(DOMAIN routes)
  BY <1>1, FS_Interval
<1>3. IsFiniteSet({routes[k] : k \in DOMAIN routes})
  BY <1>2, FiniteImage
<1>4. IsFiniteSet(Waiting)
  BY <1>3, FS_Union DEF Waiting, Chained
<1>5. IsFiniteSet({task.of : task \in Waiting})
  <2> DEFINE f == [task \in Waiting |-> task.of]
  <2>1. IsFiniteSet({f[x] : x \in Waiting})
    BY <1>4, FiniteImage
  <2>2. {f[x] : x \in Waiting} = {task.of : task \in Waiting}
    OBVIOUS
  <2>3. QED
    BY <2>1, <2>2
<1>6. IsFiniteSet({task.epoch : task \in Waiting})
  <2> DEFINE f == [task \in Waiting |-> task.epoch]
  <2>1. IsFiniteSet({f[x] : x \in Waiting})
    BY <1>4, FiniteImage
  <2>2. {f[x] : x \in Waiting} = {task.epoch : task \in Waiting}
    OBVIOUS
  <2>3. QED
    BY <2>1, <2>2
<1>7. IsFiniteSet({task.chain : task \in Waiting})
  <2> DEFINE f == [task \in Waiting |-> task.chain]
  <2>1. IsFiniteSet({f[x] : x \in Waiting})
    BY <1>4, FiniteImage
  <2>2. {f[x] : x \in Waiting} = {task.chain : task \in Waiting}
    OBVIOUS
  <2>3. QED
    BY <2>1, <2>2
<1>8. Waiting \subseteq Task
  BY <1>1 DEF Waiting, Chained
<1>9. QED
  BY <1>5, <1>6, <1>7, <1>8, FS_Singleton, FS_Union

\* A new epoch is nobody's, and neither is a new chain or a new socket.
LEMMA NewNames ==
  ASSUME Chained
  PROVE  /\ NewEpoch => epoch' \in Names /\ epoch' # epoch /\ \A task \in Waiting : task.epoch # epoch'
         /\ NewChain => chain' \in Names
         /\ Fresh({task.of : task \in Waiting}) \in Names
         /\ \A other \in Waiting : other.of # Fresh({task.of : task \in Waiting})
<1>1. ASSUME NewEpoch
      PROVE  epoch' \in Names /\ epoch' \notin {epoch} \cup {task.epoch : task \in Waiting}
  BY <1>1, WaitingFinite, FreshIsNew DEF NewEpoch
<1>2. ASSUME NewChain PROVE chain' \in Names
  BY <1>2, WaitingFinite, FreshIsNew DEF NewChain
<1>3. /\ Fresh({task.of : task \in Waiting}) \in Names
      /\ Fresh({task.of : task \in Waiting}) \notin {task.of : task \in Waiting}
  BY WaitingFinite, FreshIsNew
<1>4. QED
  BY <1>1, <1>2, <1>3

\* Taking a payload off its chain leaves the others.
LEMMA TakenOff ==
  ASSUME Chained, NEW k \in DOMAIN routes, Takeoff(k)
  PROVE  /\ routes' \in Seq(Task)
         /\ \A i \in DOMAIN routes' : \E j \in DOMAIN routes : routes'[i] = routes[j]
<1> DEFINE R == {routes[j] : j \in DOMAIN routes}
           before == SubSeq(routes, 1, k - 1)
           after == SubSeq(routes, k + 1, Len(routes))
<1>1. /\ Len(routes) \in Nat /\ DOMAIN routes = 1..Len(routes) /\ k \in 1..Len(routes)
      /\ \A j \in DOMAIN routes : routes[j] \in Task
  BY DEF Chained
<1>2. before \in Seq(R)
  BY <1>1, SubSeqProperties
<1>3. after \in Seq(R)
  BY <1>1, SubSeqProperties
<1>4. routes' \in Seq(R)
  BY <1>2, <1>3, ConcatProperties DEF Takeoff
<1>5. R \subseteq Task
  BY <1>1
<1>6. routes' \in Seq(Task)
  BY <1>4, <1>5, SeqMonotonic
<1>7. \A i \in DOMAIN routes' : routes'[i] \in R
  BY <1>4
<1>8. QED
  BY <1>6, <1>7

\* A payload is heard over a connection that the session holds.
LEMMA Heard ==
  ASSUME IInv, Chained, Live, NEW d \in Dial, Delivers(d)
  PROVE  [from |-> socket, of |-> held, epoch |-> epoch, chain |-> chain, kind |-> rx[d]] \in Task
<1>1. d = socket /\ rx[d] \in {"data", "kick"}
  BY DEF Delivers
<1>2. held \in Names
  BY <1>1 DEF Chained, Live, Dial
<1>3. QED
  BY <1>1, <1>2 DEF Chained, Task

LEMMA ChainedStep ==
  ASSUME IInv, Chained, Live, SessionNext
  PROVE  Chained'
<1>1. CASE UNCHANGED svars
  BY <1>1 DEF Chained, svars, roomVars
<1>2. CASE Lost
  BY <1>2, NewNames DEF Lost, HearsClose, Chained
<1>3. ASSUME NEW d \in Dial, Accepts(d), HearsOpen PROVE Chained'
  BY <1>3, NewNames DEF HearsOpen, Chained
<1>4. ASSUME NEW d \in Dial, Delivers(d), HearsMessage(rx[d]) PROVE Chained'
  <2>1. routes' \in Seq(Task)
    BY <1>4, Heard, AppendProperties DEF HearsMessage, Chained
  <2>2. QED
    BY <1>4, <2>1 DEF HearsMessage, Chained, roomVars
<1>5. CASE Enters
  BY <1>5, NewNames DEF Enters, Chained
<1>6. CASE Leaves \/ Rotates
  BY <1>6, NewNames DEF Leaves, LeavesRoom, Rotates, Chained
<1>7. ASSUME NEW k \in DOMAIN routes, Routes(k) PROVE Chained'
  <2>1. routes' \in Seq(Task) /\ routes[k] \in Task
    BY <1>7, TakenOff DEF Routes, Chained
  <2>2. routing' = routing \cup {routes[k]} /\ IsFiniteSet(routing')
    BY <1>7, FS_AddElement DEF Routes, Chained
  <2>3. held' \in Names \cup {0} /\ epoch' \in Names /\ chain' \in Names
    BY <1>7, NewNames DEF Routes, LeavesRoom, Chained, roomVars
  <2>4. QED
    BY <2>1, <2>2, <2>3 DEF Chained
<1>8. ASSUME NEW k \in DOMAIN routes, Skips(k) PROVE Chained'
  BY <1>8, TakenOff DEF Skips, Chained, roomVars
<1>9. ASSUME NEW task \in routing, RouteEnds(task) PROVE Chained'
  BY <1>9, FS_RemoveElement DEF RouteEnds, Chained, roomVars
<1>10. QED
  BY <1>1, <1>2, <1>3, <1>4, <1>5, <1>6, <1>7, <1>8, <1>9 DEF SessionNext

\* Nothing that waits counts as present once the session has let go of its socket, or
\* has another, or the epoch is new.
LEMMA NothingLive ==
  ASSUME Chained, Chained', \A i \in DOMAIN routes' : routes'[i] \in Waiting,
         held' = 0 \/ (NewEpoch /\ held' = held) \/ held' = Fresh({task.of : task \in Waiting})
  PROVE  \A i \in DOMAIN routes' : ~IsCurrent(routes[i])' 
<1> SUFFICES ASSUME NEW i \in DOMAIN routes' PROVE ~IsCurrent(routes[i])'
  OBVIOUS
<1> DEFINE task == routes'[i]
<1>1. task \in Waiting /\ task.of # 0
  BY WaitingFinite DEF Task, Names
<1>2. CASE held' = 0
  BY <1>1, <1>2 DEF IsCurrent
<1>3. CASE NewEpoch
  BY <1>1, <1>3, NewNames DEF IsCurrent
<1>4. CASE held' = Fresh({t.of : t \in Waiting})
  BY <1>1, <1>4, NewNames DEF IsCurrent
<1>5. QED
  BY <1>2, <1>3, <1>4

LEMMA LiveStep ==
  ASSUME IInv, IInv', Chained, Chained', Live, SessionNext
  PROVE  Live'
<1>0. \A k \in DOMAIN routes : routes[k] \in Waiting
  BY DEF Waiting
<1>1. CASE UNCHANGED <<held, socket>> /\ ~retryTimer'
           /\ \A i \in DOMAIN routes' : ~IsCurrent(routes[i])'
  BY <1>1 DEF Live
<1>2. CASE Quietly /\ UNCHANGED svars
  <2>1. CASE Redials \/ WebSocketOpens
    <3>1. state # "open" /\ held # 0
      <4>1. CASE Redials
        BY <4>1 DEF Redials, IInv, RetryWanted, Live
      <4>2. CASE WebSocketOpens
        BY <4>2 DEF WebSocketOpens, IInv, Ends, Live
      <4>3. QED
        BY <2>1, <4>1, <4>2
    <3>2. \A k \in DOMAIN routes : ~IsCurrent(routes[k])
      BY <3>1 DEF Live
    <3>3. QED
      BY <1>2, <3>1, <3>2 DEF svars, roomVars, Live, IsCurrent
  <2>2. CASE ~(Redials \/ WebSocketOpens)
    <3>1. UNCHANGED <<socket, state, retryTimer>>
      BY <1>2, <2>2 DEF Quietly, HandshakeTimeout, HeartbeatTimeout, Settles, Sends, SendBegins, SendEnds,
           RelaySends, SendsHello, Receives, FindsFalse, Breaks, OnReject, DerivesKeys, SendsConfirm,
           Abandons, linkVars, retryVars
    <3>2. QED
      BY <1>2, <3>1 DEF svars, roomVars, Live, IsCurrent
  <2>3. QED
    BY <2>1, <2>2
<1>3. CASE Lost
  <2>1. NewEpoch /\ held' = held /\ routes' = routes
    BY <1>3 DEF Lost, HearsClose
  <2>2. held # 0
    BY <1>3 DEF Lost, OnClose, Live
  <2>3. QED
    BY <1>0, <2>1, <2>2, NothingLive DEF Live
<1>4. ASSUME NEW d \in Dial, Accepts(d), HearsOpen PROVE Live'
  <2>1. NewEpoch /\ UNCHANGED <<held, routes, socket, retryTimer>>
    BY <1>4 DEF HearsOpen, Accepts, linkVars
  <2>2. QED
    BY <1>0, <2>1, NothingLive DEF Live
<1>5. ASSUME NEW d \in Dial, Delivers(d), HearsMessage(rx[d]) PROVE Live'
  <2> DEFINE task == [from |-> socket, of |-> held, epoch |-> epoch, chain |-> chain, kind |-> rx[d]]
  <2>1. UNCHANGED <<held, epoch, socket, retryTimer, state>> /\ state = "open" /\ routes' = Append(routes, task)
    BY <1>5 DEF Delivers, HearsMessage, linkVars, retryVars, roomVars
  <2>2. routes \in Seq(Task) /\ task \in Task
    BY <1>5, Heard DEF Chained
  <2>3. \A i \in DOMAIN routes' : (i \in DOMAIN routes /\ routes'[i] = routes[i]) \/ routes'[i].from = socket
    BY <2>1, <2>2, AppendProperties
  <2>4. \A i \in DOMAIN routes' : IsCurrent(routes[i])' => routes'[i].from = socket
    BY <2>1, <2>3 DEF IsCurrent, Live
  <2>5. QED
    BY <2>1, <2>4 DEF Live
<1>6. CASE Enters
  <2>1. held' = Fresh({task.of : task \in Waiting}) /\ routes' = routes
    BY <1>6 DEF Enters
  <2>2. held' # 0
    BY <2>1, NewNames DEF Names
  <2>3. QED
    BY <1>0, <2>1, <2>2, NothingLive DEF Live
<1>7. CASE Leaves \/ Rotates
  <2>1. held' = 0 /\ routes' = routes /\ socket' = 0 /\ retryTimer' = FALSE
    BY <1>7 DEF Leaves, LeavesRoom, Rotates, Closes, Teardown
  <2>2. QED
    BY <1>0, <2>1, NothingLive DEF Live
<1>8. ASSUME NEW k \in DOMAIN routes, Routes(k) \/ Skips(k) PROVE Live'
  <2>1. \A i \in DOMAIN routes' : \E j \in DOMAIN routes : routes'[i] = routes[j]
    BY <1>8, TakenOff DEF Routes, Skips
  <2>2. CASE UNCHANGED <<tvars, roomVars>>
    <3>1. UNCHANGED <<held, epoch, socket, retryTimer, state>>
      BY <2>2 DEF tvars, roomVars, linkVars, retryVars
    <3>2. \A i \in DOMAIN routes' : IsCurrent(routes[i])' => routes'[i].from = socket /\ state = "open"
      BY <2>1, <3>1 DEF IsCurrent, Live
    <3>3. QED
      BY <3>1, <3>2 DEF Live
  <2>3. CASE LeavesRoom
    <3>1. held' = 0 /\ socket' = 0 /\ retryTimer' = FALSE
      BY <2>3 DEF LeavesRoom, Closes, Teardown
    <3>2. \A i \in DOMAIN routes' : routes'[i] \in Waiting
      BY <1>0, <2>1
    <3>3. QED
      BY <3>1, <3>2, NothingLive DEF Live
  <2>4. QED
    BY <1>8, <2>2, <2>3 DEF Routes, Skips
<1>9. ASSUME NEW task \in routing, RouteEnds(task) PROVE Live'
  BY <1>9 DEF RouteEnds, tvars, roomVars, linkVars, retryVars, Live, IsCurrent
<1>10. QED
  BY <1>2, <1>3, <1>4, <1>5, <1>6, <1>7, <1>8, <1>9 DEF SessionNext

-----------------------------------------------------------------------------
(* Theorems of its own *)

\* The invariant holds in every reachable state.
THEOREM SessionInvariance == SessionSpec => []SInv
<1>1. SessionInit => Chained /\ Live
  BY FS_EmptySet DEF SessionInit, Init, Chained, Live, Names
<1>2. IInv /\ IInv' /\ Chained /\ Live /\ [SessionNext]_vars => (Chained /\ Live)'
  <2>1. Chained /\ Live /\ UNCHANGED vars => (Chained /\ Live)'
    BY DEF Chained, Live, IsCurrent, vars, tvars, svars, roomVars, linkVars, retryVars
  <2>2. QED
    BY <2>1, ChainedStep, LiveStep
<1>3. QED
  BY <1>1, <1>2, SessionUsesTransport, Invariance, PTL DEF SessionSpec, SInv

\* Every variable of the session and its connection keeps its type: in particular a
\* payload is never put on the chain without a connection to have come over.
THEOREM SessionTypeCorrect == SessionSpec => []SessionTypeOK
<1>1. SInv => SessionTypeOK
  BY DEF SInv, IInv, Chained, SessionTypeOK
<1>2. QED
  BY <1>1, SessionInvariance, PTL

\* _epoch and isCurrent: whatever a payload waits behind, it is routed only while the
\* connection it came over is up.
THEOREM OnlyWhileUp == SessionSpec => RoutedWhileUp
<1>1. SInv /\ [SessionNext]_vars =>
        [\A task \in routing' \ routing : task.from = socket /\ state = "open"]_vars
  <2> SUFFICES ASSUME SInv, SessionNext, NEW task \in routing' \ routing
               PROVE  task.from = socket /\ state = "open"
    OBVIOUS
  <2>1. PICK k \in DOMAIN routes : Routes(k)
    BY DEF SessionNext, svars, roomVars, Lost, HearsClose, HearsOpen, HearsMessage, Enters, Leaves, Rotates,
           Skips, RouteEnds
  <2>2. QED
    BY <2>1 DEF Routes, SInv, Live
<1>2. QED
  BY <1>1, SessionInvariance, PTL DEF SessionSpec, RoutedWhileUp

=============================================================================
