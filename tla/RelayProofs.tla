----------------------------- MODULE RelayProofs -----------------------------
(***************************************************************************)
(* Theorems about Relay, for every set of sockets, addresses, fingerprints *)
(* and every value of the limits, and that it implements Room.             *)
(***************************************************************************)
EXTENDS RelayRoom, TLAPS

USE ConnAssumption, BoundAssumption

\* A frame a peer sends is a frame.
LEMMA FramesTyped ==
  ASSUME NEW c \in Conn, NEW f \in Sends(c)
  PROVE  f \in Frames
BY DEF Sends

\* A frame carries what its opcode calls for.
LEMMA FrameFits ==
  ASSUME NEW f \in Frames
  PROVE  /\ f.op = "report" => f.arg \in Reports
         /\ f.op = "private" => f.arg \in Conn
BY DEF Frames

\* The initial state is well typed.
LEMMA InitTyped == Init => TypeOK
BY DEF Init, TypeOK, Stations, Kinds

\* Enqueuing a frame keeps the record of what was heard well typed.
LEMMA HearTyped ==
  ASSUME TypeOK, NEW S, NEW k \in Kinds, Hear(S, k)
  PROVE  heard' \in [Conn -> SUBSET Kinds]
BY DEF Hear, TypeOK

\* So does sending a roster to a set of sockets.
LEMMA RosterTyped ==
  ASSUME TypeOK, NEW S \in SUBSET Conn, SendRoster(S)
  PROVE  fresh' \subseteq Conn /\ shown' \in [Conn -> SUBSET Conn]
BY DEF SendRoster, TypeOK

\* Counting a failure keeps the counts and the blocks well typed.
LEMMA FailureTyped ==
  ASSUME TypeOK, NEW ip \in Ip, NoteFailure(ip)
  PROVE  failures' \in [Ip -> Nat] /\ blocked' \subseteq Ip
BY DEF NoteFailure, TypeOK

\* Every step of a handshake keeps the types.
LEMMA HandshakeTyped ==
  ASSUME TypeOK, NEW c \in Conn, Handshake(c)
  PROVE  TypeOK'
<1> USE DEF lifeVars, sockVars, abuseVars, roomVars, dataVars, chainVars, viewVars
<1>0. IpOf[c] \in Ip
  OBVIOUS
<1>1. CASE Dial(c)
  <2>1. PICK g \in 1..gen : code' = [code EXCEPT ![c] = g]
    BY <1>1 DEF Dial
  <2>2. g \in Nat
    BY DEF TypeOK
  <2>3. QED
    BY <1>1, <2>1, <2>2 DEF Dial, TypeOK
<1>2. CASE HelloBadRevision(c)
  BY <1>2 DEF HelloBadRevision, Refuse, Reject, TypeOK
<1>3. CASE HelloUnknownRoom(c)
  BY <1>3, <1>0, FailureTyped DEF HelloUnknownRoom, Refuse, Reject, TypeOK
<1>4. CASE HelloNoRoom(c)
  BY <1>4 DEF HelloNoRoom, Refuse, Reject, TypeOK
<1>5. CASE HelloAccepted(c)
  BY <1>5 DEF HelloAccepted, TypeOK
<1>6. CASE ConfirmBadMac(c)
  BY <1>6, <1>0, FailureTyped DEF ConfirmBadMac, Refuse, Reject, TypeOK
<1>7. CASE Confirm(c)
  BY <1>7, <1>0 DEF Confirm, ClaimsHost, TypeOK, Stations
<1>8. CASE HandshakeTimeout(c)
  BY <1>8 DEF HandshakeTimeout, Reject, TypeOK
<1>9. QED
  BY <1>1, <1>2, <1>3, <1>4, <1>5, <1>6, <1>7, <1>8 DEF Handshake

\* So does #admit, wherever its caller goes on.
LEMMA AdmitTyped ==
  ASSUME TypeOK, NEW c \in Conn, NEW p \in Conn, NEW next \in Stations, Admit(c, p, next)
  PROVE  /\ admitted' \subseteq Conn /\ pc' \in [Conn -> Stations]
         /\ target' \in [Conn -> Conn \cup {None}]
         /\ heard' \in [Conn -> SUBSET Kinds] /\ fresh' \subseteq Conn
<1>1. <<"seated", None>> \in Kinds /\ "join" \in Stations
  BY DEF Kinds, Stations
<1>2. CASE p \in admitted
  BY <1>2 DEF Admit, TypeOK
<1>3. CASE p \notin admitted
  BY <1>1, <1>3, HearTyped DEF Admit, TypeOK
<1>4. QED
  BY <1>2, <1>3

\* And #resolveParity, which may call it.
LEMMA ResolveTyped ==
  ASSUME TypeOK, NEW c \in Conn, NEW p \in Conn, NEW r, NEW next \in Stations,
         Resolve(c, p, r, next)
  PROVE  /\ admitted' \subseteq Conn /\ pc' \in [Conn -> Stations]
         /\ target' \in [Conn -> Conn \cup {None}]
         /\ heard' \in [Conn -> SUBSET Kinds] /\ fresh' \subseteq Conn
         /\ parity' \in [Conn -> {"pending", "ok", "waiting-host", "mismatch", "invalid"}]
<1>1. CASE hostReport # None /\ r = hostReport
  BY <1>1, AdmitTyped DEF Resolve, TypeOK
<1>2. CASE ~(hostReport # None /\ r = hostReport)
  <2>1. /\ UNCHANGED <<admitted, target, heard, fresh>>
        /\ pc' = [pc EXCEPT ![c] = next] /\ parity' = [parity EXCEPT ![p] = "mismatch"]
    BY <1>2 DEF Resolve
  <2>2. QED
    BY <2>1 DEF TypeOK
<1>3. QED
  BY <1>1, <1>2

\* An admission is under way only with a target: the chain that runs it names a
\* socket, so the frames it enqueues have an addressee.
Targeted == \A c \in Conn : pc[c] \in {"join", "roster", "history", "personas"} => target[c] \in Conn

\* Every step of an admission, and of the host's loop, keeps the types.
LEMMA AdmissionTyped ==
  ASSUME TypeOK, Targeted, NEW c \in Conn, Admission(c)
  PROVE  TypeOK'
<1> USE DEF lifeVars, sockVars, abuseVars, roomVars, dataVars, chainVars, viewVars
<1>0. /\ {"idle", "resolve", "roster", "history", "personas"} \subseteq Stations
      /\ <<"room", None>> \in Kinds /\ <<"turn", None>> \in Kinds
  BY DEF Stations, Kinds
<1>1. CASE Welcomed(c)
  BY <1>0, <1>1, AdmitTyped DEF Welcomed, TypeOK
<1>2. CASE BroadcastJoin(c)
  BY <1>0, <1>2, HearTyped DEF BroadcastJoin, Targeted, TypeOK
<1>3. CASE BroadcastRoster(c)
  BY <1>0, <1>3, HearTyped, RosterTyped DEF BroadcastRoster, Seated, TypeOK
<1>4. CASE SendHistory(c)
  <2>1. History \subseteq Nat
    BY DEF History, TypeOK
  <2>2. QED
    BY <1>0, <1>4, <2>1 DEF SendHistory, TypeOK
<1>5. CASE \E q \in Conn : SendPersona(c, q)
  <2>1. PICK q \in Conn : SendPersona(c, q)
    BY <1>5
  <2>2. target[c] \in Conn
    BY <2>1 DEF SendPersona, InPersonas, Targeted
  <2>3. QED
    BY <1>0, <2>1, <2>2 DEF SendPersona, TypeOK
<1>6. CASE AdmitDone(c)
  BY <1>0, <1>6, HearTyped DEF AdmitDone, Resume, TypeOK
<1>7. CASE ResolveNext(c)
  <2>1. PICK p \in Waiting(c) : /\ cursor' = [cursor EXCEPT ![c] = joined[p]]
                                /\ Resolve(c, p, report[p], "resolve")
    BY <1>7 DEF ResolveNext
  <2>2. p \in Conn
    BY DEF Waiting, TypeOK
  <2>3. QED
    BY <1>0, <1>7, <2>1, <2>2, ResolveTyped DEF ResolveNext, TypeOK
<1>8. CASE ResolveDone(c)
  BY <1>0, <1>8 DEF ResolveDone, TypeOK
<1>9. QED
  BY <1>1, <1>2, <1>3, <1>4, <1>5, <1>6, <1>7, <1>8 DEF Admission

\* Every frame handler keeps the types.
LEMMA HandleTyped ==
  ASSUME TypeOK, NEW c \in Conn, NEW f \in Frames, Handle(c, f)
  PROVE  TypeOK'
<1> USE DEF lifeVars, sockVars, abuseVars, roomVars, dataVars, chainVars, viewVars
<1>0. /\ {"idle", "rename", "resolve"} \subseteq Stations
      /\ <<"room", None>> \in Kinds /\ <<"turn", None>> \in Kinds
  BY DEF Stations, Kinds
<1>1. CASE HandleName(c, f)
  <2>1. Seated \in SUBSET Conn
    BY DEF Seated, TypeOK
  <2>2. CASE c \in hosts
    BY <1>0, <1>1, <2>1, <2>2, HearTyped DEF HandleName, Handled, TypeOK
  <2>3. CASE c \notin hosts
    <3>1. SendRoster(Seated) /\ Hear(Seated, <<"room", None>>) /\ pc' = [pc EXCEPT ![c] = "idle"]
      BY <1>1, <2>3 DEF HandleName
    <3>2. /\ heard' \in [Conn -> SUBSET Kinds]
          /\ fresh' \subseteq Conn /\ shown' \in [Conn -> SUBSET Conn]
      BY <1>0, <2>1, <3>1, HearTyped, RosterTyped
    <3>3. QED
      BY <1>0, <1>1, <3>1, <3>2 DEF HandleName, Handled, TypeOK
  <2>4. QED
    BY <2>2, <2>3
<1>2. CASE HandleInvalid(c, f)
  BY <1>0, <1>2 DEF HandleInvalid, HandledNow, Handled, TypeOK
<1>3. CASE HandleHostReport(c, f)
  <2>1. f.arg \in Reports
    BY <1>3, FrameFits DEF HandleHostReport
  <2>2. QED
    BY <1>0, <1>3, <2>1, AdmitTyped DEF HandleHostReport, Handled, TypeOK
<1>4. CASE HandleClientReport(c, f)
  <2>1. f.arg \in Reports
    BY <1>4, FrameFits DEF HandleClientReport
  <2>2. CASE hostReport = None
    <3>1. /\ Handled(c) /\ report' = [report EXCEPT ![c] = f.arg]
          /\ parity' = [parity EXCEPT ![c] = "waiting-host"]
          /\ pc' = [pc EXCEPT ![c] = "idle"]
          /\ UNCHANGED <<lifeVars, sockVars, abuseVars, peers, host, hosts, hostReport, joined,
                         peerCounter, dataVars, told, cursor, shown, oocSeen, joins,
                         admitted, target, heard, fresh>>
      BY <1>4, <2>2 DEF HandleClientReport
    <3>2. QED
      BY <1>0, <2>1, <3>1 DEF Handled, TypeOK
  <2>3. CASE hostReport # None
    BY <1>0, <1>4, <2>1, <2>3, ResolveTyped DEF HandleClientReport, Handled, TypeOK
  <2>4. QED
    BY <2>2, <2>3
<1>5. CASE DropLobbyFrame(c, f)
  BY <1>0, <1>5 DEF DropLobbyFrame, HandledNow, Handled, TypeOK
<1>6. CASE HandlePersona(c, f)
  BY <1>0, <1>6, HearTyped DEF HandlePersona, HandledNow, Handled, TypeOK
<1>7. CASE HandleOoc(c, f)
  BY <1>0, <1>7, HearTyped DEF HandleOoc, HandledNow, Handled, TypeOK
<1>8. CASE HandleCast(c, f)
  BY <1>0, <1>8, HearTyped DEF HandleCast, HandledNow, Handled, TypeOK
<1>9. CASE HandlePrivate(c, f)
  <2>1. <<"private", f.arg>> \in Kinds
    BY <1>9, FrameFits DEF HandlePrivate, Kinds
  <2>2. QED
    BY <1>0, <1>9, <2>1, HearTyped DEF HandlePrivate, HandledNow, Handled, TypeOK
<1>10. CASE HandleTurn(c, f)
  BY <1>0, <1>10, HearTyped DEF HandleTurn, HandledNow, Handled, TypeOK
<1>11. QED
  BY <1>1, <1>2, <1>3, <1>4, <1>5, <1>6, <1>7, <1>8, <1>9, <1>10 DEF Handle

\* Every way out of the room keeps the types.
LEMMA DepartureTyped ==
  ASSUME TypeOK, NEW c \in Conn, Departure(c)
  PROVE  TypeOK'
<1> USE DEF lifeVars, sockVars, abuseVars, roomVars, dataVars, chainVars, viewVars
<1>0. "idle" \in Stations /\ IpOf[c] \in Ip
  BY DEF Stations
<1>1. CASE DelayedClose(c)
  BY <1>1 DEF DelayedClose, TypeOK
<1>2. CASE SocketClosed(c)
  <2>1. /\ <<"room", None>> \in Kinds
        /\ Others(c) \subseteq Conn
    BY DEF Kinds, Others, Seated, TypeOK
  <2>2. peers' \subseteq Conn /\ personas' \subseteq Conn /\ host' \in Conn \cup {None}
        /\ hostReport' \in Reports \cup {None}
    BY <1>2 DEF SocketClosed, RemovePeer, TypeOK
  <2>3. heard' \in [Conn -> SUBSET Kinds]
    <3> DEFINE told_ == IF c \in Seated THEN Others(c) ELSE {}
               H == [d \in Conn |-> IF d \in told_ THEN heard[d] \cup {<<"room", None>>}
                                    ELSE heard[d]]
    <3>1. H \in [Conn -> SUBSET Kinds]
      BY <2>1 DEF TypeOK
    <3>2. heard' = Collect(c, H, {})
      BY <1>2 DEF SocketClosed
    <3> HIDE DEF H
    <3>3. QED
      BY <3>1, <3>2 DEF Collect
  <2>4. shown' \in [Conn -> SUBSET Conn]
    BY <1>2, <2>1 DEF SocketClosed, Collect, TypeOK
  <2>5. backlog' \in [Conn -> Nat]
    BY <1>2 DEF SocketClosed, TypeOK
  <2>6. QED
    BY <1>2, <2>1, <2>2, <2>3, <2>4, <2>5 DEF SocketClosed, FreshAfter, Collect, Drop, TypeOK
<1>3. CASE SweepSilent(c)
  BY <1>3 DEF SweepSilent, TypeOK
<1>4. CASE SweepLobby(c)
  BY <1>4 DEF SweepLobby, TypeOK
<1>5. CASE \E ban \in BOOLEAN : Kick(c, ban)
  BY <1>0, <1>5 DEF Kick, TypeOK
<1>6. CASE ProtocolError(c)
  BY <1>0, <1>6 DEF ProtocolError, HandledNow, Handled, TypeOK
<1>7. CASE StrayFrame(c)
  <2>1. backlog' \in [Conn -> Nat]
    BY <1>7 DEF StrayFrame, TypeOK
  <2>2. QED
    BY <1>0, <1>7, <2>1, FailureTyped DEF StrayFrame, Reject, TypeOK
<1>8. QED
  BY <1>1, <1>2, <1>3, <1>4, <1>5, <1>6, <1>7 DEF Departure

\* So do start, stop, rotation and the sweep of old blocks.
LEMMA LifecycleTyped ==
  ASSUME TypeOK, Lifecycle
  PROVE  TypeOK'
<1> USE DEF lifeVars, sockVars, abuseVars, roomVars, dataVars, chainVars, viewVars
<1>1. CASE Rotate
  BY <1>1 DEF Rotate, TypeOK
<1>2. CASE StopBegins
  BY <1>2 DEF StopBegins, TypeOK
<1>3. CASE StopEnds
  BY <1>3 DEF StopEnds, TypeOK
<1>4. CASE Start
  BY <1>4 DEF Start, TypeOK
<1>5. CASE \E ip \in Ip : SweepOffender(ip) \/ Unban(ip)
  BY <1>5 DEF SweepOffender, Unban, TypeOK
<1>6. QED
  BY <1>1, <1>2, <1>3, <1>4, <1>5 DEF Lifecycle

\* And a frame that goes to be inflated.
LEMMA InflateTyped ==
  ASSUME TypeOK, NEW c \in Conn, Inflate(c)
  PROVE  TypeOK'
<1>1. PICK f \in Sends(c) : Inflate(c) /\ frame' = [frame EXCEPT ![c] = f]
  BY DEF Inflate
<1>2. f \in Frames /\ "decode" \in Stations
  BY FramesTyped DEF Stations
<1>3. QED
  BY <1>1, <1>2 DEF Inflate, TypeOK, lifeVars, sockVars, abuseVars, roomVars, dataVars,
                    chainVars, viewVars
-----------------------------------------------------------------------------
(* The inductive invariant *)

\* With the check on, no handshake ends in an admission.
Gated == RequireParity => \A c \in Conn : pc[c] # "welcome"

\* Roles and membership are those of authenticated sockets, so a socket that
\* confirms its handshake cannot already hold the host role.
PeerStage == \A c \in peers \cup hosts : stage[c] = "peer"

\* Being admitted and having been told so are one step.
AdmittedTold == \A c \in admitted : <<"seated", None>> \in heard[c]

IInv ==
  /\ TypeOK
  /\ Targeted /\ Gated
  /\ PeerStage /\ OneHost
  /\ AdmittedTold /\ SeatedFirst /\ PrivateStaysPrivate

\* The inductive invariant holds initially.
LEMMA InitIInv == Init => IInv
<1>1. Init => TypeOK
  BY InitTyped
<1>2. Init => Targeted /\ Gated /\ PeerStage /\ OneHost /\ AdmittedTold /\ SeatedFirst /\ PrivateStaysPrivate
  BY DEF Init, Targeted, Gated, PeerStage, OneHost, AdmittedTold, SeatedFirst, PrivateStaysPrivate
<1>3. QED
  BY <1>1, <1>2 DEF IInv

\* Under it every step of the relay keeps the types.
LEMMA NextTyped == IInv /\ [Next]_vars => TypeOK'
<1> SUFFICES ASSUME IInv, [Next]_vars PROVE TypeOK'
  OBVIOUS
<1>0. TypeOK /\ Targeted
  BY DEF IInv
<1>1. CASE UNCHANGED vars
  BY <1>0, <1>1 DEF vars, lifeVars, sockVars, abuseVars, roomVars, dataVars, chainVars,
                    viewVars, TypeOK
<1>2. CASE Next
  BY <1>0, <1>2, HandshakeTyped, AdmissionTyped, InflateTyped, DepartureTyped, HandleTyped,
     LifecycleTyped DEF Next
<1>3. QED
  BY <1>1, <1>2
-----------------------------------------------------------------------------
(* The host slot *)

seatVars == <<peers, hosts, host, stage>>

\* No admission and no frame touches membership, roles or the host slot.
LEMMA SlotKept ==
  ASSUME NEW c \in Conn,
         Admission(c) \/ Inflate(c) \/ \E f \in Frames : Handle(c, f)
  PROVE  UNCHANGED seatVars
<1> USE DEF seatVars, lifeVars, sockVars, abuseVars, roomVars, dataVars, chainVars, viewVars
<1>1. CASE Admission(c)
  BY <1>1 DEF Admission, Welcomed, BroadcastJoin, BroadcastRoster, SendHistory, SendPersona,
              AdmitDone, ResolveNext, ResolveDone
<1>2. CASE Inflate(c)
  BY <1>2 DEF Inflate
<1>3. CASE \E f \in Frames : Handle(c, f)
  BY <1>3 DEF Handle, HandleName, HandleInvalid, HandleHostReport, HandleClientReport,
              DropLobbyFrame, HandlePersona, HandleOoc, HandleCast, HandlePrivate, HandleTurn
<1>4. QED
  BY <1>1, <1>2, <1>3

\* Every step keeps the roles those of authenticated sockets, and the host slot sound.
LEMMA SlotInv == IInv /\ [Next]_vars => PeerStage' /\ OneHost'
<1> SUFFICES ASSUME IInv, [Next]_vars PROVE PeerStage' /\ OneHost'
  OBVIOUS
<1> USE DEF seatVars, lifeVars, sockVars, abuseVars, roomVars, dataVars, chainVars, viewVars
<1>0. TypeOK /\ PeerStage /\ OneHost
  BY DEF IInv
<1>1. ASSUME UNCHANGED seatVars PROVE PeerStage' /\ OneHost'
  BY <1>0, <1>1 DEF PeerStage, OneHost
<1>2. ASSUME NEW c \in Conn, Handshake(c) PROVE PeerStage' /\ OneHost'
  <2>1. CASE Confirm(c)
    <3>1. c \notin peers \cup hosts /\ stage' = [stage EXCEPT ![c] = "peer"]
          /\ peers' = peers \cup {c}
      BY <1>0, <2>1 DEF Confirm, ClaimsHost, GetsConfirm, PeerStage
    <3>2. CASE c \in HostTabs /\ host = None
      BY <1>0, <2>1, <3>1, <3>2 DEF Confirm, ClaimsHost, PeerStage, OneHost, TypeOK
    <3>3. CASE ~(c \in HostTabs /\ host = None)
      BY <1>0, <2>1, <3>1, <3>3 DEF Confirm, ClaimsHost, PeerStage, OneHost, TypeOK
    <3>4. QED
      BY <3>2, <3>3
  <2>2. ASSUME stage[c] # "peer", UNCHANGED <<peers, hosts, host>>,
               NEW v, stage' = [stage EXCEPT ![c] = v]
        PROVE  PeerStage' /\ OneHost'
    BY <1>0, <2>2 DEF PeerStage, OneHost, TypeOK
  <2>3. CASE Dial(c)
    BY <2>2, <2>3 DEF Dial
  <2>4. CASE HelloBadRevision(c) \/ HelloUnknownRoom(c) \/ HelloNoRoom(c) \/ HelloAccepted(c)
             \/ ConfirmBadMac(c)
    BY <2>2, <2>4 DEF HelloBadRevision, HelloUnknownRoom, HelloNoRoom, HelloAccepted, Welcome,
                      ConfirmBadMac, GetsHello, GetsConfirm, Refuse
  <2>5. CASE HandshakeTimeout(c)
    BY <1>1, <2>5 DEF HandshakeTimeout
  <2>6. QED
    BY <1>2, <2>1, <2>3, <2>4, <2>5 DEF Handshake
<1>3. ASSUME NEW c \in Conn, Departure(c) PROVE PeerStage' /\ OneHost'
  <2>1. CASE SocketClosed(c)
    <3>1. /\ peers' = peers \ {c}
          /\ host' = IF host = c THEN None ELSE host
      BY <1>0, <2>1 DEF SocketClosed, RemovePeer, OneHost, TypeOK
    <3>2. /\ stage' = stage \/ (c \notin hosts' /\ \A d \in Conn \ {c} : stage'[d] = stage[d])
          /\ hosts' = hosts \/ hosts' = hosts \ {c}
      BY <1>0, <2>1 DEF SocketClosed, Collect, Drop, TypeOK
    <3>3. PeerStage'
      BY <1>0, <3>1, <3>2 DEF PeerStage, TypeOK
    <3>4. OneHost'
      BY <1>0, <3>1, <3>2 DEF OneHost, TypeOK
    <3>5. QED
      BY <3>3, <3>4
  <2>2. CASE DelayedClose(c) \/ SweepSilent(c) \/ SweepLobby(c) \/ (\E ban \in BOOLEAN : Kick(c, ban))
             \/ ProtocolError(c) \/ StrayFrame(c)
    BY <1>1, <2>2 DEF DelayedClose, SweepSilent, SweepLobby, Kick, ProtocolError, StrayFrame
  <2>3. QED
    BY <1>3, <2>1, <2>2 DEF Departure
<1>4. ASSUME Lifecycle PROVE PeerStage' /\ OneHost'
  <2>1. CASE Rotate
    BY <1>0, <2>1 DEF Rotate, PeerStage, OneHost
  <2>2. CASE StopEnds
    BY <1>0, <2>2 DEF StopEnds, PeerStage, OneHost
  <2>3. CASE StopBegins \/ Start \/ \E ip \in Ip : SweepOffender(ip) \/ Unban(ip)
    BY <1>1, <2>3 DEF StopBegins, Start, SweepOffender, Unban
  <2>4. QED
    BY <1>4, <2>1, <2>2, <2>3 DEF Lifecycle
<1>5. CASE UNCHANGED vars
  BY <1>1, <1>5 DEF vars
<1>6. QED
  BY <1>1, <1>2, <1>3, <1>4, <1>5, SlotKept DEF Next
-----------------------------------------------------------------------------
(* The chains: an admission has a target, a frame has its argument *)

\* A step that leaves the chains alone, or only takes one of them out of an
\* admission, keeps every admission with its target.
LEMMA TargetKept ==
  ASSUME TypeOK, Targeted, NEW c \in Conn, UNCHANGED target,
         NEW s, pc' = [pc EXCEPT ![c] = s], s \notin {"join", "roster", "history", "personas"}
  PROVE  Targeted'
BY DEF Targeted, TypeOK

\* Admit(c, p, next) sets the target together with the place in the chain.
LEMMA AdmitTargets ==
  ASSUME TypeOK, Targeted, NEW c \in Conn, NEW p \in Conn, NEW next \in {"idle", "resolve"},
         Admit(c, p, next)
  PROVE  Targeted'
<1>1. CASE p \in admitted
  BY <1>1, TargetKept DEF Admit
<1>2. CASE p \notin admitted
  BY <1>2 DEF Admit, Targeted, TypeOK
<1>3. QED
  BY <1>1, <1>2

\* So does a comparison of two reports, whichever way it ends.
LEMMA ResolveTargets ==
  ASSUME TypeOK, Targeted, NEW c \in Conn, NEW p \in Conn, NEW r, NEW next \in {"idle", "resolve"},
         Resolve(c, p, r, next)
  PROVE  Targeted'
<1>1. CASE hostReport # None /\ r = hostReport
  BY <1>1, AdmitTargets DEF Resolve
<1>2. CASE ~(hostReport # None /\ r = hostReport)
  BY <1>2, TargetKept DEF Resolve
<1>3. QED
  BY <1>1, <1>2

\* Every step of an admission, and of the host's loop, keeps Targeted.
LEMMA AdmissionTargets ==
  ASSUME TypeOK, Targeted, NEW c \in Conn, Admission(c)
  PROVE  Targeted'
<1>1. CASE Welcomed(c)
  BY <1>1, AdmitTargets DEF Welcomed
<1>2. CASE BroadcastJoin(c) \/ BroadcastRoster(c) \/ SendHistory(c) \/ \E q \in Conn : SendPersona(c, q)
  BY <1>2 DEF BroadcastJoin, BroadcastRoster, SendHistory, SendPersona, InPersonas, Targeted, TypeOK
<1>3. CASE AdmitDone(c)
  BY <1>3 DEF AdmitDone, Resume, Targeted, TypeOK
<1>4. CASE ResolveNext(c)
  <2>1. PICK p \in Waiting(c) : Resolve(c, p, report[p], "resolve")
    BY <1>4 DEF ResolveNext
  <2>2. p \in Conn
    BY DEF Waiting, TypeOK
  <2>3. QED
    BY <2>1, <2>2, ResolveTargets
<1>5. CASE ResolveDone(c)
  BY <1>5, TargetKept DEF ResolveDone
<1>6. QED
  BY <1>1, <1>2, <1>3, <1>4, <1>5 DEF Admission

\* Every handler of a frame keeps Targeted: it ends, waits for a roster, or admits.
LEMMA HandleTargets ==
  ASSUME TypeOK, Targeted, NEW c \in Conn, NEW f \in Frames, Handle(c, f)
  PROVE  Targeted'
<1>1. CASE HandleName(c, f)
  BY <1>1, TargetKept DEF HandleName
<1>2. CASE HandleHostReport(c, f)
  BY <1>2, AdmitTargets DEF HandleHostReport
<1>3. CASE HandleClientReport(c, f)
  <2>1. CASE hostReport = None
    BY <1>3, <2>1, TargetKept DEF HandleClientReport
  <2>2. CASE hostReport # None
    BY <1>3, <2>2, ResolveTargets DEF HandleClientReport
  <2>3. QED
    BY <2>1, <2>2
<1>4. CASE HandledNow(c)
  BY <1>4, TargetKept DEF HandledNow
<1>5. QED
  BY <1>1, <1>2, <1>3, <1>4 DEF Handle, HandleInvalid, DropLobbyFrame, HandlePersona, HandleOoc,
                                HandleCast, HandlePrivate, HandleTurn

\* Targeted is kept by every step of the relay.
LEMMA ChainInv == IInv /\ [Next]_vars => Targeted'
<1> SUFFICES ASSUME IInv, [Next]_vars PROVE Targeted'
  OBVIOUS
<1> USE DEF lifeVars, sockVars, abuseVars, roomVars, dataVars, chainVars, viewVars
<1>0. TypeOK /\ Targeted
  BY DEF IInv
<1>1. ASSUME UNCHANGED <<pc, target, frame>> PROVE Targeted'
  BY <1>0, <1>1 DEF Targeted
<1>2. ASSUME NEW c \in Conn, Handshake(c) PROVE Targeted'
  <2>1. CASE Confirm(c)
    BY <1>0, <2>1, TargetKept DEF Confirm, ClaimsHost
  <2>2. CASE ~Confirm(c)
    BY <1>1, <1>2, <2>2 DEF Handshake, Dial, HelloBadRevision, HelloUnknownRoom, HelloNoRoom,
       HelloAccepted, ConfirmBadMac, Refuse, HandshakeTimeout
  <2>3. QED
    BY <2>1, <2>2
<1>3. ASSUME NEW c \in Conn, Admission(c) PROVE Targeted'
  <2>1. UNCHANGED frame
    BY <1>3 DEF Admission, Welcomed, BroadcastJoin, BroadcastRoster, SendHistory, SendPersona,
                AdmitDone, ResolveNext, ResolveDone
  <2>2. QED
    BY <1>0, <1>3, <2>1, AdmissionTargets
<1>4. ASSUME NEW c \in Conn, Inflate(c) PROVE Targeted'
  <2>1. PICK f \in Sends(c) : /\ frame' = [frame EXCEPT ![c] = f]
                              /\ pc' = [pc EXCEPT ![c] = "decode"] /\ UNCHANGED target
    BY <1>4 DEF Inflate
  <2>2. QED
    BY <1>0, <2>1, TargetKept DEF TypeOK
<1>5. ASSUME NEW c \in Conn, NEW f \in Frames, Handle(c, f) PROVE Targeted'
  <2>1. Handled(c)
    BY <1>5 DEF Handle, HandleName, HandleInvalid, HandleHostReport, HandleClientReport,
                DropLobbyFrame, HandlePersona, HandleOoc, HandleCast, HandlePrivate, HandleTurn,
                HandledNow
  <2>2. QED
    BY <1>0, <1>5, HandleTargets
<1>6. ASSUME NEW c \in Conn, Departure(c) PROVE Targeted'
  <2>1. CASE ProtocolError(c)
    BY <1>0, <2>1, TargetKept DEF ProtocolError, HandledNow
  <2>2. CASE ~ProtocolError(c)
    BY <1>1, <1>6, <2>2 DEF Departure, DelayedClose, SocketClosed, SweepSilent, SweepLobby, Kick,
                            StrayFrame
  <2>3. QED
    BY <2>1, <2>2
<1>7. ASSUME Lifecycle PROVE Targeted'
  BY <1>1, <1>7 DEF Lifecycle, Rotate, StopBegins, StopEnds, Start, SweepOffender, Unban
<1>8. CASE UNCHANGED vars
  BY <1>1, <1>8 DEF vars
<1>9. QED
  BY <1>1, <1>2, <1>3, <1>4, <1>5, <1>6, <1>7, <1>8 DEF Next
-----------------------------------------------------------------------------
(* The parity gate *)

\* Only a confirmed handshake leads to "welcome", and only with the check off.
LEMMA GatedInv == IInv /\ [Next]_vars => Gated'
<1> SUFFICES ASSUME IInv, [Next]_vars, RequireParity,
                    NEW d \in Conn PROVE pc'[d] # "welcome"
  BY DEF Gated
<1> USE DEF lifeVars, sockVars, abuseVars, roomVars, dataVars, chainVars, viewVars
<1>0. TypeOK /\ \A c \in Conn : pc[c] # "welcome"
  BY DEF IInv, Gated
<1>1. ASSUME UNCHANGED pc PROVE pc'[d] # "welcome"
  BY <1>0, <1>1
<1>2. ASSUME NEW c \in Conn, NEW s, s # "welcome", pc' = [pc EXCEPT ![c] = s]
      PROVE  pc'[d] # "welcome"
  BY <1>0, <1>2 DEF TypeOK
<1>3. ASSUME NEW c \in Conn, NEW p, NEW r, NEW next \in {"idle", "resolve"},
             Admit(c, p, next) \/ Resolve(c, p, r, next)
      PROVE  pc'[d] # "welcome"
  BY <1>2, <1>3 DEF Admit, Resolve
<1>4. ASSUME NEW c \in Conn, Handshake(c) PROVE pc'[d] # "welcome"
  BY <1>1, <1>2, <1>4 DEF Handshake, Dial, HelloBadRevision, HelloUnknownRoom, HelloNoRoom,
     HelloAccepted, ConfirmBadMac, Refuse, HandshakeTimeout, Confirm
<1>5. ASSUME NEW c \in Conn, Admission(c) PROVE pc'[d] # "welcome"
  <2>1. CASE BroadcastRoster(c) \/ AdmitDone(c)
    BY <1>0, <2>1 DEF BroadcastRoster, AdmitDone, Resume, TypeOK
  <2>2. CASE BroadcastJoin(c) \/ SendHistory(c) \/ (\E q \in Conn : SendPersona(c, q))
             \/ ResolveDone(c)
    BY <1>2, <2>2 DEF BroadcastJoin, SendHistory, SendPersona, ResolveDone
  <2>3. CASE Welcomed(c) \/ ResolveNext(c)
    BY <1>3, <2>3 DEF Welcomed, ResolveNext
  <2>4. QED
    BY <1>5, <2>1, <2>2, <2>3 DEF Admission
<1>6. ASSUME NEW c \in Conn, NEW f, Handle(c, f) PROVE pc'[d] # "welcome"
  <2>1. CASE HandleName(c, f)
    BY <1>2, <2>1 DEF HandleName
  <2>2. CASE HandleHostReport(c, f)
    BY <1>3, <2>2 DEF HandleHostReport
  <2>3. CASE HandleClientReport(c, f)
    BY <1>2, <1>3, <2>3 DEF HandleClientReport
  <2>4. CASE HandledNow(c)
    BY <1>2, <2>4 DEF HandledNow
  <2>5. QED
    BY <1>6, <2>1, <2>2, <2>3, <2>4 DEF Handle, HandleInvalid, DropLobbyFrame, HandlePersona,
       HandleOoc, HandleCast, HandlePrivate, HandleTurn
<1>7. ASSUME NEW c \in Conn, Inflate(c) \/ Departure(c) PROVE pc'[d] # "welcome"
  BY <1>1, <1>2, <1>7 DEF Inflate, Departure, DelayedClose, SocketClosed, SweepSilent, SweepLobby,
     Kick, ProtocolError, HandledNow, StrayFrame
<1>8. CASE Lifecycle \/ UNCHANGED vars
  BY <1>1, <1>8 DEF Lifecycle, Rotate, StopBegins, StopEnds, Start, SweepOffender, Unban, vars
<1>9. QED
  BY <1>4, <1>5, <1>6, <1>7, <1>8 DEF Next

\* Every step that admits a client admits it on a report equal to the baseline.
LEMMA GateStep ==
  IInv /\ [Next]_vars =>
    \A c \in admitted' \ admitted :
      RequireParity /\ c \notin hosts => report'[c] # None /\ report'[c] = hostReport'
<1> SUFFICES ASSUME IInv, [Next]_vars, NEW p \in admitted' \ admitted,
                    RequireParity, p \notin hosts
             PROVE  report'[p] # None /\ report'[p] = hostReport'
  OBVIOUS
<1> USE DEF lifeVars, sockVars, abuseVars, roomVars, dataVars, chainVars, viewVars
<1>0. TypeOK /\ Gated
  BY DEF IInv
<1>1. CASE UNCHANGED admitted
  BY <1>1
<1>2. ASSUME NEW c \in Conn, Admission(c) PROVE report'[p] # None /\ report'[p] = hostReport'
  <2>1. CASE ResolveNext(c)
    BY <1>0, <2>1 DEF ResolveNext, Resolve, Admit
  <2>2. CASE ~ResolveNext(c)
    BY <1>0, <1>1, <1>2, <2>2 DEF Admission, Welcomed, Gated, BroadcastJoin, BroadcastRoster,
       SendHistory, SendPersona, AdmitDone, ResolveDone
  <2>3. QED
    BY <2>1, <2>2
<1>3. ASSUME NEW c \in Conn, NEW f, Handle(c, f)
      PROVE  report'[p] # None /\ report'[p] = hostReport'
  <2>1. CASE HandleHostReport(c, f)
    BY <2>1 DEF HandleHostReport, Admit
  <2>2. CASE HandleClientReport(c, f)
    BY <1>0, <2>2 DEF HandleClientReport, Resolve, Admit, TypeOK
  <2>3. CASE ~HandleHostReport(c, f) /\ ~HandleClientReport(c, f)
    BY <1>1, <1>3, <2>3 DEF Handle, HandleName, HandleInvalid, DropLobbyFrame, HandlePersona,
       HandleOoc, HandleCast, HandlePrivate, HandleTurn
  <2>4. QED
    BY <2>1, <2>2, <2>3
<1>4. ASSUME NEW c \in Conn, Departure(c) PROVE FALSE
  BY <1>4 DEF Departure, DelayedClose, SocketClosed, Drop, SweepSilent, SweepLobby, Kick,
     ProtocolError, StrayFrame
<1>5. CASE \/ \E c \in Conn : Handshake(c) \/ Inflate(c)
           \/ Lifecycle \/ UNCHANGED vars
  BY <1>1, <1>5 DEF Handshake, Dial, HelloBadRevision, HelloUnknownRoom, HelloNoRoom,
     HelloAccepted, ConfirmBadMac, Refuse, Confirm, HandshakeTimeout, Inflate, Lifecycle, Rotate,
     StopBegins, StopEnds, Start, SweepOffender, Unban, vars
<1>6. QED
  BY <1>2, <1>3, <1>4, <1>5 DEF Next

-----------------------------------------------------------------------------
(* What a peer has been enqueued *)

HeardOK == AdmittedTold /\ SeatedFirst /\ PrivateStaysPrivate

\* Room traffic for admitted peers, a turn for anyone and a private frame for its
\* own, admitted addressee keep the three properties.
LEMMA HearKeeps ==
  ASSUME TypeOK, HeardOK, NEW S \in SUBSET Conn, NEW k \in Kinds, Hear(S, k), UNCHANGED admitted,
         \/ k = <<"turn", None>>
         \/ k = <<"room", None>> /\ S \subseteq admitted
         \/ \E to \in Conn : k = <<"private", to>> /\ S \subseteq {to} \cap admitted
  PROVE  HeardOK'
<1> USE DEF HeardOK, Hear, TypeOK
<1>1. AdmittedTold'
  BY DEF AdmittedTold
<1>2. SeatedFirst'
  <2> SUFFICES ASSUME NEW c \in Conn, NEW m \in heard'[c], m[1] \in {"room", "private"}
               PROVE  <<"seated", None>> \in heard'[c]
    BY DEF SeatedFirst
  <2>1. CASE m \in heard[c]
    BY <2>1 DEF SeatedFirst
  <2>2. CASE m \notin heard[c]
    <3>1. m = k /\ c \in S
      BY <2>2
    <3>2. c \in admitted
      BY <3>1
    <3>3. QED
      BY <3>2 DEF AdmittedTold
  <2>3. QED
    BY <2>1, <2>2
<1>3. PrivateStaysPrivate'
  BY DEF PrivateStaysPrivate
<1>4. QED
  BY <1>1, <1>2, <1>3

\* Admitting a peer enqueues its own admission to it.
LEMMA AdmitHears ==
  ASSUME TypeOK, HeardOK, NEW c \in Conn, NEW p \in Conn, NEW next, Admit(c, p, next)
  PROVE  HeardOK'
<1>1. CASE p \in admitted
  BY <1>1 DEF Admit, HeardOK, AdmittedTold, SeatedFirst, PrivateStaysPrivate
<1>2. CASE p \notin admitted
  <2>1. admitted' = admitted \cup {p} /\ Hear({p}, <<"seated", None>>)
    BY <1>2 DEF Admit
  <2>2. AdmittedTold'
    BY <2>1 DEF AdmittedTold, HeardOK, Hear, TypeOK
  <2>3. SeatedFirst'
    BY <2>1 DEF SeatedFirst, HeardOK, Hear, TypeOK
  <2>4. PrivateStaysPrivate'
    BY <2>1 DEF PrivateStaysPrivate, HeardOK, Hear, TypeOK
  <2>5. QED
    BY <2>2, <2>3, <2>4 DEF HeardOK
<1>3. QED
  BY <1>1, <1>2

\* A resolved report either admits or changes nothing anyone hears.
LEMMA ResolveHears ==
  ASSUME TypeOK, HeardOK, NEW c \in Conn, NEW p \in Conn, NEW r, NEW next, Resolve(c, p, r, next)
  PROVE  HeardOK'
<1>1. CASE hostReport # None /\ r = hostReport
  BY <1>1, AdmitHears DEF Resolve
<1>2. CASE ~(hostReport # None /\ r = hostReport)
  BY <1>2 DEF Resolve, HeardOK, AdmittedTold, SeatedFirst, PrivateStaysPrivate
<1>3. QED
  BY <1>1, <1>2

\* The steps of an admission broadcast to seated peers only.
LEMMA AdmissionHears ==
  ASSUME TypeOK, HeardOK, NEW c \in Conn, Admission(c)
  PROVE  HeardOK'
<1> USE DEF lifeVars, sockVars, abuseVars, roomVars, dataVars, chainVars, viewVars
<1>0. /\ <<"room", None>> \in Kinds /\ <<"turn", None>> \in Kinds
      /\ Seated \subseteq admitted /\ Seated \in SUBSET Conn
      /\ Others(target[c]) \subseteq admitted /\ Others(target[c]) \in SUBSET Conn
  BY DEF Kinds, Others, Seated, TypeOK
<1>1. CASE Welcomed(c)
  BY <1>1, AdmitHears DEF Welcomed
<1>2. CASE BroadcastJoin(c)
  BY <1>0, <1>2, HearKeeps DEF BroadcastJoin
<1>3. CASE BroadcastRoster(c)
  BY <1>0, <1>3, HearKeeps DEF BroadcastRoster
<1>4. CASE AdmitDone(c)
  <2>1. CASE UNCHANGED heard
    BY <1>4, <2>1 DEF AdmitDone, HeardOK, AdmittedTold, SeatedFirst, PrivateStaysPrivate
  <2>2. CASE host # None /\ Hear({host}, <<"turn", None>>)
    <3>1. {host} \in SUBSET Conn
      BY <2>2 DEF TypeOK
    <3>2. QED
      BY <1>0, <1>4, <2>2, <3>1, HearKeeps DEF AdmitDone
  <2>3. QED
    BY <1>4, <2>1, <2>2 DEF AdmitDone
<1>5. CASE ResolveNext(c)
  <2>1. PICK p \in Waiting(c) : Resolve(c, p, report[p], "resolve")
    BY <1>5 DEF ResolveNext
  <2>2. p \in Conn
    BY DEF Waiting, TypeOK
  <2>3. QED
    BY <2>1, <2>2, ResolveHears
<1>6. CASE SendHistory(c) \/ ResolveDone(c) \/ \E q \in Conn : SendPersona(c, q)
  BY <1>6 DEF SendHistory, ResolveDone, SendPersona, HeardOK, AdmittedTold, SeatedFirst,
              PrivateStaysPrivate
<1>7. QED
  BY <1>1, <1>2, <1>3, <1>4, <1>5, <1>6 DEF Admission

\* Frames are forwarded to seated peers, to the host or to their one recipient.
LEMMA HandleHears ==
  ASSUME TypeOK, HeardOK, NEW c \in Conn, NEW f \in Frames, Handle(c, f)
  PROVE  HeardOK'
<1> USE DEF lifeVars, sockVars, abuseVars, roomVars, dataVars, chainVars, viewVars
<1>0. /\ <<"room", None>> \in Kinds /\ <<"turn", None>> \in Kinds
      /\ Seated \subseteq admitted /\ Seated \in SUBSET Conn
      /\ Others(c) \subseteq admitted /\ Others(c) \in SUBSET Conn
  BY DEF Kinds, Others, Seated, TypeOK
<1>1. CASE HandleName(c, f) \/ HandlePersona(c, f) \/ HandleOoc(c, f)
  BY <1>0, <1>1, HearKeeps DEF HandleName, HandlePersona, HandleOoc
<1>2. CASE HandleCast(c, f)
  BY <1>0, <1>2, HearKeeps DEF HandleCast
<1>3. CASE HandlePrivate(c, f)
  <2>1. f.arg \in Conn /\ <<"private", f.arg>> \in Kinds
    BY <1>3, FrameFits DEF HandlePrivate, Kinds
  <2>2. Recipients(f.arg) \subseteq {f.arg} \cap admitted /\ Recipients(f.arg) \in SUBSET Conn
    BY <2>1 DEF Recipients, Seated
  <2>3. QED
    BY <1>3, <2>1, <2>2, HearKeeps DEF HandlePrivate
<1>4. CASE HandleTurn(c, f)
  <2>1. {host} \ {None} \in SUBSET Conn
    BY DEF TypeOK
  <2>2. QED
    BY <1>0, <1>4, <2>1, HearKeeps DEF HandleTurn
<1>5. CASE HandleHostReport(c, f)
  BY <1>5, AdmitHears DEF HandleHostReport
<1>6. CASE HandleClientReport(c, f)
  <2>1. CASE hostReport = None
    BY <1>6, <2>1 DEF HandleClientReport, HeardOK, AdmittedTold, SeatedFirst, PrivateStaysPrivate
  <2>2. CASE hostReport # None
    BY <1>6, <2>2, ResolveHears DEF HandleClientReport
  <2>3. QED
    BY <2>1, <2>2
<1>7. CASE HandleInvalid(c, f) \/ DropLobbyFrame(c, f)
  BY <1>7 DEF HandleInvalid, DropLobbyFrame, HeardOK, AdmittedTold, SeatedFirst,
              PrivateStaysPrivate
<1>8. QED
  BY <1>1, <1>2, <1>3, <1>4, <1>5, <1>6, <1>7 DEF Handle

\* A closing socket tells seated peers, and its own record goes as a whole.
LEMMA ClosedHears ==
  ASSUME TypeOK, HeardOK, NEW c \in Conn, SocketClosed(c)
  PROVE  HeardOK'
<1> DEFINE S == IF c \in Seated THEN Others(c) ELSE {}
           H == [d \in Conn |-> IF d \in S THEN heard[d] \cup {<<"room", None>>} ELSE heard[d]]
<1>1. S \subseteq admitted \ {c}
  BY DEF Others, Seated
<1>2. H \in [Conn -> SUBSET Kinds]
  BY DEF TypeOK, Kinds
<1>3. heard' = Collect(c, H, {}) /\ admitted' = Drop(c, admitted)
  BY DEF SocketClosed
<1>4. \A d \in Conn \ {c} :
        /\ heard'[d] = heard[d] \/ (heard'[d] = heard[d] \cup {<<"room", None>>} /\ d \in admitted)
        /\ d \in admitted' <=> d \in admitted
  <2> SUFFICES ASSUME NEW d \in Conn \ {c}
               PROVE  /\ heard'[d] = heard[d] \/ (heard'[d] = heard[d] \cup {<<"room", None>>}
                                                  /\ d \in admitted)
                      /\ d \in admitted' <=> d \in admitted
    OBVIOUS
  <2>1. heard'[d] = H[d]
    <3> HIDE DEF H
    <3>1. QED
      BY <1>2, <1>3 DEF Collect
  <2>2. QED
    BY <1>1, <1>3, <2>1 DEF Drop
<1>5. \/ heard'[c] = heard[c] /\ (c \in admitted' <=> c \in admitted)
      \/ heard'[c] = {} /\ c \notin admitted'
  <2>1. H[c] = heard[c]
    BY <1>1
  <2> HIDE DEF H
  <2>2. QED
    BY <1>2, <1>3, <2>1 DEF Collect, Drop
<1>6. admitted' \subseteq Conn
  BY <1>3 DEF Drop, TypeOK
<1> HIDE DEF H, S
<1>7. AdmittedTold'
  BY <1>4, <1>5, <1>6 DEF AdmittedTold, HeardOK
<1>8. SeatedFirst'
  BY <1>4, <1>5 DEF SeatedFirst, AdmittedTold, HeardOK
<1>9. PrivateStaysPrivate'
  BY <1>4, <1>5 DEF PrivateStaysPrivate, HeardOK
<1>10. QED
  BY <1>7, <1>8, <1>9 DEF HeardOK

\* Every step of the relay keeps what its peers have heard in order.
LEMMA HeardInv == IInv /\ [Next]_vars => HeardOK'
<1> SUFFICES ASSUME IInv, [Next]_vars PROVE HeardOK'
  OBVIOUS
<1> USE DEF lifeVars, sockVars, abuseVars, roomVars, dataVars, chainVars, viewVars
<1>0. TypeOK /\ HeardOK
  BY DEF IInv, HeardOK
<1>1. ASSUME UNCHANGED <<admitted, heard>> PROVE HeardOK'
  BY <1>0, <1>1 DEF HeardOK, AdmittedTold, SeatedFirst, PrivateStaysPrivate
<1>2. ASSUME NEW c \in Conn, Handshake(c) \/ Inflate(c) PROVE HeardOK'
  BY <1>1, <1>2 DEF Handshake, Dial, HelloBadRevision, HelloUnknownRoom, HelloNoRoom,
     HelloAccepted, ConfirmBadMac, Refuse, Confirm, HandshakeTimeout, Inflate
<1>3. ASSUME NEW c \in Conn, Departure(c) PROVE HeardOK'
  <2>1. CASE SocketClosed(c)
    BY <1>0, <2>1, ClosedHears
  <2>2. CASE ~SocketClosed(c)
    BY <1>1, <1>3, <2>2 DEF Departure, DelayedClose, SweepSilent, SweepLobby, Kick, ProtocolError,
                            StrayFrame
  <2>3. QED
    BY <2>1, <2>2
<1>4. ASSUME Lifecycle PROVE HeardOK'
  BY <1>1, <1>4 DEF Lifecycle, Rotate, StopBegins, StopEnds, Start, SweepOffender, Unban
<1>5. CASE UNCHANGED vars
  BY <1>1, <1>5 DEF vars
<1>6. QED
  BY <1>0, <1>2, <1>3, <1>4, <1>5, AdmissionHears, HandleHears DEF Next

-----------------------------------------------------------------------------
(* Departed peers *)

Departed(c) == stage[c] = "peer" /\ c \notin peers

\* A step enqueues to a departed peer at most that it was seated: broadcasts go to
\* seated peers, turns to the host, and OneHost keeps the host among the peers.
LEMMA DepartedStep ==
  IInv /\ [Next]_vars =>
    \A c \in Conn : Departed(c) => heard'[c] \subseteq heard[c] \cup {<<"seated", None>>}
<1> SUFFICES ASSUME IInv, [Next]_vars, NEW d \in Conn, Departed(d)
             PROVE  heard'[d] \subseteq heard[d] \cup {<<"seated", None>>}
  OBVIOUS
<1> USE DEF lifeVars, sockVars, abuseVars, roomVars, dataVars, chainVars, viewVars
<1>0. /\ TypeOK
      /\ d \notin Seated /\ d # host /\ \A c \in Conn : d \notin Others(c)
  BY DEF IInv, OneHost, Departed, Seated, Others, TypeOK
<1> DEFINE Silent == heard'[d] \subseteq heard[d] \cup {<<"seated", None>>}
<1>1. ASSUME UNCHANGED heard PROVE Silent
  BY <1>1
<1>2. ASSUME NEW S, NEW k, Hear(S, k), d \notin S PROVE Silent
  BY <1>0, <1>2 DEF Hear
<1>3. ASSUME NEW c \in Conn, NEW p, NEW r, NEW next,
             Admit(c, p, next) \/ Resolve(c, p, r, next)
      PROVE  Silent
  <2>1. UNCHANGED heard \/ Hear({p}, <<"seated", None>>)
    BY <1>3 DEF Admit, Resolve
  <2>2. QED
    BY <1>0, <1>1, <2>1 DEF Hear
<1>4. ASSUME NEW c \in Conn, Admission(c) PROVE Silent
  <2>1. CASE Welcomed(c) \/ ResolveNext(c)
    BY <1>3, <2>1 DEF Welcomed, ResolveNext
  <2>2. CASE BroadcastJoin(c)
    <3>1. d \notin Others(target[c])
      BY <1>0 DEF Others
    <3>2. QED
      BY <1>2, <2>2, <3>1 DEF BroadcastJoin
  <2>3. CASE BroadcastRoster(c)
    BY <1>0, <1>2, <2>3 DEF BroadcastRoster
  <2>4. CASE AdmitDone(c)
    BY <1>0, <1>1, <1>2, <2>4 DEF AdmitDone
  <2>5. CASE SendHistory(c) \/ ResolveDone(c) \/ \E q \in Conn : SendPersona(c, q)
    BY <1>1, <2>5 DEF SendHistory, ResolveDone, SendPersona
  <2>6. QED
    BY <1>4, <2>1, <2>2, <2>3, <2>4, <2>5 DEF Admission
<1>5. ASSUME NEW c \in Conn, NEW f, Handle(c, f) PROVE Silent
  <2>1. CASE HandleName(c, f) \/ HandlePersona(c, f) \/ HandleOoc(c, f) \/ HandleCast(c, f)
    BY <1>0, <1>2, <2>1 DEF HandleName, HandlePersona, HandleOoc, HandleCast
  <2>2. CASE HandlePrivate(c, f) \/ HandleTurn(c, f)
    BY <1>0, <1>2, <2>2 DEF HandlePrivate, Recipients, HandleTurn
  <2>3. CASE HandleHostReport(c, f)
    BY <1>3, <2>3 DEF HandleHostReport
  <2>4. CASE HandleClientReport(c, f)
    BY <1>1, <1>3, <2>4 DEF HandleClientReport
  <2>5. CASE HandleInvalid(c, f) \/ DropLobbyFrame(c, f)
    BY <1>1, <2>5 DEF HandleInvalid, DropLobbyFrame
  <2>6. QED
    BY <1>5, <2>1, <2>2, <2>3, <2>4, <2>5 DEF Handle
<1>6. ASSUME NEW c \in Conn, SocketClosed(c) PROVE Silent
  <2> DEFINE S == IF c \in Seated THEN Others(c) ELSE {}
             H == [e \in Conn |-> IF e \in S THEN heard[e] \cup {<<"room", None>>} ELSE heard[e]]
  <2>1. heard' = Collect(c, H, {})
    BY <1>6 DEF SocketClosed
  <2>2. H[d] = heard[d]
    BY <1>0
  <2> HIDE DEF H
  <2>3. heard'[d] = heard[d] \/ heard'[d] = {}
    BY <2>1, <2>2 DEF Collect
  <2>4. QED
    BY <2>3
<1>7. ASSUME NEW c \in Conn, Departure(c) PROVE Silent
  BY <1>1, <1>6, <1>7 DEF Departure, DelayedClose, SweepSilent, SweepLobby, Kick, ProtocolError,
     StrayFrame
<1>8. CASE \/ \E c \in Conn : Handshake(c) \/ Inflate(c)
           \/ Lifecycle \/ UNCHANGED vars
  BY <1>1, <1>8 DEF Handshake, Dial, HelloBadRevision, HelloUnknownRoom, HelloNoRoom,
     HelloAccepted, ConfirmBadMac, Refuse, Confirm, HandshakeTimeout, Inflate, Lifecycle, Rotate,
     StopBegins, StopEnds, Start, SweepOffender, Unban, vars
<1>9. QED
  BY <1>4, <1>5, <1>7, <1>8 DEF Next

-----------------------------------------------------------------------------
(* Authentication *)

\* IInv is inductive.
LEMMA NextIInv == IInv /\ [Next]_vars => IInv'
BY NextTyped, ChainInv, GatedInv, SlotInv, HeardInv DEF IInv, HeardOK

\* Beside IInv: only an authenticated socket is admitted or has a handler waiting,
\* and a socket counts as gone only when it is closed.
Authenticated ==
  /\ \A c \in admitted : stage[c] = "peer"
  /\ \A c \in Conn : pc[c] # "idle" => stage[c] = "peer"
  /\ \A c \in Conn : stage[c] \in {"left", "closed"} => sock[c] = "closed"

RInv == IInv /\ Authenticated

\* Nothing is authenticated in the initial state.
LEMMA InitRInv == Init => RInv
<1>1. Init => Authenticated
  BY DEF Init, Authenticated
<1>2. QED
  BY <1>1, InitIInv DEF RInv

\* A handler that runs belongs to an authenticated socket.
LEMMA HandlerIsPeer ==
  ASSUME RInv, NEW c \in Conn, NEW f, Handles(c, f) \/ pc[c] # "idle"
  PROVE  stage[c] = "peer"
BY DEF RInv, IInv, PeerStage, Authenticated, Handles, Arrives

\* A step of a chain whose socket is authenticated admits authenticated sockets.
LEMMA ChainAuthenticated ==
  ASSUME RInv, NEW c \in Conn,
         Admission(c) \/ Inflate(c) \/ \E f \in Frames : Handle(c, f)
  PROVE  Authenticated'
<1> USE DEF lifeVars, sockVars, abuseVars, roomVars, dataVars, chainVars, viewVars
<1>0. TypeOK /\ PeerStage /\ Authenticated
  BY DEF RInv, IInv
<1>1. UNCHANGED <<stage, sock>>
  <2>1. CASE Admission(c)
    BY <2>1 DEF Admission, Welcomed, BroadcastJoin, BroadcastRoster, SendHistory, SendPersona,
                AdmitDone, ResolveNext, ResolveDone
  <2>2. CASE Inflate(c)
    BY <2>2 DEF Inflate
  <2>3. CASE \E f \in Frames : Handle(c, f)
    BY <2>3 DEF Handle, HandleName, HandleInvalid, HandleHostReport, HandleClientReport,
                DropLobbyFrame, HandlePersona, HandleOoc, HandleCast, HandlePrivate, HandleTurn
  <2>4. QED
    BY <2>1, <2>2, <2>3
<1>2. stage[c] = "peer" /\ \A d \in Conn \ {c} : pc'[d] = pc[d]
  <2>1. CASE Admission(c)
    <3>1. pc[c] # "idle"
      BY <2>1 DEF Admission, Welcomed, BroadcastJoin, BroadcastRoster, SendHistory, SendPersona,
                  AdmitDone, InPersonas, ResolveNext, ResolveDone
    <3>2. \E s : pc' = [pc EXCEPT ![c] = s]
      <4>1. CASE Welcomed(c)
        BY <4>1 DEF Welcomed, Admit
      <4>2. CASE ResolveNext(c)
        BY <4>2 DEF ResolveNext, Resolve, Admit
      <4>3. CASE SendHistory(c) \/ \E q \in Conn : SendPersona(c, q)
        BY <4>3 DEF SendHistory, SendPersona
      <4>4. CASE BroadcastJoin(c) \/ BroadcastRoster(c) \/ AdmitDone(c) \/ ResolveDone(c)
        BY <4>4 DEF BroadcastJoin, BroadcastRoster, AdmitDone, ResolveDone
      <4>5. QED
        BY <2>1, <4>1, <4>2, <4>3, <4>4 DEF Admission
    <3>3. QED
      BY <1>0, <3>1, <3>2, HandlerIsPeer DEF TypeOK
  <2>2. CASE Inflate(c)
    BY <1>0, <2>2 DEF Inflate, Arrives, PeerStage, TypeOK
  <2>3. CASE \E f \in Frames : Handle(c, f)
    <3>1. PICK f \in Frames : Handle(c, f)
      BY <2>3
    <3>2. Handles(c, f)
      BY <3>1 DEF Handle, HandleName, HandleInvalid, HandleHostReport, HandleClientReport,
         DropLobbyFrame, HandlePersona, HandleOoc, HandleCast, HandlePrivate, HandleTurn
    <3>3. \E s : pc' = [pc EXCEPT ![c] = s]
      <4>1. CASE HandleName(c, f)
        BY <4>1 DEF HandleName
      <4>2. CASE HandleHostReport(c, f)
        BY <4>2 DEF HandleHostReport, Admit
      <4>3. CASE HandleClientReport(c, f)
        BY <4>3 DEF HandleClientReport, Resolve, Admit
      <4>4. CASE HandledNow(c)
        BY <4>4 DEF HandledNow
      <4>5. QED
        BY <3>1, <4>1, <4>2, <4>3, <4>4 DEF Handle, HandleInvalid, DropLobbyFrame, HandlePersona,
           HandleOoc, HandleCast, HandlePrivate, HandleTurn
    <3>4. QED
      BY <1>0, <3>2, <3>3, HandlerIsPeer DEF TypeOK
  <2>4. QED
    BY <2>1, <2>2, <2>3
<1>3. admitted' \subseteq admitted \cup peers \cup {c}
  <2>1. CASE Admission(c)
    BY <2>1 DEF Admission, Welcomed, BroadcastJoin, BroadcastRoster, SendHistory, SendPersona,
                AdmitDone, ResolveNext, ResolveDone, Waiting, Resolve, Admit
  <2>2. CASE Inflate(c)
    BY <2>2 DEF Inflate
  <2>3. CASE \E f \in Frames : Handle(c, f)
    BY <2>3 DEF Handle, HandleName, HandleInvalid, HandleHostReport, HandleClientReport,
                DropLobbyFrame, HandlePersona, HandleOoc, HandleCast, HandlePrivate, HandleTurn,
                Resolve, Admit
  <2>4. QED
    BY <2>1, <2>2, <2>3
<1>4. QED
  BY <1>0, <1>1, <1>2, <1>3 DEF Authenticated, PeerStage

\* Every step of the relay keeps Authenticated.
LEMMA NextRInv == RInv /\ [Next]_vars => RInv'
<1> SUFFICES ASSUME RInv, [Next]_vars PROVE Authenticated'
  BY NextIInv DEF RInv
<1> USE DEF lifeVars, sockVars, abuseVars, roomVars, dataVars, chainVars, viewVars
<1>0. TypeOK /\ PeerStage /\ Authenticated
  BY DEF RInv, IInv
<1>1. ASSUME UNCHANGED <<admitted, stage, pc>>,
             \A d \in Conn : sock[d] = "closed" => sock'[d] = "closed"
      PROVE  Authenticated'
  BY <1>0, <1>1 DEF Authenticated
<1>2. ASSUME NEW c \in Conn, Handshake(c) PROVE Authenticated'
  <2>1. CASE Confirm(c)
    BY <1>0, <2>1 DEF Confirm, ClaimsHost, Authenticated, TypeOK
  <2>2. CASE Dial(c)
    BY <1>0, <2>2 DEF Dial, Authenticated, TypeOK
  <2>3. CASE HandshakeTimeout(c)
    BY <1>1, <2>3 DEF HandshakeTimeout
  <2>4. ASSUME stage[c] \in {"hello", "confirm"}, UNCHANGED <<sock, admitted, pc>>,
               NEW s \in {"confirm", "refused"}, stage' = [stage EXCEPT ![c] = s], Idle(c)
        PROVE  Authenticated'
    BY <1>0, <2>4 DEF Authenticated, Idle, TypeOK
  <2>5. CASE HelloBadRevision(c) \/ HelloUnknownRoom(c) \/ HelloNoRoom(c) \/ HelloAccepted(c)
             \/ ConfirmBadMac(c)
    BY <2>4, <2>5 DEF HelloBadRevision, HelloUnknownRoom, HelloNoRoom, HelloAccepted,
       ConfirmBadMac, Refuse, Welcome, GetsHello, GetsConfirm
  <2>6. QED
    BY <1>2, <2>1, <2>2, <2>3, <2>5 DEF Handshake
<1>3. ASSUME NEW c \in Conn, Departure(c) PROVE Authenticated'
  <2>1. CASE SocketClosed(c)
    <3>1. /\ \A d \in Conn \ {c} : stage'[d] = stage[d] /\ sock'[d] = sock[d]
          /\ UNCHANGED pc /\ sock'[c] = "closed" /\ admitted' \subseteq admitted
      BY <1>0, <2>1 DEF SocketClosed, Collect, Drop, TypeOK
    <3>2. CASE Collectable(c)
      <4>1. c \notin admitted' /\ pc[c] = "idle"
        BY <2>1, <3>2 DEF SocketClosed, Drop, Collectable, Idle
      <4>2. QED
        BY <1>0, <3>1, <4>1 DEF Authenticated, TypeOK
    <3>3. CASE ~Collectable(c)
      BY <1>0, <2>1, <3>1, <3>3 DEF SocketClosed, Collect, Authenticated
    <3>4. QED
      BY <3>2, <3>3
  <2>2. CASE ProtocolError(c)
    <3>1. pc' = [pc EXCEPT ![c] = "idle"] /\ UNCHANGED <<stage, admitted>>
          /\ sock' = [sock EXCEPT ![c] = IF @ = "open" THEN "closing" ELSE @]
      BY <2>2 DEF ProtocolError, HandledNow
    <3>2. QED
      BY <1>0, <3>1 DEF Authenticated, TypeOK
  <2>3. CASE DelayedClose(c) \/ SweepSilent(c) \/ SweepLobby(c)
             \/ (\E ban \in BOOLEAN : Kick(c, ban)) \/ StrayFrame(c)
    BY <1>0, <1>1, <2>3 DEF DelayedClose, SweepSilent, SweepLobby, Kick, StrayFrame, TypeOK
  <2>4. QED
    BY <1>3, <2>1, <2>2, <2>3 DEF Departure
<1>4. CASE Lifecycle
  BY <1>0, <1>1, <1>4 DEF Lifecycle, Rotate, StopBegins, StopEnds, Start, SweepOffender, Unban,
                          Live, TypeOK
<1>5. CASE UNCHANGED vars
  BY <1>1, <1>5 DEF vars
<1>6. QED
  BY <1>2, <1>3, <1>4, <1>5, ChainAuthenticated DEF Next

-----------------------------------------------------------------------------
(* What the steps of a chain have in common *)

\* A handler that is dispatched was idle or had its frame inflated, and either
\* admits its own socket or ends without touching a seat.
LEMMA HandleEnds ==
  ASSUME NEW c \in Conn, NEW f \in Frames, Handle(c, f)
  PROVE  /\ pc[c] \in {"idle", "decode"}
         /\ UNCHANGED <<peers, stage, joined, peerCounter, joins, told>>
         /\ \/ \E next \in {"idle", "resolve"} : Admit(c, c, next)
            \/ /\ UNCHANGED <<admitted, target>>
               /\ \E s \in {"idle", "rename", "resolve"} : pc' = [pc EXCEPT ![c] = s]
<1> USE DEF lifeVars, sockVars, abuseVars, roomVars, dataVars, chainVars, viewVars
<1>1. pc[c] \in {"idle", "decode"}
  BY DEF Handle, HandleName, HandleInvalid, HandleHostReport, HandleClientReport, DropLobbyFrame,
     HandlePersona, HandleOoc, HandleCast, HandlePrivate, HandleTurn, Handles, Arrives, Idle
<1>2. CASE HandleName(c, f)
  BY <1>1, <1>2 DEF HandleName
<1>3. CASE HandleHostReport(c, f)
  BY <1>1, <1>3 DEF HandleHostReport
<1>4. CASE HandleClientReport(c, f)
  BY <1>1, <1>4 DEF HandleClientReport, Resolve
<1>5. CASE HandledNow(c) /\ ~HandleName(c, f) /\ ~HandleHostReport(c, f) /\ ~HandleClientReport(c, f)
  BY <1>1, <1>5 DEF Handle, HandledNow, HandleInvalid, DropLobbyFrame, HandlePersona, HandleOoc,
     HandleCast, HandlePrivate, HandleTurn
<1>6. QED
  BY <1>2, <1>3, <1>4, <1>5 DEF Handle, HandleInvalid, DropLobbyFrame, HandlePersona, HandleOoc,
     HandleCast, HandlePrivate, HandleTurn

\* Handshakes, inflating and what closes sockets leave every admission where it is.
Aside(c) == Handshake(c) \/ Inflate(c) \/ (Departure(c) /\ ~SocketClosed(c))

LEMMA AsideKeeps ==
  ASSUME NEW c \in Conn, Aside(c)
  PROVE  /\ UNCHANGED <<admitted, hostReport, parity, report, personas, ooc, target, told, cursor,
                        viewVars>>
         /\ \/ UNCHANGED pc
            \/ /\ pc[c] \in {"idle", "decode"}
               /\ \E s \in {"idle", "welcome", "decode"} : pc' = [pc EXCEPT ![c] = s]
<1> USE DEF lifeVars, sockVars, abuseVars, roomVars, dataVars, chainVars, viewVars
<1>1. CASE Handshake(c)
  <2>1. CASE Confirm(c)
    BY <2>1 DEF Confirm, ClaimsHost, GetsConfirm, Idle
  <2>2. CASE ~Confirm(c)
    BY <1>1, <2>2 DEF Handshake, Dial, HelloBadRevision, HelloUnknownRoom, HelloNoRoom,
       HelloAccepted, ConfirmBadMac, Refuse, HandshakeTimeout
  <2>3. QED
    BY <2>1, <2>2
<1>2. CASE Inflate(c)
  BY <1>2 DEF Inflate, Arrives, Idle
<1>3. CASE Departure(c) /\ ~SocketClosed(c)
  <2>1. CASE ProtocolError(c)
    BY <2>1 DEF ProtocolError, HandledNow, Idle
  <2>2. CASE ~ProtocolError(c)
    BY <1>3, <2>2 DEF Departure, DelayedClose, SweepSilent, SweepLobby, Kick, StrayFrame
  <2>3. QED
    BY <2>1, <2>2
<1>4. QED
  BY <1>1, <1>2, <1>3 DEF Aside

\* They change membership only by confirming a handshake.
LEMMA AsideSeats ==
  ASSUME NEW c \in Conn, Aside(c)
  PROVE  \/ UNCHANGED <<peers, joined, peerCounter>>
         \/ /\ stage[c] = "confirm" /\ peers' = peers \cup {c}
            /\ peerCounter' = peerCounter + 1
            /\ joined' = [joined EXCEPT ![c] = peerCounter + 1]
<1> USE DEF lifeVars, sockVars, abuseVars, roomVars, dataVars, chainVars, viewVars
<1>1. CASE Confirm(c)
  BY <1>1 DEF Confirm, GetsConfirm
<1>2. CASE ~Confirm(c)
  BY <1>2 DEF Aside, Handshake, Dial, HelloBadRevision, HelloUnknownRoom, HelloNoRoom,
     HelloAccepted, ConfirmBadMac, Refuse, HandshakeTimeout, Inflate, Departure, DelayedClose,
     SweepSilent, SweepLobby, Kick, StrayFrame, ProtocolError
<1>3. QED
  BY <1>1, <1>2

\* Starting, stopping and rotating leave the chains alone and make nobody a peer.
LEMMA LifecycleKeeps ==
  ASSUME Lifecycle
  PROVE  /\ UNCHANGED <<admitted, stage, parity, report, joined, peerCounter, chainVars, viewVars>>
         /\ \/ UNCHANGED <<peers, hostReport, personas, ooc>>
            \/ peers' = {} /\ hostReport' = None /\ personas' \subseteq personas
BY DEF Lifecycle, Rotate, StopBegins, StopEnds, Start, SweepOffender, Unban,
   lifeVars, sockVars, abuseVars, roomVars, dataVars, chainVars, viewVars

\* Every step is one of these.
LEMMA StepKinds ==
  ASSUME [Next]_vars
  PROVE  \/ \E c \in Conn : \/ Aside(c) \/ Admission(c) \/ SocketClosed(c)
                            \/ \E f \in Frames : Handle(c, f)
         \/ Lifecycle \/ UNCHANGED vars
BY DEF Next, Aside

-----------------------------------------------------------------------------
(* Announcing each newcomer once *)

\* Chain d has seated p and not announced it yet.
JoinDue(d, p) == pc[d] = "join" /\ target[d] = p

\* An admission that is to be announced is the only one of its peer.
JoinsDue ==
  /\ \A p \in Conn : joins[p] <= 1 /\ (p \notin admitted => joins[p] = 0)
  /\ \A d, p \in Conn : JoinDue(d, p) => p \in admitted /\ joins[p] = 0
  /\ \A d, e, p \in Conn : JoinDue(d, p) /\ JoinDue(e, p) => d = e

\* A chain that starts no admission adds nothing to announce.
LEMMA JoinsKept ==
  ASSUME TypeOK, JoinsDue, NEW c \in Conn, NEW s, s # "join", pc' = [pc EXCEPT ![c] = s],
         UNCHANGED <<joins, admitted>>, \A d \in Conn \ {c} : target'[d] = target[d]
  PROVE  JoinsDue'
BY DEF JoinsDue, JoinDue, TypeOK

\* Seating makes the first announcement due.
LEMMA AdmitJoins ==
  ASSUME TypeOK, JoinsDue, NEW c \in Conn, NEW p \in Conn, NEW next \in {"idle", "resolve"},
         Admit(c, p, next), UNCHANGED joins
  PROVE  JoinsDue'
<1>1. CASE p \in admitted
  BY <1>1, JoinsKept DEF Admit
<1>2. CASE p \notin admitted
  BY <1>2 DEF Admit, JoinsDue, JoinDue, TypeOK
<1>3. QED
  BY <1>1, <1>2

LEMMA AdmissionJoins ==
  ASSUME TypeOK, Targeted, JoinsDue, NEW c \in Conn, Admission(c)
  PROVE  JoinsDue'
<1> USE DEF lifeVars, sockVars, abuseVars, roomVars, dataVars, chainVars, viewVars
<1>1. CASE Welcomed(c)
  BY <1>1, AdmitJoins DEF Welcomed
<1>2. CASE BroadcastJoin(c)
  <2>1. target[c] \in Conn /\ JoinDue(c, target[c])
    BY <1>2 DEF BroadcastJoin, Targeted, JoinDue
  <2>2. /\ joins' = [joins EXCEPT ![target[c]] = @ + 1] /\ pc' = [pc EXCEPT ![c] = "roster"]
        /\ UNCHANGED <<admitted, target>>
    BY <1>2 DEF BroadcastJoin
  <2>3. joins[target[c]] = 0 /\ target[c] \in admitted
    BY <2>1 DEF JoinsDue
  <2>4. \A d, p \in Conn : JoinDue(d, p)' => d # c /\ JoinDue(d, p) /\ p # target[c]
    BY <2>1, <2>2 DEF JoinsDue, JoinDue, TypeOK
  <2>5. QED
    BY <2>1, <2>2, <2>3, <2>4 DEF JoinsDue, TypeOK
<1>3. CASE BroadcastRoster(c) \/ SendHistory(c) \/ \E q \in Conn : SendPersona(c, q)
  BY <1>3, JoinsKept DEF BroadcastRoster, SendHistory, SendPersona
<1>4. CASE AdmitDone(c)
  <2>1. /\ pc' = [pc EXCEPT ![c] = Resume(c)] /\ UNCHANGED <<joins, admitted>>
        /\ \A d \in Conn \ {c} : target'[d] = target[d]
    BY <1>4 DEF AdmitDone, TypeOK
  <2>2. Resume(c) # "join"
    BY DEF Resume
  <2>3. QED
    BY <2>1, <2>2, JoinsKept
<1>5. CASE ResolveNext(c)
  <2>1. PICK p \in Waiting(c) : Resolve(c, p, report[p], "resolve")
    BY <1>5 DEF ResolveNext
  <2>2. p \in Conn /\ UNCHANGED joins
    BY <1>5 DEF Waiting, ResolveNext, TypeOK
  <2>3. QED
    BY <2>1, <2>2, AdmitJoins, JoinsKept DEF Resolve
<1>6. CASE ResolveDone(c)
  BY <1>6, JoinsKept DEF ResolveDone
<1>7. QED
  BY <1>1, <1>2, <1>3, <1>4, <1>5, <1>6 DEF Admission

\* A socket that closes takes its count along, unless an admission of it goes on.
LEMMA ClosedJoins ==
  ASSUME TypeOK, JoinsDue, NEW c \in Conn, SocketClosed(c)
  PROVE  JoinsDue'
<1>1. /\ UNCHANGED <<pc, target>>
      /\ joins' = Collect(c, joins, 0) /\ admitted' = Drop(c, admitted)
  BY DEF SocketClosed, chainVars
<1>2. CASE Collectable(c)
  <2>1. \A d \in Conn : target[d] # c
    BY <1>2 DEF Collectable
  <2>2. joins' = [joins EXCEPT ![c] = 0] /\ admitted' = admitted \ {c}
    BY <1>1, <1>2 DEF Collect, Drop
  <2>3. QED
    BY <1>1, <2>1, <2>2 DEF JoinsDue, JoinDue, TypeOK
<1>3. CASE ~Collectable(c)
  BY <1>1, <1>3 DEF Collect, Drop, JoinsDue, JoinDue
<1>4. QED
  BY <1>2, <1>3

\* Every step of the relay keeps JoinsDue.
LEMMA JoinsStep == IInv /\ JoinsDue /\ [Next]_vars => JoinsDue'
<1> SUFFICES ASSUME IInv, JoinsDue, [Next]_vars PROVE JoinsDue'
  OBVIOUS
<1>0. TypeOK /\ Targeted
  BY DEF IInv
<1>1. ASSUME UNCHANGED <<joins, admitted, pc, target>> PROVE JoinsDue'
  BY <1>1 DEF JoinsDue, JoinDue
<1>2. ASSUME NEW c \in Conn, Aside(c) PROVE JoinsDue'
  BY <1>0, <1>1, <1>2, AsideKeeps, JoinsKept DEF viewVars
<1>3. ASSUME NEW c \in Conn, NEW f \in Frames, Handle(c, f) PROVE JoinsDue'
  BY <1>0, <1>3, HandleEnds, AdmitJoins, JoinsKept
<1>4. CASE Lifecycle \/ UNCHANGED vars
  BY <1>1, <1>4, LifecycleKeeps DEF vars, roomVars, chainVars, viewVars
<1>5. QED
  BY <1>0, <1>2, <1>3, <1>4, StepKinds, AdmissionJoins, ClosedJoins

-----------------------------------------------------------------------------
(* Rosters *)

\* Somebody holds an older roster only while a chain is about to send the next.
RosterDue == Seated \subseteq fresh \/ \E d \in Conn : pc[d] \in {"join", "roster", "rename"}

\* A chain that was not about to send one does not break that.
LEMMA RosterKept ==
  ASSUME TypeOK, RosterDue, NEW c \in Conn, pc[c] \notin {"join", "roster", "rename"},
         NEW s, pc' = [pc EXCEPT ![c] = s], Seated' \subseteq Seated, fresh' = fresh
  PROVE  RosterDue'
<1>1. CASE Seated \subseteq fresh
  BY <1>1 DEF RosterDue
<1>2. CASE \E d \in Conn : pc[d] \in {"join", "roster", "rename"}
  BY <1>2 DEF RosterDue, TypeOK
<1>3. QED
  BY <1>1, <1>2 DEF RosterDue

LEMMA AdmitRoster ==
  ASSUME TypeOK, RosterDue, NEW c \in Conn, pc[c] \notin {"join", "roster", "rename"},
         NEW p \in Conn, NEW next, Admit(c, p, next), UNCHANGED peers
  PROVE  RosterDue'
<1>1. CASE p \in admitted
  <2>1. UNCHANGED <<Seated, fresh>> /\ pc' = [pc EXCEPT ![c] = next]
    BY <1>1 DEF Admit, Seated
  <2>2. QED
    BY <2>1, RosterKept
<1>2. CASE p \notin admitted
  BY <1>2 DEF Admit, RosterDue, TypeOK
<1>3. QED
  BY <1>1, <1>2

LEMMA AdmissionRoster ==
  ASSUME TypeOK, RosterDue, NEW c \in Conn, Admission(c)
  PROVE  RosterDue'
<1> USE DEF lifeVars, sockVars, abuseVars, roomVars, dataVars, chainVars, viewVars
<1>1. CASE Welcomed(c)
  BY <1>1, AdmitRoster DEF Welcomed
<1>2. CASE BroadcastJoin(c)
  BY <1>2 DEF BroadcastJoin, RosterDue, TypeOK
<1>3. CASE BroadcastRoster(c)
  BY <1>3 DEF BroadcastRoster, SendRoster, RosterDue, Seated
<1>4. CASE SendHistory(c) \/ AdmitDone(c) \/ ResolveDone(c) \/ \E q \in Conn : SendPersona(c, q)
  <2>1. /\ pc[c] \notin {"join", "roster", "rename"} /\ UNCHANGED <<Seated, fresh>>
        /\ \E s : pc' = [pc EXCEPT ![c] = s]
    BY <1>4 DEF SendHistory, AdmitDone, ResolveDone, SendPersona, InPersonas, Seated
  <2>2. QED
    BY <2>1, RosterKept
<1>5. CASE ResolveNext(c)
  <2>1. PICK p \in Waiting(c) : Resolve(c, p, report[p], "resolve")
    BY <1>5 DEF ResolveNext
  <2>2. p \in Conn /\ pc[c] = "resolve" /\ UNCHANGED peers
    BY <1>5 DEF Waiting, ResolveNext, TypeOK
  <2>3. CASE Admit(c, p, "resolve")
    BY <2>2, <2>3, AdmitRoster
  <2>4. CASE UNCHANGED <<admitted, fresh>> /\ pc' = [pc EXCEPT ![c] = "resolve"]
    BY <2>2, <2>4, RosterKept DEF Seated
  <2>5. QED
    BY <2>1, <2>3, <2>4 DEF Resolve
<1>6. QED
  BY <1>1, <1>2, <1>3, <1>4, <1>5 DEF Admission

LEMMA HandleRoster ==
  ASSUME TypeOK, RosterDue, NEW c \in Conn, NEW f \in Frames, Handle(c, f)
  PROVE  RosterDue'
<1> USE DEF lifeVars, sockVars, abuseVars, roomVars, dataVars, chainVars, viewVars
<1>0. pc[c] \notin {"join", "roster", "rename"} /\ UNCHANGED peers
  BY HandleEnds
<1>1. CASE HandleName(c, f)
  <2>1. CASE c \in hosts
    BY <1>1, <2>1 DEF HandleName, RosterDue, TypeOK
  <2>2. CASE c \notin hosts
    BY <1>1, <2>2 DEF HandleName, SendRoster, RosterDue, Seated
  <2>3. QED
    BY <2>1, <2>2
<1>2. CASE HandleHostReport(c, f)
  BY <1>0, <1>2, AdmitRoster DEF HandleHostReport
<1>3. CASE HandleClientReport(c, f)
  <2>1. CASE Admit(c, c, "idle")
    BY <1>0, <2>1, AdmitRoster
  <2>2. CASE UNCHANGED <<admitted, fresh>> /\ pc' = [pc EXCEPT ![c] = "idle"]
    BY <1>0, <2>2, RosterKept DEF Seated
  <2>3. QED
    BY <1>3, <2>1, <2>2 DEF HandleClientReport, Resolve
<1>4. CASE HandledNow(c) /\ UNCHANGED <<admitted, fresh>>
  BY <1>0, <1>4, RosterKept DEF HandledNow, Seated
<1>5. QED
  BY <1>1, <1>2, <1>3, <1>4 DEF Handle, HandleInvalid, DropLobbyFrame, HandlePersona, HandleOoc,
     HandleCast, HandlePrivate, HandleTurn

\* The departure of a seated peer sends the roster of those who stay.
LEMMA ClosedRoster ==
  ASSUME TypeOK, RosterDue, NEW c \in Conn, SocketClosed(c)
  PROVE  RosterDue'
<1>1. /\ UNCHANGED pc /\ fresh' = FreshAfter(c)
      /\ peers' = peers \ {c} /\ admitted' = Drop(c, admitted)
  BY DEF SocketClosed, RemovePeer, chainVars
<1>2. Seated' = Others(c)
  BY <1>1 DEF Seated, Others, Drop
<1>3. QED
  BY <1>1, <1>2 DEF RosterDue, FreshAfter, Others

\* Every step of the relay keeps RosterDue.
LEMMA RosterStep == RInv /\ RosterDue /\ [Next]_vars => RosterDue'
<1> SUFFICES ASSUME RInv, RosterDue, [Next]_vars PROVE RosterDue'
  OBVIOUS
<1>0. TypeOK /\ Authenticated
  BY DEF RInv, IInv
<1>1. ASSUME UNCHANGED <<fresh, pc>>, Seated' \subseteq Seated PROVE RosterDue'
  BY <1>1 DEF RosterDue
<1>2. ASSUME NEW c \in Conn, Aside(c) PROVE RosterDue'
  <2>1. Seated' = Seated /\ fresh' = fresh
    BY <1>0, <1>2, AsideKeeps, AsideSeats DEF Authenticated, Seated, viewVars
  <2>2. QED
    BY <1>0, <1>1, <1>2, <2>1, AsideKeeps, RosterKept
<1>3. CASE Lifecycle \/ UNCHANGED vars
  BY <1>1, <1>3, LifecycleKeeps DEF vars, roomVars, chainVars, viewVars, Seated
<1>4. QED
  BY <1>0, <1>2, <1>3, StepKinds, AdmissionRoster, HandleRoster, ClosedRoster
-----------------------------------------------------------------------------
(* The host's loop over those who wait *)

Early == {"new", "hello", "confirm"}

InAdmission == {"join", "roster", "history", "personas"}

\* A position in the loop belongs to a chain that is in it, or in an admission it
\* awaits.
CursorInChain == \A d \in Conn : cursor[d] # None => pc[d] \in InAdmission \cup {"resolve"}

\* The order the loop follows: every peer has a number of its own.
Numbered ==
  /\ \A p \in peers : joined[p] \in 1..peerCounter
  /\ \A p, q \in peers : joined[p] = joined[q] => p = q

\* A socket has reported nothing before it is a peer.
Unreported == \A p \in Conn : stage[p] \in Early => parity[p] = "pending"

\* Chain d is in its loop and comes by peer p.
Walks(d, p) == cursor[d] # None /\ joined[p] > cursor[d]

\* With a baseline, whoever waits for one lies ahead of some loop.
NoneSkipped ==
  hostReport # None => \A p \in peers : parity[p] = "waiting-host" => \E d \in Conn : Walks(d, p)

LoopCovers == CursorInChain /\ Numbered /\ Unreported /\ NoneSkipped

\* No step takes a socket back into a handshake.
LEMMA StagesGoOn ==
  ASSUME TypeOK, [Next]_vars, NEW p \in Conn, stage'[p] \in Early
  PROVE  stage[p] \in Early
<1> USE DEF lifeVars, sockVars, abuseVars, roomVars, dataVars, chainVars, viewVars
<1>1. CASE \E c \in Conn : Handshake(c)
  <2>1. PICK c \in Conn : Handshake(c)
    BY <1>1
  <2>2. CASE UNCHANGED stage
    BY <2>2
  <2>3. CASE stage[c] \in Early /\ \E s : stage' = [stage EXCEPT ![c] = s]
    BY <2>3 DEF TypeOK
  <2>4. QED
    BY <2>1, <2>2, <2>3 DEF Early, Handshake, Dial, HelloBadRevision, HelloUnknownRoom, HelloNoRoom,
       HelloAccepted, ConfirmBadMac, Confirm, Refuse, HandshakeTimeout, Welcome, GetsHello, GetsConfirm
<1>2. CASE \E c \in Conn : SocketClosed(c)
  BY <1>2 DEF SocketClosed, Collect, Early, TypeOK
<1>3. CASE \E c \in Conn : Departure(c) /\ ~SocketClosed(c)
  BY <1>3 DEF Departure, DelayedClose, SweepSilent, SweepLobby, Kick, StrayFrame, ProtocolError
<1>4. CASE \E c \in Conn : Admission(c)
  BY <1>4 DEF Admission, Welcomed, BroadcastJoin, BroadcastRoster, SendHistory, SendPersona,
     AdmitDone, ResolveNext, ResolveDone
<1>5. CASE \E c \in Conn : Inflate(c)
  BY <1>5 DEF Inflate
<1>6. CASE \E c \in Conn, f \in Frames : Handle(c, f)
  BY <1>6, HandleEnds
<1>7. CASE Lifecycle \/ UNCHANGED vars
  BY <1>7, LifecycleKeeps DEF vars
<1>8. QED
  BY <1>1, <1>2, <1>3, <1>4, <1>5, <1>6, <1>7 DEF Next

\* While no chain leaves the loop, no number changes and nobody starts to wait,
\* nobody is skipped.
LEMMA LoopKept ==
  ASSUME LoopCovers, UNCHANGED <<cursor, joined, peers, peerCounter, hostReport>>,
         \A p \in Conn : stage'[p] \in Early => stage[p] \in Early,
         \A p \in Conn : parity'[p] # parity[p] =>
            stage[p] \notin Early /\ (parity'[p] = "waiting-host" => hostReport = None),
         \A d \in Conn : cursor[d] # None => pc'[d] \in InAdmission \cup {"resolve"},
         peers \subseteq Conn
  PROVE  LoopCovers'
BY DEF LoopCovers, CursorInChain, Numbered, Unreported, NoneSkipped, Walks

\* Seating leaves the chain that does it in the admission or where it was to go on.
LEMMA AdmitEnds ==
  ASSUME TypeOK, NEW c \in Conn, NEW p, NEW next, Admit(c, p, next)
  PROVE  \E s \in {next, "join"} : pc' = [pc EXCEPT ![c] = s]
BY DEF Admit

\* A peer that confirms has the highest number and waits for nothing.
LEMMA AsideLoop ==
  ASSUME RInv, LoopCovers, NEW c \in Conn, Aside(c),
         \A p \in Conn : stage'[p] \in Early => stage[p] \in Early
  PROVE  LoopCovers'
<1>0. TypeOK /\ PeerStage
  BY DEF RInv, IInv
<1>1. UNCHANGED <<parity, cursor, hostReport>>
  BY AsideKeeps
<1>2. \A d \in Conn : cursor[d] # None => pc'[d] \in InAdmission \cup {"resolve"}
  BY <1>0, AsideKeeps DEF LoopCovers, CursorInChain, InAdmission, TypeOK
<1>3. CASE UNCHANGED <<peers, joined, peerCounter>>
  BY <1>0, <1>1, <1>2, <1>3, LoopKept DEF TypeOK
<1>4. CASE /\ stage[c] = "confirm" /\ peers' = peers \cup {c}
           /\ peerCounter' = peerCounter + 1
           /\ joined' = [joined EXCEPT ![c] = peerCounter + 1]
  <2>1. c \notin peers /\ parity[c] = "pending" /\ peers \subseteq Conn
    BY <1>0, <1>4 DEF PeerStage, LoopCovers, Unreported, Early, TypeOK
  <2>2. Numbered'
    BY <1>0, <1>4, <2>1 DEF LoopCovers, Numbered, TypeOK
  <2>3. NoneSkipped'
    BY <1>0, <1>1, <1>4, <2>1 DEF LoopCovers, NoneSkipped, Walks, TypeOK
  <2>4. QED
    BY <1>1, <1>2, <2>2, <2>3 DEF LoopCovers, CursorInChain, Unreported
<1>5. QED
  BY <1>3, <1>4, AsideSeats

\* The step of the loop passes by the first of those ahead only.
LEMMA ResolveLoop ==
  ASSUME RInv, LoopCovers, NEW c \in Conn, ResolveNext(c)
  PROVE  LoopCovers'
<1>0. TypeOK /\ PeerStage /\ peers \subseteq Conn
  BY DEF RInv, IInv, TypeOK
<1>1. PICK p \in Waiting(c) : /\ \A q \in Waiting(c) : joined[p] <= joined[q]
                              /\ cursor' = [cursor EXCEPT ![c] = joined[p]]
                              /\ Resolve(c, p, report[p], "resolve")
  BY DEF ResolveNext
<1>2. /\ UNCHANGED <<stage, joined, peers, peerCounter, hostReport>>
      /\ p \in peers /\ stage[p] = "peer" /\ joined[p] \in Nat
  BY <1>0 DEF ResolveNext, Waiting, PeerStage, sockVars, TypeOK
<1>3. /\ \E s \in {"resolve", "join"} : pc' = [pc EXCEPT ![c] = s]
      /\ \E s \in {"ok", "mismatch"} : parity' = [parity EXCEPT ![p] = s]
  BY <1>0, <1>1, AdmitEnds DEF Resolve
<1>4. CursorInChain'
  BY <1>0, <1>1, <1>3 DEF LoopCovers, CursorInChain, InAdmission, TypeOK
<1>5. Numbered' /\ Unreported'
  BY <1>0, <1>2, <1>3 DEF LoopCovers, Numbered, Unreported, Early, TypeOK
<1>6. NoneSkipped'
  <2> SUFFICES ASSUME hostReport # None, NEW q \in peers, parity'[q] = "waiting-host"
               PROVE  \E d \in Conn : Walks(d, q)'
    BY <1>2 DEF NoneSkipped
  <2>1. q # p /\ parity[q] = "waiting-host" /\ joined[q] \in Nat /\ joined[q] # joined[p]
    BY <1>0, <1>2, <1>3 DEF LoopCovers, Numbered, TypeOK
  <2>2. PICK d \in Conn : Walks(d, q)
    BY <2>1 DEF LoopCovers, NoneSkipped
  <2>3. CASE d = c
    <3>1. joined[p] <= joined[q]
      BY <1>1, <2>1, <2>2, <2>3 DEF Waiting, Walks
    <3>2. cursor'[c] = joined[p] /\ joined' = joined
      BY <1>0, <1>1, <1>2 DEF TypeOK
    <3>3. joined[q] > joined[p] /\ joined[p] # None
      BY <1>2, <2>1, <3>1
    <3>4. QED
      BY <2>3, <3>2, <3>3 DEF Walks
  <2>4. CASE d # c
    BY <1>0, <1>1, <1>2, <2>2, <2>4 DEF Walks, TypeOK
  <2>5. QED
    BY <2>3, <2>4
<1>7. QED
  BY <1>4, <1>5, <1>6 DEF LoopCovers

\* A chain that seats somebody else is still in its loop afterwards.
LEMMA AdmissionLoop ==
  ASSUME RInv, LoopCovers, NEW c \in Conn, Admission(c)
  PROVE  LoopCovers'
<1> USE DEF lifeVars, sockVars, abuseVars, roomVars, dataVars, chainVars, viewVars
<1>0. TypeOK /\ peers \subseteq Conn
  BY DEF RInv, IInv, TypeOK
<1>1. ASSUME UNCHANGED <<cursor, joined, peers, peerCounter, hostReport, stage, parity>>,
             NEW s, pc' = [pc EXCEPT ![c] = s],
             cursor[c] # None => s \in InAdmission \cup {"resolve"}
      PROVE  LoopCovers'
  <2>1. \A d \in Conn : cursor[d] # None => pc'[d] \in InAdmission \cup {"resolve"}
    BY <1>0, <1>1 DEF LoopCovers, CursorInChain, TypeOK
  <2>2. QED
    BY <1>0, <1>1, <2>1, LoopKept
<1>2. CASE Welcomed(c)
  <2>1. cursor[c] = None /\ stage[c] = "peer"
    BY <1>2, HandlerIsPeer DEF Welcomed, LoopCovers, CursorInChain, InAdmission
  <2>2. PICK s : pc' = [pc EXCEPT ![c] = s]
    BY <1>0, <1>2, AdmitEnds DEF Welcomed
  <2>3. \A d \in Conn : cursor[d] # None => pc'[d] \in InAdmission \cup {"resolve"}
    BY <1>0, <2>1, <2>2 DEF LoopCovers, CursorInChain, TypeOK
  <2>4. UNCHANGED <<cursor, joined, peers, peerCounter, hostReport, stage>>
        /\ parity' = [parity EXCEPT ![c] = "ok"]
    BY <1>2 DEF Welcomed
  <2>5. QED
    BY <1>0, <2>1, <2>3, <2>4, LoopKept DEF Early, TypeOK
<1>3. CASE BroadcastJoin(c) \/ SendHistory(c) \/ \E q \in Conn : SendPersona(c, q)
  BY <1>1, <1>3 DEF BroadcastJoin, SendHistory, SendPersona, InAdmission
<1>4. CASE BroadcastRoster(c)
  <2>1. cursor[c] # None => pc[c] = "roster"
    BY <1>4 DEF BroadcastRoster, LoopCovers, CursorInChain, InAdmission
  <2>2. pc' = [pc EXCEPT ![c] = IF pc[c] = "roster" THEN "history" ELSE "idle"]
    BY <1>0, <1>4 DEF BroadcastRoster, TypeOK
  <2>3. QED
    BY <1>1, <1>4, <2>1, <2>2 DEF BroadcastRoster, InAdmission
<1>5. CASE AdmitDone(c)
  <2>1. cursor[c] # None => Resume(c) = "resolve"
    BY DEF Resume
  <2>2. QED
    BY <1>1, <1>5, <2>1 DEF AdmitDone
<1>6. CASE ResolveNext(c)
  BY <1>6, ResolveLoop
<1>7. CASE ResolveDone(c)
  <2>1. /\ UNCHANGED <<joined, peers, peerCounter, hostReport, stage, parity>>
        /\ pc' = [pc EXCEPT ![c] = "idle"] /\ cursor' = [cursor EXCEPT ![c] = None]
        /\ Waiting(c) = {}
    BY <1>7 DEF ResolveDone
  <2>2. \A p \in peers : parity[p] = "waiting-host" => ~(joined[p] > cursor[c])
    BY <2>1 DEF Waiting
  <2>3. CursorInChain' /\ Numbered' /\ Unreported'
    BY <1>0, <2>1 DEF LoopCovers, CursorInChain, Numbered, Unreported, TypeOK
  <2>4. NoneSkipped'
    BY <1>0, <2>1, <2>2 DEF LoopCovers, NoneSkipped, Walks, TypeOK
  <2>5. QED
    BY <2>3, <2>4 DEF LoopCovers
<1>8. QED
  BY <1>2, <1>3, <1>4, <1>5, <1>6, <1>7 DEF Admission

\* A report waits only without a baseline, and the host's starts a loop that comes
\* by everyone.
LEMMA HandleLoop ==
  ASSUME RInv, LoopCovers, NEW c \in Conn, NEW f \in Frames, Handle(c, f)
  PROVE  LoopCovers'
<1> USE DEF lifeVars, sockVars, abuseVars, roomVars, dataVars, chainVars, viewVars
<1>0. TypeOK /\ peers \subseteq Conn /\ Handles(c, f)
  BY DEF RInv, IInv, TypeOK, Handle, HandleName, HandleInvalid, HandleHostReport,
     HandleClientReport, DropLobbyFrame, HandlePersona, HandleOoc, HandleCast, HandlePrivate, HandleTurn
<1>1. /\ cursor[c] = None /\ stage[c] = "peer"
      /\ UNCHANGED <<peers, stage, joined, peerCounter>>
      /\ \E s : pc' = [pc EXCEPT ![c] = s]
  BY <1>0, HandleEnds, AdmitEnds, HandlerIsPeer DEF LoopCovers, CursorInChain, InAdmission
<1>2. ASSUME UNCHANGED <<cursor, hostReport>>,
             \A p \in Conn \ {c} : parity'[p] = parity[p],
             parity'[c] = "waiting-host" => parity[c] = parity'[c] \/ hostReport = None
      PROVE  LoopCovers'
  <2>1. \A d \in Conn : cursor[d] # None => pc'[d] \in InAdmission \cup {"resolve"}
    BY <1>0, <1>1 DEF LoopCovers, CursorInChain, TypeOK
  <2>2. QED
    BY <1>0, <1>1, <1>2, <2>1, LoopKept DEF Early
<1>3. CASE HandleHostReport(c, f)
  <2>1. f.arg \in Reports
    BY <1>3, FrameFits DEF HandleHostReport
  <2>2. hostReport' # None /\ cursor' = [cursor EXCEPT ![c] = 0]
        /\ parity' = [parity EXCEPT ![c] = "ok"]
    BY <1>3, <2>1 DEF HandleHostReport
  <2>3. \E s \in {"resolve", "join"} : pc' = [pc EXCEPT ![c] = s]
    BY <1>0, <1>3, AdmitEnds DEF HandleHostReport
  <2>4. CursorInChain' /\ Numbered' /\ Unreported'
    BY <1>0, <1>1, <2>2, <2>3 DEF LoopCovers, CursorInChain, Numbered, Unreported, InAdmission,
       Early, TypeOK
  <2>5. \A p \in peers : joined'[p] > 0 /\ cursor'[c] = 0
    BY <1>0, <1>1, <2>2 DEF LoopCovers, Numbered, TypeOK
  <2>6. NoneSkipped'
    BY <1>1, <2>5 DEF NoneSkipped, Walks
  <2>7. QED
    BY <2>4, <2>6 DEF LoopCovers
<1>4. CASE HandleClientReport(c, f)
  <2>1. UNCHANGED <<cursor, hostReport>>
    BY <1>4 DEF HandleClientReport
  <2>2. \E s \in {"waiting-host", "ok", "mismatch"} :
          /\ parity' = [parity EXCEPT ![c] = s]
          /\ s = "waiting-host" => hostReport = None
    BY <1>4 DEF HandleClientReport, Resolve
  <2>3. QED
    BY <1>0, <1>2, <2>1, <2>2 DEF TypeOK
<1>5. CASE HandleInvalid(c, f)
  BY <1>0, <1>2, <1>5 DEF HandleInvalid, HandledNow, TypeOK
<1>6. CASE UNCHANGED <<cursor, hostReport, parity>>
  BY <1>2, <1>6
<1>7. QED
  BY <1>3, <1>4, <1>5, <1>6 DEF Handle, HandleName, DropLobbyFrame, HandlePersona, HandleOoc,
     HandleCast, HandlePrivate, HandleTurn, HandledNow

\* A socket that closes waits no longer, and the baseline goes with the host's.
LEMMA ClosedLoop ==
  ASSUME RInv, LoopCovers, NEW c \in Conn, SocketClosed(c),
         \A p \in Conn : stage'[p] \in Early => stage[p] \in Early
  PROVE  LoopCovers'
<1>0. TypeOK
  BY DEF RInv, IInv
<1>1. /\ UNCHANGED <<pc, cursor, peerCounter>> /\ peers' = peers \ {c}
      /\ hostReport' \in {None, hostReport}
  BY DEF SocketClosed, RemovePeer, chainVars
<1>2. /\ \A p \in Conn \ {c} : joined'[p] = joined[p] /\ parity'[p] = parity[p]
      /\ parity'[c] \in {parity[c], "pending"}
  BY <1>0 DEF SocketClosed, Collect, TypeOK
<1>3. CursorInChain' /\ Numbered' /\ Unreported'
  BY <1>0, <1>1, <1>2 DEF LoopCovers, CursorInChain, Numbered, Unreported, TypeOK
<1>4. NoneSkipped'
  BY <1>0, <1>1, <1>2 DEF LoopCovers, NoneSkipped, Walks, TypeOK
<1>5. QED
  BY <1>3, <1>4 DEF LoopCovers

\* Every step of the relay keeps LoopCovers.
LEMMA LoopStep == RInv /\ LoopCovers /\ [Next]_vars => LoopCovers'
<1> SUFFICES ASSUME RInv, LoopCovers, [Next]_vars PROVE LoopCovers'
  OBVIOUS
<1>0. TypeOK
  BY DEF RInv, IInv
<1>1. \A p \in Conn : stage'[p] \in Early => stage[p] \in Early
  BY <1>0, StagesGoOn
<1>2. CASE Lifecycle
  BY <1>2, LifecycleKeeps DEF LoopCovers, CursorInChain, Numbered, Unreported, NoneSkipped, Walks,
     chainVars
<1>3. CASE UNCHANGED vars
  BY <1>3 DEF LoopCovers, CursorInChain, Numbered, Unreported, NoneSkipped, Walks, vars,
     sockVars, roomVars, chainVars
<1>4. QED
  BY <1>1, <1>2, <1>3, StepKinds, AsideLoop, AdmissionLoop, HandleLoop, ClosedLoop
-----------------------------------------------------------------------------
(* What a newcomer is still to be handed *)

\* What a chain has handed over counts only inside the loop that does it.
ToldInLoop == \A d \in Conn : pc[d] # "personas" => told[d] = {}

\* Profiles are cached for authenticated sockets, and those present are admitted.
Publishers ==
  /\ personas \cap peers \subseteq admitted
  /\ \A q \in personas : stage[q] \in {"peer", "left"}

\* Chain d is to hand c the planning history, or the profile of q.
Brings(d, c) == target[d] = c /\ pc[d] \in {"join", "roster", "history"}
Shows(d, c, q) == target[d] = c /\ pc[d] \in InAdmission /\ q \notin told[d]

\* Whatever a seated peer lacks is on its way.
NewsComing ==
  /\ \A c \in Seated : History \subseteq oocSeen[c] \/ \E d \in Conn : Brings(d, c)
  /\ \A c \in Seated, q \in personas \cap Seated :
       q = c \/ q \in shown[c] \/ \E d \in Conn : Shows(d, c, q)

NewsDue == ToldInLoop /\ Publishers /\ NewsComing

\* No socket is authenticated twice, and one that was stays so or leaves.
LEMMA StagesSettle ==
  ASSUME RInv, [Next]_vars, NEW p \in Conn, stage[p] \in {"peer", "left"}
  PROVE  stage'[p] \in {"peer", "left"}
<1> USE DEF lifeVars, sockVars, abuseVars, roomVars, dataVars, chainVars, viewVars
<1>0. TypeOK /\ (stage[p] = "left" => sock[p] = "closed")
  BY DEF RInv, IInv, Authenticated
<1>1. CASE \E c \in Conn : Handshake(c)
  BY <1>0, <1>1 DEF Handshake, Dial, HelloBadRevision, HelloUnknownRoom, HelloNoRoom,
     HelloAccepted, ConfirmBadMac, Confirm, Refuse, HandshakeTimeout, Welcome, GetsHello,
     GetsConfirm, TypeOK
<1>2. CASE \E c \in Conn : SocketClosed(c)
  BY <1>0, <1>2 DEF SocketClosed, Collect, TypeOK
<1>3. CASE \E c \in Conn : Departure(c) /\ ~SocketClosed(c)
  BY <1>3 DEF Departure, DelayedClose, SweepSilent, SweepLobby, Kick, StrayFrame, ProtocolError
<1>4. CASE \E c \in Conn : Admission(c)
  BY <1>4 DEF Admission, Welcomed, BroadcastJoin, BroadcastRoster, SendHistory, SendPersona,
     AdmitDone, ResolveNext, ResolveDone
<1>5. CASE \E c \in Conn : Inflate(c)
  BY <1>5 DEF Inflate
<1>6. CASE \E c \in Conn, f \in Frames : Handle(c, f)
  BY <1>6, HandleEnds
<1>7. CASE Lifecycle \/ UNCHANGED vars
  BY <1>7, LifecycleKeeps DEF vars
<1>8. QED
  BY <1>1, <1>2, <1>3, <1>4, <1>5, <1>6, <1>7 DEF Next

\* Nothing is lost by a step that seats and publishes nobody new, takes nothing
\* away from those who stay, and ends a delivery only by making it.
LEMMA NewsKept ==
  ASSUME NewsComing, Seated' \subseteq Seated, personas' \cap Seated' \subseteq personas,
         \A x \in Seated' : History \subseteq oocSeen[x] => History' \subseteq oocSeen'[x],
         \A x, q \in Seated' : q \in shown[x] => q \in shown'[x],
         \A d \in Conn, x \in Seated' :
            Brings(d, x) => Brings(d, x)' \/ History' \subseteq oocSeen'[x],
         \A d \in Conn, x \in Seated', q \in personas \cap Seated' :
            Shows(d, x, q) => Shows(d, x, q)' \/ q = x \/ q \in shown'[x]
  PROVE  NewsComing'
<1>1. ASSUME NEW x \in Seated' PROVE History' \subseteq oocSeen'[x] \/ \E d \in Conn : Brings(d, x)'
  BY <1>1 DEF NewsComing
<1>2. ASSUME NEW x \in Seated', NEW q \in personas' \cap Seated'
      PROVE  q = x \/ q \in shown'[x] \/ \E d \in Conn : Shows(d, x, q)'
  <2>1. q = x \/ q \in shown[x] \/ \E d \in Conn : Shows(d, x, q)
    BY <1>2 DEF NewsComing
  <2>2. QED
    BY <1>2, <2>1
<1>3. QED
  BY <1>1, <1>2 DEF NewsComing

\* A chain outside any admission delivers nothing: it may end or go on.
LEMMA OutsideKept ==
  ASSUME TypeOK, NewsComing, NEW c \in Conn, pc[c] \notin InAdmission,
         NEW s, pc' = [pc EXCEPT ![c] = s], UNCHANGED <<target, told, ooc, oocSeen>>,
         Seated' = Seated, personas' = personas,
         \A x, q \in Seated : q \in shown[x] => q \in shown'[x]
  PROVE  NewsComing'
<1>1. \A d \in Conn : \A x : Brings(d, x) => Brings(d, x)'
  BY DEF Brings, InAdmission, TypeOK
<1>2. \A d \in Conn : \A x, q : Shows(d, x, q) => Shows(d, x, q)'
  BY DEF Shows, TypeOK
<1>3. History' = History
  BY DEF History
<1>4. QED
  BY <1>1, <1>2, <1>3, NewsKept

\* Seating begins the delivery of everything to the newcomer, who has published
\* nothing.
LEMMA AdmitNews ==
  ASSUME TypeOK, NewsDue, NEW c \in Conn, NEW p \in Conn, NEW next, Admit(c, p, next),
         pc[c] \notin InAdmission, UNCHANGED <<peers, personas, ooc, told, shown, oocSeen>>
  PROVE  NewsComing'
<1>1. CASE p \in admitted
  <2>1. pc' = [pc EXCEPT ![c] = next] /\ Seated' = Seated /\ target' = target
    BY <1>1 DEF Admit, Seated
  <2>2. QED
    BY <2>1, OutsideKept DEF NewsDue
<1>2. CASE p \notin admitted
  <2>1. /\ admitted' = admitted \cup {p} /\ History' = History
        /\ pc' = [pc EXCEPT ![c] = "join"] /\ target' = [target EXCEPT ![c] = p]
    BY <1>2 DEF Admit, History
  <2>2. Brings(c, p)' /\ \A q : Shows(c, p, q)'
    BY <2>1 DEF Brings, Shows, InAdmission, NewsDue, ToldInLoop, TypeOK
  <2>3. \A d \in Conn \ {c} : \A x, q : (Brings(d, x) => Brings(d, x)') /\ (Shows(d, x, q) => Shows(d, x, q)')
    BY <2>1 DEF Brings, Shows, TypeOK
  <2>4. \A x, q : ~Brings(c, x) /\ ~Shows(c, x, q)
    BY DEF Brings, Shows, InAdmission
  <2>5. Seated' \subseteq Seated \cup {p} /\ (p \in personas => p \notin Seated')
    BY <1>2, <2>1 DEF Seated, NewsDue, Publishers
  <2>6. ASSUME NEW x \in Seated'
        PROVE  History' \subseteq oocSeen'[x] \/ \E d \in Conn : Brings(d, x)'
    BY <2>1, <2>2, <2>3, <2>4, <2>5, <2>6 DEF NewsDue, NewsComing
  <2>7. ASSUME NEW x \in Seated', NEW q \in personas' \cap Seated'
        PROVE  q = x \/ q \in shown'[x] \/ \E d \in Conn : Shows(d, x, q)'
    <3>1. CASE x = p
      BY <2>2, <3>1
    <3>2. CASE x # p
      <4>1. x \in Seated /\ q \in personas \cap Seated
        BY <2>5, <2>7, <3>2
      <4>2. QED
        BY <2>3, <2>4, <4>1 DEF NewsDue, NewsComing
    <3>3. QED
      BY <3>1, <3>2
  <2>8. QED
    BY <2>6, <2>7 DEF NewsComing
<1>3. QED
  BY <1>1, <1>2

\* A chain that does not leave the loop over the profiles keeps its record.
LEMMA ToldKept ==
  ASSUME TypeOK, ToldInLoop, NEW c \in Conn, pc[c] # "personas", NEW s,
         pc' = [pc EXCEPT ![c] = s], told' = told
  PROVE  ToldInLoop'
BY DEF ToldInLoop, TypeOK

\* A step of a chain that seats nobody: what it no longer is to deliver, it has
\* delivered.
LEMMA DeliveryNews ==
  ASSUME TypeOK, Targeted, NewsDue, NEW c \in Conn,
         \/ BroadcastJoin(c) \/ BroadcastRoster(c) \/ SendHistory(c)
         \/ (\E q \in Conn : SendPersona(c, q)) \/ AdmitDone(c) \/ ResolveDone(c)
  PROVE  NewsDue'
<1> USE DEF lifeVars, sockVars, abuseVars, roomVars, dataVars, chainVars, viewVars
<1>0. /\ UNCHANGED <<peers, admitted, stage, personas, ooc>>
      /\ Seated' = Seated /\ History' = History /\ Seated \subseteq Conn
  BY DEF BroadcastJoin, BroadcastRoster, SendHistory, SendPersona, AdmitDone, ResolveDone, Seated,
     History, TypeOK
<1>1. Publishers'
  BY <1>0 DEF NewsDue, Publishers
<1>2. ASSUME UNCHANGED <<target, told>>, NEW s, pc' = [pc EXCEPT ![c] = s],
             pc[c] # "personas",
             pc[c] \in InAdmission => s \in InAdmission,
             pc[c] \in InAdmission =>
                s # "personas" \/ History \subseteq oocSeen'[target[c]],
             \A x \in Seated : oocSeen[x] \subseteq oocSeen'[x],
             \A x, q \in Seated : q \in shown[x] => q \in shown'[x]
      PROVE  NewsDue'
  <2>1. ToldInLoop'
    BY <1>2, ToldKept DEF NewsDue
  <2>2. ASSUME NEW d \in Conn, NEW x \in Seated, Brings(d, x)
        PROVE  Brings(d, x)' \/ History \subseteq oocSeen'[x]
    BY <1>2, <2>2 DEF Brings, InAdmission, TypeOK
  <2>3. ASSUME NEW d \in Conn, NEW x \in Seated, NEW q, Shows(d, x, q)
        PROVE  Shows(d, x, q)'
    BY <1>2, <2>3 DEF Shows, TypeOK
  <2>4. NewsComing'
    BY <1>0, <1>2, <2>2, <2>3, NewsKept DEF NewsDue
  <2>5. QED
    BY <1>1, <2>1, <2>4 DEF NewsDue
<1>3. CASE BroadcastJoin(c)
  <2>1. pc[c] = "join" /\ pc' = [pc EXCEPT ![c] = "roster"] /\ UNCHANGED <<target, told, oocSeen, shown>>
    BY <1>3 DEF BroadcastJoin
  <2>2. QED
    BY <1>2, <2>1 DEF InAdmission
<1>4. CASE BroadcastRoster(c)
  <2>1. \A x, q \in Seated : q \in shown[x] => q \in shown'[x]
    BY <1>0, <1>4 DEF BroadcastRoster, SendRoster
  <2>2. /\ pc[c] \in {"roster", "rename"} /\ UNCHANGED <<target, told, oocSeen>>
        /\ pc' = [pc EXCEPT ![c] = IF pc[c] = "roster" THEN "history" ELSE "idle"]
    BY <1>4 DEF BroadcastRoster, TypeOK
  <2>3. QED
    BY <1>2, <2>1, <2>2 DEF InAdmission
<1>5. CASE SendHistory(c)
  <2>1. target[c] \in Conn
    BY <1>5 DEF SendHistory, Targeted
  <2>2. /\ History \subseteq oocSeen'[target[c]]
        /\ \A x \in Seated : oocSeen[x] \subseteq oocSeen'[x]
    BY <1>0, <1>5, <2>1 DEF SendHistory, TypeOK
  <2>3. pc[c] = "history" /\ pc' = [pc EXCEPT ![c] = "personas"] /\ UNCHANGED <<target, told, shown>>
    BY <1>5 DEF SendHistory
  <2>4. QED
    BY <1>2, <2>2, <2>3 DEF InAdmission
<1>6. CASE \E q \in Conn : SendPersona(c, q)
  <2>1. PICK q \in Conn : SendPersona(c, q)
    BY <1>6
  <2>2. /\ pc[c] = "personas" \/ (pc[c] = "history" /\ History = {})
        /\ target[c] \in Conn /\ UNCHANGED <<target, oocSeen>>
        /\ pc' = [pc EXCEPT ![c] = "personas"]
        /\ told' = [told EXCEPT ![c] = @ \cup {q}]
        /\ shown' = [shown EXCEPT ![target[c]] = @ \cup {q}]
    BY <2>1 DEF SendPersona, InPersonas, Targeted
  <2>3. ToldInLoop'
    BY <2>2 DEF NewsDue, ToldInLoop, TypeOK
  <2>4. ASSUME NEW d \in Conn, NEW x \in Seated, Brings(d, x)
        PROVE  Brings(d, x)' \/ History \subseteq oocSeen'[x]
    BY <2>2, <2>4 DEF Brings, TypeOK
  <2>5. ASSUME NEW d \in Conn, NEW x \in Seated, NEW r, Shows(d, x, r)
        PROVE  Shows(d, x, r)' \/ r \in shown'[x]
    BY <2>2, <2>5 DEF Shows, InAdmission, TypeOK
  <2>6. \A x, r \in Seated : r \in shown[x] => r \in shown'[x]
    BY <1>0, <2>2 DEF TypeOK
  <2>7. NewsComing'
    BY <1>0, <2>2, <2>4, <2>5, <2>6, NewsKept DEF NewsDue
  <2>8. QED
    BY <1>1, <2>3, <2>7 DEF NewsDue
<1>7. CASE AdmitDone(c)
  <2>1. /\ pc[c] = "personas" \/ (pc[c] = "history" /\ History = {})
        /\ UNCHANGED <<oocSeen, shown>> /\ personas \subseteq told[c] \cup {target[c]}
        /\ pc' = [pc EXCEPT ![c] = Resume(c)]
        /\ target' = [target EXCEPT ![c] = None]
        /\ told' = [told EXCEPT ![c] = {}]
    BY <1>7 DEF AdmitDone, InPersonas, Untold
  <2>2. ToldInLoop'
    BY <2>1 DEF NewsDue, ToldInLoop, TypeOK
  <2>3. ASSUME NEW d \in Conn, NEW x \in Seated, Brings(d, x)
        PROVE  Brings(d, x)' \/ History \subseteq oocSeen'[x]
    BY <2>1, <2>3 DEF Brings, TypeOK
  <2>4. ASSUME NEW d \in Conn, NEW x \in Seated, NEW r \in personas, Shows(d, x, r)
        PROVE  Shows(d, x, r)' \/ r = x
    BY <2>1, <2>4 DEF Shows, TypeOK
  <2>5. NewsComing'
    BY <1>0, <2>1, <2>3, <2>4, NewsKept DEF NewsDue
  <2>6. QED
    BY <1>1, <2>2, <2>5 DEF NewsDue
<1>8. CASE ResolveDone(c)
  <2>1. pc[c] = "resolve" /\ pc' = [pc EXCEPT ![c] = "idle"] /\ UNCHANGED <<target, told, oocSeen, shown>>
    BY <1>8 DEF ResolveDone
  <2>2. QED
    BY <1>2, <2>1 DEF InAdmission
<1>9. QED
  BY <1>3, <1>4, <1>5, <1>6, <1>7, <1>8

LEMMA AdmissionNews ==
  ASSUME RInv, NewsDue, NEW c \in Conn, Admission(c)
  PROVE  NewsDue'
<1> USE DEF lifeVars, sockVars, abuseVars, roomVars, dataVars, chainVars, viewVars
<1>0. TypeOK /\ Targeted
  BY DEF RInv, IInv
<1>1. ASSUME NEW p \in Conn, NEW next, Admit(c, p, next), pc[c] \in {"welcome", "resolve"},
             UNCHANGED <<peers, stage, personas, ooc, told, shown, oocSeen>>
      PROVE  NewsDue'
  <2>1. NewsComing'
    BY <1>0, <1>1, AdmitNews DEF InAdmission
  <2>2. ToldInLoop'
    BY <1>0, <1>1, AdmitEnds, ToldKept DEF NewsDue
  <2>3. Publishers'
    BY <1>1 DEF NewsDue, Publishers, Admit
  <2>4. QED
    BY <2>1, <2>2, <2>3 DEF NewsDue
<1>2. CASE Welcomed(c)
  BY <1>1, <1>2 DEF Welcomed
<1>3. CASE ResolveNext(c)
  <2>1. PICK p \in Waiting(c) : Resolve(c, p, report[p], "resolve")
    BY <1>3 DEF ResolveNext
  <2>2. /\ p \in Conn /\ pc[c] = "resolve"
        /\ UNCHANGED <<peers, stage, personas, ooc, told, shown, oocSeen>>
    BY <1>0, <1>3 DEF Waiting, ResolveNext, TypeOK
  <2>3. CASE Admit(c, p, "resolve")
    BY <1>1, <2>2, <2>3
  <2>4. CASE pc' = [pc EXCEPT ![c] = "resolve"] /\ UNCHANGED <<admitted, target>>
    <3>1. NewsComing'
      BY <1>0, <2>2, <2>4, OutsideKept DEF NewsDue, InAdmission, Seated
    <3>2. ToldInLoop'
      BY <1>0, <2>2, <2>4, ToldKept DEF NewsDue
    <3>3. QED
      BY <2>2, <2>4, <3>1, <3>2 DEF NewsDue, Publishers
  <2>5. QED
    BY <2>1, <2>3, <2>4 DEF Resolve
<1>4. QED
  BY <1>0, <1>2, <1>3, DeliveryNews DEF Admission

\* What a seated peer publishes or says reaches everyone who is seated by then.
LEMMA HandleNews ==
  ASSUME RInv, NewsDue, NEW c \in Conn, NEW f \in Frames, Handle(c, f)
  PROVE  NewsDue'
<1> USE DEF lifeVars, sockVars, abuseVars, roomVars, dataVars, chainVars, viewVars
<1>0. TypeOK /\ Handles(c, f)
  BY DEF RInv, IInv, Handle, HandleName, HandleInvalid, HandleHostReport,
     HandleClientReport, DropLobbyFrame, HandlePersona, HandleOoc, HandleCast, HandlePrivate, HandleTurn
<1>1. /\ stage[c] = "peer" /\ pc[c] \notin InAdmission /\ pc[c] # "personas"
      /\ UNCHANGED <<peers, stage, told>> /\ Seated \subseteq Conn
  BY <1>0, HandleEnds, HandlerIsPeer DEF InAdmission, Seated, TypeOK
<1>2. PICK s : pc' = [pc EXCEPT ![c] = s]
  BY <1>0, HandleEnds, AdmitEnds
<1>3. ToldInLoop'
  BY <1>0, <1>1, <1>2, ToldKept DEF NewsDue
<1>4. ASSUME Admit(c, c, "idle") \/ Admit(c, c, "resolve"), UNCHANGED <<dataVars, shown, oocSeen>>
      PROVE  NewsDue'
  <2>1. NewsComing'
    BY <1>0, <1>1, <1>4, AdmitNews
  <2>2. Publishers'
    BY <1>1, <1>4 DEF NewsDue, Publishers, Admit
  <2>3. QED
    BY <1>3, <2>1, <2>2 DEF NewsDue
<1>5. ASSUME UNCHANGED <<admitted, target, personas, ooc, oocSeen>>,
             \A x, q \in Seated : q \in shown[x] => q \in shown'[x]
      PROVE  NewsDue'
  <2>1. NewsComing'
    BY <1>0, <1>1, <1>2, <1>5, OutsideKept DEF NewsDue, Seated
  <2>2. QED
    BY <1>1, <1>3, <1>5, <2>1 DEF NewsDue, Publishers
<1>6. CASE HandleName(c, f)
  <2>1. \A x, q \in Seated : q \in shown[x] => q \in shown'[x]
    BY <1>1, <1>6 DEF HandleName, SendRoster
  <2>2. QED
    BY <1>5, <1>6, <2>1 DEF HandleName
<1>7. CASE HandleHostReport(c, f)
  BY <1>4, <1>7 DEF HandleHostReport
<1>8. CASE HandleClientReport(c, f)
  BY <1>4, <1>5, <1>8 DEF HandleClientReport, Resolve
<1>9. \A d \in Conn : \A x, q : /\ Brings(d, x) => d # c
                                /\ Shows(d, x, q) => d # c
  BY <1>1 DEF Brings, Shows, InAdmission
<1>10. CASE HandlePersona(c, f)
  <2>1. /\ UNCHANGED <<admitted, target, ooc, oocSeen>> /\ c \in admitted
        /\ personas' = personas \cup {c}
        /\ shown' = [d \in Conn |-> IF d \in Seated THEN shown[d] \cup {c} ELSE shown[d]]
    BY <1>10 DEF HandlePersona, HandledNow, Speaks
  <2>2. Publishers'
    BY <1>1, <2>1 DEF NewsDue, Publishers
  <2>3. Seated' = Seated /\ History' = History
    BY <1>1, <2>1 DEF Seated, History
  <2>4. \A d \in Conn : \A x, q : /\ Brings(d, x) => Brings(d, x)'
                                  /\ Shows(d, x, q) => Shows(d, x, q)'
    BY <1>0, <1>1, <1>2, <1>9, <2>1 DEF Brings, Shows, TypeOK
  <2>5. ASSUME NEW x \in Seated, NEW q \in personas' \cap Seated
        PROVE  q = x \/ q \in shown'[x] \/ \E d \in Conn : Shows(d, x, q)'
    <3>1. CASE q = c
      BY <1>1, <2>1, <3>1
    <3>2. CASE q # c
      BY <1>1, <2>1, <2>4, <3>2 DEF NewsDue, NewsComing
    <3>3. QED
      BY <3>1, <3>2
  <2>6. NewsComing'
    BY <2>1, <2>3, <2>4, <2>5 DEF NewsDue, NewsComing
  <2>7. QED
    BY <1>3, <2>2, <2>6 DEF NewsDue
<1>11. CASE HandleOoc(c, f)
  <2>1. /\ UNCHANGED <<admitted, target, personas, shown>> /\ ooc' = ooc + 1
        /\ oocSeen' = [d \in Conn |-> IF d \in Seated THEN oocSeen[d] \cup {ooc + 1} ELSE oocSeen[d]]
    BY <1>11 DEF HandleOoc, HandledNow
  <2>2. History' \subseteq History \cup {ooc + 1}
    BY <1>0, <2>1 DEF History, TypeOK
  <2>3. Seated' = Seated
    BY <1>1, <2>1 DEF Seated
  <2>4. \A d \in Conn : \A x, q : /\ Brings(d, x) => Brings(d, x)'
                                  /\ Shows(d, x, q) => Shows(d, x, q)'
    BY <1>0, <1>1, <1>2, <1>9, <2>1 DEF Brings, Shows, TypeOK
  <2>5. NewsComing'
    BY <1>1, <2>1, <2>2, <2>3, <2>4, NewsKept DEF NewsDue
  <2>6. QED
    BY <1>1, <1>3, <2>1, <2>5 DEF NewsDue, Publishers
<1>12. CASE \/ HandleInvalid(c, f) \/ DropLobbyFrame(c, f) \/ HandleCast(c, f)
            \/ HandlePrivate(c, f) \/ HandleTurn(c, f)
  BY <1>5, <1>12 DEF HandleInvalid, DropLobbyFrame, HandleCast, HandlePrivate, HandleTurn, HandledNow
<1>13. QED
  BY <1>6, <1>7, <1>8, <1>10, <1>11, <1>12 DEF Handle

\* A socket that closes takes its profile along and nobody else's.
LEMMA ClosedNews ==
  ASSUME RInv, NewsDue, NEW c \in Conn, SocketClosed(c),
         \A p \in Conn : stage[p] \in {"peer", "left"} => stage'[p] \in {"peer", "left"}
  PROVE  NewsDue'
<1>0. TypeOK
  BY DEF RInv, IInv
<1>1. /\ UNCHANGED <<pc, target, told, ooc>>
      /\ peers' = peers \ {c} /\ personas' \subseteq personas
      /\ admitted' = Drop(c, admitted) /\ oocSeen' = Collect(c, oocSeen, {})
  BY DEF SocketClosed, RemovePeer, chainVars
<1>2. Seated' = Others(c) /\ Seated' \subseteq Conn
  BY <1>0, <1>1 DEF Seated, Others, Drop, TypeOK
<1>3. \A x \in Conn \ {c} :
        /\ oocSeen'[x] = oocSeen[x]
        /\ shown'[x] = shown[x] \/ shown'[x] = shown[x] \cap Others(c)
  BY <1>0, <1>1 DEF SocketClosed, Collect, TypeOK
<1>4. \A x \in Seated' : x \in Conn \ {c}
  BY <1>2 DEF Others
<1>5. NewsComing'
  <2>1. \A d \in Conn : \A x, q : (Brings(d, x)' <=> Brings(d, x)) /\ (Shows(d, x, q)' <=> Shows(d, x, q))
    BY <1>1 DEF Brings, Shows
  <2>2. History' = History /\ Seated' \subseteq Seated
    BY <1>1, <1>2 DEF History, Others
  <2>3. QED
    BY <1>1, <1>2, <1>3, <1>4, <2>1, <2>2, NewsKept DEF NewsDue
<1>6. ToldInLoop'
  BY <1>1 DEF NewsDue, ToldInLoop
<1>7. Publishers'
  <2>1. personas' \cap peers' \subseteq admitted'
    BY <1>1 DEF NewsDue, Publishers, Drop
  <2>2. QED
    BY <1>0, <1>1, <2>1 DEF NewsDue, Publishers, TypeOK
<1>8. QED
  BY <1>5, <1>6, <1>7 DEF NewsDue

\* Every step of the relay keeps NewsDue.
LEMMA NewsStep == RInv /\ NewsDue /\ [Next]_vars => NewsDue'
<1> SUFFICES ASSUME RInv, NewsDue, [Next]_vars PROVE NewsDue'
  OBVIOUS
<1>0. TypeOK /\ Targeted /\ Authenticated
  BY DEF RInv, IInv
<1>1. \A p \in Conn : stage[p] \in {"peer", "left"} => stage'[p] \in {"peer", "left"}
  BY StagesSettle
<1>2. ASSUME NEW c \in Conn, Aside(c) PROVE NewsDue'
  <2>1. /\ UNCHANGED <<admitted, personas, ooc, target, told, shown, oocSeen>>
        /\ pc' = pc \/ (pc[c] \in {"idle", "decode"} /\ \E s : pc' = [pc EXCEPT ![c] = s])
    BY <1>2, AsideKeeps DEF viewVars
  <2>2. UNCHANGED peers \/ (stage[c] = "confirm" /\ peers' = peers \cup {c})
    BY <1>2, AsideSeats
  <2>3. Seated' = Seated
    BY <1>0, <2>1, <2>2 DEF Authenticated, Seated
  <2>4. NewsComing'
    <3>1. CASE pc' = pc
      BY <2>1, <2>3, <3>1 DEF NewsDue, NewsComing, Brings, Shows, History
    <3>2. CASE pc[c] \in {"idle", "decode"} /\ \E s : pc' = [pc EXCEPT ![c] = s]
      BY <1>0, <2>1, <2>3, <3>2, OutsideKept DEF NewsDue, InAdmission
    <3>3. QED
      BY <2>1, <3>1, <3>2
  <2>5. ToldInLoop'
    BY <1>0, <2>1, ToldKept DEF NewsDue, ToldInLoop
  <2>6. Publishers'
    <3>1. \A q \in personas : stage'[q] \in {"peer", "left"} /\ stage[q] # "confirm"
      BY <1>0, <1>1 DEF NewsDue, Publishers, TypeOK
    <3>2. QED
      BY <2>1, <2>2, <3>1 DEF NewsDue, Publishers
  <2>7. QED
    BY <2>4, <2>5, <2>6 DEF NewsDue
<1>3. CASE Lifecycle
  <2>1. UNCHANGED <<admitted, stage, chainVars, viewVars>> /\ personas' \subseteq personas
    BY <1>3, LifecycleKeeps
  <2>2. UNCHANGED <<peers, personas, ooc>> \/ peers' = {}
    BY <1>3, LifecycleKeeps
  <2>3. QED
    BY <2>1, <2>2 DEF NewsDue, ToldInLoop, Publishers, NewsComing, Brings, Shows, History, Seated,
       chainVars, viewVars
<1>4. CASE UNCHANGED vars
  BY <1>4 DEF NewsDue, ToldInLoop, Publishers, NewsComing, Brings, Shows, History, Seated, vars,
     sockVars, roomVars, dataVars, chainVars, viewVars
<1>5. QED
  BY <1>1, <1>2, <1>3, <1>4, StepKinds, AdmissionNews, HandleNews, ClosedNews

\* A profile is cached by its owner's handler alone, and only once it is admitted.
LEMMA MuteStep == RInv /\ [Next]_vars => personas' \ personas \subseteq admitted
<1> SUFFICES ASSUME RInv, [Next]_vars PROVE personas' \ personas \subseteq admitted
  OBVIOUS
<1> USE DEF lifeVars, sockVars, abuseVars, roomVars, dataVars, chainVars, viewVars
<1>1. ASSUME NEW c \in Conn, NEW f \in Frames, Handle(c, f) PROVE personas' \ personas \subseteq admitted
  BY <1>1 DEF Handle, HandleName, HandleInvalid, HandleHostReport, HandleClientReport,
     DropLobbyFrame, HandlePersona, HandleOoc, HandleCast, HandlePrivate, HandleTurn, Speaks
<1>2. ASSUME NEW c \in Conn, Admission(c) PROVE personas' = personas
  BY <1>2 DEF Admission, Welcomed, BroadcastJoin, BroadcastRoster, SendHistory, SendPersona,
     AdmitDone, ResolveNext, ResolveDone
<1>3. ASSUME NEW c \in Conn, SocketClosed(c) PROVE personas' \subseteq personas
  BY <1>3 DEF SocketClosed, RemovePeer
<1>4. CASE Lifecycle \/ UNCHANGED vars
  BY <1>4, LifecycleKeeps DEF vars
<1>5. ASSUME NEW c \in Conn, Aside(c) PROVE personas' = personas
  BY <1>5, AsideKeeps
<1>6. QED
  BY <1>1, <1>2, <1>3, <1>4, <1>5, StepKinds
-----------------------------------------------------------------------------
(* The theorems *)

\* It holds in every reachable state of the relay.
THEOREM Invariance == Spec => []IInv
BY InitIInv, NextIInv, PTL DEF Spec

\* The relay's state is always of the type its fields are declared with.
THEOREM TypeCorrect == Spec => []TypeOK
<1>1. IInv => TypeOK
  BY DEF IInv
<1>2. QED
  BY <1>1, Invariance, PTL

\* The host slot names a present peer, the only present one with the host role,
\* whoever claims it, disconnects or is rotated out.
THEOREM HostSlot == Spec => []OneHost
<1>1. IInv => OneHost
  BY DEF IInv
<1>2. QED
  BY <1>1, Invariance, PTL

\* No peer hears the room before it has been told that it is seated.
THEOREM AdmissionComesFirst == Spec => []SeatedFirst
<1>1. IInv => SeatedFirst
  BY DEF IInv
<1>2. QED
  BY <1>1, Invariance, PTL

\* A frame for one peer is heard by no other.
THEOREM PrivateDelivery == Spec => []PrivateStaysPrivate
<1>1. IInv => PrivateStaysPrivate
  BY DEF IInv
<1>2. QED
  BY <1>1, Invariance, PTL

\* With the extension check on, every step that admits a client has compared its
\* report with the baseline and found them equal.
THEOREM ParityGate == Spec => AdmittedByGate
BY Invariance, GateStep, PTL DEF Spec, AdmittedByGate

\* A socket that is no longer a peer hears nothing of the room.
THEOREM DepartedAreSilent == Spec => DepartedHearNothing
BY Invariance, DepartedStep, PTL DEF Spec, DepartedHearNothing, Departed
\* It holds in every reachable state together with what relates it to the sockets.
THEOREM RoomInvariance == Spec => []RInv
BY InitRInv, NextRInv, PTL DEF Spec

\* No peer is announced twice, whichever of the three ways to #admit reach it and
\* however their awaits interleave.
THEOREM AnnouncedOnce == Spec => []JoinAnnouncedOnce
<1>1. Init => JoinsDue
  BY DEF Init, JoinsDue, JoinDue
<1>2. RInv => IInv
  BY DEF RInv
<1>3. JoinsDue => JoinAnnouncedOnce
  BY DEF JoinsDue, JoinAnnouncedOnce
<1>4. QED
  BY <1>1, <1>2, <1>3, RoomInvariance, JoinsStep, PTL DEF Spec

\* When no handler is under way, everyone seated has been sent the present roster.
THEOREM RostersConverge == Spec => []RosterConverges
<1>1. Init => RosterDue
  BY DEF Init, RosterDue, Seated
<1>2. RosterDue => RosterConverges
  BY DEF RosterDue, RosterConverges, Quiet, Idle
<1>3. QED
  BY <1>1, <1>2, RoomInvariance, RosterStep, PTL DEF Spec

\* When no handler is under way and there is a baseline, no peer waits for one:
\* the host's loop has come by all of them, and one that reports during the loop
\* was compared at once.
THEOREM LoopMissesNobody == Spec => []NobodyLeftWaiting
<1>1. Init => LoopCovers
  BY DEF Init, LoopCovers, CursorInChain, Numbered, Unreported, NoneSkipped, Early
<1>2. RInv /\ LoopCovers => NobodyLeftWaiting
  <2> SUFFICES ASSUME RInv, LoopCovers, Quiet, hostReport # None, NEW p \in peers,
                      parity[p] = "waiting-host"
               PROVE  FALSE
    BY DEF NobodyLeftWaiting, RInv, IInv, TypeOK
  <2>1. PICK d \in Conn : Walks(d, p)
    BY DEF LoopCovers, NoneSkipped
  <2>2. pc[d] # "idle"
    BY <2>1 DEF LoopCovers, CursorInChain, InAdmission, Walks
  <2>3. QED
    BY <2>2 DEF Quiet, Idle
<1>3. QED
  BY <1>1, <1>2, RoomInvariance, LoopStep, PTL DEF Spec

\* When no handler is under way, everyone seated has the planning history and the
\* profile of every other seated peer that published one.
THEOREM CaughtUp == Spec => []NewcomersCaughtUp
<1>1. Init => NewsDue
  BY DEF Init, NewsDue, ToldInLoop, Publishers, NewsComing, Seated
<1>2. NewsDue => NewcomersCaughtUp
  <2> SUFFICES ASSUME NewsDue, Quiet, NEW c \in Seated
               PROVE  /\ personas \cap Seated \subseteq shown[c] \cup {c}
                      /\ History \subseteq oocSeen[c]
    BY DEF NewcomersCaughtUp
  <2>1. \A d \in Conn : \A q : ~Brings(d, c) /\ ~Shows(d, c, q)
    BY DEF Quiet, Idle, Brings, Shows, InAdmission
  <2>2. QED
    BY <2>1 DEF NewsDue, NewsComing
<1>3. QED
  BY <1>1, <1>2, RoomInvariance, NewsStep, PTL DEF Spec

\* No step caches a profile for newcomers unless its owner has been admitted.
THEOREM LobbyPublishesNothing == Spec => LobbyIsMute
<1>1. RInv /\ [Next]_vars => [personas' \ personas \subseteq admitted]_vars
  BY MuteStep
<1>2. QED
  BY <1>1, RoomInvariance, PTL DEF Spec, LobbyIsMute

-----------------------------------------------------------------------------
(* The relay implements Room *)

\* SeatOf maps the relay's initial states to Room's.
LEMMA InitRoom == Init => Abstract!Init
BY DEF Init, Abstract!Init, SeatOf

\* A step that moves nobody and keeps the host is a stutter of Room.
LEMMA SeatKept ==
  ASSUME UNCHANGED <<peers, host, admitted>>,
         \A c \in Conn \ peers : stage'[c] \in {"peer", "left"} <=> stage[c] \in {"peer", "left"}
  PROVE  UNCHANGED <<SeatOf, host>>
BY DEF SeatOf

\* An admission seats a peer that is present, and leaves one that has gone where it is.
LEMMA AdmitSits ==
  ASSUME RInv, NEW p \in Conn, stage[p] = "peer", UNCHANGED <<peers, host, stage>>,
         admitted' = admitted \/ (p \notin admitted /\ admitted' = admitted \cup {p})
  PROVE  Abstract!Sit(p) \/ UNCHANGED <<SeatOf, host>>
<1>1. CASE admitted' = admitted \/ p \notin peers
  BY <1>1 DEF SeatOf
<1>2. CASE admitted' = admitted \cup {p} /\ p \in peers /\ p \notin admitted
  <2>1. SeatOf[p] = "lobby" /\ SeatOf' = [SeatOf EXCEPT ![p] = "seated"]
    BY <1>2 DEF SeatOf
  <2>2. QED
    BY <2>1 DEF Abstract!Sit
<1>3. QED
  BY <1>1, <1>2

\* When the relay forgets the peers S, Room lets them leave.
LEMMA ForgetLeaves ==
  ASSUME RInv, NEW S \in SUBSET peers, peers' = peers \ S,
         host' = IF host \in S THEN None ELSE host,
         \A c \in Conn : stage'[c] \in {"peer", "left"} <=> stage[c] \in {"peer", "left"},
         \A c \in peers' : c \in admitted' <=> c \in admitted
  PROVE  Abstract!Leave(S) \/ UNCHANGED <<SeatOf, host>>
<1>0. /\ TypeOK /\ PeerStage
      /\ SeatOf' = [c \in Conn |-> IF c \in S THEN "left" ELSE SeatOf[c]]
  BY DEF RInv, IInv, TypeOK, PeerStage, SeatOf
<1>1. CASE S = {}
  BY <1>0, <1>1 DEF SeatOf
<1>2. CASE S # {}
  <2>1. S \subseteq Abstract!Present
    BY <1>0 DEF SeatOf, Abstract!Present, TypeOK
  <2>2. QED
    BY <1>0, <1>2, <2>1 DEF Abstract!Leave
<1>3. QED
  BY <1>1, <1>2

\* Every step of the relay is a step of Room, or moves nobody.
LEMMA NextRoom ==
  RInv /\ [Next]_vars => [Abstract!Next]_<<SeatOf, host>>
<1> SUFFICES ASSUME RInv, [Next]_vars PROVE Abstract!Next \/ UNCHANGED <<SeatOf, host>>
  OBVIOUS
<1> USE DEF lifeVars, sockVars, abuseVars, roomVars, dataVars, chainVars, viewVars
<1>0. TypeOK /\ PeerStage /\ OneHost /\ Authenticated
  BY DEF RInv, IInv
<1>1. ASSUME NEW c \in Conn, Handshake(c) PROVE Abstract!Next \/ UNCHANGED <<SeatOf, host>>
  <2>1. CASE Confirm(c)
    <3>1. /\ SeatOf[c] = "out" /\ SeatOf' = [SeatOf EXCEPT ![c] = "lobby"]
          /\ host' = host \/ (host = None /\ host' = c)
      BY <1>0, <2>1 DEF Confirm, ClaimsHost, GetsConfirm, PeerStage, Authenticated, SeatOf, TypeOK
    <3>2. QED
      BY <3>1 DEF Abstract!Enter, Abstract!Next
  <2>2. CASE Dial(c)
    BY <1>0, <2>2, SeatKept DEF Dial, TypeOK
  <2>3. CASE HandshakeTimeout(c)
    BY <2>3, SeatKept DEF HandshakeTimeout
  <2>4. CASE HelloBadRevision(c) \/ HelloUnknownRoom(c) \/ HelloNoRoom(c) \/ HelloAccepted(c)
             \/ ConfirmBadMac(c)
    BY <1>0, <2>4, SeatKept DEF HelloBadRevision, HelloUnknownRoom, HelloNoRoom, HelloAccepted,
       ConfirmBadMac, Refuse, Welcome, GetsHello, GetsConfirm, TypeOK
  <2>5. QED
    BY <1>1, <2>1, <2>2, <2>3, <2>4 DEF Handshake
<1>2. ASSUME NEW c \in Conn, Admission(c) PROVE Abstract!Next \/ UNCHANGED <<SeatOf, host>>
  <2>1. UNCHANGED <<peers, host, stage>>
    BY <1>2 DEF Admission, Welcomed, BroadcastJoin, BroadcastRoster, SendHistory, SendPersona,
                AdmitDone, ResolveNext, ResolveDone
  <2>2. \E p \in Conn : stage[p] = "peer" /\ (\/ admitted' = admitted
                                              \/ p \notin admitted /\ admitted' = admitted \cup {p})
    <3>1. CASE Welcomed(c)
      BY <1>0, <3>1 DEF Welcomed, Admit, Authenticated
    <3>2. CASE ResolveNext(c)
      BY <1>0, <3>2 DEF ResolveNext, Waiting, Resolve, Admit, PeerStage, TypeOK
    <3>3. CASE ~Welcomed(c) /\ ~ResolveNext(c)
      <4>1. UNCHANGED admitted /\ pc[c] # "idle"
        BY <1>2, <3>3 DEF Admission, BroadcastJoin, BroadcastRoster, SendHistory, SendPersona,
                          AdmitDone, InPersonas, ResolveDone
      <4>2. QED
        BY <1>0, <4>1 DEF Authenticated
    <3>4. QED
      BY <3>1, <3>2, <3>3
  <2>3. QED
    BY <2>1, <2>2, AdmitSits DEF Abstract!Next
<1>3. ASSUME NEW c \in Conn, NEW f \in Frames, Handle(c, f)
      PROVE  Abstract!Next \/ UNCHANGED <<SeatOf, host>>
  <2>1. UNCHANGED <<peers, host, stage>> /\ Handles(c, f)
    BY <1>3 DEF Handle, HandleName, HandleInvalid, HandleHostReport, HandleClientReport,
                DropLobbyFrame, HandlePersona, HandleOoc, HandleCast, HandlePrivate, HandleTurn
  <2>2. stage[c] = "peer"
    BY <2>1, HandlerIsPeer
  <2>3. admitted' = admitted \/ (c \notin admitted /\ admitted' = admitted \cup {c})
    BY <1>3 DEF Handle, HandleName, HandleInvalid, HandleHostReport, HandleClientReport,
                DropLobbyFrame, HandlePersona, HandleOoc, HandleCast, HandlePrivate, HandleTurn,
                Resolve, Admit
  <2>4. QED
    BY <2>1, <2>2, <2>3, AdmitSits DEF Abstract!Next
<1>4. ASSUME NEW c \in Conn, Departure(c) PROVE Abstract!Next \/ UNCHANGED <<SeatOf, host>>
  <2>1. CASE SocketClosed(c)
    <3> DEFINE S == {c} \cap peers
    <3>1. /\ peers' = peers \ S
          /\ host' = IF host \in S THEN None ELSE host
      BY <1>0, <2>1 DEF SocketClosed, RemovePeer, OneHost, TypeOK
    <3>2. \A d \in Conn : stage'[d] \in {"peer", "left"} <=> stage[d] \in {"peer", "left"}
      BY <1>0, <2>1 DEF SocketClosed, Collect, Authenticated, TypeOK
    <3>3. \A d \in peers' : d \in admitted' <=> d \in admitted
      BY <2>1, <3>1 DEF SocketClosed, Drop
    <3>4. Abstract!Leave(S) \/ UNCHANGED <<SeatOf, host>>
      BY <3>1, <3>2, <3>3, ForgetLeaves
    <3>5. S \in SUBSET Conn
      BY <1>0 DEF TypeOK
    <3>6. QED
      BY <3>4, <3>5 DEF Abstract!Next
  <2>2. CASE ~SocketClosed(c)
    BY <1>4, <2>2, SeatKept DEF Departure, DelayedClose, SweepSilent, SweepLobby, Kick,
       ProtocolError, StrayFrame
  <2>3. QED
    BY <2>1, <2>2
<1>5. CASE Rotate \/ StopEnds
  <2>1. Abstract!Leave(peers) \/ UNCHANGED <<SeatOf, host>>
    BY <1>0, <1>5, ForgetLeaves DEF Rotate, StopEnds, OneHost, TypeOK
  <2>2. QED
    BY <1>0, <2>1 DEF Abstract!Next, TypeOK
<1>6. CASE Lifecycle /\ ~Rotate /\ ~StopEnds
  BY <1>6, SeatKept DEF Lifecycle, StopBegins, Start, SweepOffender, Unban
<1>7. CASE (\E c \in Conn : Inflate(c)) \/ UNCHANGED vars
  BY <1>7, SeatKept DEF Inflate, vars
<1>8. QED
  BY <1>1, <1>2, <1>3, <1>4, <1>5, <1>6, <1>7 DEF Next

-----------------------------------------------------------------------------
\* The relay implements Room: connections enter, sit and leave once, and the room
\* has one owner, for any number of sockets and whatever handlers are half way.
THEOREM RelayImplementsRoom == Spec => ImplementsRoom
<1>1. Spec => []RInv
  BY InitRInv, NextRInv, PTL DEF Spec
<1>2. QED
  BY <1>1, InitRoom, NextRoom, InitRInv, PTL DEF Spec, ImplementsRoom, Abstract!Spec
=============================================================================
