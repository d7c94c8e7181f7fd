-------------------------------- MODULE Relay --------------------------------
(***************************************************************************)
(* The room relay, src/server/lib/relay.js: the handshake of a socket, the *)
(* host slot, the extension-parity gate, admission, the forwarding rules,  *)
(* what the relay caches for newcomers (personas, out-of-character         *)
(* history), the lifecycle (start, stop, code rotation) and the sweeper.   *)
(*                                                                         *)
(* Node runs one callback at a time, so an action is the code between two  *)
(* awaits.  A handler that awaits leaves its position in pc[c], where c is *)
(* the socket whose inbound promise chain runs it: one handler per socket  *)
(* at a time, any number of sockets interleaved.                           *)
(*                                                                         *)
(* A connection (an element of Conn) is one socket: it is dialled at most  *)
(* once; a client that comes back is another element, possibly with the    *)
(* same address.                                                           *)
(***************************************************************************)
EXTENDS Naturals, FiniteSets

CONSTANTS
  Conn,           \* sockets that may ever be accepted
  HostTabs,       \* those dialled over loopback with the host token
  Outdated,       \* those whose client speaks another protocol revision
  Garbled,        \* those whose confirmation does not verify (keys substituted)
  Ip,             \* client addresses
  IpOf,           \* the address each socket comes from
  Reports,        \* extension fingerprints; two match iff they are equal
  RequireParity,  \* the room option
  Ops,            \* application opcodes the clients of this instance use
  BigOps,         \* those whose frames reach the compression threshold
  Events,         \* timers and host commands that may happen in this instance
  MaxPeers,       \* seats in the room
  MaxLobby,       \* LIMITS.MAX_LOBBY
  MaxPending,     \* LIMITS.MAX_PENDING
  MaxFailures,    \* LIMITS.MAX_HANDSHAKE_FAILURES
  OocKeep,        \* OOC.HISTORY
  MaxOoc,         \* bound: out-of-character messages posted in a run
  MaxGen,         \* bound: starts and rotations in a run
  MaxBacklog,     \* bound: frames queued behind a busy handler at a close
  None            \* null

AllOps == {"name", "report", "invalid", "persona", "ooc", "cast", "private", "turn"}

AllEvents == {"timeout", "silent", "lobby", "kick", "ban", "stop", "error", "again"}

\* A frame as the relay sees it: its opcode and what it tells apart in the payload.
\* A report says what its sender runs, a private frame whom it is for.
Frames == [op : {"report"}, arg : Reports] \cup [op : {"private"}, arg : Conn]
            \cup [op : AllOps \ {"report", "private"}, arg : {None}]

ASSUME ConnAssumption ==
  /\ IsFiniteSet(Conn)
  /\ HostTabs \subseteq Conn /\ Outdated \subseteq Conn /\ Garbled \subseteq Conn
  /\ IpOf \in [Conn -> Ip]
  /\ None \notin Conn \cup Reports \cup Frames \cup Nat

ASSUME BoundAssumption ==
  /\ RequireParity \in BOOLEAN
  /\ Ops \subseteq AllOps /\ BigOps \subseteq Ops /\ Events \subseteq AllEvents
  /\ {MaxPeers, MaxLobby, MaxPending, MaxFailures, OocKeep} \subseteq Nat \ {0}
  /\ {MaxOoc, MaxBacklog} \subseteq Nat
  /\ MaxGen \in Nat \ {0}

VARIABLES
  life,           \* "up", "stopping" (stop() awaits the router) or "down"
  gen,            \* which pre-shared key is current
  sock,           \* per socket: new, open, closing, dead (terminated) or closed
  stage,          \* per socket: new, hello, confirm, refused, peer, left or closed
  code,           \* the key generation the client's connection code carries
  doomed,         \* sockets with a delayed close() armed
  backlog,        \* frames still queued when the socket closed
  pending,        \* this.pending
  failures,       \* offenders: failures since the last block
  blocked,        \* offenders whose blockedUntil lies ahead
  bans,           \* this.bans
  peers,          \* keys of this.peers
  host,           \* this.host
  hosts,          \* peers whose role is ROLE.HOST
  hostReport,     \* this.hostReport
  admitted,       \* peers whose admitted flag is set
  parity,         \* peer.parity.status
  report,         \* peer.parity.report
  joined,         \* peerCounter value in the peer's id: insertion order
  peerCounter,    \* the module-level counter
  personas,       \* keys of this.personas
  ooc,            \* out-of-character messages posted since the room started
  pc,             \* where the socket's inbound chain awaits
  frame,          \* the frame being inflated
  target,         \* the peer being admitted by this chain
  told,           \* personas already handed to target
  cursor,         \* position of the host's loop over this.peers; None outside it
  heard,          \* what was enqueued to the peer: seated, room, turn, private
  fresh,          \* peers whose latest roster frame is the present roster
  shown,          \* per peer: whose profile it displays
  oocSeen,        \* per peer: the out-of-character messages it was sent
  joins           \* per peer: how often PEER_JOIN was broadcast for it

lifeVars  == <<life, gen>>
sockVars  == <<sock, stage, code, doomed, backlog, pending>>
abuseVars == <<failures, blocked, bans>>
roomVars  == <<peers, host, hosts, hostReport, admitted, parity, report, joined, peerCounter>>
dataVars  == <<personas, ooc>>
chainVars == <<pc, frame, target, told, cursor>>
viewVars  == <<heard, fresh, shown, oocSeen, joins>>
vars == <<lifeVars, sockVars, abuseVars, roomVars, dataVars, chainVars, viewVars>>

Stations == {"idle", "decode", "welcome", "rename", "join", "roster", "history",
             "personas", "resolve"}

\* What is enqueued to a peer: its admission, room traffic, a client's turn (for
\* the host), or a frame the host addressed to one peer.
Kinds == {"seated", "room", "turn", "private"} \X (Conn \cup {None})

TypeOK ==
  /\ life \in {"up", "stopping", "down"} /\ gen \in Nat
  /\ sock \in [Conn -> {"new", "open", "closing", "dead", "closed"}]
  /\ stage \in [Conn -> {"new", "hello", "confirm", "refused", "peer", "left", "closed"}]
  /\ code \in [Conn -> Nat]
  /\ doomed \subseteq Conn /\ backlog \in [Conn -> Nat] /\ pending \subseteq Conn
  /\ failures \in [Ip -> Nat] /\ blocked \subseteq Ip /\ bans \subseteq Ip
  /\ peers \subseteq Conn /\ host \in Conn \cup {None} /\ hosts \subseteq Conn
  /\ hostReport \in Reports \cup {None} /\ admitted \subseteq Conn
  /\ parity \in [Conn -> {"pending", "ok", "waiting-host", "mismatch", "invalid"}]
  /\ report \in [Conn -> Reports \cup {None}]
  /\ joined \in [Conn -> Nat] /\ peerCounter \in Nat
  /\ personas \subseteq Conn /\ ooc \in Nat
  /\ pc \in [Conn -> Stations] /\ frame \in [Conn -> Frames \cup {None}]
  /\ target \in [Conn -> Conn \cup {None}] /\ told \in [Conn -> SUBSET Conn]
  /\ cursor \in [Conn -> Nat \cup {None}]
  /\ heard \in [Conn -> SUBSET Kinds]
  /\ fresh \subseteq Conn /\ shown \in [Conn -> SUBSET Conn]
  /\ oocSeen \in [Conn -> SUBSET Nat] /\ joins \in [Conn -> Nat]

Init ==
  /\ life = "up" /\ gen = 1
  /\ sock = [c \in Conn |-> "new"] /\ stage = [c \in Conn |-> "new"]
  /\ code = [c \in Conn |-> 0]
  /\ doomed = {} /\ backlog = [c \in Conn |-> 0] /\ pending = {}
  /\ failures = [i \in Ip |-> 0] /\ blocked = {} /\ bans = {}
  /\ peers = {} /\ host = None /\ hosts = {} /\ hostReport = None /\ admitted = {}
  /\ parity = [c \in Conn |-> "pending"] /\ report = [c \in Conn |-> None]
  /\ joined = [c \in Conn |-> 0] /\ peerCounter = 0
  /\ personas = {} /\ ooc = 0
  /\ pc = [c \in Conn |-> "idle"] /\ frame = [c \in Conn |-> None]
  /\ target = [c \in Conn |-> None] /\ told = [c \in Conn |-> {}]
  /\ cursor = [c \in Conn |-> None]
  /\ heard = [c \in Conn |-> {}] /\ fresh = {} /\ shown = [c \in Conn |-> {}]
  /\ oocSeen = [c \in Conn |-> {}] /\ joins = [c \in Conn |-> 0]

-----------------------------------------------------------------------------
(* Helpers *)

Live(c)  == sock[c] \in {"open", "closing"}   \* frames are still delivered
Idle(c)  == pc[c] = "idle"                    \* the inbound chain is free
Everyone == peers                             \* mutant of Seated: the lobby too
Seated   == peers \cap admitted               \* whom #broadcast reaches
Lobby    == peers \ admitted
Others(c) == Seated \ {c}
History  == {n \in 1..ooc : n + OocKeep > ooc}

\* A frame of this kind was enqueued to each of the targets.
Hear(targets, kind) ==
  heard' = [c \in Conn |-> IF c \in targets THEN heard[c] \cup {kind} ELSE heard[c]]

\* #broadcastRoster: everyone in `seated` is sent the list, and prunes the
\* profiles of anyone absent from it (session.js, ROSTER).
SendRoster(seated) ==
  /\ fresh' = seated
  /\ shown' = [c \in Conn |-> IF c \in seated THEN shown[c] \cap seated ELSE shown[c]]

NoteFailure(ip) ==
  IF failures[ip] + 1 >= MaxFailures
  THEN /\ blocked' = blocked \cup {ip}
       /\ failures' = [failures EXCEPT ![ip] = 0]
  ELSE /\ failures' = [failures EXCEPT ![ip] = @ + 1]
       /\ UNCHANGED blocked

\* #rejectSocket: REJECT now, close() 50 ms later, out of `pending` at once.
Reject(c) ==
  /\ doomed' = doomed \cup {c}
  /\ pending' = pending \ {c}

\* What a handler does next once the admission it awaited is over.
Resume(c) == IF cursor[c] = None THEN "idle" ELSE "resolve"

-----------------------------------------------------------------------------
(* Handshake *)

\* The upgrade handler refuses banned and blocked addresses and caps the number
\* of half-open sockets; #onConnection then arms the eight-second timer.  The
\* connection code the client holds may be an old one.
Dial(c) ==
  /\ life # "down" /\ stage[c] = "new"
  /\ IpOf[c] \notin bans \cup blocked
  /\ Cardinality(pending) < MaxPending
  /\ sock' = [sock EXCEPT ![c] = "open"]
  /\ stage' = [stage EXCEPT ![c] = "hello"]
  /\ pending' = pending \cup {c}
  /\ \E g \in 1..gen : code' = [code EXCEPT ![c] = g]
  /\ UNCHANGED <<lifeVars, doomed, backlog, abuseVars, roomVars, dataVars, chainVars, viewVars>>

\* A refusal: the client sends nothing more on this socket.
Refuse(c) ==
  /\ Reject(c)
  /\ stage' = [stage EXCEPT ![c] = "refused"]
  /\ UNCHANGED <<lifeVars, sock, code, backlog, bans, roomVars, dataVars, chainVars, viewVars>>

GetsHello(c) == Live(c) /\ stage[c] = "hello" /\ Idle(c)

HelloBadRevision(c) ==
  /\ GetsHello(c) /\ c \in Outdated
  /\ Refuse(c) /\ UNCHANGED <<failures, blocked>>

\* The room id is a hash of the key: a stale code names another room.
HelloUnknownRoom(c) ==
  /\ GetsHello(c) /\ c \notin Outdated /\ code[c] # gen
  /\ NoteFailure(IpOf[c]) /\ Refuse(c)

Welcome(c) == GetsHello(c) /\ c \notin Outdated /\ code[c] = gen

HelloNoRoom(c) ==
  /\ Welcome(c)
  /\ Cardinality(Seated) >= MaxPeers \/ Cardinality(Lobby) >= MaxLobby
  /\ Refuse(c) /\ UNCHANGED <<failures, blocked>>

\* Traffic keys are derived here, from the key that is current now.
HelloAccepted(c) ==
  /\ Welcome(c)
  /\ Cardinality(Seated) < MaxPeers /\ Cardinality(Lobby) < MaxLobby
  /\ stage' = [stage EXCEPT ![c] = "confirm"]
  /\ UNCHANGED <<lifeVars, sock, code, doomed, backlog, pending, abuseVars, roomVars,
                 dataVars, chainVars, viewVars>>

GetsConfirm(c) == Live(c) /\ stage[c] = "confirm" /\ Idle(c)

ConfirmBadMac(c) ==
  /\ GetsConfirm(c) /\ c \in Garbled
  /\ NoteFailure(IpOf[c]) /\ Refuse(c)

\* Mutant: a second tab of the host takes the slot from the first.
ClaimsHostAlways(c) == c \in HostTabs

\* The role a valid host token gets: the host's, while the slot is empty.
ClaimsHost(c) == c \in HostTabs /\ host = None

\* The peer exists from here on; a second claimant of the host slot is seated as
\* a client.  With parity required the handler ends with the challenge; without
\* it the peer is seated once WELCOME has been sent.
Confirm(c) ==
  /\ GetsConfirm(c) /\ c \notin Garbled
  /\ stage' = [stage EXCEPT ![c] = "peer"]
  /\ pending' = pending \ {c}
  /\ failures' = [failures EXCEPT ![IpOf[c]] = 0]
  /\ blocked' = blocked \ {IpOf[c]}
  /\ peers' = peers \cup {c}
  /\ peerCounter' = peerCounter + 1
  /\ joined' = [joined EXCEPT ![c] = peerCounter + 1]
  /\ IF ClaimsHost(c)
     THEN host' = c /\ hosts' = hosts \cup {c}
     ELSE UNCHANGED <<host, hosts>>
  /\ pc' = [pc EXCEPT ![c] = IF RequireParity THEN "idle" ELSE "welcome"]
  /\ UNCHANGED <<lifeVars, sock, code, doomed, backlog, bans, hostReport, admitted, parity,
                 report, dataVars, frame, target, told, cursor, viewVars>>

\* Mutant: the timer is cleared when HELLO arrives instead of when the client confirms.
OverdueHello(c) == c \in pending /\ Live(c) /\ stage[c] = "hello"

\* Eight seconds after the connection, still half open.
Overdue(c) == c \in pending /\ Live(c)

\* The timer of #onConnection, cleared by a close and by a good confirmation.  A
\* HELLO or CONFIRM already on its way is still handled afterwards.
HandshakeTimeout(c) ==
  /\ "timeout" \in Events /\ Overdue(c) /\ Reject(c)
  /\ UNCHANGED <<lifeVars, sock, stage, code, backlog, abuseVars, roomVars, dataVars,
                 chainVars, viewVars>>

\* Mutant: the delayed close looks the peer up, and a refused socket never was one.
DelayedClosePeer(c) ==
  /\ c \in doomed
  /\ doomed' = doomed \ {c}
  /\ sock' = [sock EXCEPT ![c] = IF @ = "open" /\ c \in peers THEN "closing" ELSE @]
  /\ UNCHANGED <<lifeVars, stage, code, backlog, pending, abuseVars, roomVars, dataVars,
                 chainVars, viewVars>>

\* The delayed close() of a rejection (50 ms), a kick (100 ms) or an expired
\* lobby wait (200 ms).
DelayedClose(c) ==
  /\ c \in doomed
  /\ doomed' = doomed \ {c}
  /\ sock' = [sock EXCEPT ![c] = IF @ = "open" THEN "closing" ELSE @]
  /\ UNCHANGED <<lifeVars, stage, code, backlog, pending, abuseVars, roomVars, dataVars,
                 chainVars, viewVars>>

-----------------------------------------------------------------------------
(* Admission, one action per stretch of code between awaits *)

\* Mutant: without the early return for a peer that is seated already.
AdmitAgain(c, p, next) ==
  /\ admitted' = admitted \cup {p}
  /\ pc' = [pc EXCEPT ![c] = "join"]
  /\ target' = [target EXCEPT ![c] = p]
  /\ Hear({p}, <<"seated", None>>)
  /\ fresh' = IF p \in peers THEN {} ELSE fresh

\* #admit(p), run by the chain of c: idempotent, and the result frame is the
\* first thing enqueued to the peer as a member of the room.  `next` is where the
\* chain goes when the peer was seated before.
Admit(c, p, next) ==
  IF p \in admitted
  THEN /\ pc' = [pc EXCEPT ![c] = next]
       /\ UNCHANGED <<admitted, target, heard, fresh>>
  ELSE /\ admitted' = admitted \cup {p}
       /\ pc' = [pc EXCEPT ![c] = "join"]
       /\ target' = [target EXCEPT ![c] = p]
       /\ Hear({p}, <<"seated", None>>)
       /\ fresh' = IF p \in peers THEN {} ELSE fresh

Welcomed(c) ==
  /\ pc[c] = "welcome"
  /\ parity' = [parity EXCEPT ![c] = "ok"]
  /\ Admit(c, c, "idle")
  /\ UNCHANGED <<lifeVars, sockVars, abuseVars, peers, host, hosts, hostReport, report,
                 joined, peerCounter, dataVars, frame, told, cursor, shown, oocSeen, joins>>

BroadcastJoin(c) ==
  /\ pc[c] = "join"
  /\ Hear(Others(target[c]), <<"room", None>>)
  /\ joins' = [joins EXCEPT ![target[c]] = @ + 1]
  /\ pc' = [pc EXCEPT ![c] = "roster"]
  /\ UNCHANGED <<lifeVars, sockVars, abuseVars, roomVars, dataVars, frame, target, told,
                 cursor, fresh, shown, oocSeen>>

BroadcastRoster(c) ==
  /\ pc[c] \in {"roster", "rename"}
  /\ Hear(Seated, <<"room", None>>) /\ SendRoster(Seated)
  /\ pc' = [pc EXCEPT ![c] = IF @ = "roster" THEN "history" ELSE "idle"]
  /\ UNCHANGED <<lifeVars, sockVars, abuseVars, roomVars, dataVars, frame, target, told,
                 cursor, oocSeen, joins>>

\* The planning history, if there is any, as one frame.
SendHistory(c) ==
  /\ pc[c] = "history" /\ History # {}
  /\ oocSeen' = [oocSeen EXCEPT ![target[c]] = @ \cup History]
  /\ pc' = [pc EXCEPT ![c] = "personas"]
  /\ UNCHANGED <<lifeVars, sockVars, abuseVars, roomVars, dataVars, frame, target, told, cursor,
                 heard, fresh, shown, joins>>

\* Where the loop over the personas goes on, without an await when there was no
\* history, and what it has not handed over yet (the map is live).
InPersonas(c) == pc[c] = "personas" \/ (pc[c] = "history" /\ History = {})

\* Mutant: only those of peers that connected before the newcomer.
UntoldElders(c) ==
  {q \in personas \ (told[c] \cup {target[c]}) : joined[q] < joined[target[c]]}

Untold(c) == personas \ (told[c] \cup {target[c]})

\* One turn of that loop (the order of the map is left open).
SendPersona(c, q) ==
  /\ InPersonas(c) /\ q \in Untold(c)
  /\ shown' = [shown EXCEPT ![target[c]] = @ \cup {q}]
  /\ told' = [told EXCEPT ![c] = @ \cup {q}]
  /\ pc' = [pc EXCEPT ![c] = "personas"]
  /\ UNCHANGED <<lifeVars, sockVars, abuseVars, roomVars, dataVars, frame, target, cursor,
                 heard, fresh, oocSeen, joins>>

\* The loop is over: ask the host to republish for a newcomer, and return to
\* whatever awaited the admission.
AdmitDone(c) ==
  /\ InPersonas(c) /\ Untold(c) = {}
  /\ IF host # None /\ target[c] \notin hosts
     THEN Hear({host}, <<"turn", None>>) ELSE UNCHANGED heard
  /\ pc' = [pc EXCEPT ![c] = Resume(c)]
  /\ target' = [target EXCEPT ![c] = None]
  /\ told' = [told EXCEPT ![c] = {}]
  /\ UNCHANGED <<lifeVars, sockVars, abuseVars, roomVars, dataVars, frame, cursor,
                 fresh, shown, oocSeen, joins>>

-----------------------------------------------------------------------------
(* Frames of a peer *)

RoomOps == {"persona", "ooc", "cast", "private", "turn"}

\* The extension answers its challenge once ("again": a client reports more often).
\* Only the host addresses a frame to one peer; everything a client sends to the
\* host alone is a "turn"; a "cast" is forwarded to everyone else.
Sends(c) ==
  {f \in Frames :
     /\ f.op \in Ops
     /\ f.op \in {"report", "invalid"} => parity[c] = "pending" \/ "again" \in Events
     /\ f.op = "private" => c \in hosts /\ f.arg # c
     /\ f.op = "turn" => c \notin hosts
     /\ f.op = "ooc" => ooc < MaxOoc}

\* #onSocketMessage looks the peer up before anything is awaited.
Arrives(c, f) == c \in peers /\ Live(c) /\ Idle(c) /\ f \in Sends(c)

\* openFrame() leaves the event loop free while a compressed frame is inflated.
Inflate(c) ==
  \E f \in Sends(c) :
    /\ Arrives(c, f) /\ f.op \in BigOps
    /\ pc' = [pc EXCEPT ![c] = "decode"]
    /\ frame' = [frame EXCEPT ![c] = f]
    /\ UNCHANGED <<lifeVars, sockVars, abuseVars, roomVars, dataVars, target, told, cursor,
                   viewVars>>

\* The frame is dispatched: at once if it was small, else when it is inflated,
\* and by then its sender may be gone.
Handles(c, f) ==
  \/ Arrives(c, f) /\ f.op \notin BigOps
  \/ pc[c] = "decode" /\ frame[c] = f

Handled(c) == frame' = [frame EXCEPT ![c] = None]
HandledNow(c) == Handled(c) /\ pc' = [pc EXCEPT ![c] = "idle"] /\ UNCHANGED <<target, told, cursor>>

\* A renamed host is announced first and the list follows an await later.
HandleName(c, f) ==
  /\ f.op = "name" /\ Handles(c, f) /\ Handled(c)
  /\ Hear(Seated, <<"room", None>>)
  /\ IF c \in hosts
     THEN /\ pc' = [pc EXCEPT ![c] = "rename"]
          /\ fresh' = IF c \in Seated THEN {} ELSE fresh
          /\ UNCHANGED shown
     ELSE pc' = [pc EXCEPT ![c] = "idle"] /\ SendRoster(Seated)
  /\ UNCHANGED <<lifeVars, sockVars, abuseVars, roomVars, dataVars, target, told, cursor,
                 oocSeen, joins>>

\* Mutant: nothing differs from a baseline that is not there.
ResolveUnchecked(c, p, r, next) ==
  IF hostReport = None \/ r = hostReport
  THEN /\ parity' = [parity EXCEPT ![p] = "ok"]
       /\ Admit(c, p, next)
  ELSE /\ parity' = [parity EXCEPT ![p] = "mismatch"]
       /\ pc' = [pc EXCEPT ![c] = next]
       /\ UNCHANGED <<admitted, target, heard, fresh>>

\* #resolveParity(p), run by the chain of c.
Resolve(c, p, r, next) ==
  IF hostReport # None /\ r = hostReport
  THEN /\ parity' = [parity EXCEPT ![p] = "ok"]
       /\ Admit(c, p, next)
  ELSE /\ parity' = [parity EXCEPT ![p] = "mismatch"]
       /\ pc' = [pc EXCEPT ![c] = next]
       /\ UNCHANGED <<admitted, target, heard, fresh>>

\* Mutant: a status that nothing knows.
HandleUnreadable(c, f) ==
  /\ f.op = "invalid" /\ Handles(c, f) /\ HandledNow(c)
  /\ parity' = [parity EXCEPT ![c] = "unreadable"]
  /\ UNCHANGED <<lifeVars, sockVars, abuseVars, peers, host, hosts, hostReport, admitted,
                 report, joined, peerCounter, dataVars, viewVars>>

HandleInvalid(c, f) ==
  /\ f.op = "invalid" /\ Handles(c, f) /\ HandledNow(c)
  /\ parity' = [parity EXCEPT ![c] = "invalid"]
  /\ UNCHANGED <<lifeVars, sockVars, abuseVars, peers, host, hosts, hostReport, admitted,
                 report, joined, peerCounter, dataVars, viewVars>>

\* The host's report becomes the baseline, seats the host and starts the loop
\* over the peers that arrived before it.
HandleHostReport(c, f) ==
  /\ f.op = "report" /\ c \in hosts /\ Handles(c, f) /\ Handled(c)
  /\ report' = [report EXCEPT ![c] = f.arg]
  /\ hostReport' = f.arg
  /\ parity' = [parity EXCEPT ![c] = "ok"]
  /\ cursor' = [cursor EXCEPT ![c] = 0]
  /\ Admit(c, c, "resolve")
  /\ UNCHANGED <<lifeVars, sockVars, abuseVars, peers, host, hosts, joined, peerCounter,
                 dataVars, told, shown, oocSeen, joins>>

HandleClientReport(c, f) ==
  /\ f.op = "report" /\ c \notin hosts /\ Handles(c, f) /\ Handled(c)
  /\ report' = [report EXCEPT ![c] = f.arg]
  /\ IF hostReport = None
     THEN /\ parity' = [parity EXCEPT ![c] = "waiting-host"]
          /\ pc' = [pc EXCEPT ![c] = "idle"]
          /\ UNCHANGED <<admitted, target, heard, fresh>>
     ELSE Resolve(c, c, f.arg, "idle")
  /\ UNCHANGED <<lifeVars, sockVars, abuseVars, peers, host, hosts, hostReport, joined,
                 peerCounter, dataVars, told, cursor, shown, oocSeen, joins>>

\* Mutant: the loop visits those who arrived after the host only.
WaitingAfter(c) == {p \in peers : parity[p] = "waiting-host" /\ joined[p] > joined[c]
                                  /\ joined[p] > cursor[c]}

\* The host's loop `for (const waiting of this.peers.values())`: a live walk in
\* insertion order, with an await in every resolved entry.
Waiting(c) == {p \in peers : parity[p] = "waiting-host" /\ joined[p] > cursor[c]}

ResolveNext(c) ==
  /\ pc[c] = "resolve"
  /\ \E p \in Waiting(c) :
       /\ \A q \in Waiting(c) : joined[p] <= joined[q]
       /\ cursor' = [cursor EXCEPT ![c] = joined[p]]
       /\ Resolve(c, p, report[p], "resolve")
  /\ UNCHANGED <<lifeVars, sockVars, abuseVars, peers, host, hosts, hostReport, report, joined,
                 peerCounter, dataVars, frame, told, shown, oocSeen, joins>>

ResolveDone(c) ==
  /\ pc[c] = "resolve" /\ Waiting(c) = {}
  /\ pc' = [pc EXCEPT ![c] = "idle"]
  /\ cursor' = [cursor EXCEPT ![c] = None]
  /\ UNCHANGED <<lifeVars, sockVars, abuseVars, roomVars, dataVars, frame, target, told, viewVars>>

\* Mutant: any authenticated peer speaks to the room.
SpeaksOncePresent(c) == c \in peers

Speaks(c) == c \in admitted

\* A frame of a peer still in the lobby is not forwarded.
DropLobbyFrame(c, f) ==
  /\ f.op \in RoomOps /\ ~Speaks(c) /\ Handles(c, f) /\ HandledNow(c)
  /\ UNCHANGED <<lifeVars, sockVars, abuseVars, roomVars, dataVars, viewVars>>

HandlePersona(c, f) ==
  /\ f.op = "persona" /\ Speaks(c) /\ Handles(c, f) /\ HandledNow(c)
  /\ personas' = personas \cup {c}
  /\ shown' = [d \in Conn |-> IF d \in Seated THEN shown[d] \cup {c} ELSE shown[d]]
  /\ Hear(Seated, <<"room", None>>)
  /\ UNCHANGED <<lifeVars, sockVars, abuseVars, roomVars, ooc, fresh, oocSeen, joins>>

HandleOoc(c, f) ==
  /\ f.op = "ooc" /\ Speaks(c) /\ Handles(c, f) /\ HandledNow(c)
  /\ ooc' = ooc + 1
  /\ oocSeen' = [d \in Conn |-> IF d \in Seated THEN oocSeen[d] \cup {ooc + 1} ELSE oocSeen[d]]
  /\ Hear(Seated, <<"room", None>>)
  /\ UNCHANGED <<lifeVars, sockVars, abuseVars, roomVars, personas, fresh, shown, joins>>

HandleCast(c, f) ==
  /\ f.op = "cast" /\ Speaks(c) /\ Handles(c, f) /\ HandledNow(c)
  /\ Hear(Others(c), <<"room", None>>)
  /\ UNCHANGED <<lifeVars, sockVars, abuseVars, roomVars, dataVars, fresh, shown, oocSeen, joins>>

\* Mutant: a recipient that has left turns the frame into a broadcast.
RecipientsOrAll(to) == IF to \in Seated THEN {to} ELSE Seated

\* The relay forwards a frame with a recipient to that peer, if it is seated.
Recipients(to) == {to} \cap Seated

HandlePrivate(c, f) ==
  /\ f.op = "private" /\ Speaks(c) /\ Handles(c, f) /\ HandledNow(c)
  /\ Hear(Recipients(f.arg), <<"private", f.arg>>)
  /\ UNCHANGED <<lifeVars, sockVars, abuseVars, roomVars, dataVars, fresh, shown, oocSeen, joins>>

\* To the host, or an error back to the sender while there is none.
HandleTurn(c, f) ==
  /\ f.op = "turn" /\ Speaks(c) /\ Handles(c, f) /\ HandledNow(c)
  /\ Hear({host} \ {None}, <<"turn", None>>)
  /\ UNCHANGED <<lifeVars, sockVars, abuseVars, roomVars, dataVars, fresh, shown, oocSeen, joins>>

\* A rate limit, a replayed counter, a frame that does not open: the peer is
\* dropped and its address is not penalised.
ProtocolError(c) ==
  /\ "error" \in Events
  /\ (c \in peers /\ Live(c) /\ Idle(c)) \/ pc[c] = "decode"
  /\ HandledNow(c)
  /\ sock' = [sock EXCEPT ![c] = IF @ = "open" THEN "closing" ELSE @]
  /\ UNCHANGED <<lifeVars, stage, code, doomed, backlog, pending, abuseVars, roomVars,
                 dataVars, viewVars>>

\* A frame whose socket is no longer in this.peers (rotated, or queued behind a
\* handler when the socket closed) is taken for a handshake message and fails.
StrayFrame(c) ==
  /\ stage[c] = "peer" /\ c \notin peers /\ Idle(c)
  /\ Live(c) \/ backlog[c] > 0
  /\ backlog' = [backlog EXCEPT ![c] = IF Live(c) THEN @ ELSE @ - 1]
  /\ NoteFailure(IpOf[c]) /\ Reject(c)
  /\ UNCHANGED <<lifeVars, sock, stage, code, bans, roomVars, dataVars, chainVars, viewVars>>
-----------------------------------------------------------------------------
(* Departures, housekeeping and lifecycle *)

\* Mutant: the host slot stays taken.
RemovePeerKeepsHost(c) ==
  /\ peers' = peers \ {c}
  /\ personas' = personas \ {c}
  /\ UNCHANGED <<host, hostReport>>

\* #removePeer: its seat, its persona and, for the host, the slot and the
\* baseline go; the room is told only about a peer that had been seated.
RemovePeer(c) ==
  IF c \in peers
  THEN /\ peers' = peers \ {c}
       /\ personas' = personas \ {c}
       /\ IF host = c THEN host' = None /\ hostReport' = None
                      ELSE UNCHANGED <<host, hostReport>>
  ELSE UNCHANGED <<peers, personas, host, hostReport>>

\* Once its socket is closed nothing refers to the Peer object but a handler that
\* awaits; without one its fields are no longer part of the state.
Collectable(c) == Idle(c) /\ \A d \in Conn : target[d] # c
Collect(c, f, initial) == IF Collectable(c) THEN [f EXCEPT ![c] = initial] ELSE f
Drop(c, S) == IF Collectable(c) THEN S \ {c} ELSE S

\* Mutant: a departure is announced, and no roster follows.
FreshWithoutRoster(c) == IF c \in Seated THEN {} ELSE fresh

\* Who holds the present roster once c is gone.
FreshAfter(c) == IF c \in Seated THEN Others(c) ELSE fresh

\* The socket's close event: the client left, the network failed, or the relay's
\* own close() completed.  Frames received before it stay queued behind a handler
\* that is still awaiting.  The departure of a seated peer sends the roster.
SocketClosed(c) ==
  /\ sock[c] \in {"open", "closing", "dead"}
  /\ sock' = [sock EXCEPT ![c] = "closed"]
  /\ pending' = pending \ {c}
  /\ doomed' = doomed \ {c}
  /\ \E n \in IF Idle(c) THEN {0} ELSE 0..MaxBacklog : backlog' = [backlog EXCEPT ![c] = n]
  /\ RemovePeer(c)
  /\ LET told_ == IF c \in Seated THEN Others(c) ELSE {}
     IN  /\ heard' = Collect(c, [d \in Conn |-> IF d \in told_ THEN heard[d] \cup {<<"room", None>>}
                                                ELSE heard[d]], {})
         /\ shown' = Collect(c, [d \in Conn |-> IF d \in told_ THEN shown[d] \cap Others(c)
                                                ELSE shown[d]], {})
         /\ fresh' = FreshAfter(c)
  /\ stage' = Collect(c, stage, IF stage[c] = "peer" THEN "left" ELSE "closed")
  /\ code' = Collect(c, code, 0)
  /\ hosts' = Drop(c, hosts) /\ admitted' = Drop(c, admitted)
  /\ parity' = Collect(c, parity, "pending") /\ report' = Collect(c, report, None)
  /\ joined' = Collect(c, joined, 0)
  /\ oocSeen' = Collect(c, oocSeen, {}) /\ joins' = Collect(c, joins, 0)
  /\ UNCHANGED <<lifeVars, abuseVars, peerCounter, ooc, chainVars>>

\* sweep(): a peer that went silent, or that was never admitted in time.
SweepSilent(c) ==
  /\ "silent" \in Events /\ life = "up" /\ c \in peers /\ sock[c] = "open"
  /\ sock' = [sock EXCEPT ![c] = "closing"]
  /\ UNCHANGED <<lifeVars, stage, code, doomed, backlog, pending, abuseVars, roomVars,
                 dataVars, chainVars, viewVars>>

\* Mutant: a peer that has reported is no longer timed.
ExpiredPending(c) == c \in Lobby \ doomed /\ sock[c] = "open" /\ parity[c] = "pending"

\* Past the lobby's time limit, and not closed for it yet.
Expired(c) == c \in Lobby \ doomed /\ sock[c] = "open"

SweepLobby(c) ==
  /\ "lobby" \in Events /\ life = "up" /\ Expired(c)
  /\ doomed' = doomed \cup {c}
  /\ UNCHANGED <<lifeVars, sock, stage, code, backlog, pending, abuseVars, roomVars, dataVars,
                 chainVars, viewVars>>

\* The block on an address runs out and sweep() forgets it.
SweepOffender(ip) ==
  /\ life = "up" /\ ip \in blocked
  /\ blocked' = blocked \ {ip}
  /\ failures' = [failures EXCEPT ![ip] = 0]
  /\ UNCHANGED <<lifeVars, sockVars, bans, roomVars, dataVars, chainVars, viewVars>>

Kick(c, ban) ==
  /\ "kick" \in Events /\ (ban => "ban" \in Events)
  /\ c \in peers
  /\ doomed' = doomed \cup {c}
  /\ bans' = IF ban THEN bans \cup {IpOf[c]} ELSE bans
  /\ UNCHANGED <<lifeVars, sock, stage, code, backlog, pending, failures, blocked, roomVars,
                 dataVars, chainVars, viewVars>>

Unban(ip) ==
  /\ ip \in bans /\ bans' = bans \ {ip}
  /\ UNCHANGED <<lifeVars, sockVars, failures, blocked, roomVars, dataVars, chainVars, viewVars>>

\* rotate(): a new key; everyone in this.peers is closed and forgotten.
Rotate ==
  /\ life = "up" /\ gen < MaxGen
  /\ gen' = gen + 1
  /\ sock' = [c \in Conn |-> IF c \in peers /\ sock[c] = "open" THEN "closing" ELSE sock[c]]
  /\ peers' = {} /\ host' = None /\ hostReport' = None
  /\ UNCHANGED <<life, stage, code, doomed, backlog, pending, abuseVars, hosts, admitted, parity,
                 report, joined, peerCounter, dataVars, chainVars, viewVars>>

\* stop(): it awaits the router first, and the room works on meanwhile.
StopBegins ==
  /\ "stop" \in Events /\ life = "up" /\ life' = "stopping"
  /\ UNCHANGED <<gen, sockVars, abuseVars, roomVars, dataVars, chainVars, viewVars>>

StopEnds ==
  /\ life = "stopping" /\ life' = "down"
  /\ peers' = {} /\ pending' = {} /\ host' = None /\ hostReport' = None
  /\ personas' = {} /\ ooc' = 0
  /\ sock' = [c \in Conn |-> IF Live(c) THEN "dead" ELSE sock[c]]
  /\ UNCHANGED <<gen, stage, code, doomed, backlog, abuseVars, hosts, admitted, parity, report,
                 joined, peerCounter, chainVars, viewVars>>

\* start(): fresh secrets on the same Relay object.
Start ==
  /\ life = "down" /\ gen < MaxGen
  /\ life' = "up" /\ gen' = gen + 1
  /\ UNCHANGED <<sockVars, abuseVars, roomVars, dataVars, chainVars, viewVars>>

-----------------------------------------------------------------------------
(* Specification *)

Handshake(c) ==
  \/ Dial(c)
  \/ HelloBadRevision(c) \/ HelloUnknownRoom(c) \/ HelloNoRoom(c) \/ HelloAccepted(c)
  \/ ConfirmBadMac(c) \/ Confirm(c)
  \/ HandshakeTimeout(c)

Admission(c) ==
  \/ Welcomed(c) \/ BroadcastJoin(c) \/ BroadcastRoster(c) \/ SendHistory(c)
  \/ \E q \in Conn : SendPersona(c, q)
  \/ AdmitDone(c)
  \/ ResolveNext(c) \/ ResolveDone(c)

Handle(c, f) ==
  \/ HandleName(c, f) \/ HandleInvalid(c, f) \/ HandleHostReport(c, f) \/ HandleClientReport(c, f)
  \/ DropLobbyFrame(c, f) \/ HandlePersona(c, f) \/ HandleOoc(c, f) \/ HandleCast(c, f)
  \/ HandlePrivate(c, f) \/ HandleTurn(c, f)

Departure(c) ==
  \/ DelayedClose(c) \/ SocketClosed(c) \/ SweepSilent(c) \/ SweepLobby(c)
  \/ \E ban \in BOOLEAN : Kick(c, ban)
  \/ ProtocolError(c) \/ StrayFrame(c)

Lifecycle ==
  \/ Rotate \/ StopBegins \/ StopEnds \/ Start
  \/ \E ip \in Ip : SweepOffender(ip) \/ Unban(ip)

Next ==
  \/ \E c \in Conn :
       \/ Handshake(c) \/ Admission(c) \/ Inflate(c) \/ Departure(c)
       \/ \E f \in Frames : Handle(c, f)
  \/ Lifecycle

Spec == Init /\ [][Next]_vars

\* Timers fire, a closed socket reports it (ws gives the closing handshake thirty
\* seconds), the sweeper's interval runs, and a handler's awaits end.
Fairness ==
  /\ \A c \in Conn :
       /\ WF_vars(HandshakeTimeout(c)) /\ WF_vars(DelayedClose(c))
       /\ WF_vars(sock[c] # "open" /\ SocketClosed(c))
       /\ WF_vars(SweepLobby(c)) /\ WF_vars(Admission(c))
       /\ WF_vars(\E f \in Frames : pc[c] = "decode" /\ Handle(c, f))
  /\ WF_vars(StopEnds)

FairSpec == Spec /\ Fairness
-----------------------------------------------------------------------------
(* Properties *)

\* No handler is between two of its awaits.
Quiet == \A c \in Conn : Idle(c)

\* The host slot (#onConfirm, #removePeer, rotate): it names a present peer, and
\* of the present peers only that one has the host role, however claimants come,
\* go and come back.
OneHost ==
  /\ host # None => host \in peers \cap hosts
  /\ peers \cap hosts \subseteq {host}

\* The parity gate (#onParityReport, #resolveParity): with the check on, a client
\* becomes admitted only in a step that compares its latest report with the
\* baseline as it is then and finds them equal.
AdmittedByGate ==
  [][\A c \in admitted' \ admitted :
       RequireParity /\ c \notin hosts => report'[c] # None /\ report'[c] = hostReport']_vars

\* #admit and #broadcast: nothing of the room reaches a peer before the frame that
\* tells it that it is seated, whichever handlers are half way.
SeatedFirst ==
  \A c \in Conn :
    (\E k \in heard[c] : k[1] \in {"room", "private"}) => <<"seated", None>> \in heard[c]

\* #onPeerFrame: a frame addressed to one peer is never heard by another, not even
\* when the recipient has left ("must not turn a private catch-up into a broadcast").
PrivateStaysPrivate ==
  \A c, to \in Conn : <<"private", to>> \in heard[c] => c = to

\* #admit is reached from the peer's own report, from the host's loop and from a
\* repeated report, and still announces a peer once.
JoinAnnouncedOnce == \A c \in Conn : joins[c] <= 1

\* Whenever no handler is under way, every seated peer's latest roster frame is the
\* roster: joins, departures and renames that overlap lose no update.
RosterConverges == Quiet => Seated \subseteq fresh

\* #admit, #onPersona, #onOoc: by then a newcomer also has the persona of every
\* seated peer that published one and the whole planning history, although both
\* were growing while it was being seated.
NewcomersCaughtUp ==
  Quiet => \A c \in Seated :
             /\ personas \cap Seated \subseteq shown[c] \cup {c}
             /\ History \subseteq oocSeen[c]

\* #onParityReport: once there is a baseline, nobody is left in the state the
\* host's loop resolves; an arrival during the loop is not missed.
NobodyLeftWaiting ==
  Quiet /\ hostReport # None => \A c \in peers : parity[c] # "waiting-host"

\* #onPeerFrame ("still in the lobby: nothing is forwarded"): no profile enters the
\* cache newcomers are served from unless its owner has been admitted.
LobbyIsMute == [][personas' \ personas \subseteq admitted]_vars

\* #removePeer and rotate: a socket that is no longer a peer is enqueued no room
\* traffic; at most the tail of an admission already under way tells it that it
\* was seated.
DepartedHearNothing ==
  [][\A c \in Conn :
       stage[c] = "peer" /\ c \notin peers => heard'[c] \subseteq heard[c] \cup {<<"seated", None>>}]_vars

\* #onConnection's timer and #rejectSocket: no half-open socket keeps its place in
\* `pending`, which is what admits or refuses new sockets.
HandshakesEnd == \A c \in Conn : c \in pending ~> c \notin pending

\* sweep(): a peer that answers heartbeats but is never admitted does not hold its
\* lobby place for ever, with the relay up or stopping.
LobbyWaitsEnd == \A c \in Conn : c \in Lobby ~> c \notin Lobby

\* A refused, kicked or expired socket is gone in the end.
DoomedSocketsClose == \A c \in Conn : c \in doomed ~> sock[c] = "closed"

=============================================================================
