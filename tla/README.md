# A verification project for Multiplayer for SillyTavern

Multiplayer lets several people share one SillyTavern chat. The host runs a relay (a Node plugin
inside the SillyTavern server, `src/server/`) and a browser extension (`src/index.js`, `src/lib/`);
every other player runs the extension only and joins with a connection code. This directory holds
TLA+ models of that code, the TLC configurations that check them on small instances, and TLAPS
proofs about them.

## The system and what makes it correct

| Component | State | Operations | Talks to |
|---|---|---|---|
| Room relay, `server/lib/relay.js` | sockets and their handshake state, `pending`, `peers`, `host`, `hostReport`, per-peer parity and admission, cached personas, planning history, `failures`, `bans`, the pre-shared key | upgrade, HELLO, CONFIRM, peer frames, close, sweep, kick, unban, rotate, start, stop | every client's transport, the plugin |
| Transport, `lib/transport.js` | socket, state, session keys, counters, reconnect attempts, timers | connect, close, send, incoming messages, heartbeat, reconnect | the relay, the session |
| Send budget, `lib/send-budget.js` | message and byte tokens | take | the transport, the relay's token buckets |
| Session, `lib/session.js` | connection epoch, routing chain, role, roster, active card and chat, outstanding definition and avatar requests | host, join, leave, route one message, publish persona and cards | transport, chat, card store, lorebook |
| Chat mirror, `lib/chat.js` | transcript, applied ids, suppressed ids, streaming placeholder, personas | local message, edit, delete; remote turn, message, edit, delete; stream; snapshot | the host application, the session |
| Card store, `lib/card-store.js`, `lib/identity.js` | remembered cards, files on disk, per-key queue | sync, avatar, adopt, audit | SillyTavern's character API |
| Personas, `mp-personas.js` | reservations, uploaded files | build, retry | SillyTavern's avatar API |
| Notice, typing, planning chat, lore | phases, timers, who is typing, messages | set, expire, reset | the session |
| Port mapping, `server/lib/portmap.js` | mapping, renewal timer | open, renew, close | the router |
| Host plugin, `server/index.js` | a mutex over start, stop and rotate | HTTP routes, exit hook | the relay, the mapper |

What has to hold, and where it is hard:

* **Relay.** Node runs one callback at a time, but every handler awaits: sealing, inflating and
  sending are asynchronous, and between two awaits another socket's handler, a close event, a timer
  or a host command runs. One socket's frames are handled in order (a promise chain per socket),
  sockets interleave freely. Correct means: one host; with the extension check on, nobody is seated
  whose extensions differ from the host's; nothing of the room reaches the lobby; a private frame
  stays private; everyone seated ends up with the same roster, the personas and the planning history;
  nobody is forgotten in the lobby; half-open and refused sockets end.
* **Transport.** Timers race answers; a reconnect may overlap a close; frames queued for a replaced
  socket must die with it.
* **Session.** Messages of an earlier connection are still on the routing chain when a new one opens.
* **Chat.** The host's transcript is canonical. Turns, appends, edits, deletes, stream tokens and
  snapshots interleave around an asynchronous save; clients address rows by index while the rows move.
* **Card store, personas.** Two windows write the same file; writes fail half way.
* **Port mapping, plugin.** A router answers after the deadline; a renewal overlaps the removal; the
  exit hook bypasses the mutex.

The hazards of the code, line by line, with the property that covers each, are in `PROJECT.json`.

## The modules

* `Relay.tla` is the relay. An action is the code between two awaits. `pc[c]` says where the handler
  run by socket `c`'s promise chain is waiting; `target[c]` is the peer that handler is admitting,
  `cursor[c]` the position of the host's walk over `this.peers`, `told[c]` the personas handed over
  so far. `sock` and `stage` are the socket's `readyState` and its handshake stage; `doomed` holds the
  sockets with a delayed `close()` armed; `backlog` counts frames that were received before the close
  event and wait behind a handler. What clients have been told is recorded in `heard`, `fresh` (whose
  latest roster is the present one), `shown` (whose profile a client displays), `oocSeen` and `joins`.
  A socket is dialled once: a player who comes back is another element of `Conn` with the same address.
  Cryptography is reduced to its outcome: a HELLO made from an old code names another room, and a
  socket in `Garbled` never confirms. Rate limits, replayed counters and undecipherable frames are
  one action, `ProtocolError`.
* `Room.tla` is the abstract specification: seats that are taken and left, and one host seat.
* `RelayRoom.tla` maps the relay's state to seats (`SeatOf`) and states `ImplementsRoom`.
* `ChatSync.tla` is the shared transcript: `lib/chat.js` at the host and at each client, with the
  routing in `lib/session.js` that calls it. `rows[p]` is peer `p`'s `context.chat`; `applied`,
  `suppress`, `streaming` and `placeholder` are the bridge's fields of the same names. The relay
  appears as one ordered queue each way (`toHost`, `toClient`), which is what its per-socket chains
  give; `Orphan` stands for frames whose answer has nobody to go to. `pc` is where the host's routing
  chain waits: `acceptRemoteTurn` for `saveChat()`, `handleGenerationRequest` for a whole reply, while
  the host's user, SillyTavern's generation and the clients go on. `applyRemoteEdit` and the local
  edit event SillyTavern may fire for it are one action, whose `Echo` is what the event would send.
* `Transcript.tla` is the abstract chat: messages are added at the end once, keep their place while
  they are reworded, and do not come back once removed. `ChatSync` maps to it with `rows[Host]`.
* `Transport.tla` is `SecureSocket`, one player's end of the connection. Each dial has a number;
  `socket` is the dial `this.socket` holds, `rx[d]` and `generating` are the continuations that dials
  have left behind on their receive chain and in `#startHandshake`, which find out by
  `this.socket !== socket` that they are too late (`Abandons`). `keys`, `pending` and `pendingKeys` name
  the dial they were made for. `queue` and `sealing` are the send chain: what `send()` captured, and the
  frame that is being sealed or waits for the budget. The relay's end is `relay`, an environment that
  answers in the order of the handshake, refuses, forges an acceptance, or says nothing. Heartbeat and
  the stable minute are events that may come at any time.
* `Session.tla` extends it with the session's hold on it: `held` is the `SecureSocket` of the room,
  `epoch` and `chain` stand for `_epoch` and the promise chain `_routes`; `routes` are the payloads that
  wait there, `routing` those whose handler is awaiting something. A KICK is a payload that makes the
  session leave. Epochs, chains and sockets are numbered with the least numbers nothing in flight
  carries (`Fresh`; there is always one), so that TLC sees finitely many without a bound on them.
* `PortMap.tla` is `PortMapper` and the router. `tries` are the discoveries in progress, one record
  per attempt with the state of either protocol, and stay there when `open()` has given up on them;
  `mapping`, `service`, `timer` are the mapper's fields, `renewing` and `removing` the requests in
  flight, and `left` is the router's table: ticks left of each mapping it holds.
* `Hosting.tla` puts it under `Relay.start()` and `Relay.stop()` and those under the plugin's routes.
  `queue` is the promise chain of the mutex, `pc[t]` the await caller `t` is at, `listening` the ports
  an HTTP server holds (two servers never hold one port), `server` the one the relay knows. The exit hook is a caller that does not
  queue. `Killed`, `Restarts`: the process ends, the router's table stays.
* `CardStore.tla` is `SharedCardStore` for one card: `disk` is the character files, `list` each
  window's `characters` (older than the disk), `records` each window's `remoteCards`. `job[a]` is actor
  `a`'s call, from `sharedWrite`'s queue to the check of what was written; a request takes effect at one
  moment before it is answered, or fails, or succeeds and reports a failure.
* `CardSync.tla` is the client's side of a shared card over it: catalogue, requests, definitions in
  memory, refreshes of the list. `at[a]` is the await a message handler, the panel or the other tab is
  at, `current[a]` what its `isCurrent()` would say. The relay is a queue each way that a lost
  connection empties. Of the catalogue's other cards only that a file of theirs was written is followed,
  since that brings the refresh all cards share. `behind` is a history variable: the card's `sync` has
  failed since the catalogue came.
* `Presence.tla` is who plays whom: the player's `publishPersona` and the persona that goes with a turn
  (`jobs`, calls of `describeLocalPersona` at their awaits), the relay's cache, the host's memory and
  what it puts in front of its model. `strayed` is a history variable: the last persona the room had was
  sent with a turn, not by `publishPersona`.
* `MCRelay.tla`, `MCChatSync.tla`, `MCHosting.tla` and `MCCardSync.tla` give the constants their values
  or their symmetry for TLC.
* `RelayProofs.tla`, `ChatSyncProofs.tla`, `MirrorProofs.tla`, `TransportProofs.tla`,
  `SessionProofs.tla`, `HostingProofs.tla`, `CardSyncProofs.tla` and `PresenceProofs.tla` hold the
  theorems.

`Events` of `ChatSync` says what users and the network do in an instance. Four of its events are left
out of the passing runs, because the code gives up on the transcript there, and no property of the
passing runs is claimed for them: `"early"`, a client writes before the transcript it asked for has
arrived (see "Known disagreements"); `"hasty"`, a user changes a row within two seconds of a
remote change to it, which `suppress` keeps from being sent; `"careless"`, the host deletes a client's
turn while it is being saved, so the delete overtakes the append; `"old"`, a user edits or deletes a
row older than the sharing, which has no id (edits are not sent, deletes go by index).
Outside the model: the snapshot's limit of 200 rows, other chat files of the same card, the host's own
disconnection (which ends the room), empty turns, and the host changing chats while it generates.
Outside `Transport` and `Session`: `send()` without keys, which does nothing; frames that do not fit
the state of the handshake, which end as a `"garbled"` one does; and the close for an unexpected role.

In `PortMap` and `Hosting` time is counted in ticks of some minutes. Requests, the discovery budget and
retries take seconds, so a tick falls between them only (`Quiet` in `Tick`), and `MaxPerTick` bounds
what users and restarts do within one. Outside: a router that grants a shorter lease than asked for, and
a request that is still unanswered after its own timeout. A renewal that fails is tried again at the
next margin, not before the lease ends (`missed` records it).

In `CardStore` one card stands for all, since jobs of different cards touch different keys and files;
definition and portrait have one revision number, and a portrait's chunks arrive as one message. The
user replaces or deletes a file only while no call runs: a call takes a moment, a person longer.

In `Presence` a persona is an identity, a text (name, description, lorebook) and an image. Frames of a
lost connection reach the relay before the next one is admitted, or never. Outside: several players,
whose entries differ by connection as one player's do, and the roster's names in the prompt.

Definitions that start "Mutant:" are not part of the specification. Each is a plausible bug in the
definition that follows it; replacing that definition by the mutant makes a property of a run fail,
which shows that the property depends on the code.

## The runs

Deadlock is checked in the two runs of `Hosting`, where time always passes. It is off elsewhere: a socket
is dialled once and what users do is bounded, so every behaviour ends.

| Run | Instance | Shows |
|---|---|---|
| `relay_gate` | two tabs of the host and a client, extension check on, two fingerprints, big reports that are inflated | `TypeOK`, `OneHost`, `NobodyLeftWaiting`, `AdmittedByGate`, `LobbyIsMute` |
| `relay_room` | a host and two clients, check off, personas, a planning message, private frames, renames | `NewcomersCaughtUp`, `SeatedFirst`, `PrivateStaysPrivate`, `RosterConverges`, `DepartedHearNothing` |
| `relay_lobby` | a host and a client that reports again, is kicked, banned, silent or waits for ever; stop | `JoinAnnouncedOnce`, `LobbyWaitsEnd`, `ImplementsRoom` |
| `relay_handshake` | an outdated client, a garbled one and the host, timeouts, a stop and a restart, a rotation | `HandshakesEnd`, `DoomedSocketsClose` |
| `chat_mirror` | a host and two clients; two messages, four events among writing, editing, deleting, walking away, dropping, the host leaving | `TypeOK`, `Mirrored`, `NoEcho`, `ImplementsTranscript` |
| `chat_stream` | a host and a client; generations, tokens, requests, walks, drops; six events | `OneReply`, `TokensBeforeEnd`, `Mirrored` |
| `connection` | a session, three dials, one retry, two payloads either way | `SessionTypeOK`, `OpenAgreed`, `WireOrder`, `RetryWanted`, `RetryBudget`, `RoutedWhileUp`, `HandshakesFinish` |
| `hosting` | two overlapping requests, the exit hook, kills, one port, a lease of three ticks, both protocols, every fault | `OneListener`, `OfferedIsMapped`, `HolesClose`, `StopStops` |
| `port_left_open` | violation: `ClosedBeforeReleased`, no faults | what discovery maps after its budget is not taken back |
| `shared_cards` | two handlers, the panel, another tab; two revisions, the deterministic file and one other; two of: failures, losses, changes by host or user, panel and tab calls | `PortraitTrue`, `OwnCardsSafe`, `BorrowedOnly`, `ObsoleteNeverStays` |
| `second_stub` | violation: `OneCopy`, one event | a stub taken over from an older build is not recognised again |
| `presence` | two personas, two texts, two images, two connections, two calls at a time, three acts of users and network | `RoomSeesMe`, `FaceBelongs`, `PromptStaysInRoom` |

**Bounds.** Three sockets are the least with which an admission can be overtaken by a second one and
watched by a third; two fingerprints are the least that differ; one planning message and a history of
one make the history both empty and full; two generations give a stale code. `MaxOoc`, `MaxGen` and
`MaxBacklog` bound counters the code leaves unbounded, and appear in guards only. Two clients are
interchangeable where a run declares symmetry; runs with liveness declare none.

In `ChatSync`, `MaxActs` bounds what users and the network do and `MaxSays` the messages; frames that
these cause are unbounded. Two texts are the least an edit can tell apart, two clients the least for
an author and a bystander; a snapshot, its request and a turn that crosses them need three events. The
streaming run needs one client only, since clients never see each other's placeholders, and six
events: a start, two tokens, and what shifts the placeholder. `Mirrored` compares the chats as bags,
because a client shows its own turn before the host does and the order may differ for good.

In `Transport`, three dials are a first one, the retry `MaxAttempts` of one allows (eight in the code),
and a dial too many or a room entered anew. Two payloads are the least of which one waits behind the
other, on the send chain or on the routing chain. `UnreachableAfter` is one instead of three, so that
giving up competes with the retry.

In `Hosting`, two requests are the least that overlap, and the exit hook is a third caller. One port is
enough for what is mapped, removed and offered; whether the numbers differ is looked at in the code of
`close()` alone (`RemovalOf` takes the new port when `open()` calls it), and the proofs hold for any set
of ports. A lease of three ticks with a margin of one is the least that has a renewal before the end and
a tick to miss it. One discovery at a time (`MaxTries`) lets a second `open()` wait for the first one's
stragglers. In `CardSync`, two events are the least with which a failure meets a change; every run of
the store, the handlers and the relay that these cause is unbounded. `Locks` is `TRUE` there, as in
current browsers; `OwnCards` is proved without it, `Portraits` with it (where there are no locks, `sharedWrite` lets two
windows write, and TLC finds the portrait and its marker apart). In `Presence`, three acts are a change at an await of
a publication that another one, or a loss, overtakes.

**Fairness.** In `Hosting`, requests to the router end by an answer or their timeout, timers fire, tasks
go on after their awaits, the exit hook ends, and time passes; nothing has a request arrive or a process
start. `CardSync` and `Presence` state safety only. In `Relay`, `Fairness` is what the platform gives: armed timers fire (`HandshakeTimeout`,
`DelayedClose`), a socket that is closing reports its close event (the `ws` library gives the closing
handshake thirty seconds), the sweeper's interval runs while the relay is up (`SweepLobby`), a
handler's awaits end (`Admission`, inflating), and `stop()` completes. Clients are not assumed to do
anything. In `Session`, the handshake timer fires, a closing WebSocket reports its close event, and a
relay closes what it has refused (`DoomedSocketsClose` of `Relay`): `#onReject` clears the timer, so a
relay that refuses and stays would leave the handshake unfinished.

## What is proved

Everything below holds for every set of sockets, peers and texts, every option and every bound.

* `RelayProofs!Invariance`: `IInv`, the inductive invariant, is `TypeOK` with `Targeted` (a handler
  inside an admission has a target), `Gated` (with the check on, no handshake ends in an admission), `PeerStage`
  (peers and the host are authenticated sockets), `Authenticated` (so are admitted and awaited ones),
  `OneHost`, `AdmittedTold` (whoever is admitted was told so), `SeatedFirst` and
  `PrivateStaysPrivate`. The properties are not inductive alone: `SeatedFirst`, for one, needs that a
  broadcast reaches admitted peers only and that admission and its frame are one step.
* `TypeCorrect`, `HostSlot`, `AdmissionComesFirst`, `PrivateDelivery`: the invariants it implies.
* `ParityGate` and `DepartedAreSilent`: the action properties, from the same invariant, one step per
  action of `Next`.
* `RoomInvariance`: `RInv` adds `Authenticated` (which sockets can have handlers at an await). On it rest
  `LobbyPublishesNothing` (`LobbyIsMute`) and four that speak of awaits, each with an invariant of what is
  still due. `AnnouncedOnce` (`JoinAnnouncedOnce`): a peer that has not been announced is due at one
  handler only. `RostersConverge` (`RosterConverges`): whoever lacks the roster is owed it by a handler
  that will broadcast one. `LoopMissesNobody` (`NobodyLeftWaiting`): peers are numbered as they join, and
  one that waits for a baseline has a number ahead of some loop's cursor (`NoneSkipped`). `CaughtUp`
  (`NewcomersCaughtUp`): what a seated peer has not been shown is what an admission has still to bring
  it (`NewsComing`).
* `RelayImplementsRoom`: every step of the relay is a step of `Room` or a stutter.
* `ChatSyncProofs!TypeCorrect`; it holds as it stands, with `saved` tied to `pc`.
* `NewTurns`: no turn on its way to the host was in its chat before, and no two have the same id. It
  is what makes `Add` of `Transcript` enabled when the host takes a turn, so
  `HostChatIsTranscript` (every step is a step of `Transcript` or a stutter) rests on it, and
  `HostHoldsEachOnce` (no message twice in the host's chat) on that.
* `ChangesAreNotEchoed`: the action property `NoEcho`, one step per action.
* `TokensStayInOrder`: from the invariant `StreamOrder`. The order of a queue alone is not inductive:
  a token may be appended behind an old end, so the invariant adds that a timer is armed only while
  the host generates, and that while it does every end on its way has a start behind it. Steps other
  than the three that start, stream and end a generation are shown to be `Calm` (they take the head,
  drop the queue, or append other frames), and calm steps keep it.
* `MirrorProofs!ChatsMirror` (`Mirrored`) and `OneReplyOnly` (`OneReply`); and, from less,
  `FollowersAreCurrent` (what holds before everything has come to rest) and `MessagesMirror` (at rest the
  messages are the same). The argument is below.
* `TransportProofs!Invariance`: `IInv` is the types with `Ends` (without a WebSocket nothing of a
  connection is left), `Unused` (a dial to come is untouched), `InTurn` (every frame on its way, and
  what is left of one, fits what relay and client have done; one of the handshake is the first),
  `Prepared` (the client's half of the handshake), `Counted` (the attempts cover the retry that is due)
  and `Ordered` (the counters on the wire are behind the one being sealed), besides the properties
  themselves. `OpenAgreed` alone is not inductive: that the keys about to be installed are this
  socket's rests on `InTurn`, which follows the frame from the relay to the end of its await.
* `ChannelIsAgreed`, `FramesStayInOrder`, `RetriesAreWanted`, `RetriesEnd`: what it implies.
* `HostingProofs!Invariance`, with `TypeCorrect` and `NoOrphans` (`OneListener`). `OneListener` is not
  inductive: that no listener outlives the relay's knowledge of it needs that only one task is past its
  turn (the head of `queue`), that no request is in the queue twice, and, for each place in `start()` and
  `stop()`, what `server` and `listening` are there. It says nothing once the exit hook runs, which
  bypasses the mutex.
* `Offered` (`OfferedIsMapped`), from `Offering` on top of it: what is mapped, or about to be, is the
  port the relay listens on (`AtPort`); a removal that is awaited is for a hole nobody is mapping again
  (`Pending`); what the discovery reported is in the router with a full lease (`Reported`); and an offered
  address has a mapping whose timer fires a margin before its lease ends, or whose renewal is in flight,
  while a renewal that an earlier mapping left behind is answered before this one has aged (`Offers`). It
  holds with the exit hook at work.
* `CardSyncProofs!Invariance`: types, `Adopting` (whoever is about to link a copy knows its file) and
  `Careful`, for each call: while it looks for its file it still has the deterministic name before it or
  has seen that no card of the user's is there (`Looks`), and what it has found is not the user's, nor is
  the deterministic name when it found nothing (`Holds`). A read and the write that follows are awaits
  apart, so this must survive every other actor's steps: `OwnKept` is what those keep, `StaysCareful` why
  it is enough. `TypeCorrect` and `OwnCards` (`OwnCardsSafe`) follow, with the browser's locks or without.
* `Portraits` (`PortraitTrue`), for browsers with locks: one call runs at a time (`Sole`), and what a call
  has read is on disk still when it writes (`ReadStill`).
* `Borrows` (`BorrowedOnly`) and `NoObsolete` (`ObsoleteNeverStays`), from `Carried`: one handler acts for
  the connection (`Ordered`), what is held, pending or shown needs a connection and a catalogue entry
  (`Borrowed`), and an old revision is held only while the catalogue's handler has yet to look at it, and
  shown only while a catalogue is still to come (`Fresh`). `Fresh` is false after a failed `sync`, which is
  the last but one of the known disagreements.
* `PresenceProofs`: `NobodyWearsAnothersFace` (`FaceBelongs` is inductive by the merge rules of
  `rememberPersona`, lemma `Merged`) and `OtherChatsAreNotTold` (`PromptStaysInRoom`, strengthened by
  `Bared`: a host that is off line has nothing injected).
* `PresenceProofs!Invariance`, `TypeCorrect` and `RoomKnows` (`RoomSeesMe`). The invariant follows a
  persona from the menu to the host's memory: one job publishes for the connection (`OneJob`); what it
  has said is the persona of the moment, unless the timer runs, the job has been noted to, or has read the
  persona since (`Known`); frames belong to the present connection (`Routed`); and what was sent last
  (`LastSaid`) is the last frame to the relay, or is cached there and, if the host is up, in its memory or
  on the way to it with nothing but harmless news behind (`Followed`). `HostReturns` is the subtle step:
  the newest connection's persona is the last the host is given.
* `SessionProofs!SessionUsesTransport`: a session's steps are `Transport`'s or leave it alone, so the
  four hold in every session (`SessionChannelIsAgreed` and so on), which is what the run checks.
* `SessionInvariance`, with `SessionTypeCorrect` (`SessionTypeOK`) and `OnlyWhileUp` (`RoutedWhileUp`): to
  the transport's invariant `Chained` adds that the chain and the handlers in flight are finitely many, so
  that a fresh number exists, and `Live` that a payload that counts as current came over the present
  socket, with the channel open.

The assumptions are `ConnAssumption` and `BoundAssumption` of `Relay.tla`, `ChatAssumption` of
`ChatSync.tla`, `TransportAssumption` of `Transport.tla`, `PortMapAssumption`, `HostingAssumption`,
`CardStoreAssumption`, `CardSyncAssumption` and `PresenceAssumption` of the modules of those names: facts about how constants are chosen (finitely many sockets, bounds that are numbers,
names that differ), evaluated by every TLC run.

`Portraits` also assumes `Locks`.

The theorems of `MirrorProofs` assume `Careful` (none of the events `"early"`, `"hasty"`, `"careless"`,
`"old"`, see above), and `ChatsMirror` and `OneReplyOnly` assume `Apart` too: not both `"reply"` and
`"delete"` are events, since a delete in front of a placeholder moves it from under its index ("Known
disagreements"). Both passing runs are such instances (`chat_mirror` deletes, `chat_stream` replies).
Where deletes and replies mix, `MessagesMirror` still holds: what may stay is the half-written reply.

Only model-checked is everything about liveness (`LobbyWaitsEnd`, `HandshakesEnd`, `DoomedSocketsClose`,
`HandshakesFinish`, `HolesClose`, `StopStops`), which the proof system does not reach.

### Why the chats mirror

`Mirrored` speaks of rest; what holds in between has to be found. Applying the frames of a queue to a chat
one after the other would be a fold over the queue, and an induction the provers do not do. Instead:

* A chat is taken as the set of its messages (`Lines`): in the host's chat no id occurs twice
  (`HostHoldsEachOnce`), and in a client's that follows neither. `Following(c)`: the client looks at the
  session's chat, is not waiting for a transcript, and no news of the host's leaving is on its way.
* `StepKinds`: every step of careful users is one of fourteen kinds (`Kinds`), by what it does to messages
  and what it sends about them; signals, walks and generations are `NoNews`.
* `Known`: chats and frames are about messages that were written, appends and transcripts about ones the
  host had. `Authored`: of a turn on its way nobody but its author knows. `InOrder`: no edit or delete
  overtakes its turn. `HostLeft`: a client that is still in the session while the host is not is about to
  be told.
* `Frames`: a frame is judged with what stands behind it in the queue. What it says of a message is the
  host's wording unless an edit stands behind (`Exact`); a message appended behind it is not in it (`Fresh`);
  what it deletes is gone and what is being saved is not announced yet (`Timely`); and a transcript with
  what stands behind names exactly the messages of the host (`Complete`).
* `Currents`: for a client that follows, a message is at the host if and only if it is in the client's chat
  or announced to it, and no delete of it is on its way; and the wording differs only while an edit is. An
  `append`, `edit` or `delete` that arrives moves this from the queue into the chat, because the frame is
  sound; a transcript makes it true; what the user does moves it into the queue to the host.
* `Olds`: the rows older than the sharing stay in front, in place, since each step changes a chat in one of
  a few ways (`Reshapes`). `Placed`: a row being written is at the index of the placeholder of a client that is
  streaming. `Ending`: where nothing is being generated, a client that is streaming is about to be told so.

At rest both queues are empty, so `Currents` gives the same messages, `Placed` and `Ending` no reply half
written, and with `Olds` every row of one chat is a row of the other's of its own (`Embeds`), which is what
`Mirrored` says of bags. Only `Placed` needs `Apart`. TLC checked each conjunct of the invariant on instances of both runs first. The
attempt corrected `OneReply`: it used to speak of every client that looks at the chat, which seven events
refute. A client walks away during a reply, hears the end elsewhere and comes back; if the host has left
meanwhile its request for the transcript is dropped, and a reply begun in between stands behind the old
row until the news of the host's leaving arrives.

## Known disagreements

Two have a run, `port_left_open` and `second_stub`, and are findings in `PROJECT.json`. In the first, a
discovery that outlives its budget maps a port nobody remembers (`portmap.js:453`). In the second, a stub
of an older build that was taken over is not recognised by the next synchronisation (`card-store.js:84`).
The models have the steps of these as well, and the properties of the passing runs are stated so that
they claim nothing about them:

* The seat limit is checked at HELLO (`relay.js:526`) and not at admission, so clients that wait in the
  lobby together can all be seated; `src/README.md:407` says the limit is eight.
* Cached personas outlive a rotation: `rotate()` (`relay.js:337-346`) forgets the peers and not their
  personas, a PERSONA frame still under way adds one (787), and `#removePeer` returns before its delete
  when the peer is forgotten already (977), so the next newcomer is shown them (917), where the comment
  at 979 says a departed player would otherwise keep appearing.
* Frames of a rotated-out peer count as failed handshakes of its address (`relay.js:493-499`), where the
  comment says that a peer that fails after authentication is not penalised.
* A client that writes before the transcript it asked for has arrived loses the turn from its screen for
  good: the snapshot drops the row and the echo is ignored as already applied (`chat.js:478`, `969`);
  `src/README.md:405` says that client transcripts mirror the host.
* When the synchronisation of one card fails, the catch (`session.js:1324`) leaves its definition of the
  revision before in `definitions` while the catalogue lists the new one, and the refresh that another
  card's file brings (1434-1444) puts it back into the character, where nothing replaces it; the comment at
  1425 says that obsolete revisions must never replace the latest. `ObsoleteNeverStays` excludes it by the
  history variable `behind`, without which TLC finds it from one edit of the host's and one failed write.
* A row deleted during a reply moves the streaming placeholder, whose index is kept (`chat.js:577`): the
  reply may stay on a client's screen twice, against `chat.js:252-255` and `565`.

## Known limits of the code, without a statement they contradict

* After a lost connection a handler that awaited the request for a portrait goes on and notes the
  definition as asked for on the next connection, where nobody asks (`session.js:1311`, `1319-1321`).
* A capture in flight when the portrait cache is invalidated puts the old image back (`chat.js:820`).
* The persona resolved for a turn may be sent after a later publication, and the fingerprint then keeps
  the right one from being sent again until the next change (`chat.js:206`).
* The panel's refresh has no `isCurrent` (`ui.js:383`); an obsolete definition may show until the
  handlers that are under way have ended, which is why `ObsoleteNeverStays` speaks of quiet states.
* `syncSharedLore` is not serialised and does not ask about the connection (`session.js:864-879`): one in
  flight while the session ends binds a book that was just unbound (533).
* A client that comes back to the chat while the news that the host has left is on its way may see two
  rows of a reply being written until it arrives: `OneReply` is about clients that follow.

## Not modelled

The user interface, rendering, the installer, file encodings (PNG, multipart, world info), Web Crypto
itself and the HTTP status report. The relay's size limits and token buckets appear as the action they
lead to, and the client's send budget not at all: whether it stays below the relay's buckets is a relation
between rates over real time. The replay window never sees counters out of order on one WebSocket.
`queryExternalAddress` of the port mapper maps nothing. The merge of lorebooks, the comparison of two
extension lists and the connection code are functions over strings. Typing and the generation notice are
lines of the display that expire by the clock. `mp-personas.js` and `mp-generation.js` are not imported
by the extension.
