----------------------------- MODULE Transport -----------------------------
(***************************************************************************)
(* SecureSocket, src/lib/transport.js: the handshake, its timer, the        *)
(* chains of incoming and outgoing frames, close codes and reconnection.   *)
(*                                                                         *)
(* An action is the code between two awaits, a timer or an event of the    *)
(* WebSocket.  Each dial has a number of its own; `socket` is the dial      *)
(* this.socket stands for, 0 being null.  The relay is an environment that *)
(* answers in the order of the handshake and may stop answering.            *)
(***************************************************************************)
EXTENDS Naturals, Sequences

CONSTANTS
  MaxAttempts,    \* unstable retries before reconnecting ends: eight
  MaxDials,       \* bound: WebSockets made in a run
  MaxPayloads     \* bound: payloads, of either side, in a run

ASSUME TransportAssumption ==
  /\ MaxAttempts \in Nat /\ MaxDials \in Nat /\ MaxPayloads \in Nat

VARIABLES
  state,          \* this.state; "closing" lasts only inside close()
  socket,         \* this.socket, 0 for null
  ready,          \* its readyState
  auto,           \* autoReconnect
  closedByUs,
  attempts,
  failedDials,
  stable,         \* the connection has been open for a minute
  handshakeTimer, \* armed or not
  retryTimer,     \* _reconnectTimer, armed or not
  generating,     \* dials whose #startHandshake awaits its key pair
  pending,        \* the dial _pending was made for, 0 for null
  pendingKeys,    \* the dial _pendingKeys were derived for, 0 for null
  keys,           \* the dial this.keys were derived for, 0 for null
  sendCounter,
  queue,          \* _sendChain: what send() captured
  sealing,        \* the frame being sealed or waiting for the budget, if any
  rx,             \* per dial, the frame its _receiveChain is handling
  inbox,          \* frames of the relay that the chain has not reached
  relay,          \* the relay's end of the connection
  wire,           \* per dial, the frames sent on it
  refused,        \* a fatal reject has arrived since the socket was opened
  redials,        \* dials by the retry timer since the last stable connection
  dials, payloads \* what the bounds count

linkVars  == <<socket, ready, inbox, relay>>
retryVars == <<auto, closedByUs, attempts, failedDials, stable, retryTimer, refused, redials>>
keyVars   == <<pending, pendingKeys, keys>>
sendVars  == <<sendCounter, queue, sealing, wire>>
tvars == <<state, handshakeTimer, linkVars, retryVars, keyVars, sendVars, generating, rx, dials, payloads>>

Dial     == 1..MaxDials
Sealed   == [dial : Dial, key : Dial, counter : Nat]
Replies  == {"challenge", "accepted", "forged", "reject", "refuse"}
Payloads == {"data", "kick", "garbled"}

\* The types, by what they are about: the connection, the retries, the keys, and what
\* is sent.
LinkOK ==
  /\ state \in {"idle", "connecting", "handshaking", "open", "closed"} /\ handshakeTimer \in BOOLEAN
  /\ socket \in Dial \cup {0} /\ ready \in {"none", "connecting", "open", "closing"}
  /\ inbox \in Seq(Replies \cup Payloads)
  /\ relay \in {"silent", "hello", "challenged", "confirm", "seated", "impostor", "refused"}
  /\ generating \subseteq Dial
  /\ rx \in [Dial -> Replies \cup Payloads \cup {"idle", "keyed"}]
  /\ dials \in 0..MaxDials /\ payloads \in 0..MaxPayloads

RetryOK ==
  /\ auto \in BOOLEAN /\ closedByUs \in BOOLEAN /\ refused \in BOOLEAN
  /\ stable \in BOOLEAN /\ retryTimer \in BOOLEAN
  /\ attempts \in 0..MaxAttempts /\ failedDials \in Nat /\ redials \in Nat

KeysOK == pending \in Dial \cup {0} /\ pendingKeys \in Dial \cup {0} /\ keys \in Dial \cup {0}

SendOK ==
  /\ sendCounter \in Nat /\ sealing \in Sealed \cup {<<>>}
  /\ queue \in Seq([dial : Dial, key : Dial])
  /\ wire \in [Dial -> Seq(Sealed)]

TypeOK == LinkOK /\ RetryOK /\ KeysOK /\ SendOK

Init ==
  /\ state = "idle" /\ socket = 0 /\ ready = "none"
  /\ auto = FALSE /\ closedByUs = FALSE /\ attempts = 0 /\ failedDials = 0
  /\ stable = FALSE /\ handshakeTimer = FALSE /\ retryTimer = FALSE
  /\ generating = {} /\ pending = 0 /\ pendingKeys = 0 /\ keys = 0
  /\ sendCounter = 0 /\ queue = <<>> /\ sealing = <<>>
  /\ rx = [d \in Dial |-> "idle"] /\ inbox = <<>> /\ relay = "silent"
  /\ wire = [d \in Dial |-> <<>>]
  /\ refused = FALSE /\ redials = 0 /\ dials = 0 /\ payloads = 0

-----------------------------------------------------------------------------
(* Opening and closing *)

\* connect() with a fresh WebSocket.
Dials ==
  /\ dials < MaxDials /\ dials' = dials + 1
  /\ socket' = dials + 1 /\ ready' = "connecting" /\ inbox' = <<>> /\ relay' = "silent"
  /\ state' = "connecting" /\ closedByUs' = FALSE

\* #teardown, and no WebSocket any more.
Teardown ==
  /\ socket' = 0 /\ ready' = "none" /\ inbox' = <<>> /\ relay' = "silent"
  /\ handshakeTimer' = FALSE
  /\ keys' = 0 /\ pending' = 0 /\ pendingKeys' = 0
  /\ stable' = FALSE

\* new SecureSocket(), after close() on the one before, whose chains find their socket
\* gone.
NewSocket ==
  /\ attempts' = 0 /\ stable' = FALSE /\ refused' = FALSE /\ redials' = 0 /\ closedByUs' = FALSE
  /\ handshakeTimer' = FALSE /\ retryTimer' = FALSE
  /\ keys' = 0 /\ pending' = 0 /\ pendingKeys' = 0
  /\ sendCounter' = 0 /\ queue' = <<>> /\ sealing' = <<>>
  /\ UNCHANGED <<generating, rx, wire, payloads>>

\* A SecureSocket of its own for every room that is entered, and its connect().
Opens(setting) ==
  /\ NewSocket /\ Dials
  /\ auto' = setting /\ failedDials' = 0

\* connect() when no WebSocket can be made for the address: #onClose at once.
OpensInVain ==
  /\ NewSocket
  /\ state' = "closed" /\ auto' = FALSE /\ failedDials' = 1
  /\ socket' = 0 /\ ready' = "none" /\ inbox' = <<>> /\ relay' = "silent"
  /\ dials < MaxDials /\ dials' = dials + 1

\* Mutant: the retry that is due stays due.
ClosesKeepsRetry ==
  /\ state # "idle"
  /\ closedByUs' = TRUE /\ auto' = FALSE
  /\ state' = "closed" /\ Teardown
  /\ UNCHANGED <<attempts, failedDials, retryTimer, refused, redials, sendVars, generating, rx, dials, payloads>>

\* close()
Closes ==
  /\ state # "idle"
  /\ closedByUs' = TRUE /\ auto' = FALSE /\ retryTimer' = FALSE
  /\ state' = "closed" /\ Teardown
  /\ UNCHANGED <<attempts, failedDials, refused, redials, sendVars, generating, rx, dials, payloads>>

\* Mutant: a connection that opened at all starts the count anew.
CountedAttempts == IF state = "open" THEN 0 ELSE attempts

\* The attempts a close event finds.
Attempts == IF stable THEN 0 ELSE attempts

\* Mutant: one retry too many.
RetriesOnceMore(final, givesUp) == auto /\ ~final /\ ~givesUp /\ ~closedByUs /\ Attempts <= MaxAttempts

\* Whether #onClose arms the timer: not after a final close code, when reconnecting
\* is off, when a listener of the close event has switched it off, or after too many.
Retries(final, givesUp) == auto /\ ~final /\ ~givesUp /\ ~closedByUs /\ Attempts < MaxAttempts

\* #onClose: the close event of this.socket.  4400, 4401 and 4403 are final.
OnClose(final, givesUp) ==
  /\ socket # 0 /\ (final => ready # "connecting")
  /\ auto' = Retries(final, givesUp) /\ retryTimer' = Retries(final, givesUp)
  /\ attempts' = IF Retries(final, givesUp) THEN Attempts + 1 ELSE Attempts
  /\ failedDials' = IF state = "open" THEN failedDials ELSE failedDials + 1
  /\ state' = "closed" /\ Teardown
  /\ UNCHANGED <<closedByUs, refused, redials, sendVars, generating, rx, dials, payloads>>

\* The retry timer fires: connect().
Redials ==
  /\ retryTimer /\ retryTimer' = FALSE
  /\ Dials /\ redials' = redials + 1
  /\ UNCHANGED <<auto, attempts, failedDials, stable, refused, handshakeTimer, keyVars, sendVars,
                 generating, rx, payloads>>

-----------------------------------------------------------------------------
(* The handshake *)

\* Mutant: the handshake is given no time limit.
WebSocketOpensUntimed ==
  /\ ready = "connecting" /\ ready' = "open"
  /\ state' = "handshaking"
  /\ generating' = generating \cup {socket}
  /\ UNCHANGED <<handshakeTimer, socket, inbox, relay, retryVars, keyVars, sendVars, rx, dials, payloads>>

\* The open event: #startHandshake up to its first await.
WebSocketOpens ==
  /\ ready = "connecting" /\ ready' = "open"
  /\ state' = "handshaking" /\ handshakeTimer' = TRUE
  /\ generating' = generating \cup {socket}
  /\ UNCHANGED <<socket, inbox, relay, retryVars, keyVars, sendVars, rx, dials, payloads>>

\* The key pair of dial d is there: HELLO goes out, if the dial is still the present
\* one; or it could not be made.
SendsHello(d) ==
  /\ d \in generating /\ generating' = generating \ {d}
  /\ IF d = socket
     THEN \/ /\ pending' = d
             /\ relay' = IF ready = "open" THEN "hello" ELSE relay
             /\ UNCHANGED ready
          \/ ready' = "closing" /\ UNCHANGED <<pending, relay>>
     ELSE UNCHANGED <<pending, relay, ready>>
  /\ UNCHANGED <<state, handshakeTimer, socket, inbox, retryVars, pendingKeys, keys, sendVars, rx, dials, payloads>>

\* The timer: 'rejected' is emitted and the socket closed, whatever is being awaited.
HandshakeTimeout ==
  /\ handshakeTimer /\ handshakeTimer' = FALSE
  /\ ready' = "closing"
  /\ UNCHANGED <<state, socket, inbox, relay, retryVars, keyVars, sendVars, generating, rx, dials, payloads>>

\* What the relay does next: answer, refuse (for good, or for now), or send payloads.
\* An acceptance is forged when it comes without the proof, from an impostor.
RelaySends(frame) ==
  /\ ready = "open"
  /\ \/ relay = "hello" /\ frame = "challenge" /\ relay' = "challenged" /\ UNCHANGED payloads
     \/ relay = "confirm" /\ frame = "accepted" /\ relay' = "seated" /\ UNCHANGED payloads
     \/ relay = "confirm" /\ frame = "forged" /\ relay' = "impostor" /\ UNCHANGED payloads
     \/ relay \in {"hello", "confirm"} /\ frame \in {"reject", "refuse"} /\ relay' = "refused" /\ UNCHANGED payloads
     \/ /\ relay \in {"seated", "impostor"} /\ frame \in Payloads /\ UNCHANGED relay
        /\ payloads < MaxPayloads /\ payloads' = payloads + 1
  /\ inbox' = Append(inbox, frame)
  /\ UNCHANGED <<state, handshakeTimer, socket, ready, retryVars, keyVars, sendVars, generating, rx, dials>>

\* The receive chain takes up the next frame.  The relay keeps the order of the
\* handshake; a frame out of its place would be handled as a "garbled" one is.
Takes(d, kinds) ==
  /\ d = socket /\ rx[d] = "idle" /\ inbox # <<>> /\ Head(inbox) \in kinds
  /\ inbox' = Tail(inbox)

Receives(d) ==
  /\ Takes(d, (Replies \cup Payloads) \ {"reject", "refuse"})
  /\ rx' = [rx EXCEPT ![d] = Head(inbox)]
  /\ UNCHANGED <<state, handshakeTimer, socket, ready, relay, retryVars, keyVars, sendVars, generating,
                 dials, payloads>>

\* #onMessage's catch: the stream is not to be trusted any more.
Breaks ==
  /\ auto' = FALSE /\ ready' = "closing"
  /\ UNCHANGED <<state, handshakeTimer, socket, relay, closedByUs, attempts, failedDials, stable,
                 retryTimer, refused, redials, keyVars, sendVars, generating, dials, payloads>>

\* A frame that cannot be opened, an acceptance without the proof, or a payload when
\* there are no keys.
FindsFalse(d) ==
  /\ d = socket
  /\ rx[d] \in {"forged", "garbled"} \/ (rx[d] \in Payloads /\ state # "open")
  /\ rx' = [rx EXCEPT ![d] = "idle"]
  /\ Breaks /\ UNCHANGED inbox

\* #onReject: "refuse" has one of FATAL_REASONS.
OnReject(d) ==
  /\ Takes(d, {"reject", "refuse"})
  /\ handshakeTimer' = FALSE
  /\ auto' = (auto /\ Head(inbox) = "reject")
  /\ refused' = (refused \/ Head(inbox) = "refuse")
  /\ UNCHANGED <<state, socket, ready, relay, closedByUs, attempts, failedDials, stable, retryTimer,
                 redials, keyVars, sendVars, generating, rx, dials, payloads>>

\* #handleChallenge: the keys are derived, then the proof is computed and sent.
DerivesKeys(d) ==
  /\ d = socket /\ rx[d] = "challenge"
  /\ pendingKeys' = pending /\ rx' = [rx EXCEPT ![d] = "keyed"]
  /\ UNCHANGED <<state, handshakeTimer, linkVars, retryVars, pending, keys, sendVars, generating, dials, payloads>>

SendsConfirm(d) ==
  /\ d = socket /\ rx[d] = "keyed" /\ rx' = [rx EXCEPT ![d] = "idle"]
  /\ relay' = IF ready = "open" THEN "confirm" ELSE relay
  /\ UNCHANGED <<state, handshakeTimer, socket, ready, inbox, retryVars, keyVars, sendVars, generating,
                 dials, payloads>>

\* Mutant: the proof is not compared.
AcceptsUnproved(d) ==
  /\ d = socket /\ rx[d] \in {"accepted", "forged"} /\ rx' = [rx EXCEPT ![d] = "idle"]
  /\ keys' = pendingKeys /\ pending' = 0 /\ pendingKeys' = 0
  /\ state' = "open" /\ handshakeTimer' = FALSE
  /\ failedDials' = 0 /\ sendCounter' = 0
  /\ UNCHANGED <<linkVars, auto, closedByUs, attempts, stable, retryTimer, refused, redials,
                 queue, sealing, wire, generating, dials, payloads>>

\* #handleAccepted after the proof: also when the timer has closed the socket meanwhile.
Accepts(d) ==
  /\ d = socket /\ rx[d] = "accepted" /\ rx' = [rx EXCEPT ![d] = "idle"]
  /\ keys' = pendingKeys /\ pending' = 0 /\ pendingKeys' = 0
  /\ state' = "open" /\ handshakeTimer' = FALSE
  /\ failedDials' = 0 /\ sendCounter' = 0
  /\ UNCHANGED <<linkVars, auto, closedByUs, attempts, stable, retryTimer, refused, redials,
                 queue, sealing, wire, generating, dials, payloads>>

\* A payload is open and goes to the session.
Delivers(d) ==
  /\ d = socket /\ state = "open"
  /\ rx[d] \in {"data", "kick"} /\ rx' = [rx EXCEPT ![d] = "idle"]
  /\ UNCHANGED <<state, handshakeTimer, linkVars, retryVars, keyVars, sendVars, generating, dials, payloads>>

\* What a chain awaited for a dial that is gone is dropped.
Abandons(d) ==
  /\ d # socket /\ rx[d] # "idle" /\ rx' = [rx EXCEPT ![d] = "idle"]
  /\ UNCHANGED <<state, handshakeTimer, linkVars, retryVars, keyVars, sendVars, generating, dials, payloads>>

-----------------------------------------------------------------------------
(* The open connection *)

\* The peer has not answered for too long.
HeartbeatTimeout ==
  /\ state = "open" /\ ready = "open" /\ ready' = "closing"
  /\ UNCHANGED <<state, handshakeTimer, socket, inbox, relay, retryVars, keyVars, sendVars, generating,
                 rx, dials, payloads>>

\* The connection has been open for a minute.
Settles ==
  /\ state = "open" /\ ~stable /\ stable' = TRUE /\ redials' = 0
  /\ UNCHANGED <<state, handshakeTimer, linkVars, auto, closedByUs, attempts, failedDials, retryTimer,
                 refused, keyVars, sendVars, generating, rx, dials, payloads>>

\* send(): what is current at the call is captured; without keys nothing comes of it.
Sends ==
  /\ keys # 0 /\ payloads < MaxPayloads /\ payloads' = payloads + 1
  /\ queue' = Append(queue, [dial |-> socket, key |-> keys])
  /\ UNCHANGED <<state, handshakeTimer, linkVars, retryVars, keyVars, sendCounter, sealing, wire,
                 generating, rx, dials>>

\* Only what was queued for the present connection is sealed.
Sendable(task) == state = "open" /\ task.key = keys /\ task.dial = socket

SendBegins ==
  /\ sealing = <<>> /\ queue # <<>> /\ queue' = Tail(queue)
  /\ IF Sendable(Head(queue))
     THEN /\ sendCounter' = sendCounter + 1
          /\ sealing' = [dial |-> Head(queue).dial, key |-> Head(queue).key, counter |-> sendCounter + 1]
     ELSE UNCHANGED <<sendCounter, sealing>>
  /\ UNCHANGED <<state, handshakeTimer, linkVars, retryVars, keyVars, wire, generating, rx,
                 dials, payloads>>

\* Mutant: the frame goes out on the WebSocket there is by then.
SendEndsAnyway ==
  /\ sealing # <<>> /\ sealing' = <<>>
  /\ \/ ready = "open" /\ wire' = [wire EXCEPT ![socket] = Append(@, sealing)]
     \/ UNCHANGED wire
  /\ UNCHANGED <<state, handshakeTimer, linkVars, retryVars, keyVars, sendCounter, queue,
                 generating, rx, dials, payloads>>

\* Sealed, and let through by the budget; or too large, or of a connection that is gone.
SendEnds ==
  /\ sealing # <<>> /\ sealing' = <<>>
  /\ \/ /\ sealing.dial = socket /\ sealing.key = keys /\ ready = "open"
        /\ wire' = [wire EXCEPT ![socket] = Append(@, sealing)]
     \/ UNCHANGED wire
  /\ UNCHANGED <<state, handshakeTimer, linkVars, retryVars, keyVars, sendCounter, queue,
                 generating, rx, dials, payloads>>

-----------------------------------------------------------------------------
(* Specification *)

\* The steps no listener of the session hears of.
Quietly ==
  \/ Redials \/ WebSocketOpens \/ HandshakeTimeout \/ HeartbeatTimeout \/ Settles
  \/ Sends \/ SendBegins \/ SendEnds
  \/ \E frame \in Replies \cup Payloads : RelaySends(frame)
  \/ \E d \in Dial :
       \/ SendsHello(d) \/ Receives(d) \/ FindsFalse(d) \/ OnReject(d)
       \/ DerivesKeys(d) \/ SendsConfirm(d) \/ Abandons(d)

Next ==
  \/ Quietly \/ Closes \/ OpensInVain
  \/ \E setting \in BOOLEAN : Opens(setting)
  \/ \E final, givesUp \in BOOLEAN : OnClose(final, givesUp)
  \/ \E d \in Dial : Accepts(d) \/ Delivers(d)

Spec == Init /\ [][Next]_tvars

-----------------------------------------------------------------------------
(* Properties *)

\* #handleAccepted: whoever believes the channel is open, with keys, shares them with
\* a relay that has accepted it on this very connection; a handshake that was
\* abandoned or refused, or another dial's, never gets there.
OpenAgreed ==
  /\ state = "open" => socket # 0 /\ keys = socket /\ relay = "seated"
  /\ keys # 0 => state = "open"

\* The send chain: a connection carries its own frames only, sealed with its own keys,
\* and a counter never twice, however a frame waited while connections came and went.
WireOrder ==
  \A d \in Dial :
    /\ \A i \in DOMAIN wire[d] : wire[d][i].dial = d /\ wire[d][i].key = d
    /\ \A i, j \in DOMAIN wire[d] : i < j => wire[d][i].counter < wire[d][j].counter

\* #onClose and close(): a lost connection is dialled again exactly when that is
\* wanted: reconnecting is on, nobody has closed it and no refusal was final.  It is
\* neither forgotten nor brought back.
RetryWanted ==
  /\ retryTimer => state = "closed" /\ auto /\ ~closedByUs /\ ~refused
  /\ state = "closed" /\ auto => retryTimer

\* #onClose's count, as README.md:288 puts it: unstable retries end after MaxAttempts;
\* only a stable connection, or entering a room anew, gives more.
RetryBudget == redials <= MaxAttempts

=============================================================================
