-------------------------- MODULE TransportProofs --------------------------
(***************************************************************************)
(* Theorems about Transport, for every number of attempts, dials and       *)
(* payloads.                                                               *)
(***************************************************************************)
EXTENDS Transport, TLAPS

USE TransportAssumption DEF TransportAssumption

-----------------------------------------------------------------------------
(* The inductive invariant *)

\* Without a WebSocket nothing of a connection is left, and with one it is the last
\* dial's.
Ends ==
  /\ socket = 0 <=> state \in {"idle", "closed"}
  /\ socket = 0 => ready = "none" /\ inbox = <<>> /\ relay = "silent" /\ ~handshakeTimer
  /\ ready = "connecting" => state = "connecting"
  /\ socket <= dials

\* Nothing has happened on a dial that is yet to be made.
Unused == \A d \in Dial : d > dials => rx[d] = "idle" /\ d \notin generating /\ wire[d] = <<>>

\* Where the relay must have got to for a frame, or what is left of one, to be here,
\* and what the client has ready for it.
Fits(frame) ==
  /\ frame = "challenge" => relay = "challenged"
  /\ frame = "keyed" => relay = "challenged" /\ pendingKeys = socket
  /\ frame = "accepted" => relay = "seated" /\ pendingKeys = socket /\ state # "open"
  /\ frame = "forged" => relay = "impostor"
  /\ frame \in {"reject", "refuse"} => relay = "refused"
  /\ frame \in Payloads => relay \in {"seated", "impostor"}

\* Every frame on its way fits, and one of the handshake is the first.
InTurn ==
  /\ \A i \in DOMAIN inbox : inbox[i] \notin Payloads => i = 1 /\ rx[socket] = "idle"
  /\ \A i \in DOMAIN inbox : Fits(inbox[i])
  /\ socket # 0 => Fits(rx[socket])

\* The client's half of the handshake.
Prepared ==
  /\ relay \in {"hello", "challenged"} => pending = socket
  /\ relay = "confirm" => pendingKeys = socket
  /\ socket \in generating \/ ready = "connecting" => relay = "silent"

\* Whoever would dial again has not been refused, and what is left of the attempts
\* covers the retry that is due.
Counted ==
  /\ auto => ~refused
  /\ closedByUs => ~auto
  /\ stable => state = "open" /\ redials = 0
  /\ redials <= attempts
  /\ retryTimer => redials < attempts

\* The counters on a connection are behind the one of the frame being sealed.
Ordered ==
  /\ socket # 0 =>
       /\ state # "open" => wire[socket] = <<>>
       /\ \A i \in DOMAIN wire[socket] : wire[socket][i].counter <= sendCounter
  /\ sealing # <<>> =>
       /\ sealing.dial = sealing.key /\ sealing.dial <= dials
       /\ sealing.dial = socket =>
            /\ state = "open" /\ sealing.counter <= sendCounter
            /\ \A i \in DOMAIN wire[socket] : wire[socket][i].counter < sealing.counter

IInv ==
  /\ TypeOK /\ Ends /\ Unused /\ InTurn /\ Prepared /\ Counted /\ Ordered
  /\ OpenAgreed /\ RetryWanted /\ WireOrder

-----------------------------------------------------------------------------
(* Its steps *)

\* The head and the tail of a sequence.
LEMMA HeadTyped ==
  ASSUME NEW S, NEW s \in Seq(S), s # <<>>
  PROVE  Head(s) \in S /\ Tail(s) \in Seq(S)
OBVIOUS

\* A connection that is torn down is typed.
LEMMA TornDown ==
  ASSUME TypeOK, Teardown, state' = "closed",
         UNCHANGED <<generating, rx, dials, payloads>>
  PROVE  LinkOK' /\ KeysOK' /\ stable' = FALSE
<1>1. socket' \in Dial \cup {0} /\ ready' = "none" /\ relay' = "silent"
  BY DEF Teardown
<1>2. inbox' \in Seq(Replies \cup Payloads)
  BY DEF Teardown
<1>3. handshakeTimer' = FALSE /\ stable' = FALSE
  BY DEF Teardown
<1>4. keys' = 0 /\ pending' = 0 /\ pendingKeys' = 0
  BY DEF Teardown
<1>5. QED
  BY <1>1, <1>2, <1>3, <1>4 DEF TypeOK, LinkOK, KeysOK

\* So is a new SecureSocket.
LEMMA MadeAnew ==
  ASSUME TypeOK, NewSocket
  PROVE  /\ auto' \in BOOLEAN /\ failedDials' \in Nat => RetryOK'
         /\ KeysOK' /\ SendOK'
         /\ handshakeTimer' \in BOOLEAN /\ UNCHANGED <<generating, rx, payloads>>
<1>1. attempts' = 0 /\ redials' = 0 /\ stable' = FALSE /\ refused' = FALSE /\ closedByUs' = FALSE
  BY DEF NewSocket
<1>2. handshakeTimer' = FALSE /\ retryTimer' = FALSE
  BY DEF NewSocket
<1>3. keys' = 0 /\ pending' = 0 /\ pendingKeys' = 0
  BY DEF NewSocket
<1>4. sendCounter' = 0 /\ queue' = <<>> /\ sealing' = <<>>
  BY DEF NewSocket
<1>5. UNCHANGED <<generating, rx, wire, payloads>>
  BY DEF NewSocket
<1>6. queue' \in Seq([dial : Dial, key : Dial])
  BY <1>4
<1>7. ASSUME auto' \in BOOLEAN, failedDials' \in Nat PROVE RetryOK'
  <2>1. 0 \in 0..MaxAttempts
    OBVIOUS
  <2>2. QED
    BY <1>1, <1>2, <1>7, <2>1 DEF RetryOK
<1>8. KeysOK' 
  BY <1>3 DEF KeysOK
<1>9. SendOK' 
  BY <1>4, <1>5, <1>6 DEF TypeOK, SendOK
<1>10. QED
  BY <1>2, <1>5, <1>7, <1>8, <1>9

\* What no step touches keeps its type.
LEMMA Unmoved ==
  ASSUME TypeOK
  PROVE  /\ UNCHANGED <<state, handshakeTimer, linkVars, generating, rx, dials, payloads>> => LinkOK'
         /\ UNCHANGED retryVars => RetryOK'
         /\ UNCHANGED keyVars => KeysOK'
         /\ UNCHANGED sendVars => SendOK'
BY DEF TypeOK, LinkOK, RetryOK, KeysOK, SendOK, linkVars, retryVars, keyVars, sendVars

\* Every step keeps the types.
LEMMA TypeStep ==
  ASSUME TypeOK, Ends, OpenAgreed, Next
  PROVE  TypeOK'
<1>1. CASE Redials
  <2>1. LinkOK'
    BY <1>1 DEF TypeOK, Redials, Dials, LinkOK, Ends, Dial, linkVars, retryVars, keyVars, sendVars
  <2>2. RetryOK'
    <3>1. closedByUs' = FALSE /\ retryTimer' = FALSE
      BY <1>1 DEF Redials, Dials
    <3>2. redials' \in Nat
      BY <1>1 DEF TypeOK, RetryOK, Redials
    <3>3. UNCHANGED <<auto, attempts, failedDials, stable, refused>>
      BY <1>1 DEF Redials
    <3>4. QED
      BY <3>1, <3>2, <3>3 DEF TypeOK, RetryOK
  <2>3. KeysOK'
    BY <1>1, Unmoved DEF Redials, Dials
  <2>4. SendOK'
    BY <1>1, Unmoved DEF Redials, Dials
  <2>5. QED
    BY <2>1, <2>2, <2>3, <2>4 DEF TypeOK
<1>2. CASE WebSocketOpens
  <2>1. LinkOK'
    BY <1>2 DEF TypeOK, WebSocketOpens, LinkOK, Ends, Dial, linkVars, retryVars, keyVars, sendVars
  <2>2. RetryOK'
    BY <1>2, Unmoved DEF WebSocketOpens
  <2>3. KeysOK'
    BY <1>2, Unmoved DEF WebSocketOpens
  <2>4. SendOK'
    BY <1>2, Unmoved DEF WebSocketOpens
  <2>5. QED
    BY <2>1, <2>2, <2>3, <2>4 DEF TypeOK
<1>3. CASE HandshakeTimeout
  <2>1. LinkOK'
    BY <1>3 DEF TypeOK, HandshakeTimeout, LinkOK, Ends, Dial, linkVars, retryVars, keyVars, sendVars
  <2>2. RetryOK'
    BY <1>3, Unmoved DEF HandshakeTimeout
  <2>3. KeysOK'
    BY <1>3, Unmoved DEF HandshakeTimeout
  <2>4. SendOK'
    BY <1>3, Unmoved DEF HandshakeTimeout
  <2>5. QED
    BY <2>1, <2>2, <2>3, <2>4 DEF TypeOK
<1>4. CASE HeartbeatTimeout
  <2>1. LinkOK'
    BY <1>4 DEF TypeOK, HeartbeatTimeout, LinkOK, Ends, Dial, linkVars, retryVars, keyVars, sendVars
  <2>2. RetryOK'
    BY <1>4, Unmoved DEF HeartbeatTimeout
  <2>3. KeysOK'
    BY <1>4, Unmoved DEF HeartbeatTimeout
  <2>4. SendOK'
    BY <1>4, Unmoved DEF HeartbeatTimeout
  <2>5. QED
    BY <2>1, <2>2, <2>3, <2>4 DEF TypeOK
<1>5. CASE Settles
  <2>1. LinkOK'
    BY <1>5, Unmoved DEF Settles
  <2>2. RetryOK'
    BY <1>5 DEF TypeOK, Settles, RetryOK, linkVars, retryVars, keyVars, sendVars
  <2>3. KeysOK'
    BY <1>5, Unmoved DEF Settles
  <2>4. SendOK'
    BY <1>5, Unmoved DEF Settles
  <2>5. QED
    BY <2>1, <2>2, <2>3, <2>4 DEF TypeOK
<1>6. CASE Sends
  <2>1. LinkOK'
    BY <1>6 DEF TypeOK, Sends, LinkOK, Ends, Dial, linkVars, retryVars, keyVars, sendVars
  <2>2. RetryOK'
    BY <1>6, Unmoved DEF Sends
  <2>3. KeysOK'
    BY <1>6, Unmoved DEF Sends
  <2>4. SendOK'
    BY <1>6 DEF TypeOK, Sends, SendOK, Ends, OpenAgreed, KeysOK, LinkOK, Dial, linkVars, retryVars, keyVars, sendVars
  <2>5. QED
    BY <2>1, <2>2, <2>3, <2>4 DEF TypeOK
<1>7. CASE SendBegins
  <2>1. LinkOK'
    BY <1>7, Unmoved DEF SendBegins, Sendable
  <2>2. RetryOK'
    BY <1>7, Unmoved DEF SendBegins, Sendable
  <2>3. KeysOK'
    BY <1>7, Unmoved DEF SendBegins, Sendable
  <2>4. SendOK'
    <3>1. queue' \in Seq([dial : Dial, key : Dial]) /\ UNCHANGED wire
      BY <1>7 DEF SendBegins, TypeOK, SendOK
    <3>2. sealing' \in Sealed \cup {<<>>} /\ sendCounter' \in Nat
      <4>1. queue # <<>> /\ queue \in Seq([dial : Dial, key : Dial])
        BY <1>7 DEF SendBegins, TypeOK, SendOK
      <4>3. Head(queue) \in [dial : Dial, key : Dial]
        BY <4>1, HeadTyped
      <4>2. QED
        BY <1>7, <4>3 DEF SendBegins, TypeOK, SendOK, Sealed
    <3>3. QED
      BY <3>1, <3>2 DEF TypeOK, SendOK
  <2>5. QED
    BY <2>1, <2>2, <2>3, <2>4 DEF TypeOK
<1>8. CASE SendEnds
  <2>1. LinkOK'
    BY <1>8, Unmoved DEF SendEnds
  <2>2. RetryOK'
    BY <1>8, Unmoved DEF SendEnds
  <2>3. KeysOK'
    BY <1>8, Unmoved DEF SendEnds
  <2>4. SendOK'
    <3>1. sealing \in Sealed /\ sealing' = <<>> /\ UNCHANGED <<sendCounter, queue>>
      BY <1>8 DEF SendEnds, TypeOK, SendOK
    <3>2. wire' \in [Dial -> Seq(Sealed)]
      <4>1. CASE UNCHANGED wire
        BY <4>1 DEF TypeOK, SendOK
      <4>2. CASE wire' = [wire EXCEPT ![socket] = Append(@, sealing)]
        <5>1. Append(wire[socket], sealing) \in Seq(Sealed) \/ socket \notin Dial
          BY <3>1 DEF TypeOK, SendOK
        <5>2. wire \in [Dial -> Seq(Sealed)]
          BY DEF TypeOK, SendOK
        <5>3. QED
          BY <4>2, <5>1, <5>2
      <4>3. QED
        BY <1>8, <4>1, <4>2 DEF SendEnds
    <3>3. QED
      BY <3>1, <3>2 DEF TypeOK, SendOK
  <2>5. QED
    BY <2>1, <2>2, <2>3, <2>4 DEF TypeOK
<1>9. CASE Closes
  <2>1. LinkOK'
    BY <1>9, TornDown DEF Closes
  <2>2. RetryOK'
    BY <1>9 DEF TypeOK, Closes, Teardown, RetryOK, linkVars, retryVars, keyVars, sendVars
  <2>3. KeysOK'
    BY <1>9, TornDown DEF Closes
  <2>4. SendOK'
    BY <1>9, Unmoved DEF Closes, Teardown
  <2>5. QED
    BY <2>1, <2>2, <2>3, <2>4 DEF TypeOK
<1>10. CASE OpensInVain
  <2>1. LinkOK'
    <3>1. NewSocket
      BY <1>10 DEF OpensInVain
    <3>2. dials' \in 0..MaxDials
      BY <1>10 DEF TypeOK, LinkOK, OpensInVain
    <3>3. socket' = 0 /\ state' = "closed" /\ ready' = "none" /\ relay' = "silent" /\ inbox' = <<>>
      BY <1>10 DEF OpensInVain
    <3>4. QED
      BY <3>1, <3>2, <3>3, MadeAnew DEF TypeOK, LinkOK
  <2>2. RetryOK'
    BY <1>10, MadeAnew DEF OpensInVain
  <2>3. KeysOK'
    BY <1>10, MadeAnew DEF OpensInVain
  <2>4. SendOK'
    BY <1>10, MadeAnew DEF OpensInVain
  <2>5. QED
    BY <2>1, <2>2, <2>3, <2>4 DEF TypeOK
<1>11. ASSUME NEW setting \in BOOLEAN, Opens(setting) PROVE TypeOK'
  <2>1. LinkOK'
    <3>1. NewSocket /\ Dials
      BY <1>11 DEF Opens
    <3>2. socket' \in Dial /\ dials' \in 0..MaxDials
      BY <3>1 DEF TypeOK, LinkOK, Dials, Dial
    <3>3. state' = "connecting" /\ ready' = "connecting" /\ relay' = "silent" /\ inbox' = <<>>
      BY <3>1 DEF Dials
    <3>4. QED
      BY <3>1, <3>2, <3>3, MadeAnew DEF TypeOK, LinkOK
  <2>2. RetryOK'
    BY <1>11, MadeAnew DEF Opens
  <2>3. KeysOK'
    BY <1>11, MadeAnew DEF Opens
  <2>4. SendOK'
    BY <1>11, MadeAnew DEF Opens
  <2>5. QED
    BY <2>1, <2>2, <2>3, <2>4 DEF TypeOK
<1>12. ASSUME NEW final \in BOOLEAN, NEW givesUp \in BOOLEAN, OnClose(final, givesUp) PROVE TypeOK'
  <2>1. LinkOK'
    BY <1>12, TornDown DEF OnClose
  <2>2. RetryOK'
    <3>1. Attempts \in 0..MaxAttempts /\ (Retries(final, givesUp) => Attempts < MaxAttempts)
      BY <1>12 DEF Attempts, Retries, TypeOK, RetryOK
    <3>2. attempts' \in 0..MaxAttempts
      BY <1>12, <3>1 DEF OnClose
    <3>3. failedDials' \in Nat
      BY <1>12 DEF OnClose, TypeOK, RetryOK
    <3>4. auto' = Retries(final, givesUp) /\ retryTimer' = Retries(final, givesUp)
      BY <1>12 DEF OnClose
    <3>5. auto' \in BOOLEAN /\ retryTimer' \in BOOLEAN
      BY <3>4, Zenon DEF Retries
    <3>6. UNCHANGED <<closedByUs, refused, redials>> /\ stable' = FALSE
      BY <1>12 DEF OnClose, Teardown
    <3>7. QED
      BY <3>2, <3>3, <3>5, <3>6 DEF TypeOK, RetryOK
  <2>3. KeysOK'
    BY <1>12, TornDown DEF OnClose
  <2>4. SendOK'
    BY <1>12, Unmoved DEF OnClose, Teardown, Retries, Attempts
  <2>5. QED
    BY <2>1, <2>2, <2>3, <2>4 DEF TypeOK
<1>13. ASSUME NEW frame \in Replies \cup Payloads, RelaySends(frame) PROVE TypeOK'
  <2>1. LinkOK'
    BY <1>13 DEF TypeOK, RelaySends, LinkOK, Ends, Dial, linkVars, retryVars, keyVars, sendVars
  <2>2. RetryOK'
    BY <1>13, Unmoved DEF RelaySends
  <2>3. KeysOK'
    BY <1>13, Unmoved DEF RelaySends
  <2>4. SendOK'
    BY <1>13, Unmoved DEF RelaySends
  <2>5. QED
    BY <2>1, <2>2, <2>3, <2>4 DEF TypeOK
<1>14. ASSUME NEW d \in Dial, SendsHello(d) PROVE TypeOK'
  <2>1. LinkOK'
    BY <1>14 DEF TypeOK, SendsHello, LinkOK, Ends, Dial, linkVars, retryVars, keyVars, sendVars
  <2>2. RetryOK'
    BY <1>14, Unmoved DEF SendsHello
  <2>3. KeysOK'
    BY <1>14 DEF TypeOK, SendsHello, KeysOK, linkVars, retryVars, keyVars, sendVars
  <2>4. SendOK'
    BY <1>14, Unmoved DEF SendsHello
  <2>5. QED
    BY <2>1, <2>2, <2>3, <2>4 DEF TypeOK
<1>15. ASSUME NEW d \in Dial, Receives(d) PROVE TypeOK'
  <2>1. LinkOK'
    BY <1>15 DEF TypeOK, Receives, Takes, LinkOK, Ends, Dial, linkVars, retryVars, keyVars, sendVars
  <2>2. RetryOK'
    BY <1>15, Unmoved DEF Receives, Takes
  <2>3. KeysOK'
    BY <1>15, Unmoved DEF Receives, Takes
  <2>4. SendOK'
    BY <1>15, Unmoved DEF Receives, Takes
  <2>5. QED
    BY <2>1, <2>2, <2>3, <2>4 DEF TypeOK
<1>16. ASSUME NEW d \in Dial, FindsFalse(d) PROVE TypeOK'
  <2>1. LinkOK'
    BY <1>16 DEF TypeOK, FindsFalse, Breaks, LinkOK, Ends, Dial, linkVars, retryVars, keyVars, sendVars
  <2>2. RetryOK'
    BY <1>16 DEF TypeOK, FindsFalse, Breaks, RetryOK, linkVars, retryVars, keyVars, sendVars
  <2>3. KeysOK'
    BY <1>16, Unmoved DEF FindsFalse, Breaks
  <2>4. SendOK'
    BY <1>16, Unmoved DEF FindsFalse, Breaks
  <2>5. QED
    BY <2>1, <2>2, <2>3, <2>4 DEF TypeOK
<1>17. ASSUME NEW d \in Dial, OnReject(d) PROVE TypeOK'
  <2>1. LinkOK'
    <3>1. inbox' \in Seq(Replies \cup Payloads)
      BY <1>17 DEF OnReject, Takes, TypeOK, LinkOK
    <3>2. UNCHANGED <<state, socket, ready, relay, generating, rx, dials, payloads>> /\ handshakeTimer' = FALSE
      BY <1>17 DEF OnReject, Takes
    <3>3. QED
      BY <3>1, <3>2 DEF TypeOK, LinkOK
  <2>2. RetryOK'
    BY <1>17 DEF TypeOK, OnReject, Takes, RetryOK, linkVars, retryVars, keyVars, sendVars
  <2>3. KeysOK'
    BY <1>17, Unmoved DEF OnReject, Takes
  <2>4. SendOK'
    BY <1>17, Unmoved DEF OnReject, Takes
  <2>5. QED
    BY <2>1, <2>2, <2>3, <2>4 DEF TypeOK
<1>18. ASSUME NEW d \in Dial, DerivesKeys(d) PROVE TypeOK'
  <2>1. LinkOK'
    BY <1>18 DEF TypeOK, DerivesKeys, LinkOK, Ends, Dial, linkVars, retryVars, keyVars, sendVars
  <2>2. RetryOK'
    BY <1>18, Unmoved DEF DerivesKeys
  <2>3. KeysOK'
    BY <1>18 DEF TypeOK, DerivesKeys, KeysOK, linkVars, retryVars, keyVars, sendVars
  <2>4. SendOK'
    BY <1>18, Unmoved DEF DerivesKeys
  <2>5. QED
    BY <2>1, <2>2, <2>3, <2>4 DEF TypeOK
<1>19. ASSUME NEW d \in Dial, SendsConfirm(d) PROVE TypeOK'
  <2>1. LinkOK'
    BY <1>19 DEF TypeOK, SendsConfirm, LinkOK, Ends, Dial, linkVars, retryVars, keyVars, sendVars
  <2>2. RetryOK'
    BY <1>19, Unmoved DEF SendsConfirm
  <2>3. KeysOK'
    BY <1>19, Unmoved DEF SendsConfirm
  <2>4. SendOK'
    BY <1>19, Unmoved DEF SendsConfirm
  <2>5. QED
    BY <2>1, <2>2, <2>3, <2>4 DEF TypeOK
<1>20. ASSUME NEW d \in Dial, Abandons(d) PROVE TypeOK'
  <2>1. LinkOK'
    BY <1>20 DEF TypeOK, Abandons, LinkOK, Ends, Dial, linkVars, retryVars, keyVars, sendVars
  <2>2. RetryOK'
    BY <1>20, Unmoved DEF Abandons
  <2>3. KeysOK'
    BY <1>20, Unmoved DEF Abandons
  <2>4. SendOK'
    BY <1>20, Unmoved DEF Abandons
  <2>5. QED
    BY <2>1, <2>2, <2>3, <2>4 DEF TypeOK
<1>21. ASSUME NEW d \in Dial, Accepts(d) PROVE TypeOK'
  <2>1. LinkOK'
    BY <1>21 DEF TypeOK, Accepts, LinkOK, Ends, Dial, linkVars, retryVars, keyVars, sendVars
  <2>2. RetryOK'
    BY <1>21 DEF TypeOK, Accepts, RetryOK, linkVars, retryVars, keyVars, sendVars
  <2>3. KeysOK'
    BY <1>21 DEF TypeOK, Accepts, KeysOK, linkVars, retryVars, keyVars, sendVars
  <2>4. SendOK'
    BY <1>21 DEF TypeOK, Accepts, SendOK, linkVars, retryVars, keyVars, sendVars
  <2>5. QED
    BY <2>1, <2>2, <2>3, <2>4 DEF TypeOK
<1>22. ASSUME NEW d \in Dial, Delivers(d) PROVE TypeOK'
  <2>1. LinkOK'
    BY <1>22 DEF TypeOK, Delivers, LinkOK, Ends, Dial, linkVars, retryVars, keyVars, sendVars
  <2>2. RetryOK'
    BY <1>22, Unmoved DEF Delivers
  <2>3. KeysOK'
    BY <1>22, Unmoved DEF Delivers
  <2>4. SendOK'
    BY <1>22, Unmoved DEF Delivers
  <2>5. QED
    BY <2>1, <2>2, <2>3, <2>4 DEF TypeOK
<1>23. QED
  BY <1>1, <1>2, <1>3, <1>4, <1>5, <1>6, <1>7, <1>8, <1>9, <1>10, <1>11, <1>12, <1>13, <1>14, <1>15, <1>16, <1>17, <1>18, <1>19, <1>20, <1>21, <1>22 DEF Next, Quietly

\* Every step keeps Ends.
LEMMA EndsStep ==
  ASSUME TypeOK, Ends, InTurn, Prepared, OpenAgreed, Next
  PROVE  Ends'
<1>1. CASE Redials
  BY <1>1 DEF Redials, Dials, TypeOK, LinkOK, RetryOK, KeysOK, SendOK, Ends, OpenAgreed, Dial, Replies, Payloads, linkVars, retryVars, keyVars, sendVars
<1>2. CASE WebSocketOpens
  BY <1>2 DEF WebSocketOpens, TypeOK, LinkOK, RetryOK, KeysOK, SendOK, Ends, OpenAgreed, Dial, Replies, Payloads, linkVars, retryVars, keyVars, sendVars
<1>3. CASE HandshakeTimeout
  BY <1>3 DEF HandshakeTimeout, TypeOK, LinkOK, RetryOK, KeysOK, SendOK, Ends, OpenAgreed, Dial, Replies, Payloads, linkVars, retryVars, keyVars, sendVars
<1>4. CASE HeartbeatTimeout
  BY <1>4 DEF HeartbeatTimeout, TypeOK, LinkOK, RetryOK, KeysOK, SendOK, Ends, OpenAgreed, Dial, Replies, Payloads, linkVars, retryVars, keyVars, sendVars
<1>5. CASE Settles
  BY <1>5 DEF Settles, TypeOK, LinkOK, RetryOK, KeysOK, SendOK, Ends, OpenAgreed, Dial, Replies, Payloads, linkVars, retryVars, keyVars, sendVars
<1>6. CASE Sends
  BY <1>6 DEF Sends, TypeOK, LinkOK, RetryOK, KeysOK, SendOK, Ends, OpenAgreed, Dial, Replies, Payloads, linkVars, retryVars, keyVars, sendVars
<1>7. CASE SendBegins
  BY <1>7 DEF SendBegins, Sendable, TypeOK, LinkOK, RetryOK, KeysOK, SendOK, Ends, OpenAgreed, Dial, Replies, Payloads, linkVars, retryVars, keyVars, sendVars
<1>8. CASE SendEnds
  BY <1>8 DEF SendEnds, TypeOK, LinkOK, RetryOK, KeysOK, SendOK, Ends, OpenAgreed, Dial, Replies, Payloads, linkVars, retryVars, keyVars, sendVars
<1>9. CASE Closes
  BY <1>9 DEF Closes, Teardown, TypeOK, LinkOK, RetryOK, KeysOK, SendOK, Ends, OpenAgreed, Dial, Replies, Payloads, linkVars, retryVars, keyVars, sendVars
<1>10. CASE OpensInVain
  BY <1>10 DEF OpensInVain, NewSocket, TypeOK, LinkOK, RetryOK, KeysOK, SendOK, Ends, OpenAgreed, Dial, Replies, Payloads, linkVars, retryVars, keyVars, sendVars
<1>11. ASSUME NEW setting \in BOOLEAN, Opens(setting) PROVE Ends'
  BY <1>11 DEF Opens, NewSocket, Dials, TypeOK, LinkOK, RetryOK, KeysOK, SendOK, Ends, OpenAgreed, Dial, Replies, Payloads, linkVars, retryVars, keyVars, sendVars
<1>12. ASSUME NEW final \in BOOLEAN, NEW givesUp \in BOOLEAN, OnClose(final, givesUp) PROVE Ends'
  BY <1>12 DEF OnClose, Teardown, Retries, Attempts, TypeOK, LinkOK, RetryOK, KeysOK, SendOK, Ends, OpenAgreed, Dial, Replies, Payloads, linkVars, retryVars, keyVars, sendVars
<1>13. ASSUME NEW frame \in Replies \cup Payloads, RelaySends(frame) PROVE Ends'
  BY <1>13 DEF RelaySends, TypeOK, LinkOK, RetryOK, KeysOK, SendOK, Ends, OpenAgreed, Dial, Replies, Payloads, linkVars, retryVars, keyVars, sendVars
<1>14. ASSUME NEW d \in Dial, SendsHello(d) PROVE Ends'
  BY <1>14 DEF SendsHello, TypeOK, LinkOK, RetryOK, KeysOK, SendOK, Ends, OpenAgreed, Dial, Replies, Payloads, linkVars, retryVars, keyVars, sendVars
<1>15. ASSUME NEW d \in Dial, Receives(d) PROVE Ends'
  BY <1>15 DEF Receives, Takes, TypeOK, LinkOK, RetryOK, KeysOK, SendOK, Ends, OpenAgreed, Dial, Replies, Payloads, linkVars, retryVars, keyVars, sendVars
<1>16. ASSUME NEW d \in Dial, FindsFalse(d) PROVE Ends'
  BY <1>16 DEF FindsFalse, Breaks, TypeOK, LinkOK, RetryOK, KeysOK, SendOK, Ends, OpenAgreed, Dial, Replies, Payloads, linkVars, retryVars, keyVars, sendVars
<1>17. ASSUME NEW d \in Dial, OnReject(d) PROVE Ends'
  BY <1>17 DEF OnReject, Takes, TypeOK, LinkOK, RetryOK, KeysOK, SendOK, Ends, OpenAgreed, Dial, Replies, Payloads, linkVars, retryVars, keyVars, sendVars
<1>18. ASSUME NEW d \in Dial, DerivesKeys(d) PROVE Ends'
  BY <1>18 DEF DerivesKeys, TypeOK, LinkOK, RetryOK, KeysOK, SendOK, Ends, OpenAgreed, Dial, Replies, Payloads, linkVars, retryVars, keyVars, sendVars
<1>19. ASSUME NEW d \in Dial, SendsConfirm(d) PROVE Ends'
  BY <1>19 DEF SendsConfirm, TypeOK, LinkOK, RetryOK, KeysOK, SendOK, Ends, OpenAgreed, Dial, Replies, Payloads, linkVars, retryVars, keyVars, sendVars
<1>20. ASSUME NEW d \in Dial, Abandons(d) PROVE Ends'
  BY <1>20 DEF Abandons, TypeOK, LinkOK, RetryOK, KeysOK, SendOK, Ends, OpenAgreed, Dial, Replies, Payloads, linkVars, retryVars, keyVars, sendVars
<1>21. ASSUME NEW d \in Dial, Accepts(d) PROVE Ends'
  BY <1>21 DEF Accepts, TypeOK, LinkOK, Ends, InTurn, Fits, Prepared, Dial, linkVars
<1>22. ASSUME NEW d \in Dial, Delivers(d) PROVE Ends'
  BY <1>22 DEF Delivers, TypeOK, LinkOK, RetryOK, KeysOK, SendOK, Ends, OpenAgreed, Dial, Replies, Payloads, linkVars, retryVars, keyVars, sendVars
<1>23. QED
  BY <1>1, <1>2, <1>3, <1>4, <1>5, <1>6, <1>7, <1>8, <1>9, <1>10, <1>11, <1>12, <1>13, <1>14, <1>15, <1>16, <1>17, <1>18, <1>19, <1>20, <1>21, <1>22 DEF Next, Quietly

\* Every step keeps Unused.
LEMMA UnusedStep ==
  ASSUME TypeOK, Ends, Unused, Next
  PROVE  Unused'
<1>1. CASE Redials
  BY <1>1 DEF Redials, Dials, TypeOK, LinkOK, RetryOK, KeysOK, SendOK, Ends, Unused, Dial, Sealed, linkVars, retryVars, keyVars, sendVars
<1>2. CASE WebSocketOpens
  BY <1>2 DEF WebSocketOpens, TypeOK, LinkOK, RetryOK, KeysOK, SendOK, Ends, Unused, Dial, Sealed, linkVars, retryVars, keyVars, sendVars
<1>3. CASE HandshakeTimeout
  BY <1>3 DEF HandshakeTimeout, TypeOK, LinkOK, RetryOK, KeysOK, SendOK, Ends, Unused, Dial, Sealed, linkVars, retryVars, keyVars, sendVars
<1>4. CASE HeartbeatTimeout
  BY <1>4 DEF HeartbeatTimeout, TypeOK, LinkOK, RetryOK, KeysOK, SendOK, Ends, Unused, Dial, Sealed, linkVars, retryVars, keyVars, sendVars
<1>5. CASE Settles
  BY <1>5 DEF Settles, TypeOK, LinkOK, RetryOK, KeysOK, SendOK, Ends, Unused, Dial, Sealed, linkVars, retryVars, keyVars, sendVars
<1>6. CASE Sends
  BY <1>6 DEF Sends, TypeOK, LinkOK, RetryOK, KeysOK, SendOK, Ends, Unused, Dial, Sealed, linkVars, retryVars, keyVars, sendVars
<1>7. CASE SendBegins
  BY <1>7 DEF SendBegins, Sendable, TypeOK, LinkOK, RetryOK, KeysOK, SendOK, Ends, Unused, Dial, Sealed, linkVars, retryVars, keyVars, sendVars
<1>8. CASE SendEnds
  BY <1>8 DEF SendEnds, TypeOK, SendOK, LinkOK, Ends, Unused, Dial, linkVars
<1>9. CASE Closes
  BY <1>9 DEF Closes, Teardown, TypeOK, LinkOK, RetryOK, KeysOK, SendOK, Ends, Unused, Dial, Sealed, linkVars, retryVars, keyVars, sendVars
<1>10. CASE OpensInVain
  BY <1>10 DEF OpensInVain, NewSocket, TypeOK, LinkOK, RetryOK, KeysOK, SendOK, Ends, Unused, Dial, Sealed, linkVars, retryVars, keyVars, sendVars
<1>11. ASSUME NEW setting \in BOOLEAN, Opens(setting) PROVE Unused'
  BY <1>11 DEF Opens, NewSocket, Dials, TypeOK, LinkOK, RetryOK, KeysOK, SendOK, Ends, Unused, Dial, Sealed, linkVars, retryVars, keyVars, sendVars
<1>12. ASSUME NEW final \in BOOLEAN, NEW givesUp \in BOOLEAN, OnClose(final, givesUp) PROVE Unused'
  BY <1>12 DEF OnClose, Teardown, Retries, Attempts, TypeOK, LinkOK, RetryOK, KeysOK, SendOK, Ends, Unused, Dial, Sealed, linkVars, retryVars, keyVars, sendVars
<1>13. ASSUME NEW frame \in Replies \cup Payloads, RelaySends(frame) PROVE Unused'
  BY <1>13 DEF RelaySends, TypeOK, LinkOK, RetryOK, KeysOK, SendOK, Ends, Unused, Dial, Sealed, linkVars, retryVars, keyVars, sendVars
<1>14. ASSUME NEW d \in Dial, SendsHello(d) PROVE Unused'
  BY <1>14 DEF SendsHello, TypeOK, LinkOK, RetryOK, KeysOK, SendOK, Ends, Unused, Dial, Sealed, linkVars, retryVars, keyVars, sendVars
<1>15. ASSUME NEW d \in Dial, Receives(d) PROVE Unused'
  BY <1>15 DEF Receives, Takes, TypeOK, LinkOK, RetryOK, KeysOK, SendOK, Ends, Unused, Dial, Sealed, linkVars, retryVars, keyVars, sendVars
<1>16. ASSUME NEW d \in Dial, FindsFalse(d) PROVE Unused'
  BY <1>16 DEF FindsFalse, Breaks, TypeOK, LinkOK, RetryOK, KeysOK, SendOK, Ends, Unused, Dial, Sealed, linkVars, retryVars, keyVars, sendVars
<1>17. ASSUME NEW d \in Dial, OnReject(d) PROVE Unused'
  BY <1>17 DEF OnReject, Takes, TypeOK, LinkOK, RetryOK, KeysOK, SendOK, Ends, Unused, Dial, Sealed, linkVars, retryVars, keyVars, sendVars
<1>18. ASSUME NEW d \in Dial, DerivesKeys(d) PROVE Unused'
  BY <1>18 DEF DerivesKeys, TypeOK, LinkOK, RetryOK, KeysOK, SendOK, Ends, Unused, Dial, Sealed, linkVars, retryVars, keyVars, sendVars
<1>19. ASSUME NEW d \in Dial, SendsConfirm(d) PROVE Unused'
  BY <1>19 DEF SendsConfirm, TypeOK, LinkOK, RetryOK, KeysOK, SendOK, Ends, Unused, Dial, Sealed, linkVars, retryVars, keyVars, sendVars
<1>20. ASSUME NEW d \in Dial, Abandons(d) PROVE Unused'
  BY <1>20 DEF Abandons, TypeOK, LinkOK, RetryOK, KeysOK, SendOK, Ends, Unused, Dial, Sealed, linkVars, retryVars, keyVars, sendVars
<1>21. ASSUME NEW d \in Dial, Accepts(d) PROVE Unused'
  BY <1>21 DEF Accepts, TypeOK, LinkOK, RetryOK, KeysOK, SendOK, Ends, Unused, Dial, Sealed, linkVars, retryVars, keyVars, sendVars
<1>22. ASSUME NEW d \in Dial, Delivers(d) PROVE Unused'
  BY <1>22 DEF Delivers, TypeOK, LinkOK, RetryOK, KeysOK, SendOK, Ends, Unused, Dial, Sealed, linkVars, retryVars, keyVars, sendVars
<1>23. QED
  BY <1>1, <1>2, <1>3, <1>4, <1>5, <1>6, <1>7, <1>8, <1>9, <1>10, <1>11, <1>12, <1>13, <1>14, <1>15, <1>16, <1>17, <1>18, <1>19, <1>20, <1>21, <1>22 DEF Next, Quietly

\* Every step keeps Prepared.
LEMMA PreparedStep ==
  ASSUME TypeOK, Ends, Unused, InTurn, Prepared, OpenAgreed, Next
  PROVE  Prepared'
<1>1. CASE Redials
  BY <1>1 DEF Redials, Dials, TypeOK, LinkOK, RetryOK, KeysOK, SendOK, Ends, Unused, InTurn, Fits, Prepared, OpenAgreed, Dial, Replies, Payloads, linkVars, retryVars, keyVars, sendVars
<1>2. CASE WebSocketOpens
  BY <1>2 DEF WebSocketOpens, TypeOK, LinkOK, RetryOK, KeysOK, SendOK, Ends, Unused, InTurn, Fits, Prepared, OpenAgreed, Dial, Replies, Payloads, linkVars, retryVars, keyVars, sendVars
<1>3. CASE HandshakeTimeout
  BY <1>3 DEF HandshakeTimeout, TypeOK, LinkOK, RetryOK, KeysOK, SendOK, Ends, Unused, InTurn, Fits, Prepared, OpenAgreed, Dial, Replies, Payloads, linkVars, retryVars, keyVars, sendVars
<1>4. CASE HeartbeatTimeout
  BY <1>4 DEF HeartbeatTimeout, TypeOK, LinkOK, RetryOK, KeysOK, SendOK, Ends, Unused, InTurn, Fits, Prepared, OpenAgreed, Dial, Replies, Payloads, linkVars, retryVars, keyVars, sendVars
<1>5. CASE Settles
  BY <1>5 DEF Settles, TypeOK, LinkOK, RetryOK, KeysOK, SendOK, Ends, Unused, InTurn, Fits, Prepared, OpenAgreed, Dial, Replies, Payloads, linkVars, retryVars, keyVars, sendVars
<1>6. CASE Sends
  BY <1>6 DEF Sends, TypeOK, LinkOK, RetryOK, KeysOK, SendOK, Ends, Unused, InTurn, Fits, Prepared, OpenAgreed, Dial, Replies, Payloads, linkVars, retryVars, keyVars, sendVars
<1>7. CASE SendBegins
  BY <1>7 DEF SendBegins, Sendable, TypeOK, LinkOK, RetryOK, KeysOK, SendOK, Ends, Unused, InTurn, Fits, Prepared, OpenAgreed, Dial, Replies, Payloads, linkVars, retryVars, keyVars, sendVars
<1>8. CASE SendEnds
  BY <1>8 DEF SendEnds, TypeOK, LinkOK, RetryOK, KeysOK, SendOK, Ends, Unused, InTurn, Fits, Prepared, OpenAgreed, Dial, Replies, Payloads, linkVars, retryVars, keyVars, sendVars
<1>9. CASE Closes
  BY <1>9 DEF Closes, Teardown, TypeOK, LinkOK, RetryOK, KeysOK, SendOK, Ends, Unused, InTurn, Fits, Prepared, OpenAgreed, Dial, Replies, Payloads, linkVars, retryVars, keyVars, sendVars
<1>10. CASE OpensInVain
  BY <1>10 DEF OpensInVain, NewSocket, TypeOK, LinkOK, RetryOK, KeysOK, SendOK, Ends, Unused, InTurn, Fits, Prepared, OpenAgreed, Dial, Replies, Payloads, linkVars, retryVars, keyVars, sendVars
<1>11. ASSUME NEW setting \in BOOLEAN, Opens(setting) PROVE Prepared'
  BY <1>11 DEF Opens, NewSocket, Dials, TypeOK, LinkOK, RetryOK, KeysOK, SendOK, Ends, Unused, InTurn, Fits, Prepared, OpenAgreed, Dial, Replies, Payloads, linkVars, retryVars, keyVars, sendVars
<1>12. ASSUME NEW final \in BOOLEAN, NEW givesUp \in BOOLEAN, OnClose(final, givesUp) PROVE Prepared'
  BY <1>12 DEF OnClose, Teardown, Retries, Attempts, TypeOK, LinkOK, RetryOK, KeysOK, SendOK, Ends, Unused, InTurn, Fits, Prepared, OpenAgreed, Dial, Replies, Payloads, linkVars, retryVars, keyVars, sendVars
<1>13. ASSUME NEW frame \in Replies \cup Payloads, RelaySends(frame) PROVE Prepared'
  BY <1>13 DEF RelaySends, TypeOK, LinkOK, RetryOK, KeysOK, SendOK, Ends, Unused, InTurn, Fits, Prepared, OpenAgreed, Dial, Replies, Payloads, linkVars, retryVars, keyVars, sendVars
<1>14. ASSUME NEW d \in Dial, SendsHello(d) PROVE Prepared'
  BY <1>14 DEF SendsHello, TypeOK, LinkOK, RetryOK, KeysOK, SendOK, Ends, Unused, InTurn, Fits, Prepared, OpenAgreed, Dial, Replies, Payloads, linkVars, retryVars, keyVars, sendVars
<1>15. ASSUME NEW d \in Dial, Receives(d) PROVE Prepared'
  BY <1>15 DEF Receives, Takes, TypeOK, LinkOK, RetryOK, KeysOK, SendOK, Ends, Unused, InTurn, Fits, Prepared, OpenAgreed, Dial, Replies, Payloads, linkVars, retryVars, keyVars, sendVars
<1>16. ASSUME NEW d \in Dial, FindsFalse(d) PROVE Prepared'
  BY <1>16 DEF FindsFalse, Breaks, TypeOK, LinkOK, RetryOK, KeysOK, SendOK, Ends, Unused, InTurn, Fits, Prepared, OpenAgreed, Dial, Replies, Payloads, linkVars, retryVars, keyVars, sendVars
<1>17. ASSUME NEW d \in Dial, OnReject(d) PROVE Prepared'
  BY <1>17 DEF OnReject, Takes, TypeOK, LinkOK, RetryOK, KeysOK, SendOK, Ends, Unused, InTurn, Fits, Prepared, OpenAgreed, Dial, Replies, Payloads, linkVars, retryVars, keyVars, sendVars
<1>18. ASSUME NEW d \in Dial, DerivesKeys(d) PROVE Prepared'
  BY <1>18 DEF DerivesKeys, TypeOK, LinkOK, RetryOK, KeysOK, SendOK, Ends, Unused, InTurn, Fits, Prepared, OpenAgreed, Dial, Replies, Payloads, linkVars, retryVars, keyVars, sendVars
<1>19. ASSUME NEW d \in Dial, SendsConfirm(d) PROVE Prepared'
  BY <1>19 DEF SendsConfirm, TypeOK, LinkOK, RetryOK, KeysOK, SendOK, Ends, Unused, InTurn, Fits, Prepared, OpenAgreed, Dial, Replies, Payloads, linkVars, retryVars, keyVars, sendVars
<1>20. ASSUME NEW d \in Dial, Abandons(d) PROVE Prepared'
  BY <1>20 DEF Abandons, TypeOK, LinkOK, RetryOK, KeysOK, SendOK, Ends, Unused, InTurn, Fits, Prepared, OpenAgreed, Dial, Replies, Payloads, linkVars, retryVars, keyVars, sendVars
<1>21. ASSUME NEW d \in Dial, Accepts(d) PROVE Prepared'
  BY <1>21 DEF Accepts, TypeOK, LinkOK, RetryOK, KeysOK, SendOK, Ends, Unused, InTurn, Fits, Prepared, OpenAgreed, Dial, Replies, Payloads, linkVars, retryVars, keyVars, sendVars
<1>22. ASSUME NEW d \in Dial, Delivers(d) PROVE Prepared'
  BY <1>22 DEF Delivers, TypeOK, LinkOK, RetryOK, KeysOK, SendOK, Ends, Unused, InTurn, Fits, Prepared, OpenAgreed, Dial, Replies, Payloads, linkVars, retryVars, keyVars, sendVars
<1>23. QED
  BY <1>1, <1>2, <1>3, <1>4, <1>5, <1>6, <1>7, <1>8, <1>9, <1>10, <1>11, <1>12, <1>13, <1>14, <1>15, <1>16, <1>17, <1>18, <1>19, <1>20, <1>21, <1>22 DEF Next, Quietly

\* What is behind the head of a sequence.
LEMMA TailAt ==
  ASSUME NEW S, NEW s \in Seq(S), s # <<>>
  PROVE  /\ 1 \in DOMAIN s /\ Head(s) = s[1] /\ Head(s) \in S
         /\ \A i \in DOMAIN Tail(s) : i + 1 \in DOMAIN s /\ Tail(s)[i] = s[i + 1] /\ i + 1 # 1
OBVIOUS

\* Every step keeps InTurn.
LEMMA InTurnStep ==
  ASSUME TypeOK, Ends, Unused, InTurn, Prepared, OpenAgreed, Next
  PROVE  InTurn'
<1>1. CASE Redials
  BY <1>1 DEF Redials, Dials, TypeOK, LinkOK, RetryOK, KeysOK, SendOK, Ends, Unused, InTurn, Fits, Prepared, OpenAgreed, Dial, Replies, Payloads, linkVars, retryVars, keyVars, sendVars
<1>2. CASE WebSocketOpens
  BY <1>2 DEF WebSocketOpens, TypeOK, LinkOK, RetryOK, KeysOK, SendOK, Ends, Unused, InTurn, Fits, Prepared, OpenAgreed, Dial, Replies, Payloads, linkVars, retryVars, keyVars, sendVars
<1>3. CASE HandshakeTimeout
  BY <1>3 DEF HandshakeTimeout, TypeOK, LinkOK, RetryOK, KeysOK, SendOK, Ends, Unused, InTurn, Fits, Prepared, OpenAgreed, Dial, Replies, Payloads, linkVars, retryVars, keyVars, sendVars
<1>4. CASE HeartbeatTimeout
  BY <1>4 DEF HeartbeatTimeout, TypeOK, LinkOK, RetryOK, KeysOK, SendOK, Ends, Unused, InTurn, Fits, Prepared, OpenAgreed, Dial, Replies, Payloads, linkVars, retryVars, keyVars, sendVars
<1>5. CASE Settles
  BY <1>5 DEF Settles, TypeOK, LinkOK, RetryOK, KeysOK, SendOK, Ends, Unused, InTurn, Fits, Prepared, OpenAgreed, Dial, Replies, Payloads, linkVars, retryVars, keyVars, sendVars
<1>6. CASE Sends
  BY <1>6 DEF Sends, TypeOK, LinkOK, RetryOK, KeysOK, SendOK, Ends, Unused, InTurn, Fits, Prepared, OpenAgreed, Dial, Replies, Payloads, linkVars, retryVars, keyVars, sendVars
<1>7. CASE SendBegins
  BY <1>7 DEF SendBegins, Sendable, TypeOK, LinkOK, RetryOK, KeysOK, SendOK, Ends, Unused, InTurn, Fits, Prepared, OpenAgreed, Dial, Replies, Payloads, linkVars, retryVars, keyVars, sendVars
<1>8. CASE SendEnds
  BY <1>8 DEF SendEnds, TypeOK, LinkOK, RetryOK, KeysOK, SendOK, Ends, Unused, InTurn, Fits, Prepared, OpenAgreed, Dial, Replies, Payloads, linkVars, retryVars, keyVars, sendVars
<1>9. CASE Closes
  BY <1>9 DEF Closes, Teardown, TypeOK, LinkOK, RetryOK, KeysOK, SendOK, Ends, Unused, InTurn, Fits, Prepared, OpenAgreed, Dial, Replies, Payloads, linkVars, retryVars, keyVars, sendVars
<1>10. CASE OpensInVain
  BY <1>10 DEF OpensInVain, NewSocket, TypeOK, LinkOK, RetryOK, KeysOK, SendOK, Ends, Unused, InTurn, Fits, Prepared, OpenAgreed, Dial, Replies, Payloads, linkVars, retryVars, keyVars, sendVars
<1>11. ASSUME NEW setting \in BOOLEAN, Opens(setting) PROVE InTurn'
  BY <1>11 DEF Opens, NewSocket, Dials, TypeOK, LinkOK, RetryOK, KeysOK, SendOK, Ends, Unused, InTurn, Fits, Prepared, OpenAgreed, Dial, Replies, Payloads, linkVars, retryVars, keyVars, sendVars
<1>12. ASSUME NEW final \in BOOLEAN, NEW givesUp \in BOOLEAN, OnClose(final, givesUp) PROVE InTurn'
  BY <1>12 DEF OnClose, Teardown, Retries, Attempts, TypeOK, LinkOK, RetryOK, KeysOK, SendOK, Ends, Unused, InTurn, Fits, Prepared, OpenAgreed, Dial, Replies, Payloads, linkVars, retryVars, keyVars, sendVars
<1>13. ASSUME NEW frame \in Replies \cup Payloads, RelaySends(frame) PROVE InTurn'
  <2>1. socket \in Dial /\ rx[socket] \in Replies \cup Payloads \cup {"idle", "keyed"}
    BY <1>13 DEF RelaySends, TypeOK, LinkOK, Ends, Dial
  <2>2. inbox \in Seq(Replies \cup Payloads) /\ inbox' = Append(inbox, frame)
    BY <1>13 DEF RelaySends, TypeOK, LinkOK
  <2>3. UNCHANGED <<socket, rx, pendingKeys, state>>
    BY <1>13 DEF RelaySends, keyVars
  <2>4. CASE frame \in Payloads
    <3>1. relay \in {"seated", "impostor"} /\ relay' = relay
      BY <1>13, <2>4 DEF RelaySends, Payloads
    <3>2. QED
      BY <2>1, <2>2, <2>3, <2>4, <3>1 DEF InTurn, Fits, Payloads
  <2>5. CASE frame \notin Payloads
    <3>1. relay \in {"hello", "confirm"}
      BY <1>13, <2>5 DEF RelaySends
    <3>2. inbox = <<>>
      BY <2>2, <3>1 DEF InTurn, Fits, Replies
    <3>3. rx[socket] = "idle"
      BY <2>1, <3>1 DEF InTurn, Fits, Replies, Payloads, Dial
    <3>4. relay' = CASE frame = "challenge" -> "challenged" [] frame = "accepted" -> "seated"
                     [] frame = "forged" -> "impostor" [] OTHER -> "refused"
      BY <1>13, <2>5 DEF RelaySends, Replies
    <3>5. frame = "accepted" => pendingKeys = socket /\ state # "open"
      BY <1>13, <3>1, <2>5 DEF RelaySends, Prepared, OpenAgreed
    <3>6. DOMAIN inbox' = {1} /\ inbox'[1] = frame
      BY <2>2, <3>2
    <3>7. QED
      BY <2>1, <2>3, <2>5, <3>3, <3>4, <3>5, <3>6 DEF InTurn, Fits, Replies, Payloads
  <2>6. QED
    BY <2>4, <2>5
<1>14. ASSUME NEW d \in Dial, SendsHello(d) PROVE InTurn'
  BY <1>14 DEF SendsHello, TypeOK, LinkOK, RetryOK, KeysOK, SendOK, Ends, Unused, InTurn, Fits, Prepared, OpenAgreed, Dial, Replies, Payloads, linkVars, retryVars, keyVars, sendVars
<1>15. ASSUME NEW d \in Dial, Receives(d) PROVE InTurn'
  <2>1. d = socket /\ inbox # <<>> /\ rx[d] = "idle" /\ inbox' = Tail(inbox)
    BY <1>15 DEF Receives, Takes
  <2>2. UNCHANGED <<socket, relay, pendingKeys, state>>
    BY <1>15 DEF Receives, keyVars, retryVars
  <2>3. inbox \in Seq(Replies \cup Payloads)
    BY DEF TypeOK, LinkOK
  <2>4. Fits(Head(inbox)) /\ Head(inbox) \in Replies \cup Payloads
    BY <2>1, <2>3, TailAt DEF InTurn
  <2>5. \A i \in DOMAIN Tail(inbox) : Tail(inbox)[i] \in Payloads /\ Fits(Tail(inbox)[i])
    BY <2>1, <2>3, TailAt DEF InTurn
  <2>6. \A f : Fits(f) <=> Fits(f)'
    BY <2>2 DEF Fits
  <2>7. rx'[socket] = Head(inbox)
    BY <1>15, <2>1 DEF Receives, TypeOK, LinkOK
  <2>8. QED
    BY <2>1, <2>2, <2>4, <2>5, <2>6, <2>7 DEF InTurn
<1>16. ASSUME NEW d \in Dial, FindsFalse(d) PROVE InTurn'
  BY <1>16 DEF FindsFalse, Breaks, TypeOK, LinkOK, RetryOK, KeysOK, SendOK, Ends, Unused, InTurn, Fits, Prepared, OpenAgreed, Dial, Replies, Payloads, linkVars, retryVars, keyVars, sendVars
<1>17. ASSUME NEW d \in Dial, OnReject(d) PROVE InTurn'
  <2>1. d = socket /\ inbox # <<>> /\ rx[d] = "idle" /\ inbox' = Tail(inbox)
    BY <1>17 DEF OnReject, Takes
  <2>2. UNCHANGED <<socket, relay, pendingKeys, state>>
    BY <1>17 DEF OnReject, keyVars, retryVars
  <2>3. inbox \in Seq(Replies \cup Payloads)
    BY DEF TypeOK, LinkOK
  <2>4. Fits(Head(inbox)) /\ Head(inbox) \in Replies \cup Payloads
    BY <2>1, <2>3, TailAt DEF InTurn
  <2>5. \A i \in DOMAIN Tail(inbox) : Tail(inbox)[i] \in Payloads /\ Fits(Tail(inbox)[i])
    BY <2>1, <2>3, TailAt DEF InTurn
  <2>6. \A f : Fits(f) <=> Fits(f)'
    BY <2>2 DEF Fits
  <2>7. rx'[socket] = rx[socket]
    BY <1>17, <2>1 DEF OnReject, TypeOK, LinkOK
  <2>8. QED
    BY <2>1, <2>2, <2>4, <2>5, <2>6, <2>7 DEF InTurn
<1>18. ASSUME NEW d \in Dial, DerivesKeys(d) PROVE InTurn'
  BY <1>18 DEF DerivesKeys, TypeOK, LinkOK, RetryOK, KeysOK, SendOK, Ends, Unused, InTurn, Fits, Prepared, OpenAgreed, Dial, Replies, Payloads, linkVars, retryVars, keyVars, sendVars
<1>19. ASSUME NEW d \in Dial, SendsConfirm(d) PROVE InTurn'
  BY <1>19 DEF SendsConfirm, TypeOK, LinkOK, RetryOK, KeysOK, SendOK, Ends, Unused, InTurn, Fits, Prepared, OpenAgreed, Dial, Replies, Payloads, linkVars, retryVars, keyVars, sendVars
<1>20. ASSUME NEW d \in Dial, Abandons(d) PROVE InTurn'
  BY <1>20 DEF Abandons, TypeOK, LinkOK, RetryOK, KeysOK, SendOK, Ends, Unused, InTurn, Fits, Prepared, OpenAgreed, Dial, Replies, Payloads, linkVars, retryVars, keyVars, sendVars
<1>21. ASSUME NEW d \in Dial, Accepts(d) PROVE InTurn'
  BY <1>21 DEF Accepts, TypeOK, LinkOK, RetryOK, KeysOK, SendOK, Ends, Unused, InTurn, Fits, Prepared, OpenAgreed, Dial, Replies, Payloads, linkVars, retryVars, keyVars, sendVars
<1>22. ASSUME NEW d \in Dial, Delivers(d) PROVE InTurn'
  BY <1>22 DEF Delivers, TypeOK, LinkOK, RetryOK, KeysOK, SendOK, Ends, Unused, InTurn, Fits, Prepared, OpenAgreed, Dial, Replies, Payloads, linkVars, retryVars, keyVars, sendVars
<1>23. QED
  BY <1>1, <1>2, <1>3, <1>4, <1>5, <1>6, <1>7, <1>8, <1>9, <1>10, <1>11, <1>12, <1>13, <1>14, <1>15, <1>16, <1>17, <1>18, <1>19, <1>20, <1>21, <1>22 DEF Next, Quietly

\* Every step keeps OpenAgreed.
LEMMA AgreedStep ==
  ASSUME TypeOK, Ends, InTurn, Prepared, OpenAgreed, RetryWanted, Next
  PROVE  OpenAgreed'
<1>1. CASE Redials
  BY <1>1 DEF Redials, Dials, Ends, OpenAgreed, RetryWanted, keyVars
<1>2. CASE WebSocketOpens
  BY <1>2 DEF WebSocketOpens, TypeOK, LinkOK, RetryOK, KeysOK, SendOK, Ends, InTurn, Fits, Prepared, OpenAgreed, Dial, Replies, Payloads, linkVars, retryVars, keyVars, sendVars
<1>3. CASE HandshakeTimeout
  BY <1>3 DEF HandshakeTimeout, TypeOK, LinkOK, RetryOK, KeysOK, SendOK, Ends, InTurn, Fits, Prepared, OpenAgreed, Dial, Replies, Payloads, linkVars, retryVars, keyVars, sendVars
<1>4. CASE HeartbeatTimeout
  BY <1>4 DEF HeartbeatTimeout, TypeOK, LinkOK, RetryOK, KeysOK, SendOK, Ends, InTurn, Fits, Prepared, OpenAgreed, Dial, Replies, Payloads, linkVars, retryVars, keyVars, sendVars
<1>5. CASE Settles
  BY <1>5 DEF Settles, TypeOK, LinkOK, RetryOK, KeysOK, SendOK, Ends, InTurn, Fits, Prepared, OpenAgreed, Dial, Replies, Payloads, linkVars, retryVars, keyVars, sendVars
<1>6. CASE Sends
  BY <1>6 DEF Sends, TypeOK, LinkOK, RetryOK, KeysOK, SendOK, Ends, InTurn, Fits, Prepared, OpenAgreed, Dial, Replies, Payloads, linkVars, retryVars, keyVars, sendVars
<1>7. CASE SendBegins
  BY <1>7 DEF SendBegins, Sendable, TypeOK, LinkOK, RetryOK, KeysOK, SendOK, Ends, InTurn, Fits, Prepared, OpenAgreed, Dial, Replies, Payloads, linkVars, retryVars, keyVars, sendVars
<1>8. CASE SendEnds
  BY <1>8 DEF SendEnds, TypeOK, LinkOK, RetryOK, KeysOK, SendOK, Ends, InTurn, Fits, Prepared, OpenAgreed, Dial, Replies, Payloads, linkVars, retryVars, keyVars, sendVars
<1>9. CASE Closes
  BY <1>9 DEF Closes, Teardown, TypeOK, LinkOK, RetryOK, KeysOK, SendOK, Ends, InTurn, Fits, Prepared, OpenAgreed, Dial, Replies, Payloads, linkVars, retryVars, keyVars, sendVars
<1>10. CASE OpensInVain
  BY <1>10 DEF OpensInVain, NewSocket, TypeOK, LinkOK, RetryOK, KeysOK, SendOK, Ends, InTurn, Fits, Prepared, OpenAgreed, Dial, Replies, Payloads, linkVars, retryVars, keyVars, sendVars
<1>11. ASSUME NEW setting \in BOOLEAN, Opens(setting) PROVE OpenAgreed'
  BY <1>11 DEF Opens, NewSocket, Dials, TypeOK, LinkOK, RetryOK, KeysOK, SendOK, Ends, InTurn, Fits, Prepared, OpenAgreed, Dial, Replies, Payloads, linkVars, retryVars, keyVars, sendVars
<1>12. ASSUME NEW final \in BOOLEAN, NEW givesUp \in BOOLEAN, OnClose(final, givesUp) PROVE OpenAgreed'
  BY <1>12 DEF OnClose, Teardown, Retries, Attempts, TypeOK, LinkOK, RetryOK, KeysOK, SendOK, Ends, InTurn, Fits, Prepared, OpenAgreed, Dial, Replies, Payloads, linkVars, retryVars, keyVars, sendVars
<1>13. ASSUME NEW frame \in Replies \cup Payloads, RelaySends(frame) PROVE OpenAgreed'
  BY <1>13 DEF RelaySends, TypeOK, LinkOK, RetryOK, KeysOK, SendOK, Ends, InTurn, Fits, Prepared, OpenAgreed, Dial, Replies, Payloads, linkVars, retryVars, keyVars, sendVars
<1>14. ASSUME NEW d \in Dial, SendsHello(d) PROVE OpenAgreed'
  BY <1>14 DEF SendsHello, Prepared, OpenAgreed
<1>15. ASSUME NEW d \in Dial, Receives(d) PROVE OpenAgreed'
  BY <1>15 DEF Receives, Takes, TypeOK, LinkOK, RetryOK, KeysOK, SendOK, Ends, InTurn, Fits, Prepared, OpenAgreed, Dial, Replies, Payloads, linkVars, retryVars, keyVars, sendVars
<1>16. ASSUME NEW d \in Dial, FindsFalse(d) PROVE OpenAgreed'
  BY <1>16 DEF FindsFalse, Breaks, TypeOK, LinkOK, RetryOK, KeysOK, SendOK, Ends, InTurn, Fits, Prepared, OpenAgreed, Dial, Replies, Payloads, linkVars, retryVars, keyVars, sendVars
<1>17. ASSUME NEW d \in Dial, OnReject(d) PROVE OpenAgreed'
  BY <1>17 DEF OnReject, Takes, TypeOK, LinkOK, RetryOK, KeysOK, SendOK, Ends, InTurn, Fits, Prepared, OpenAgreed, Dial, Replies, Payloads, linkVars, retryVars, keyVars, sendVars
<1>18. ASSUME NEW d \in Dial, DerivesKeys(d) PROVE OpenAgreed'
  BY <1>18 DEF DerivesKeys, TypeOK, LinkOK, RetryOK, KeysOK, SendOK, Ends, InTurn, Fits, Prepared, OpenAgreed, Dial, Replies, Payloads, linkVars, retryVars, keyVars, sendVars
<1>19. ASSUME NEW d \in Dial, SendsConfirm(d) PROVE OpenAgreed'
  BY <1>19 DEF SendsConfirm, TypeOK, LinkOK, RetryOK, KeysOK, SendOK, Ends, InTurn, Fits, Prepared, OpenAgreed, Dial, Replies, Payloads, linkVars, retryVars, keyVars, sendVars
<1>20. ASSUME NEW d \in Dial, Abandons(d) PROVE OpenAgreed'
  BY <1>20 DEF Abandons, TypeOK, LinkOK, RetryOK, KeysOK, SendOK, Ends, InTurn, Fits, Prepared, OpenAgreed, Dial, Replies, Payloads, linkVars, retryVars, keyVars, sendVars
<1>21. ASSUME NEW d \in Dial, Accepts(d) PROVE OpenAgreed'
  BY <1>21 DEF Accepts, TypeOK, LinkOK, RetryOK, KeysOK, SendOK, Ends, InTurn, Fits, Prepared, OpenAgreed, Dial, Replies, Payloads, linkVars, retryVars, keyVars, sendVars
<1>22. ASSUME NEW d \in Dial, Delivers(d) PROVE OpenAgreed'
  BY <1>22 DEF Delivers, TypeOK, LinkOK, RetryOK, KeysOK, SendOK, Ends, InTurn, Fits, Prepared, OpenAgreed, Dial, Replies, Payloads, linkVars, retryVars, keyVars, sendVars
<1>23. QED
  BY <1>1, <1>2, <1>3, <1>4, <1>5, <1>6, <1>7, <1>8, <1>9, <1>10, <1>11, <1>12, <1>13, <1>14, <1>15, <1>16, <1>17, <1>18, <1>19, <1>20, <1>21, <1>22 DEF Next, Quietly

\* Every step keeps Counted.
LEMMA CountedStep ==
  ASSUME TypeOK, Ends, Counted, RetryWanted, Next
  PROVE  Counted'
<1>1. CASE Redials
  BY <1>1 DEF Redials, Dials, TypeOK, LinkOK, RetryOK, KeysOK, SendOK, Ends, Counted, RetryWanted, Dial, linkVars, retryVars, keyVars, sendVars
<1>2. CASE WebSocketOpens
  BY <1>2 DEF WebSocketOpens, TypeOK, LinkOK, RetryOK, KeysOK, SendOK, Ends, Counted, RetryWanted, Dial, linkVars, retryVars, keyVars, sendVars
<1>3. CASE HandshakeTimeout
  BY <1>3 DEF HandshakeTimeout, TypeOK, LinkOK, RetryOK, KeysOK, SendOK, Ends, Counted, RetryWanted, Dial, linkVars, retryVars, keyVars, sendVars
<1>4. CASE HeartbeatTimeout
  BY <1>4 DEF HeartbeatTimeout, TypeOK, LinkOK, RetryOK, KeysOK, SendOK, Ends, Counted, RetryWanted, Dial, linkVars, retryVars, keyVars, sendVars
<1>5. CASE Settles
  BY <1>5 DEF Settles, TypeOK, LinkOK, RetryOK, KeysOK, SendOK, Ends, Counted, RetryWanted, Dial, linkVars, retryVars, keyVars, sendVars
<1>6. CASE Sends
  BY <1>6 DEF Sends, TypeOK, LinkOK, RetryOK, KeysOK, SendOK, Ends, Counted, RetryWanted, Dial, linkVars, retryVars, keyVars, sendVars
<1>7. CASE SendBegins
  BY <1>7 DEF SendBegins, Sendable, TypeOK, LinkOK, RetryOK, KeysOK, SendOK, Ends, Counted, RetryWanted, Dial, linkVars, retryVars, keyVars, sendVars
<1>8. CASE SendEnds
  BY <1>8 DEF SendEnds, TypeOK, LinkOK, RetryOK, KeysOK, SendOK, Ends, Counted, RetryWanted, Dial, linkVars, retryVars, keyVars, sendVars
<1>9. CASE Closes
  BY <1>9 DEF Closes, Teardown, TypeOK, LinkOK, RetryOK, KeysOK, SendOK, Ends, Counted, RetryWanted, Dial, linkVars, retryVars, keyVars, sendVars
<1>10. CASE OpensInVain
  BY <1>10 DEF OpensInVain, NewSocket, TypeOK, LinkOK, RetryOK, KeysOK, SendOK, Ends, Counted, RetryWanted, Dial, linkVars, retryVars, keyVars, sendVars
<1>11. ASSUME NEW setting \in BOOLEAN, Opens(setting) PROVE Counted'
  BY <1>11 DEF Opens, NewSocket, Dials, TypeOK, LinkOK, RetryOK, KeysOK, SendOK, Ends, Counted, RetryWanted, Dial, linkVars, retryVars, keyVars, sendVars
<1>12. ASSUME NEW final \in BOOLEAN, NEW givesUp \in BOOLEAN, OnClose(final, givesUp) PROVE Counted'
  BY <1>12 DEF OnClose, Teardown, Retries, Attempts, TypeOK, LinkOK, RetryOK, KeysOK, SendOK, Ends, Counted, RetryWanted, Dial, linkVars, retryVars, keyVars, sendVars
<1>13. ASSUME NEW frame \in Replies \cup Payloads, RelaySends(frame) PROVE Counted'
  BY <1>13 DEF RelaySends, TypeOK, LinkOK, RetryOK, KeysOK, SendOK, Ends, Counted, RetryWanted, Dial, linkVars, retryVars, keyVars, sendVars
<1>14. ASSUME NEW d \in Dial, SendsHello(d) PROVE Counted'
  BY <1>14 DEF SendsHello, TypeOK, LinkOK, RetryOK, KeysOK, SendOK, Ends, Counted, RetryWanted, Dial, linkVars, retryVars, keyVars, sendVars
<1>15. ASSUME NEW d \in Dial, Receives(d) PROVE Counted'
  BY <1>15 DEF Receives, Takes, TypeOK, LinkOK, RetryOK, KeysOK, SendOK, Ends, Counted, RetryWanted, Dial, linkVars, retryVars, keyVars, sendVars
<1>16. ASSUME NEW d \in Dial, FindsFalse(d) PROVE Counted'
  BY <1>16 DEF FindsFalse, Breaks, TypeOK, LinkOK, RetryOK, KeysOK, SendOK, Ends, Counted, RetryWanted, Dial, linkVars, retryVars, keyVars, sendVars
<1>17. ASSUME NEW d \in Dial, OnReject(d) PROVE Counted'
  BY <1>17 DEF OnReject, Takes, TypeOK, LinkOK, RetryOK, KeysOK, SendOK, Ends, Counted, RetryWanted, Dial, linkVars, retryVars, keyVars, sendVars
<1>18. ASSUME NEW d \in Dial, DerivesKeys(d) PROVE Counted'
  BY <1>18 DEF DerivesKeys, TypeOK, LinkOK, RetryOK, KeysOK, SendOK, Ends, Counted, RetryWanted, Dial, linkVars, retryVars, keyVars, sendVars
<1>19. ASSUME NEW d \in Dial, SendsConfirm(d) PROVE Counted'
  BY <1>19 DEF SendsConfirm, TypeOK, LinkOK, RetryOK, KeysOK, SendOK, Ends, Counted, RetryWanted, Dial, linkVars, retryVars, keyVars, sendVars
<1>20. ASSUME NEW d \in Dial, Abandons(d) PROVE Counted'
  BY <1>20 DEF Abandons, TypeOK, LinkOK, RetryOK, KeysOK, SendOK, Ends, Counted, RetryWanted, Dial, linkVars, retryVars, keyVars, sendVars
<1>21. ASSUME NEW d \in Dial, Accepts(d) PROVE Counted'
  BY <1>21 DEF Accepts, TypeOK, LinkOK, RetryOK, KeysOK, SendOK, Ends, Counted, RetryWanted, Dial, linkVars, retryVars, keyVars, sendVars
<1>22. ASSUME NEW d \in Dial, Delivers(d) PROVE Counted'
  BY <1>22 DEF Delivers, TypeOK, LinkOK, RetryOK, KeysOK, SendOK, Ends, Counted, RetryWanted, Dial, linkVars, retryVars, keyVars, sendVars
<1>23. QED
  BY <1>1, <1>2, <1>3, <1>4, <1>5, <1>6, <1>7, <1>8, <1>9, <1>10, <1>11, <1>12, <1>13, <1>14, <1>15, <1>16, <1>17, <1>18, <1>19, <1>20, <1>21, <1>22 DEF Next, Quietly

\* Every step keeps RetryWanted.
LEMMA WantedStep ==
  ASSUME TypeOK, Ends, Counted, RetryWanted, Next
  PROVE  RetryWanted'
<1>1. CASE Redials
  BY <1>1 DEF Redials, Dials, TypeOK, LinkOK, RetryOK, KeysOK, SendOK, Ends, Counted, RetryWanted, Dial, linkVars, retryVars, keyVars, sendVars
<1>2. CASE WebSocketOpens
  BY <1>2 DEF WebSocketOpens, TypeOK, LinkOK, RetryOK, KeysOK, SendOK, Ends, Counted, RetryWanted, Dial, linkVars, retryVars, keyVars, sendVars
<1>3. CASE HandshakeTimeout
  BY <1>3 DEF HandshakeTimeout, TypeOK, LinkOK, RetryOK, KeysOK, SendOK, Ends, Counted, RetryWanted, Dial, linkVars, retryVars, keyVars, sendVars
<1>4. CASE HeartbeatTimeout
  BY <1>4 DEF HeartbeatTimeout, TypeOK, LinkOK, RetryOK, KeysOK, SendOK, Ends, Counted, RetryWanted, Dial, linkVars, retryVars, keyVars, sendVars
<1>5. CASE Settles
  BY <1>5 DEF Settles, TypeOK, LinkOK, RetryOK, KeysOK, SendOK, Ends, Counted, RetryWanted, Dial, linkVars, retryVars, keyVars, sendVars
<1>6. CASE Sends
  BY <1>6 DEF Sends, TypeOK, LinkOK, RetryOK, KeysOK, SendOK, Ends, Counted, RetryWanted, Dial, linkVars, retryVars, keyVars, sendVars
<1>7. CASE SendBegins
  BY <1>7 DEF SendBegins, Sendable, TypeOK, LinkOK, RetryOK, KeysOK, SendOK, Ends, Counted, RetryWanted, Dial, linkVars, retryVars, keyVars, sendVars
<1>8. CASE SendEnds
  BY <1>8 DEF SendEnds, TypeOK, LinkOK, RetryOK, KeysOK, SendOK, Ends, Counted, RetryWanted, Dial, linkVars, retryVars, keyVars, sendVars
<1>9. CASE Closes
  BY <1>9 DEF Closes, Teardown, TypeOK, LinkOK, RetryOK, KeysOK, SendOK, Ends, Counted, RetryWanted, Dial, linkVars, retryVars, keyVars, sendVars
<1>10. CASE OpensInVain
  BY <1>10 DEF OpensInVain, NewSocket, TypeOK, LinkOK, RetryOK, KeysOK, SendOK, Ends, Counted, RetryWanted, Dial, linkVars, retryVars, keyVars, sendVars
<1>11. ASSUME NEW setting \in BOOLEAN, Opens(setting) PROVE RetryWanted'
  BY <1>11 DEF Opens, NewSocket, Dials, TypeOK, LinkOK, RetryOK, KeysOK, SendOK, Ends, Counted, RetryWanted, Dial, linkVars, retryVars, keyVars, sendVars
<1>12. ASSUME NEW final \in BOOLEAN, NEW givesUp \in BOOLEAN, OnClose(final, givesUp) PROVE RetryWanted'
  BY <1>12 DEF OnClose, Teardown, Retries, Attempts, TypeOK, LinkOK, RetryOK, KeysOK, SendOK, Ends, Counted, RetryWanted, Dial, linkVars, retryVars, keyVars, sendVars
<1>13. ASSUME NEW frame \in Replies \cup Payloads, RelaySends(frame) PROVE RetryWanted'
  BY <1>13 DEF RelaySends, TypeOK, LinkOK, RetryOK, KeysOK, SendOK, Ends, Counted, RetryWanted, Dial, linkVars, retryVars, keyVars, sendVars
<1>14. ASSUME NEW d \in Dial, SendsHello(d) PROVE RetryWanted'
  BY <1>14 DEF SendsHello, TypeOK, LinkOK, RetryOK, KeysOK, SendOK, Ends, Counted, RetryWanted, Dial, linkVars, retryVars, keyVars, sendVars
<1>15. ASSUME NEW d \in Dial, Receives(d) PROVE RetryWanted'
  BY <1>15 DEF Receives, Takes, TypeOK, LinkOK, RetryOK, KeysOK, SendOK, Ends, Counted, RetryWanted, Dial, linkVars, retryVars, keyVars, sendVars
<1>16. ASSUME NEW d \in Dial, FindsFalse(d) PROVE RetryWanted'
  BY <1>16 DEF FindsFalse, Breaks, TypeOK, LinkOK, RetryOK, KeysOK, SendOK, Ends, Counted, RetryWanted, Dial, linkVars, retryVars, keyVars, sendVars
<1>17. ASSUME NEW d \in Dial, OnReject(d) PROVE RetryWanted'
  BY <1>17 DEF OnReject, Takes, TypeOK, LinkOK, RetryOK, KeysOK, SendOK, Ends, Counted, RetryWanted, Dial, linkVars, retryVars, keyVars, sendVars
<1>18. ASSUME NEW d \in Dial, DerivesKeys(d) PROVE RetryWanted'
  BY <1>18 DEF DerivesKeys, TypeOK, LinkOK, RetryOK, KeysOK, SendOK, Ends, Counted, RetryWanted, Dial, linkVars, retryVars, keyVars, sendVars
<1>19. ASSUME NEW d \in Dial, SendsConfirm(d) PROVE RetryWanted'
  BY <1>19 DEF SendsConfirm, TypeOK, LinkOK, RetryOK, KeysOK, SendOK, Ends, Counted, RetryWanted, Dial, linkVars, retryVars, keyVars, sendVars
<1>20. ASSUME NEW d \in Dial, Abandons(d) PROVE RetryWanted'
  BY <1>20 DEF Abandons, TypeOK, LinkOK, RetryOK, KeysOK, SendOK, Ends, Counted, RetryWanted, Dial, linkVars, retryVars, keyVars, sendVars
<1>21. ASSUME NEW d \in Dial, Accepts(d) PROVE RetryWanted'
  BY <1>21 DEF Accepts, TypeOK, LinkOK, RetryOK, KeysOK, SendOK, Ends, Counted, RetryWanted, Dial, linkVars, retryVars, keyVars, sendVars
<1>22. ASSUME NEW d \in Dial, Delivers(d) PROVE RetryWanted'
  BY <1>22 DEF Delivers, TypeOK, LinkOK, RetryOK, KeysOK, SendOK, Ends, Counted, RetryWanted, Dial, linkVars, retryVars, keyVars, sendVars
<1>23. QED
  BY <1>1, <1>2, <1>3, <1>4, <1>5, <1>6, <1>7, <1>8, <1>9, <1>10, <1>11, <1>12, <1>13, <1>14, <1>15, <1>16, <1>17, <1>18, <1>19, <1>20, <1>21, <1>22 DEF Next, Quietly

\* Every step keeps Ordered.
LEMMA OrderedStep ==
  ASSUME TypeOK, Ends, Unused, InTurn, OpenAgreed, Ordered, Next
  PROVE  Ordered'
<1>1. CASE Redials
  BY <1>1 DEF Redials, Dials, TypeOK, LinkOK, RetryOK, KeysOK, SendOK, Ends, Unused, OpenAgreed, Ordered, Dial, Sealed, linkVars, retryVars, keyVars, sendVars
<1>2. CASE WebSocketOpens
  BY <1>2 DEF WebSocketOpens, TypeOK, LinkOK, RetryOK, KeysOK, SendOK, Ends, Unused, OpenAgreed, Ordered, Dial, Sealed, linkVars, retryVars, keyVars, sendVars
<1>3. CASE HandshakeTimeout
  BY <1>3 DEF HandshakeTimeout, TypeOK, LinkOK, RetryOK, KeysOK, SendOK, Ends, Unused, OpenAgreed, Ordered, Dial, Sealed, linkVars, retryVars, keyVars, sendVars
<1>4. CASE HeartbeatTimeout
  BY <1>4 DEF HeartbeatTimeout, TypeOK, LinkOK, RetryOK, KeysOK, SendOK, Ends, Unused, OpenAgreed, Ordered, Dial, Sealed, linkVars, retryVars, keyVars, sendVars
<1>5. CASE Settles
  BY <1>5 DEF Settles, TypeOK, LinkOK, RetryOK, KeysOK, SendOK, Ends, Unused, OpenAgreed, Ordered, Dial, Sealed, linkVars, retryVars, keyVars, sendVars
<1>6. CASE Sends
  BY <1>6 DEF Sends, TypeOK, LinkOK, RetryOK, KeysOK, SendOK, Ends, Unused, OpenAgreed, Ordered, Dial, Sealed, linkVars, retryVars, keyVars, sendVars
<1>7. CASE SendBegins
  <2>1. UNCHANGED <<socket, state, wire, dials>> /\ sendCounter \in Nat
    BY <1>7 DEF SendBegins, linkVars, TypeOK, SendOK
  <2>2. CASE Sendable(Head(queue))
    <3>1. sendCounter' = sendCounter + 1 /\ sealing'.dial = socket /\ sealing'.key = keys
      BY <1>7, <2>2 DEF SendBegins, Sendable
    <3>2. sealing'.counter = sendCounter + 1 /\ state = "open"
      BY <1>7, <2>2 DEF SendBegins, Sendable
    <3>3. socket # 0 /\ keys = socket /\ socket <= dials
      BY <3>2 DEF OpenAgreed, Ends
    <3>4. \A i \in DOMAIN wire[socket] : wire[socket][i].counter <= sendCounter
      BY <3>3 DEF Ordered
    <3>5. wire[socket] \in Seq(Sealed)
      BY <3>3 DEF TypeOK, LinkOK, SendOK
    <3>6. ASSUME NEW i \in DOMAIN wire[socket]
          PROVE  /\ wire[socket][i].counter < sendCounter + 1
                 /\ wire[socket][i].counter <= sendCounter + 1
      <4>1. wire[socket][i] \in Sealed
        BY <3>5
      <4>2. wire[socket][i].counter \in Nat
        BY <4>1 DEF Sealed
      <4>3. QED
        BY <2>1, <3>4, <4>2
    <3>7. sendCounter' = sendCounter + 1 /\ sealing'.counter = sendCounter'
      BY <3>1, <3>2
    <3>8. sealing'.counter <= sendCounter'
      BY <2>1, <3>7
    <3>9. \A i \in DOMAIN wire'[socket] :
            wire'[socket][i].counter <= sendCounter' /\ wire'[socket][i].counter < sealing'.counter
      BY <2>1, <3>6, <3>7
    <3>10. QED
      BY <2>1, <3>1, <3>2, <3>3, <3>8, <3>9 DEF Ordered
  <2>3. CASE ~Sendable(Head(queue))
    BY <1>7, <2>1, <2>3 DEF SendBegins, Ordered
  <2>4. QED
    BY <2>2, <2>3
<1>8. CASE SendEnds
  <2>1. UNCHANGED <<socket, state, sendCounter, dials>> /\ sealing' = <<>>
    BY <1>8 DEF SendEnds, linkVars
  <2>2. CASE UNCHANGED wire
    BY <2>1, <2>2 DEF Ordered
  <2>3. CASE sealing.dial = socket /\ wire' = [wire EXCEPT ![socket] = Append(@, sealing)]
    <3>1. sealing \in Sealed /\ socket \in Dial
      BY <1>8, <2>3 DEF SendEnds, TypeOK, SendOK, Sealed
    <3>2. wire[socket] \in Seq(Sealed) /\ wire'[socket] = Append(wire[socket], sealing)
      BY <2>3, <3>1 DEF TypeOK, SendOK
    <3>3. state = "open" /\ sealing.counter <= sendCounter
      BY <1>8, <2>3 DEF SendEnds, Ordered
    <3>4. \A i \in DOMAIN wire[socket] : wire[socket][i].counter <= sendCounter
      BY <3>1 DEF Ordered, Dial
    <3>5. \A i \in DOMAIN wire'[socket] : wire'[socket][i].counter <= sendCounter
      BY <3>2, <3>3, <3>4
    <3>6. QED
      BY <2>1, <3>3, <3>5 DEF Ordered
  <2>4. QED
    BY <1>8, <2>2, <2>3 DEF SendEnds
<1>9. CASE Closes
  BY <1>9 DEF Closes, Teardown, TypeOK, LinkOK, RetryOK, KeysOK, SendOK, Ends, Unused, OpenAgreed, Ordered, Dial, Sealed, linkVars, retryVars, keyVars, sendVars
<1>10. CASE OpensInVain
  BY <1>10 DEF OpensInVain, NewSocket, TypeOK, LinkOK, RetryOK, KeysOK, SendOK, Ends, Unused, OpenAgreed, Ordered, Dial, Sealed, linkVars, retryVars, keyVars, sendVars
<1>11. ASSUME NEW setting \in BOOLEAN, Opens(setting) PROVE Ordered'
  BY <1>11 DEF Opens, NewSocket, Dials, TypeOK, LinkOK, RetryOK, KeysOK, SendOK, Ends, Unused, OpenAgreed, Ordered, Dial, Sealed, linkVars, retryVars, keyVars, sendVars
<1>12. ASSUME NEW final \in BOOLEAN, NEW givesUp \in BOOLEAN, OnClose(final, givesUp) PROVE Ordered'
  BY <1>12 DEF OnClose, Teardown, Retries, Attempts, TypeOK, LinkOK, RetryOK, KeysOK, SendOK, Ends, Unused, OpenAgreed, Ordered, Dial, Sealed, linkVars, retryVars, keyVars, sendVars
<1>13. ASSUME NEW frame \in Replies \cup Payloads, RelaySends(frame) PROVE Ordered'
  BY <1>13 DEF RelaySends, TypeOK, LinkOK, RetryOK, KeysOK, SendOK, Ends, Unused, OpenAgreed, Ordered, Dial, Sealed, linkVars, retryVars, keyVars, sendVars
<1>14. ASSUME NEW d \in Dial, SendsHello(d) PROVE Ordered'
  BY <1>14 DEF SendsHello, TypeOK, LinkOK, RetryOK, KeysOK, SendOK, Ends, Unused, OpenAgreed, Ordered, Dial, Sealed, linkVars, retryVars, keyVars, sendVars
<1>15. ASSUME NEW d \in Dial, Receives(d) PROVE Ordered'
  BY <1>15 DEF Receives, Takes, TypeOK, LinkOK, RetryOK, KeysOK, SendOK, Ends, Unused, OpenAgreed, Ordered, Dial, Sealed, linkVars, retryVars, keyVars, sendVars
<1>16. ASSUME NEW d \in Dial, FindsFalse(d) PROVE Ordered'
  BY <1>16 DEF FindsFalse, Breaks, TypeOK, LinkOK, RetryOK, KeysOK, SendOK, Ends, Unused, OpenAgreed, Ordered, Dial, Sealed, linkVars, retryVars, keyVars, sendVars
<1>17. ASSUME NEW d \in Dial, OnReject(d) PROVE Ordered'
  BY <1>17 DEF OnReject, Takes, TypeOK, LinkOK, RetryOK, KeysOK, SendOK, Ends, Unused, OpenAgreed, Ordered, Dial, Sealed, linkVars, retryVars, keyVars, sendVars
<1>18. ASSUME NEW d \in Dial, DerivesKeys(d) PROVE Ordered'
  BY <1>18 DEF DerivesKeys, TypeOK, LinkOK, RetryOK, KeysOK, SendOK, Ends, Unused, OpenAgreed, Ordered, Dial, Sealed, linkVars, retryVars, keyVars, sendVars
<1>19. ASSUME NEW d \in Dial, SendsConfirm(d) PROVE Ordered'
  BY <1>19 DEF SendsConfirm, TypeOK, LinkOK, RetryOK, KeysOK, SendOK, Ends, Unused, OpenAgreed, Ordered, Dial, Sealed, linkVars, retryVars, keyVars, sendVars
<1>20. ASSUME NEW d \in Dial, Abandons(d) PROVE Ordered'
  BY <1>20 DEF Abandons, TypeOK, LinkOK, RetryOK, KeysOK, SendOK, Ends, Unused, OpenAgreed, Ordered, Dial, Sealed, linkVars, retryVars, keyVars, sendVars
<1>21. ASSUME NEW d \in Dial, Accepts(d) PROVE Ordered'
  <2>1. socket \in Dial /\ state # "open"
    BY <1>21 DEF Accepts, InTurn, Fits, Dial
  <2>2. wire[socket] = <<>>
    BY <2>1 DEF Ordered, Dial
  <2>3. state' = "open" /\ UNCHANGED <<socket, wire, sealing, dials>>
    BY <1>21 DEF Accepts, linkVars
  <2>4. sealing # <<>> => sealing.dial # socket
    BY <2>1 DEF Ordered
  <2>5. QED
    BY <2>2, <2>3, <2>4 DEF Ordered
<1>22. ASSUME NEW d \in Dial, Delivers(d) PROVE Ordered'
  BY <1>22 DEF Delivers, TypeOK, LinkOK, RetryOK, KeysOK, SendOK, Ends, Unused, OpenAgreed, Ordered, Dial, Sealed, linkVars, retryVars, keyVars, sendVars
<1>23. QED
  BY <1>1, <1>2, <1>3, <1>4, <1>5, <1>6, <1>7, <1>8, <1>9, <1>10, <1>11, <1>12, <1>13, <1>14, <1>15, <1>16, <1>17, <1>18, <1>19, <1>20, <1>21, <1>22 DEF Next, Quietly

\* Every step keeps WireOrder.
LEMMA WireStep ==
  ASSUME TypeOK, Ends, Unused, Ordered, WireOrder, Next
  PROVE  WireOrder'
<1>1. CASE Redials
  BY <1>1 DEF Redials, Dials, TypeOK, LinkOK, RetryOK, KeysOK, SendOK, Ends, Unused, Ordered, WireOrder, Dial, Sealed, linkVars, retryVars, keyVars, sendVars
<1>2. CASE WebSocketOpens
  BY <1>2 DEF WebSocketOpens, TypeOK, LinkOK, RetryOK, KeysOK, SendOK, Ends, Unused, Ordered, WireOrder, Dial, Sealed, linkVars, retryVars, keyVars, sendVars
<1>3. CASE HandshakeTimeout
  BY <1>3 DEF HandshakeTimeout, TypeOK, LinkOK, RetryOK, KeysOK, SendOK, Ends, Unused, Ordered, WireOrder, Dial, Sealed, linkVars, retryVars, keyVars, sendVars
<1>4. CASE HeartbeatTimeout
  BY <1>4 DEF HeartbeatTimeout, TypeOK, LinkOK, RetryOK, KeysOK, SendOK, Ends, Unused, Ordered, WireOrder, Dial, Sealed, linkVars, retryVars, keyVars, sendVars
<1>5. CASE Settles
  BY <1>5 DEF Settles, TypeOK, LinkOK, RetryOK, KeysOK, SendOK, Ends, Unused, Ordered, WireOrder, Dial, Sealed, linkVars, retryVars, keyVars, sendVars
<1>6. CASE Sends
  BY <1>6 DEF Sends, TypeOK, LinkOK, RetryOK, KeysOK, SendOK, Ends, Unused, Ordered, WireOrder, Dial, Sealed, linkVars, retryVars, keyVars, sendVars
<1>7. CASE SendBegins
  BY <1>7 DEF SendBegins, Sendable, TypeOK, LinkOK, RetryOK, KeysOK, SendOK, Ends, Unused, Ordered, WireOrder, Dial, Sealed, linkVars, retryVars, keyVars, sendVars
<1>8. CASE SendEnds
  <2>1. CASE UNCHANGED wire
    BY <2>1 DEF WireOrder
  <2>2. CASE /\ sealing.dial = socket /\ sealing.key = keys
             /\ wire' = [wire EXCEPT ![socket] = Append(@, sealing)]
    <3>1. sealing \in Sealed /\ socket \in Dial
      BY <1>8, <2>2 DEF SendEnds, TypeOK, SendOK, Sealed
    <3>2. wire[socket] \in Seq(Sealed) /\ wire'[socket] = Append(wire[socket], sealing)
      BY <2>2, <3>1 DEF TypeOK, SendOK
    <3>3. sealing.dial = socket /\ sealing.key = socket
      BY <1>8, <2>2 DEF SendEnds, Ordered
    <3>4. \A i \in DOMAIN wire[socket] : wire[socket][i].counter < sealing.counter
      BY <1>8, <2>2 DEF SendEnds, Ordered
    <3>5. \A i \in DOMAIN wire'[socket] : wire'[socket][i].dial = socket /\ wire'[socket][i].key = socket
      BY <3>1, <3>2, <3>3 DEF WireOrder
    <3>6. \A i, j \in DOMAIN wire'[socket] : i < j => wire'[socket][i].counter < wire'[socket][j].counter
      BY <3>1, <3>2, <3>4 DEF WireOrder
    <3>7. \A d \in Dial \ {socket} : wire'[d] = wire[d]
      BY <2>2 DEF TypeOK, SendOK
    <3>8. QED
      BY <3>5, <3>6, <3>7 DEF WireOrder
  <2>3. QED
    BY <1>8, <2>1, <2>2 DEF SendEnds
<1>9. CASE Closes
  BY <1>9 DEF Closes, Teardown, TypeOK, LinkOK, RetryOK, KeysOK, SendOK, Ends, Unused, Ordered, WireOrder, Dial, Sealed, linkVars, retryVars, keyVars, sendVars
<1>10. CASE OpensInVain
  BY <1>10 DEF OpensInVain, NewSocket, TypeOK, LinkOK, RetryOK, KeysOK, SendOK, Ends, Unused, Ordered, WireOrder, Dial, Sealed, linkVars, retryVars, keyVars, sendVars
<1>11. ASSUME NEW setting \in BOOLEAN, Opens(setting) PROVE WireOrder'
  BY <1>11 DEF Opens, NewSocket, Dials, TypeOK, LinkOK, RetryOK, KeysOK, SendOK, Ends, Unused, Ordered, WireOrder, Dial, Sealed, linkVars, retryVars, keyVars, sendVars
<1>12. ASSUME NEW final \in BOOLEAN, NEW givesUp \in BOOLEAN, OnClose(final, givesUp) PROVE WireOrder'
  BY <1>12 DEF OnClose, Teardown, Retries, Attempts, TypeOK, LinkOK, RetryOK, KeysOK, SendOK, Ends, Unused, Ordered, WireOrder, Dial, Sealed, linkVars, retryVars, keyVars, sendVars
<1>13. ASSUME NEW frame \in Replies \cup Payloads, RelaySends(frame) PROVE WireOrder'
  BY <1>13 DEF RelaySends, TypeOK, LinkOK, RetryOK, KeysOK, SendOK, Ends, Unused, Ordered, WireOrder, Dial, Sealed, linkVars, retryVars, keyVars, sendVars
<1>14. ASSUME NEW d \in Dial, SendsHello(d) PROVE WireOrder'
  BY <1>14 DEF SendsHello, TypeOK, LinkOK, RetryOK, KeysOK, SendOK, Ends, Unused, Ordered, WireOrder, Dial, Sealed, linkVars, retryVars, keyVars, sendVars
<1>15. ASSUME NEW d \in Dial, Receives(d) PROVE WireOrder'
  BY <1>15 DEF Receives, Takes, TypeOK, LinkOK, RetryOK, KeysOK, SendOK, Ends, Unused, Ordered, WireOrder, Dial, Sealed, linkVars, retryVars, keyVars, sendVars
<1>16. ASSUME NEW d \in Dial, FindsFalse(d) PROVE WireOrder'
  BY <1>16 DEF FindsFalse, Breaks, TypeOK, LinkOK, RetryOK, KeysOK, SendOK, Ends, Unused, Ordered, WireOrder, Dial, Sealed, linkVars, retryVars, keyVars, sendVars
<1>17. ASSUME NEW d \in Dial, OnReject(d) PROVE WireOrder'
  BY <1>17 DEF OnReject, Takes, TypeOK, LinkOK, RetryOK, KeysOK, SendOK, Ends, Unused, Ordered, WireOrder, Dial, Sealed, linkVars, retryVars, keyVars, sendVars
<1>18. ASSUME NEW d \in Dial, DerivesKeys(d) PROVE WireOrder'
  BY <1>18 DEF DerivesKeys, TypeOK, LinkOK, RetryOK, KeysOK, SendOK, Ends, Unused, Ordered, WireOrder, Dial, Sealed, linkVars, retryVars, keyVars, sendVars
<1>19. ASSUME NEW d \in Dial, SendsConfirm(d) PROVE WireOrder'
  BY <1>19 DEF SendsConfirm, TypeOK, LinkOK, RetryOK, KeysOK, SendOK, Ends, Unused, Ordered, WireOrder, Dial, Sealed, linkVars, retryVars, keyVars, sendVars
<1>20. ASSUME NEW d \in Dial, Abandons(d) PROVE WireOrder'
  BY <1>20 DEF Abandons, TypeOK, LinkOK, RetryOK, KeysOK, SendOK, Ends, Unused, Ordered, WireOrder, Dial, Sealed, linkVars, retryVars, keyVars, sendVars
<1>21. ASSUME NEW d \in Dial, Accepts(d) PROVE WireOrder'
  BY <1>21 DEF Accepts, TypeOK, LinkOK, RetryOK, KeysOK, SendOK, Ends, Unused, Ordered, WireOrder, Dial, Sealed, linkVars, retryVars, keyVars, sendVars
<1>22. ASSUME NEW d \in Dial, Delivers(d) PROVE WireOrder'
  BY <1>22 DEF Delivers, TypeOK, LinkOK, RetryOK, KeysOK, SendOK, Ends, Unused, Ordered, WireOrder, Dial, Sealed, linkVars, retryVars, keyVars, sendVars
<1>23. QED
  BY <1>1, <1>2, <1>3, <1>4, <1>5, <1>6, <1>7, <1>8, <1>9, <1>10, <1>11, <1>12, <1>13, <1>14, <1>15, <1>16, <1>17, <1>18, <1>19, <1>20, <1>21, <1>22 DEF Next, Quietly

-----------------------------------------------------------------------------
(* The theorems *)

\* What has no step keeps the invariant.
LEMMA StutterStep ==
  ASSUME IInv, UNCHANGED tvars
  PROVE  IInv'
<1> USE DEF tvars, linkVars, retryVars, keyVars, sendVars
<1>1. TypeOK'
  BY Unmoved DEF IInv, TypeOK
<1>2. Ends' /\ Unused' /\ Prepared' /\ OpenAgreed'
  BY DEF IInv, Ends, Unused, Prepared, OpenAgreed
<1>3. InTurn'
  BY DEF IInv, InTurn, Fits
<1>4. Counted' /\ RetryWanted'
  BY DEF IInv, Counted, RetryWanted
<1>5. Ordered' /\ WireOrder'
  BY DEF IInv, Ordered, WireOrder
<1>6. QED
  BY <1>1, <1>2, <1>3, <1>4, <1>5 DEF IInv

\* No connection, no frame, no retry at the start.
LEMMA Initially == Init => IInv
<1> SUFFICES ASSUME Init
             PROVE  IInv
  OBVIOUS
<1>1. TypeOK
  <2>1. LinkOK
    <3>1. rx \in [Dial -> Replies \cup Payloads \cup {"idle", "keyed"}]
      BY DEF Init
    <3>2. inbox \in Seq(Replies \cup Payloads) /\ generating \subseteq Dial
      BY DEF Init
    <3>3. dials \in 0..MaxDials /\ payloads \in 0..MaxPayloads
      BY DEF Init
    <3>4. QED
      BY <3>1, <3>2, <3>3 DEF Init, LinkOK
  <2>2. RetryOK
    <3>1. attempts \in 0..MaxAttempts
      BY DEF Init
    <3>2. QED
      BY <3>1 DEF Init, RetryOK
  <2>3. KeysOK
    BY DEF Init, KeysOK
  <2>4. SendOK
    <3>1. wire \in [Dial -> Seq(Sealed)] /\ queue \in Seq([dial : Dial, key : Dial])
      BY DEF Init
    <3>2. QED
      BY <3>1 DEF Init, SendOK
  <2>5. QED
    BY <2>1, <2>2, <2>3, <2>4 DEF TypeOK
<1>2. Ends /\ Unused /\ InTurn /\ Prepared
  BY DEF Init, Ends, Unused, InTurn, Prepared
<1>3. Counted /\ Ordered /\ OpenAgreed /\ RetryWanted
  BY DEF Init, Counted, Ordered, OpenAgreed, RetryWanted
<1>4. WireOrder
  BY DEF Init, WireOrder
<1>5. QED
  BY <1>1, <1>2, <1>3, <1>4 DEF IInv

\* The invariant holds, whatever the relay and the session do and however many dials
\* there are.
THEOREM Invariance == Spec => []IInv
<1>1. IInv /\ [Next]_tvars => IInv'
  <2> SUFFICES ASSUME IInv, Next
               PROVE  IInv'
    BY StutterStep
  <2>1. QED
    BY TypeStep, EndsStep, UnusedStep, PreparedStep, InTurnStep, AgreedStep, CountedStep, WantedStep,
       OrderedStep, WireStep DEF IInv
<1>2. QED
  BY Initially, <1>1, PTL DEF Spec

\* An open channel is one the relay has accepted on this very WebSocket, and its keys
\* are this handshake's: #handleAccepted.
THEOREM ChannelIsAgreed == Spec => []OpenAgreed
<1>1. IInv => OpenAgreed
  BY DEF IInv
<1>2. QED
  BY Invariance, <1>1, PTL

\* No frame goes out on a connection, or under keys or a counter, other than its own:
\* the send chain.
THEOREM FramesStayInOrder == Spec => []WireOrder
<1>1. IInv => WireOrder
  BY DEF IInv
<1>2. QED
  BY Invariance, <1>1, PTL

\* A retry is due exactly when it is wanted: #onClose and close().
THEOREM RetriesAreWanted == Spec => []RetryWanted
<1>1. IInv => RetryWanted
  BY DEF IInv
<1>2. QED
  BY Invariance, <1>1, PTL

\* Unstable retries end: the count of #onClose.
THEOREM RetriesEnd == Spec => []RetryBudget
<1>1. IInv => RetryBudget
  BY DEF IInv, Counted, TypeOK, RetryOK, RetryBudget
<1>2. QED
  BY Invariance, <1>1, PTL

=============================================================================
