--------------------------- MODULE ChatSyncProofs ---------------------------
(***************************************************************************)
(* Theorems about ChatSync, for every set of clients, every transcript the *)
(* host starts from and every bound.                                       *)
(***************************************************************************)
EXTENDS ChatSync, SequenceTheorems, TLAPS

USE ChatAssumption

-----------------------------------------------------------------------------
(* Types *)

\* The frames the peers send are frames.
LEMMA FramesTyped ==
  /\ \A op \in Signals : Signal(op) \in Frame
  /\ \A op \in {"turn", "append", "edit"}, row \in Said : Msg(op, row) \in Frame
  /\ \A row \in Message, k \in Nat : [Msg("delete", row) EXCEPT !.at = k] \in Frame
  /\ \A s \in Seq(Message) : Transcript(s) \in Frame
<1>1. \A op \in Signals : Signal(op) \in Frame
  BY DEF Signal, Msg, Frame
<1>2. \A op \in {"turn", "append", "edit"}, row \in Said : Msg(op, row) \in Frame
  BY DEF Msg, Frame
<1>3. \A row \in Message, k \in Nat : [Msg("delete", row) EXCEPT !.at = k] \in Frame
  BY DEF Msg, Frame
<1>4. \A s \in Seq(Message) : Transcript(s) \in Frame
  BY DEF Transcript, Frame
<1>5. QED
  BY <1>1, <1>2, <1>3, <1>4

\* And carry what their opcode calls for.
LEMMA FramesCarry ==
  ASSUME NEW f \in Frame
  PROVE  /\ f.op \in {"turn", "append", "edit"} => f.row \in Said
         /\ f.op = "delete" => f.row \in Message /\ f.at \in Nat
         /\ f.op = "state" => f.log \in Seq(Message)
BY DEF Frame, Signals

\* A message that is said has an id of its own.
LEMMA SaidTyped ==
  /\ Said \subseteq Message
  /\ \A row \in Said : row.id \in Ids /\ row.text \in Texts
  /\ Empty \notin Message
  /\ \A row \in Message : row.id \in Ids \cup {None} /\ row.text \in Texts
  /\ \A row \in Message : row.id # None => row \in Said
<1>1. Stream \notin Ids \cup {None}
  BY DEF Ids
<1>2. QED
  BY <1>1 DEF Said, Message, Empty

\* A broadcast, and what a local change is published as, keep the queues typed.
LEMMA QueuesTyped ==
  ASSUME TypeOK, NEW fs \in Seq(Frame)
  PROVE  /\ Broadcast(fs) => toClient' \in [Client -> Seq(Frame)]
         /\ \A p \in Peer : Publish(p, fs) =>
              toClient' \in [Client -> Seq(Frame)] /\ toHost' \in [Client -> Seq(Frame)]
<1>1. Broadcast(fs) => toClient' \in [Client -> Seq(Frame)]
  BY DEF Broadcast, TypeOK
<1>2. \A p \in Peer : Publish(p, fs) =>
        toClient' \in [Client -> Seq(Frame)] /\ toHost' \in [Client -> Seq(Frame)]
  <2> SUFFICES ASSUME NEW p \in Peer, Publish(p, fs)
               PROVE  toClient' \in [Client -> Seq(Frame)] /\ toHost' \in [Client -> Seq(Frame)]
    OBVIOUS
  <2>1. CASE p = Host
    BY <1>1, <2>1 DEF Publish, TypeOK
  <2>2. CASE p # Host
    <3>1. toHost[p] \o fs \in Seq(Frame)
      BY <2>2 DEF TypeOK, Peer
    <3>2. QED
      BY <2>2, <3>1 DEF Publish, TypeOK
  <2>3. QED
    BY <2>1, <2>2
<1>3. QED
  BY <1>1, <1>2

\* Removing a row leaves a chat.
LEMMA RemoveTyped ==
  ASSUME NEW S, NEW s \in Seq(S), NEW k \in DOMAIN s
  PROVE  RemoveAtIndex(s, k) \in Seq(S)
BY DEF RemoveAtIndex

\* The frame at the head of a queue, and the rest of it.
LEMMA HeadTyped ==
  ASSUME NEW q \in Seq(Frame), q # <<>>
  PROVE  Head(q) \in Frame /\ Tail(q) \in Seq(Frame)
OBVIOUS

\* The initial state is well typed.
LEMMA InitTyped == Init => TypeOK
<1> SUFFICES ASSUME Init PROVE TypeOK
  OBVIOUS
<1>1. \A k \in DOMAIN History : [id |-> None, text |-> History[k]] \in Message
  BY DEF Message
<1>2. [k \in DOMAIN History |-> [id |-> None, text |-> History[k]]] \in Seq(Message)
  BY <1>1
<1>3. \A s \in Seq(Message) : s \in Seq(Message \cup {Empty})
  OBVIOUS
<1>4. /\ rows \in [Peer -> Seq(Message \cup {Empty})] /\ rows[Host] \in Seq(Message)
      /\ applied \in [Peer -> SUBSET Ids] /\ suppress \in [Peer -> SUBSET Ids]
  BY <1>2, <1>3 DEF Init, Peer
<1>5. /\ toHost \in [Client -> Seq(Frame)] /\ toClient \in [Client -> Seq(Frame)]
      /\ placeholder \in [Client -> Nat] /\ last \in 0..MaxSays
  BY DEF Init
<1>6. QED
  BY <1>4, <1>5 DEF Init, TypeOK

\* A message in the host's own chat keeps the types.
LEMMA PostTyped ==
  ASSUME TypeOK, NEW t \in Texts, HostPosts(t)
  PROVE  /\ rows' \in [Peer -> Seq(Message \cup {Empty})] /\ rows'[Host] \in Seq(Message)
         /\ applied' \in [Peer -> SUBSET Ids] /\ toClient' \in [Client -> Seq(Frame)]
         /\ posted' \subseteq Ids /\ last' \in 0..MaxSays
<1> DEFINE row == [id |-> last + 1, text |-> t]
<1>1. last + 1 \in Ids
  BY DEF HostPosts, TypeOK, Ids
<1>2. row \in Said
  BY <1>1 DEF Said
<1>3. <<Msg("append", row)>> \in Seq(Frame)
  BY <1>2, FramesTyped
<1>4. Host \in Peer
  BY DEF Peer
<1>5. row \in Message
  BY <1>2, SaidTyped
<1>6. /\ rows' = [rows EXCEPT ![Host] = Append(@, row)]
      /\ applied' = [applied EXCEPT ![Host] = @ \cup {row.id}]
      /\ Broadcast(<<Msg("append", row)>>)
      /\ posted' = posted \cup {row.id} /\ last' = last + 1
  BY DEF HostPosts
<1>7. toClient' \in [Client -> Seq(Frame)]
  BY <1>3, <1>6, QueuesTyped
<1> HIDE DEF row
<1>8. rows' \in [Peer -> Seq(Message \cup {Empty})] /\ rows'[Host] \in Seq(Message)
  BY <1>4, <1>5, <1>6 DEF TypeOK
<1>9. row.id \in Ids
  BY <1>2, SaidTyped
<1>10. applied' \in [Peer -> SUBSET Ids]
  BY <1>4, <1>6, <1>9 DEF TypeOK
<1>11. posted' \subseteq Ids
  BY <1>6, <1>9 DEF TypeOK
<1>12. last' \in 0..MaxSays
  BY <1>1, <1>6 DEF TypeOK, Ids
<1>13. QED
  BY <1>7, <1>8, <1>10, <1>11, <1>12

\* Every step of a user, or of the network, keeps the types.
LEMMA UsersTyped ==
  ASSUME TypeOK, Users
  PROVE  TypeOK'
<1> USE DEF peerVars, netVars, clientVars, hostVars, runVars, Acts
<1>0. /\ Host \in Peer /\ Client \subseteq Peer
      /\ \A op \in Signals : <<Signal(op)>> \in Seq(Frame)
  BY FramesTyped DEF Peer
<1>1. CASE \E t \in Texts : HostSays(t)
  BY <1>1, PostTyped DEF HostSays, TypeOK
<1>2. CASE \E t \in Texts, c \in Client : ClientSays(c, t)
  <2>1. PICK t \in Texts, c \in Client : ClientSays(c, t)
    BY <1>2
  <2> DEFINE row == [id |-> last + 1, text |-> t]
  <2>2. row \in Said /\ row.id \in Ids /\ last + 1 \in 0..MaxSays
    BY <2>1 DEF ClientSays, TypeOK, Said, Ids
  <2>3. Msg("turn", row) \in Frame /\ row \in Message
    BY <2>2, FramesTyped, SaidTyped
  <2>4. /\ rows' = [rows EXCEPT ![c] = Append(@, row)]
        /\ applied' = [applied EXCEPT ![c] = @ \cup {row.id}]
        /\ toHost' = [toHost EXCEPT ![c] = Append(@, Msg("turn", row))]
    BY <2>1 DEF ClientSays, Send
  <2> HIDE DEF row
  <2>5. /\ rows' \in [Peer -> Seq(Message \cup {Empty})] /\ rows'[Host] \in Seq(Message)
        /\ applied' \in [Peer -> SUBSET Ids] /\ toHost' \in [Client -> Seq(Frame)]
    BY <1>0, <2>2, <2>3, <2>4 DEF TypeOK
  <2>6. QED
    BY <2>1, <2>2, <2>5 DEF ClientSays, TypeOK
<1>3. CASE \E p \in Peer : \E k \in DOMAIN rows[p] : DeletesRow(p, k)
  <2>0. PICK p \in Peer : \E k \in DOMAIN rows[p] : DeletesRow(p, k)
    BY <1>3
  <2>1. PICK k \in DOMAIN rows[p] : DeletesRow(p, k)
    BY <2>0
  <2>2. /\ RemoveAtIndex(rows[p], k) \in Seq(Message \cup {Empty})
        /\ p = Host => RemoveAtIndex(rows[p], k) \in Seq(Message)
    BY RemoveTyped DEF TypeOK
  <2>3. rows[p][k] \in Message /\ k \in Nat
    BY <2>1 DEF DeletesRow, CanChange, TypeOK, Empty
  <2>4. LocalDelete(rows[p][k], k, suppress[p]) \in Seq(Frame)
    BY <2>3, FramesTyped DEF LocalDelete
  <2>5. toClient' \in [Client -> Seq(Frame)] /\ toHost' \in [Client -> Seq(Frame)]
    BY <2>1, <2>4, QueuesTyped DEF DeletesRow
  <2>6. rows' \in [Peer -> Seq(Message \cup {Empty})] /\ rows'[Host] \in Seq(Message)
    BY <1>0, <2>1, <2>2 DEF DeletesRow, TypeOK
  <2>7. QED
    BY <2>1, <2>5, <2>6 DEF DeletesRow, TypeOK
<1>4. CASE \E p \in Peer : \E k \in DOMAIN rows[p] : \E t \in Texts : EditsRow(p, k, t)
  <2>0. PICK p \in Peer : \E k \in DOMAIN rows[p] : \E t \in Texts : EditsRow(p, k, t)
    BY <1>4
  <2>1. PICK k \in DOMAIN rows[p], t \in Texts : EditsRow(p, k, t)
    BY <2>0
  <2> DEFINE row == [rows[p][k] EXCEPT !.text = t]
  <2>2. rows[p][k] \in Message
    BY <2>1 DEF EditsRow, CanChange, TypeOK, Empty
  <2>3. row \in Message
    BY <2>2 DEF Message
  <2>4. /\ rows' = [rows EXCEPT ![p][k] = row]
        /\ saved' = IF p = Host THEN Reworded(row) ELSE saved
        /\ Publish(p, LocalEdit(row, suppress[p]))
    BY <2>1 DEF EditsRow
  <2> HIDE DEF row
  <2>5. LocalEdit(row, suppress[p]) \in Seq(Frame)
    <3>1. CASE row.id = None
      BY <3>1 DEF LocalEdit
    <3>2. CASE row.id # None
      BY <2>3, <3>2, SaidTyped, FramesTyped DEF LocalEdit
    <3>3. QED
      BY <3>1, <3>2
  <2>6. toClient' \in [Client -> Seq(Frame)] /\ toHost' \in [Client -> Seq(Frame)]
    BY <2>4, <2>5, QueuesTyped
  <2>7. rows' \in [Peer -> Seq(Message \cup {Empty})] /\ rows'[Host] \in Seq(Message)
    BY <1>0, <2>3, <2>4 DEF TypeOK
  <2>8. saved' \in Said \cup {Empty} /\ (saved' = Empty <=> saved = Empty)
    <3>1. saved = Empty => saved.id \notin Ids \cup {None}
      BY DEF Empty, Ids
    <3>2. saved \in Said => saved.id # None
      BY SaidTyped DEF Ids
    <3>3. QED
      BY <2>3, <2>4, <3>1, <3>2, SaidTyped DEF Reworded, TypeOK
  <2>9. QED
    BY <2>1, <2>6, <2>7, <2>8 DEF EditsRow, TypeOK
<1>5. CASE \E c \in Client : ClientMoves(c)
  <2>1. PICK c \in Client : ClientMoves(c)
    BY <1>5
  <2>2. Signal("join") \in Frame
    BY FramesTyped DEF Signals
  <2>3. toHost' \in [Client -> Seq(Frame)]
    <3>1. Append(toHost[c], Signal("join")) \in Seq(Frame)
      BY <2>2 DEF TypeOK
    <3>2. QED
      BY <2>1, <3>1 DEF ClientMoves, Send, TypeOK
  <2>4. open' \subseteq Client
    BY <2>1 DEF ClientMoves, TypeOK
  <2>5. QED
    BY <2>1, <2>3, <2>4 DEF ClientMoves, TypeOK
<1>6. CASE \E c \in Client : Drops(c)
  <2>0. PICK c \in Client : Drops(c)
    BY <1>6
  <2>1. PICK n \in 0..Len(toHost[c]) :
          toHost' = [toHost EXCEPT ![c] = [k \in 1..n |-> Orphan(toHost[c][k])]]
    BY <2>0 DEF Drops
  <2>2. \A f \in Frame : Orphan(f) \in Frame
    BY FramesTyped DEF Orphan, Signals
  <2>3. [k \in 1..n |-> Orphan(toHost[c][k])] \in Seq(Frame)
    BY <2>2 DEF TypeOK
  <2>4. toHost' \in [Client -> Seq(Frame)] /\ toClient' \in [Client -> Seq(Frame)]
    BY <2>0, <2>1, <2>3 DEF Drops, TypeOK
  <2>5. online' \subseteq Client /\ active' \subseteq Client
    BY <2>0 DEF Drops, TypeOK
  <2>6. QED
    BY <2>0, <2>4, <2>5 DEF Drops, TypeOK
<1>7. CASE \E c \in Client : ClientAsks(c)
  <2>1. Signal("request") \in Frame
    BY FramesTyped DEF Signals
  <2>2. toHost' \in [Client -> Seq(Frame)]
    BY <1>7, <2>1 DEF ClientAsks, Send, TypeOK
  <2>3. QED
    BY <1>7, <2>2 DEF ClientAsks, TypeOK
<1>8. CASE HostMoves
  <2>1. toClient' \in [Client -> Seq(Frame)]
    BY <1>0, <1>8, QueuesTyped DEF HostMoves, Signals
  <2>2. applied' \in [Peer -> SUBSET Ids] /\ suppress' \in [Peer -> SUBSET Ids]
    BY <1>8 DEF HostMoves, TypeOK
  <2>3. hostIn' \in BOOLEAN /\ scheduled' \in BOOLEAN
    BY <1>8 DEF HostMoves
  <2>4. QED
    BY <1>8, <2>1, <2>2, <2>3 DEF HostMoves, TypeOK
<1>9. CASE GenStarts
  <2>1. toClient' \in [Client -> Seq(Frame)]
    BY <1>0, <1>9, QueuesTyped DEF GenStarts, Signals
  <2>2. QED
    BY <1>9, <2>1 DEF GenStarts, TypeOK
<1>10. QED
  BY <1>1, <1>2, <1>3, <1>4, <1>5, <1>6, <1>7, <1>8, <1>9 DEF Users

\* Every step of a generation keeps the types.
LEMMA GenerationTyped ==
  ASSUME TypeOK, Generation
  PROVE  TypeOK'
<1> USE DEF peerVars, netVars, clientVars, hostVars, runVars, Acts
<1>0. \A op \in Signals : <<Signal(op)>> \in Seq(Frame)
  BY FramesTyped
<1>1. CASE GenStreams
  BY <1>1 DEF GenStreams, TypeOK
<1>2. CASE TokenTimer
  <2>1. toClient' \in [Client -> Seq(Frame)]
    BY <1>0, <1>2, QueuesTyped DEF TokenTimer, Signals, TypeOK
  <2>2. QED
    BY <1>2, <2>1 DEF TokenTimer, TypeOK
<1>3. CASE GenEnds
  <2>1. toClient' \in [Client -> Seq(Frame)]
    BY <1>0, <1>3, QueuesTyped DEF GenEnds, Signals
  <2>2. QED
    BY <1>3, <2>1 DEF GenEnds, TypeOK
<1>4. CASE \E t \in Texts : GenLands(t)
  BY <1>4, PostTyped DEF GenLands, TypeOK
<1>5. QED
  BY <1>1, <1>2, <1>3, <1>4 DEF Generation

\* Applying a remote edit keeps the chats typed, at the host and at a client.
LEMMA EditTyped ==
  ASSUME TypeOK, NEW p \in Peer, NEW row \in Said, AppliesEdit(p, row)
  PROVE  /\ rows' \in [Peer -> Seq(Message \cup {Empty})] /\ rows'[Host] \in Seq(Message)
         /\ suppress' \in [Peer -> SUBSET Ids] /\ Echo(p, row) = <<>>
<1>1. row \in Message /\ row.id \in Ids /\ Host \in Peer
  BY SaidTyped DEF Peer
<1>2. CASE Found(p, row.id) = {} /\ UNCHANGED <<rows, suppress>>
  BY <1>2 DEF Echo, TypeOK
<1>3. CASE \E k \in Found(p, row.id) :
             /\ rows' = [rows EXCEPT ![p][k] = row]
             /\ suppress' = [suppress EXCEPT ![p] = @ \cup {row.id}]
  <2>1. PICK k \in Found(p, row.id) : rows' = [rows EXCEPT ![p][k] = row]
    BY <1>3
  <2>2. k \in DOMAIN rows[p]
    BY DEF Found
  <2>3. rows' \in [Peer -> Seq(Message \cup {Empty})] /\ rows'[Host] \in Seq(Message)
    BY <1>1, <2>1, <2>2 DEF TypeOK
  <2>4. suppress' \in [Peer -> SUBSET Ids] /\ row.id \in suppress'[p]
    BY <1>1, <1>3 DEF TypeOK
  <2>5. QED
    BY <2>3, <2>4 DEF Echo, LocalEdit
<1>4. QED
  BY <1>2, <1>3 DEF AppliesEdit

\* So does applying a remote delete.
LEMMA DeleteTyped ==
  ASSUME TypeOK, NEW p \in Peer, NEW f \in Frame, f.row \in Message, AppliesDelete(p, f)
  PROVE  /\ rows' \in [Peer -> Seq(Message \cup {Empty})] /\ rows'[Host] \in Seq(Message)
         /\ suppress' \in [Peer -> SUBSET Ids]
<1>1. {f.row.id} \ {None} \subseteq Ids /\ Host \in Peer
  BY SaidTyped DEF Peer
<1>2. CASE Target(p, f) = {} /\ UNCHANGED <<rows, suppress>>
  BY <1>2 DEF TypeOK
<1>3. CASE \E k \in Target(p, f) :
             /\ rows' = [rows EXCEPT ![p] = RemoveAtIndex(@, k)]
             /\ suppress' = [suppress EXCEPT ![p] = @ \cup ({f.row.id} \ {None})]
  <2>1. PICK k \in Target(p, f) : rows' = [rows EXCEPT ![p] = RemoveAtIndex(@, k)]
    BY <1>3
  <2>2. k \in DOMAIN rows[p]
    BY DEF Target, Found
  <2>3. /\ RemoveAtIndex(rows[p], k) \in Seq(Message \cup {Empty})
        /\ p = Host => RemoveAtIndex(rows[p], k) \in Seq(Message)
    BY <2>2, RemoveTyped DEF TypeOK
  <2>4. rows' \in [Peer -> Seq(Message \cup {Empty})] /\ rows'[Host] \in Seq(Message)
    BY <1>1, <2>1, <2>3 DEF TypeOK
  <2>5. suppress' \in [Peer -> SUBSET Ids]
    BY <1>1, <1>3 DEF TypeOK
  <2>6. QED
    BY <2>4, <2>5
<1>4. QED
  BY <1>2, <1>3 DEF AppliesDelete

\* Taking a frame off the host's queue.
LEMMA TakesTyped ==
  ASSUME TypeOK, NEW c \in Client, NEW op, Takes(c, op)
  PROVE  /\ Head(toHost[c]) \in Frame /\ Head(toHost[c]).op = op
         /\ toHost' \in [Client -> Seq(Frame)]
<1>1. toHost[c] \in Seq(Frame) /\ toHost[c] # <<>>
  BY DEF Takes, TypeOK
<1>2. QED
  BY <1>1, HeadTyped DEF Takes, TypeOK

\* And off a client's.
LEMMA GetsTyped ==
  ASSUME TypeOK, NEW c \in Client, NEW op, Gets(c, op)
  PROVE  /\ Head(toClient[c]) \in Frame /\ Head(toClient[c]).op = op
         /\ toClient' \in [Client -> Seq(Frame)]
<1>1. toClient[c] \in Seq(Frame) /\ toClient[c] # <<>>
  BY DEF Gets, TypeOK
<1>2. QED
  BY <1>1, HeadTyped DEF Gets, TypeOK

\* Every step of the host's routing chain keeps the types.
LEMMA HostRoutesTyped ==
  ASSUME TypeOK, HostRoutes
  PROVE  TypeOK'
<1> USE DEF peerVars, netVars, clientVars, hostVars, runVars
<1>0. Host \in Peer
  BY DEF Peer
<1>1. CASE SaveDone
  <2>1. saved \in Said
    BY <1>1 DEF SaveDone, TypeOK
  <2>2. toClient' \in [Client -> Seq(Frame)]
    <3>1. <<Msg("append", saved)>> \in Seq(Frame)
      BY <2>1, FramesTyped
    <3>2. QED
      BY <1>1, <3>1, QueuesTyped DEF SaveDone
  <2>3. QED
    BY <1>1, <2>2 DEF SaveDone, TypeOK
<1>2. CASE ReplyDone
  BY <1>2 DEF ReplyDone, TypeOK
<1>3. ASSUME NEW c \in Client, HostAway(c)
      PROVE  TypeOK'
  BY <1>3, TakesTyped DEF HostAway, TypeOK
<1>4. ASSUME NEW c \in Client, HostTakesTurn(c)
      PROVE  TypeOK'
  <2> DEFINE row == Head(toHost[c]).row
  <2>1. toHost' \in [Client -> Seq(Frame)] /\ row \in Said
    BY <1>4, TakesTyped, FramesCarry DEF HostTakesTurn
  <2>2. row \in Message /\ row.id \in Ids /\ row # Empty
    BY <2>1, SaidTyped
  <2>3. /\ rows' = [rows EXCEPT ![Host] = Append(@, row)]
        /\ applied' = [applied EXCEPT ![Host] = @ \cup {row.id}]
        /\ posted' = posted \cup {row.id} /\ saved' = row
    BY <1>4 DEF HostTakesTurn
  <2> HIDE DEF row
  <2>4. rows' \in [Peer -> Seq(Message \cup {Empty})] /\ rows'[Host] \in Seq(Message)
    BY <1>0, <2>2, <2>3 DEF TypeOK
  <2>5. applied' \in [Peer -> SUBSET Ids] /\ posted' \subseteq Ids
    BY <2>2, <2>3 DEF TypeOK
  <2>6. saved' \in Said /\ saved' # Empty
    BY <2>1, <2>2, <2>3
  <2>7. QED
    BY <1>4, <2>1, <2>4, <2>5, <2>6 DEF HostTakesTurn, TypeOK
<1>5. ASSUME NEW c \in Client, HostTakesRequest(c)
      PROVE  TypeOK'
  <2>1. toHost' \in [Client -> Seq(Frame)] /\ pc = "idle"
    BY <1>5, TakesTyped DEF HostTakesRequest, Takes
  <2>2. QED
    BY <1>5, <2>1 DEF HostTakesRequest, TypeOK
<1>6. ASSUME NEW c \in Client, HostTakesEdit(c)
      PROVE  TypeOK'
  <2> DEFINE row == Head(toHost[c]).row
  <2>1. toHost' \in [Client -> Seq(Frame)] /\ row \in Said /\ pc = "idle"
    BY <1>6, TakesTyped, FramesCarry DEF HostTakesEdit, Takes
  <2>2. /\ AppliesEdit(Host, row) /\ saved' = Reworded(row)
        /\ Broadcast(Echo(Host, row) \o <<Msg("edit", row)>>)
    BY <1>6 DEF HostTakesEdit
  <2> HIDE DEF row
  <2>3. /\ rows' \in [Peer -> Seq(Message \cup {Empty})] /\ rows'[Host] \in Seq(Message)
        /\ suppress' \in [Peer -> SUBSET Ids] /\ Echo(Host, row) = <<>>
    BY <1>0, <2>1, <2>2, EditTyped
  <2>4. Msg("edit", row) \in Frame
    BY <2>1, FramesTyped
  <2>5. toClient' \in [Client -> Seq(Frame)]
    <3>1. Echo(Host, row) \o <<Msg("edit", row)>> \in Seq(Frame)
      BY <2>3, <2>4
    <3>2. QED
      BY <2>2, <3>1, QueuesTyped
  <2>6. saved' = Empty
    <3>1. saved = Empty /\ saved.id \notin Ids /\ row.id \in Ids
      BY <2>1, SaidTyped DEF TypeOK, Empty, Ids
    <3>2. QED
      BY <2>2, <3>1 DEF Reworded
  <2>7. QED
    BY <1>6, <2>1, <2>3, <2>5, <2>6 DEF HostTakesEdit, TypeOK
<1>7. ASSUME NEW c \in Client, HostTakesDelete(c)
      PROVE  TypeOK'
  <2> DEFINE f == Head(toHost[c])
  <2>1. toHost' \in [Client -> Seq(Frame)] /\ f \in Frame /\ f.row \in Message
    BY <1>7, TakesTyped, FramesCarry DEF HostTakesDelete
  <2>2. AppliesDelete(Host, f) /\ Broadcast(<<f>>)
    BY <1>7 DEF HostTakesDelete
  <2> HIDE DEF f
  <2>3. /\ rows' \in [Peer -> Seq(Message \cup {Empty})] /\ rows'[Host] \in Seq(Message)
        /\ suppress' \in [Peer -> SUBSET Ids]
    BY <1>0, <2>1, <2>2, DeleteTyped
  <2>4. toClient' \in [Client -> Seq(Frame)]
    <3>1. <<f>> \in Seq(Frame)
      BY <2>1
    <3>2. QED
      BY <2>2, <3>1, QueuesTyped
  <2>5. QED
    BY <1>7, <2>1, <2>3, <2>4 DEF HostTakesDelete, TypeOK
<1>8. ASSUME NEW c \in Client, HostTakesJoin(c)
      PROVE  TypeOK'
  <2>1. toHost' \in [Client -> Seq(Frame)]
    BY <1>8, TakesTyped DEF HostTakesJoin
  <2>2. Append(toClient[c], Transcript(rows[Host])) \in Seq(Frame)
    BY FramesTyped DEF TypeOK
  <2>3. toClient' \in [Client -> Seq(Frame)]
    BY <1>8, <2>2 DEF HostTakesJoin, TypeOK
  <2>4. QED
    BY <1>8, <2>1, <2>3 DEF HostTakesJoin, TypeOK
<1>9. ASSUME NEW c \in Client, HostTakesRepublish(c)
      PROVE  TypeOK'
  <2> DEFINE fs == <<Signal(IF hostIn THEN "enter" ELSE "exit"), Transcript(rows[Host])>>
  <2>1. toHost' \in [Client -> Seq(Frame)]
    BY <1>9, TakesTyped DEF HostTakesRepublish
  <2>2. Signal(IF hostIn THEN "enter" ELSE "exit") \in Frame /\ Transcript(rows[Host]) \in Frame
    BY FramesTyped DEF TypeOK, Signals
  <2>3. toClient[c] \o fs \in Seq(Frame)
    BY <2>2 DEF TypeOK
  <2>4. toClient' = [toClient EXCEPT ![c] = IF c \in online THEN @ \o fs ELSE @]
    BY <1>9 DEF HostTakesRepublish
  <2> HIDE DEF fs
  <2>5. toClient' \in [Client -> Seq(Frame)]
    BY <2>3, <2>4 DEF TypeOK
  <2>6. QED
    BY <1>9, <2>1, <2>5 DEF HostTakesRepublish, TypeOK
<1>10. QED
  BY <1>1, <1>2, <1>3, <1>4, <1>5, <1>6, <1>7, <1>8, <1>9 DEF HostRoutes

\* Every step of a client's routing chain, and a return to the room, keeps the types.
LEMMA ClientRoutesTyped ==
  ASSUME TypeOK, NEW c \in Client, ClientRoutes(c) \/ Returns(c)
  PROVE  TypeOK'
<1> USE DEF peerVars, netVars, clientVars, hostVars, runVars
<1>0. /\ c \in Peer /\ Host \in Peer /\ c # Host
      /\ \A op \in Signals : Append(toHost[c], Signal(op)) \in Seq(Frame)
  BY FramesTyped DEF Peer, TypeOK
<1>1. CASE ClientIgnores(c)
  BY <1>1, GetsTyped DEF ClientIgnores, TypeOK
<1>2. ASSUME NEW r \in Seq(Message \cup {Empty})
      PROVE  Cleared(c, r) \in Seq(Message \cup {Empty})
  BY RemoveTyped DEF Cleared
<1>3. ASSUME NEW r \in Seq(Message \cup {Empty}), rows' = [rows EXCEPT ![c] = r]
      PROVE  rows' \in [Peer -> Seq(Message \cup {Empty})] /\ rows'[Host] \in Seq(Message)
  BY <1>0, <1>3 DEF TypeOK
<1>4. CASE ClientGetsAppend(c)
  <2>1. toClient' \in [Client -> Seq(Frame)] /\ Got(c) \in Said
    BY <1>4, GetsTyped, FramesCarry DEF ClientGetsAppend, Got
  <2>2. Got(c).id \in Ids /\ Got(c) \in Message
    BY <2>1, SaidTyped
  <2>3. CASE UNCHANGED <<rows, applied, placeholder>>
    BY <1>4, <2>1, <2>3 DEF ClientGetsAppend, TypeOK
  <2>4. CASE /\ applied' = [applied EXCEPT ![c] = @ \cup {Got(c).id}]
             /\ rows' = [rows EXCEPT ![c] = Cleared(c, Append(@, Got(c)))]
             /\ placeholder' = [placeholder EXCEPT ![c] = 0]
    <3>1. Append(rows[c], Got(c)) \in Seq(Message \cup {Empty})
      BY <1>0, <2>2 DEF TypeOK
    <3>2. rows' \in [Peer -> Seq(Message \cup {Empty})] /\ rows'[Host] \in Seq(Message)
      BY <1>0, <1>2, <1>3, <2>4, <3>1
    <3>3. applied' \in [Peer -> SUBSET Ids]
      BY <1>0, <2>2, <2>4 DEF TypeOK
    <3>4. placeholder' \in [Client -> Nat]
      BY <2>4 DEF TypeOK
    <3>5. QED
      BY <1>4, <2>1, <3>2, <3>3, <3>4 DEF ClientGetsAppend, TypeOK
  <2>5. QED
    BY <1>4, <2>3, <2>4 DEF ClientGetsAppend
<1>5. CASE ClientGetsEdit(c)
  <2>1. toClient' \in [Client -> Seq(Frame)] /\ Got(c) \in Said
    BY <1>5, GetsTyped, FramesCarry DEF ClientGetsEdit, Got
  <2>2. /\ rows' \in [Peer -> Seq(Message \cup {Empty})] /\ rows'[Host] \in Seq(Message)
        /\ suppress' \in [Peer -> SUBSET Ids] /\ Echo(c, Got(c)) = <<>>
    BY <1>0, <1>5, <2>1, EditTyped DEF ClientGetsEdit
  <2>3. toHost' \in [Client -> Seq(Frame)]
    BY <1>5, <2>2 DEF ClientGetsEdit, TypeOK
  <2>4. QED
    BY <1>5, <2>1, <2>2, <2>3 DEF ClientGetsEdit, TypeOK
<1>6. CASE ClientGetsDelete(c)
  <2>1. /\ toClient' \in [Client -> Seq(Frame)]
        /\ Head(toClient[c]) \in Frame /\ Head(toClient[c]).row \in Message
    BY <1>6, GetsTyped, FramesCarry DEF ClientGetsDelete
  <2>2. /\ rows' \in [Peer -> Seq(Message \cup {Empty})] /\ rows'[Host] \in Seq(Message)
        /\ suppress' \in [Peer -> SUBSET Ids]
    BY <1>0, <1>6, <2>1, DeleteTyped DEF ClientGetsDelete
  <2>3. QED
    BY <1>6, <2>1, <2>2 DEF ClientGetsDelete, TypeOK
<1>7. CASE ClientGetsState(c)
  <2> DEFINE log == Head(toClient[c]).log
  <2>1. toClient' \in [Client -> Seq(Frame)] /\ log \in Seq(Message)
    BY <1>7, GetsTyped, FramesCarry DEF ClientGetsState
  <2>2. /\ rows' = [rows EXCEPT ![c] = log]
        /\ applied' = [applied EXCEPT ![c] = @ \cup ({log[k].id : k \in DOMAIN log} \ {None})]
    BY <1>7 DEF ClientGetsState
  <2> HIDE DEF log
  <2>3. log \in Seq(Message \cup {Empty})
    BY <2>1
  <2>4. rows' \in [Peer -> Seq(Message \cup {Empty})] /\ rows'[Host] \in Seq(Message)
    BY <1>3, <2>2, <2>3
  <2>5. \A k \in DOMAIN log : log[k].id \in Ids \cup {None}
    BY <2>1, SaidTyped
  <2>6. applied' \in [Peer -> SUBSET Ids]
    BY <1>0, <2>2, <2>5 DEF TypeOK
  <2>7. QED
    BY <1>7, <2>1, <2>4, <2>6 DEF ClientGetsState, TypeOK
<1>8. CASE ClientEnters(c)
  <2>1. toClient' \in [Client -> Seq(Frame)]
    BY <1>8, GetsTyped DEF ClientEnters
  <2>2. toHost' \in [Client -> Seq(Frame)]
    BY <1>0, <1>8 DEF ClientEnters, Send, TypeOK, Signals
  <2>3. /\ applied' \in [Peer -> SUBSET Ids] /\ suppress' \in [Peer -> SUBSET Ids]
        /\ active' \subseteq Client /\ streaming' \subseteq Client
    BY <1>8 DEF ClientEnters, TypeOK
  <2>4. QED
    BY <1>8, <2>1, <2>2, <2>3 DEF ClientEnters, TypeOK
<1>9. CASE ClientExits(c)
  <2>1. toClient' \in [Client -> Seq(Frame)]
    BY <1>9, GetsTyped DEF ClientExits
  <2>2. /\ applied' \in [Peer -> SUBSET Ids] /\ suppress' \in [Peer -> SUBSET Ids]
        /\ active' \subseteq Client /\ streaming' \subseteq Client
    BY <1>9 DEF ClientExits, TypeOK
  <2>3. QED
    BY <1>9, <2>1, <2>2 DEF ClientExits, TypeOK
<1>10. CASE StreamBegins(c)
  BY <1>10, GetsTyped DEF StreamBegins, TypeOK
<1>11. CASE ClientGetsToken(c)
  <2>1. toClient' \in [Client -> Seq(Frame)]
    BY <1>11, GetsTyped DEF ClientGetsToken
  <2>2. CASE UNCHANGED <<rows, placeholder>>
    BY <1>11, <2>1, <2>2 DEF ClientGetsToken, TypeOK
  <2>3. CASE /\ rows' = [rows EXCEPT ![c] = Append(@, Empty)]
             /\ placeholder' = [placeholder EXCEPT ![c] = Len(rows[c]) + 1]
    <3>1. Append(rows[c], Empty) \in Seq(Message \cup {Empty}) /\ Len(rows[c]) \in Nat
      BY <1>0 DEF TypeOK
    <3>2. rows' \in [Peer -> Seq(Message \cup {Empty})] /\ rows'[Host] \in Seq(Message)
      BY <1>3, <2>3, <3>1
    <3>3. placeholder' \in [Client -> Nat]
      BY <2>3, <3>1 DEF TypeOK
    <3>4. QED
      BY <1>11, <2>1, <3>2, <3>3 DEF ClientGetsToken, TypeOK
  <2>4. QED
    BY <1>11, <2>2, <2>3 DEF ClientGetsToken
<1>12. CASE StreamEnds(c)
  <2>1. toClient' \in [Client -> Seq(Frame)]
    BY <1>12, GetsTyped DEF StreamEnds
  <2>2. rows[c] \in Seq(Message \cup {Empty})
    BY <1>0 DEF TypeOK
  <2>3. (IF c \in open THEN Cleared(c, rows[c]) ELSE rows[c]) \in Seq(Message \cup {Empty})
    BY <1>2, <2>2
  <2>4. rows' \in [Peer -> Seq(Message \cup {Empty})] /\ rows'[Host] \in Seq(Message)
    BY <1>3, <1>12, <2>3 DEF StreamEnds
  <2>5. placeholder' \in [Client -> Nat] /\ streaming' \subseteq Client
    BY <1>12 DEF StreamEnds, TypeOK
  <2>6. QED
    BY <1>12, <2>1, <2>4, <2>5 DEF StreamEnds, TypeOK
<1>13. CASE Returns(c)
  <2>1. toHost' \in [Client -> Seq(Frame)] /\ online' \subseteq Client
    BY <1>0, <1>13 DEF Returns, Send, TypeOK, Signals
  <2>2. QED
    BY <1>13, <2>1 DEF Returns, TypeOK
<1>14. QED
  BY <1>1, <1>4, <1>5, <1>6, <1>7, <1>8, <1>9, <1>10, <1>11, <1>12, <1>13 DEF ClientRoutes

\* The type invariant: chats are sequences of messages with at most placeholders
\* among them, and the host's has none; every frame carries what its opcode calls
\* for; and there is a message to send exactly while a turn is being saved.
THEOREM TypeCorrect == Spec => []TypeOK
<1>1. TypeOK /\ [Next]_vars => TypeOK'
  <2> SUFFICES ASSUME TypeOK, [Next]_vars PROVE TypeOK'
    OBVIOUS
  <2>1. CASE UNCHANGED vars
    BY <2>1 DEF TypeOK, vars, peerVars, netVars, clientVars, hostVars, runVars
  <2>2. CASE \E p \in Peer, id \in Ids : Forgets(p, id)
    <3>1. PICK p \in Peer, id \in Ids : Forgets(p, id)
      BY <2>2
    <3>2. suppress' \in [Peer -> SUBSET Ids]
      BY <3>1 DEF Forgets, TypeOK
    <3>3. QED
      BY <3>1, <3>2 DEF Forgets, TypeOK, netVars, clientVars, hostVars, runVars
  <2>3. QED
    BY <2>1, <2>2, UsersTyped, GenerationTyped, HostRoutesTyped, ClientRoutesTyped DEF Next
<1>2. QED
  BY <1>1, InitTyped, PTL DEF Spec

-----------------------------------------------------------------------------
(* Turns are new *)

Turns(c) == {k \in DOMAIN toHost[c] : toHost[c][k].op = "turn"}

\* #onLocalMessage gives every message an id of its own: no turn on its way to the
\* host has been in its chat, and no two of them have the same id.
TurnsAreNew ==
  /\ posted \subseteq 1..last
  /\ \A c \in Client : \A k \in Turns(c) : toHost[c][k].row.id \in (1..last) \ posted
  /\ \A c, d \in Client : \A j \in Turns(c), k \in Turns(d) :
       toHost[c][j].row.id = toHost[d][k].row.id => c = d /\ j = k

\* Each turn of the next state was on its way before, in the same order.
KeepsTurns ==
  /\ UNCHANGED <<posted, last>>
  /\ \A d \in Client : \E n \in {0, 1} : \A k \in Turns(d)' :
       k + n \in Turns(d) /\ toHost'[d][k].row.id = toHost[d][k + n].row.id

LEMMA KeptTurnsAreNew ==
  ASSUME TypeOK, TypeOK', TurnsAreNew, KeepsTurns
  PROVE  TurnsAreNew'
<1> DEFINE Shift(d, n) == \A k \in Turns(d)' :
             k + n \in Turns(d) /\ toHost'[d][k].row.id = toHost[d][k + n].row.id
<1>1. posted' = posted /\ last' = last /\ \A d \in Client : \E n \in {0, 1} : Shift(d, n)
  BY DEF KeepsTurns
<1>2. ASSUME NEW c \in Client, NEW k \in Turns(c)'
      PROVE  toHost'[c][k].row.id \in (1..last) \ posted
  <2>1. PICK n \in {0, 1} : Shift(c, n)
    BY <1>1
  <2>2. QED
    BY <2>1, <1>2 DEF TurnsAreNew
<1>3. ASSUME NEW c \in Client, NEW d \in Client, NEW j \in Turns(c)', NEW k \in Turns(d)',
             toHost'[c][j].row.id = toHost'[d][k].row.id
      PROVE  c = d /\ j = k
  <2>1. PICK m \in {0, 1} : Shift(c, m)
    BY <1>1
  <2>2. PICK n \in {0, 1} : Shift(d, n)
    BY <1>1
  <2>3. /\ j + m \in Turns(c) /\ k + n \in Turns(d)
        /\ toHost[c][j + m].row.id = toHost[d][k + n].row.id
    BY <1>3, <2>1, <2>2
  <2>4. c = d /\ j + m = k + n
    BY <2>3 DEF TurnsAreNew
  <2>5. k + m \in Turns(d) /\ toHost'[d][k].row.id = toHost[d][k + m].row.id
    BY <2>1, <2>4, <1>3
  <2>6. k + m = k + n
    BY <2>2, <2>3, <2>5, <1>3 DEF TurnsAreNew
  <2>7. j \in Nat /\ k \in Nat
    <3>1. toHost'[c] \in Seq(Frame) /\ toHost'[d] \in Seq(Frame)
      BY DEF TypeOK
    <3>2. QED
      BY <3>1 DEF Turns
  <2>8. QED
    BY <2>4, <2>6, <2>7
<1>4. QED
  BY <1>1, <1>2, <1>3 DEF TurnsAreNew

\* The host taking a frame shifts one queue by one.
LEMMA TakesKeeps ==
  ASSUME TypeOK, NEW c \in Client, NEW op, Takes(c, op), UNCHANGED <<posted, last>>
  PROVE  KeepsTurns
<1>1. /\ toHost[c] \in Seq(Frame) /\ toHost[c] # <<>>
      /\ toHost' = [toHost EXCEPT ![c] = Tail(@)]
  BY DEF Takes, TypeOK
<1>2. ASSUME NEW k \in Turns(c)'
      PROVE  k + 1 \in Turns(c) /\ toHost'[c][k].row.id = toHost[c][k + 1].row.id
  <2>1. toHost'[c] = Tail(toHost[c])
    BY <1>1 DEF TypeOK
  <2>2. DOMAIN Tail(toHost[c]) = 1..(Len(toHost[c]) - 1)
    BY <1>1
  <2>3. k \in 1..(Len(toHost[c]) - 1) /\ Tail(toHost[c])[k].op = "turn"
    BY <1>2, <2>1, <2>2 DEF Turns
  <2>4. Tail(toHost[c])[k] = toHost[c][k + 1]
    BY <1>1, <2>3
  <2>5. k + 1 \in DOMAIN toHost[c]
    BY <1>1, <2>3
  <2>6. QED
    BY <2>1, <2>3, <2>4, <2>5 DEF Turns
<1>3. ASSUME NEW d \in Client, d # c, NEW k \in Turns(d)'
      PROVE  k + 0 \in Turns(d) /\ toHost'[d][k].row.id = toHost[d][k + 0].row.id
  <2>1. toHost'[d] = toHost[d] /\ toHost[d] \in Seq(Frame)
    BY <1>1, <1>3 DEF TypeOK
  <2>2. k \in Turns(d) /\ k \in Nat
    BY <1>3, <2>1 DEF Turns
  <2>3. QED
    BY <2>1, <2>2
<1>4. QED
  BY <1>2, <1>3 DEF KeepsTurns

\* Queues whose turns stand where they stood.
LEMMA InPlaceKeeps ==
  ASSUME TypeOK, UNCHANGED <<posted, last>>,
         \A d \in Client : \A k \in Turns(d)' :
           k \in Turns(d) /\ toHost'[d][k].row.id = toHost[d][k].row.id
  PROVE  KeepsTurns
<1>1. ASSUME NEW d \in Client, NEW k \in Turns(d)'
      PROVE  k + 0 \in Turns(d) /\ toHost'[d][k].row.id = toHost[d][k + 0].row.id
  <2>1. k \in Nat
    BY DEF Turns, TypeOK
  <2>2. QED
    BY <2>1
<1>2. QED
  BY <1>1 DEF KeepsTurns

LEMMA SameKeeps ==
  ASSUME TypeOK, UNCHANGED <<toHost, posted, last>>
  PROVE  KeepsTurns
BY InPlaceKeeps DEF Turns

\* What is sent behind the turns, when it is no turn.
LEMMA SendKeeps ==
  ASSUME TypeOK, UNCHANGED <<posted, last>>,
         NEW c \in Client, NEW f, f.op # "turn", Send(c, f)
  PROVE  KeepsTurns
<1>1. toHost[c] \in Seq(Frame) /\ toHost' = [toHost EXCEPT ![c] = Append(@, f)]
  BY DEF Send, TypeOK
<1>2. ASSUME NEW d \in Client, NEW k \in Turns(d)'
      PROVE  k \in Turns(d) /\ toHost'[d][k].row.id = toHost[d][k].row.id
  <2>1. CASE d # c
    BY <1>1, <1>2, <2>1 DEF Turns, TypeOK
  <2>2. CASE d = c
    <3>1. toHost'[c] = Append(toHost[c], f) /\ k \in 1..(Len(toHost[c]) + 1)
      BY <1>1, <1>2, <2>2 DEF Turns, TypeOK
    <3>2. k # Len(toHost[c]) + 1
      BY <1>1, <1>2, <2>2, <3>1 DEF Turns
    <3>3. k \in 1..Len(toHost[c]) /\ toHost'[c][k] = toHost[c][k]
      BY <1>1, <3>1, <3>2
    <3>4. QED
      BY <1>1, <1>2, <2>2, <3>3 DEF Turns
  <2>3. QED
    BY <2>1, <2>2
<1>3. QED
  BY <1>2, InPlaceKeeps

LEMMA PublishKeeps ==
  ASSUME TypeOK, UNCHANGED <<posted, last>>, NEW p \in Peer,
         NEW fs \in Seq(Frame), \A k \in DOMAIN fs : fs[k].op # "turn", Publish(p, fs)
  PROVE  KeepsTurns
<1>1. CASE p = Host
  BY <1>1, SameKeeps DEF Publish
<1>2. CASE p # Host
  <2>1. p \in Client /\ toHost[p] \in Seq(Frame) /\ toHost' = [toHost EXCEPT ![p] = @ \o fs]
    BY <1>2 DEF Publish, Peer, TypeOK
  <2>2. ASSUME NEW d \in Client, NEW k \in Turns(d)'
        PROVE  k \in Turns(d) /\ toHost'[d][k].row.id = toHost[d][k].row.id
    <3>1. CASE d # p
      BY <2>1, <2>2, <3>1 DEF Turns, TypeOK
    <3>2. CASE d = p
      <4>1. toHost'[p] = toHost[p] \o fs /\ k \in 1..(Len(toHost[p]) + Len(fs))
        BY <2>1, <2>2, <3>2 DEF Turns, TypeOK
      <4>2. k <= Len(toHost[p])
        BY <2>1, <2>2, <3>2, <4>1 DEF Turns
      <4>3. k \in 1..Len(toHost[p]) /\ toHost'[p][k] = toHost[p][k]
        BY <2>1, <4>1, <4>2
      <4>4. QED
        BY <2>1, <2>2, <3>2, <4>3 DEF Turns
    <3>3. QED
      BY <3>1, <3>2
  <2>3. QED
    BY <2>2, InPlaceKeeps
<1>3. QED
  BY <1>1, <1>2

\* A message in the host's own chat takes the next id, which no turn has.
LEMMA PostKeepsNew ==
  ASSUME TypeOK, TurnsAreNew, NEW t \in Texts, HostPosts(t), UNCHANGED toHost
  PROVE  TurnsAreNew'
<1>1. posted' = posted \cup {last + 1} /\ last' = last + 1 /\ last \in Nat
  BY DEF HostPosts, TypeOK
<1>2. QED
  BY <1>1 DEF TurnsAreNew, Turns

\* So does a client's turn.
LEMMA SaysKeepsNew ==
  ASSUME TypeOK, TurnsAreNew, NEW c \in Client, NEW t \in Texts, ClientSays(c, t)
  PROVE  TurnsAreNew'
<1> DEFINE n == Len(toHost[c]) + 1
<1> DEFINE f == Msg("turn", [id |-> last + 1, text |-> t])
<1>1. /\ toHost' = [toHost EXCEPT ![c] = Append(@, f)] /\ toHost[c] \in Seq(Frame)
      /\ last' = last + 1 /\ posted' = posted /\ last \in Nat
  BY DEF ClientSays, Send, TypeOK
<1>2. f.row.id = last + 1
  BY DEF Msg
<1> HIDE DEF f
<1>3. toHost'[c] = Append(toHost[c], f) /\ \A d \in Client : d # c => toHost'[d] = toHost[d]
  BY <1>1 DEF TypeOK
<1>4. ASSUME NEW d \in Client, NEW k \in Turns(d)'
      PROVE  \/ k \in Turns(d) /\ toHost'[d][k].row.id = toHost[d][k].row.id
             \/ d = c /\ k = n /\ toHost'[d][k].row.id = last + 1
  <2>1. CASE d # c
    BY <1>3, <1>4, <2>1 DEF Turns
  <2>2. CASE d = c
    <3>1. k \in 1..n
      BY <1>1, <1>3, <1>4, <2>2 DEF Turns
    <3>2. CASE k = n
      BY <1>1, <1>2, <1>3, <2>2, <3>2
    <3>3. CASE k # n
      <4>1. k \in 1..Len(toHost[c]) /\ toHost'[c][k] = toHost[c][k]
        BY <1>1, <1>3, <3>1, <3>3
      <4>2. QED
        BY <1>1, <1>4, <2>2, <4>1 DEF Turns
    <3>4. QED
      BY <3>2, <3>3
  <2>3. QED
    BY <2>1, <2>2
<1>5. \A d \in Client : \A k \in Turns(d) : toHost[d][k].row.id # last + 1
  BY <1>1 DEF TurnsAreNew
<1>6. last + 1 \notin posted
  BY <1>1 DEF TurnsAreNew
<1>7. ASSUME NEW d \in Client, NEW k \in Turns(d)'
      PROVE  toHost'[d][k].row.id \in (1..last') \ posted'
  <2>1. CASE k \in Turns(d) /\ toHost'[d][k].row.id = toHost[d][k].row.id
    <3>1. toHost[d][k].row.id \in (1..last) \ posted
      BY <2>1 DEF TurnsAreNew
    <3>2. toHost'[d][k].row.id \in 1..last /\ toHost'[d][k].row.id \notin posted
      BY <2>1, <3>1
    <3>3. last \in Nat /\ last' = last + 1 /\ posted' = posted
      BY <1>1
    <3>4. toHost'[d][k].row.id \in 1..last'
      BY <3>2, <3>3
    <3>5. QED
      BY <3>2, <3>3, <3>4
  <2>2. CASE toHost'[d][k].row.id = last + 1
    <3>1. last \in Nat /\ last' = last + 1 /\ posted' = posted
      BY <1>1
    <3>2. toHost'[d][k].row.id \in 1..last'
      BY <2>2, <3>1
    <3>3. QED
      BY <1>6, <2>2, <3>1, <3>2
  <2>3. QED
    BY <1>4, <2>1, <2>2
<1>8. ASSUME NEW d \in Client, NEW e \in Client, NEW j \in Turns(d)', NEW k \in Turns(e)',
             toHost'[d][j].row.id = toHost'[e][k].row.id
      PROVE  d = e /\ j = k
  BY <1>4, <1>5, <1>8 DEF TurnsAreNew
<1>9. posted' \subseteq 1..last'
  BY <1>1 DEF TurnsAreNew
<1>10. QED
  BY <1>7, <1>8, <1>9 DEF TurnsAreNew

\* The host takes a turn off one queue, and no other turn has its id.
LEMMA TurnKeepsNew ==
  ASSUME TypeOK, TypeOK', TurnsAreNew, NEW c \in Client, HostTakesTurn(c)
  PROVE  TurnsAreNew'
<1> DEFINE id == Head(toHost[c]).row.id
<1>1. /\ toHost[c] \in Seq(Frame) /\ toHost[c] # <<>> /\ Head(toHost[c]).op = "turn"
      /\ toHost' = [toHost EXCEPT ![c] = Tail(@)]
      /\ posted' = posted \cup {id} /\ last' = last
  BY DEF HostTakesTurn, Takes, TypeOK
<1>2. 1 \in Turns(c) /\ id = toHost[c][1].row.id
  BY <1>1 DEF Turns
<1>3. id \in 1..last
  BY <1>2 DEF TurnsAreNew
<1>4. ASSUME NEW d \in Client, NEW k \in Turns(d)'
      PROVE  LET m == IF d = c THEN k + 1 ELSE k
             IN  k \in Nat /\ m \in Turns(d) /\ toHost'[d][k] = toHost[d][m] /\ (d = c => m # 1)
  <2>1. CASE d = c
    <3>1. DOMAIN Tail(toHost[c]) = 1..(Len(toHost[c]) - 1) /\ toHost'[c] = Tail(toHost[c])
      BY <1>1 DEF TypeOK
    <3>2. k \in 1..(Len(toHost[c]) - 1) /\ Tail(toHost[c])[k].op = "turn"
      BY <1>4, <2>1, <3>1 DEF Turns
    <3>3. Tail(toHost[c])[k] = toHost[c][k + 1] /\ k + 1 \in DOMAIN toHost[c]
      BY <1>1, <3>2
    <3>4. QED
      BY <2>1, <3>1, <3>2, <3>3 DEF Turns
  <2>2. CASE d # c
    <3>1. toHost'[d] = toHost[d] /\ toHost[d] \in Seq(Frame)
      BY <1>1, <2>2 DEF TypeOK
    <3>2. QED
      BY <1>4, <2>2, <3>1 DEF Turns
  <2>3. QED
    BY <2>1, <2>2
<1> HIDE DEF id
<1>5. ASSUME NEW d \in Client, NEW k \in Turns(d)'
      PROVE  toHost'[d][k].row.id \in (1..last') \ posted'
  <2> DEFINE m == IF d = c THEN k + 1 ELSE k
  <2>1. m \in Turns(d) /\ toHost'[d][k] = toHost[d][m] /\ (d = c => m # 1)
    BY <1>4
  <2> HIDE DEF m
  <2>2. toHost[d][m].row.id \in (1..last) \ posted /\ toHost[d][m].row.id # id
    BY <1>2, <2>1 DEF TurnsAreNew
  <2>3. toHost'[d][k].row.id = toHost[d][m].row.id
    BY <2>1
  <2>4. toHost'[d][k].row.id \in 1..last' /\ toHost'[d][k].row.id \notin posted \cup {id}
    BY <1>1, <2>2, <2>3
  <2>5. QED
    BY <1>1, <2>4
<1>6. ASSUME NEW d \in Client, NEW e \in Client, NEW j \in Turns(d)', NEW k \in Turns(e)',
             toHost'[d][j].row.id = toHost'[e][k].row.id
      PROVE  d = e /\ j = k
  <2> DEFINE m == IF d = c THEN j + 1 ELSE j
  <2> DEFINE n == IF e = c THEN k + 1 ELSE k
  <2>1. /\ j \in Nat /\ k \in Nat /\ m \in Turns(d) /\ n \in Turns(e)
        /\ toHost[d][m].row.id = toHost[e][n].row.id
    BY <1>4, <1>6
  <2>2. d = e /\ m = n
    BY <2>1 DEF TurnsAreNew
  <2>3. QED
    BY <2>1, <2>2
<1>7. posted' \subseteq 1..last'
  BY <1>1, <1>3 DEF TurnsAreNew
<1>8. QED
  BY <1>5, <1>6, <1>7 DEF TurnsAreNew

\* A client's connection is lost, and with it the end of its queue.
LEMMA DropsKeeps ==
  ASSUME TypeOK, NEW c \in Client, Drops(c)
  PROVE  KeepsTurns
<1>1. PICK n \in 0..Len(toHost[c]) :
        toHost' = [toHost EXCEPT ![c] = [k \in 1..n |-> Orphan(toHost[c][k])]]
  BY DEF Drops
<1>2. posted' = posted /\ last' = last /\ toHost[c] \in Seq(Frame)
  BY DEF Drops, TypeOK
<1>3. \A f : Orphan(f).op = "turn" => Orphan(f) = f
  BY DEF Orphan, Signal, Msg
<1>4. ASSUME NEW d \in Client, NEW k \in Turns(d)'
      PROVE  k \in Turns(d) /\ toHost'[d][k].row.id = toHost[d][k].row.id
  <2>1. CASE d # c
    BY <1>1, <1>4, <2>1 DEF Turns, TypeOK
  <2>2. CASE d = c
    <3>1. toHost'[c] = [j \in 1..n |-> Orphan(toHost[c][j])]
      BY <1>1 DEF TypeOK
    <3>2. k \in 1..n /\ Orphan(toHost[c][k]).op = "turn"
      BY <1>4, <2>2, <3>1 DEF Turns
    <3>3. toHost'[c][k] = toHost[c][k] /\ k \in 1..Len(toHost[c])
      BY <1>2, <1>3, <3>1, <3>2
    <3>4. QED
      BY <1>2, <1>4, <2>2, <3>3 DEF Turns
  <2>3. QED
    BY <2>1, <2>2
<1>5. QED
  BY <1>2, <1>4, InPlaceKeeps

\* An edit or a delete that is published carries no turn.
LEMMA ChangesKeep ==
  ASSUME TypeOK, NEW p \in Peer, NEW k \in DOMAIN rows[p],
         DeletesRow(p, k) \/ \E t \in Texts : EditsRow(p, k, t)
  PROVE  KeepsTurns
<1>0. rows[p][k] \in Message /\ k \in Nat
  <2>1. rows[p][k] \in Message \cup {Empty} /\ k \in Nat
    BY DEF TypeOK
  <2>2. rows[p][k].id # Stream
    BY DEF DeletesRow, EditsRow, CanChange
  <2>3. QED
    BY <2>1, <2>2 DEF Empty
<1>1. CASE DeletesRow(p, k)
  <2> DEFINE fs == LocalDelete(rows[p][k], k, suppress[p])
  <2>1. fs \in Seq(Frame)
    BY <1>0, FramesTyped DEF LocalDelete, TypeOK
  <2>2. \A i \in DOMAIN fs : fs[i].op # "turn"
    BY DEF LocalDelete, Msg
  <2>3. Publish(p, fs) /\ UNCHANGED <<posted, last>>
    BY <1>1 DEF DeletesRow
  <2> HIDE DEF fs
  <2>4. QED
    BY <2>1, <2>2, <2>3, PublishKeeps
<1>2. CASE \E t \in Texts : EditsRow(p, k, t)
  <2>1. PICK t \in Texts : EditsRow(p, k, t)
    BY <1>2
  <2> DEFINE row == [rows[p][k] EXCEPT !.text = t]
  <2> DEFINE fs == LocalEdit(row, suppress[p])
  <2>2. row \in Message
    BY <1>0 DEF Message
  <2>3. Publish(p, fs) /\ UNCHANGED <<posted, last>>
    BY <2>1 DEF EditsRow
  <2> HIDE DEF row
  <2>4. fs \in Seq(Frame)
    BY <2>2, SaidTyped, FramesTyped DEF LocalEdit
  <2>5. \A i \in DOMAIN fs : fs[i].op # "turn"
    BY DEF LocalEdit, Msg
  <2> HIDE DEF fs
  <2>6. QED
    BY <2>3, <2>4, <2>5, PublishKeeps
<1>3. QED
  BY <1>1, <1>2

\* Nothing else a client's routing chain does sends a turn.
LEMMA ClientRoutesKeep ==
  ASSUME TypeOK, NEW c \in Client, ClientRoutes(c) \/ Returns(c)
  PROVE  KeepsTurns
<1> USE DEF hostVars, runVars
<1>0. \A op : Signal(op).op = op
  BY DEF Signal, Msg
<1>1. CASE \/ ClientIgnores(c) \/ ClientGetsAppend(c) \/ ClientGetsDelete(c) \/ ClientGetsState(c)
           \/ ClientExits(c) \/ StreamBegins(c) \/ ClientGetsToken(c) \/ StreamEnds(c)
  BY <1>1, SameKeeps DEF ClientIgnores, ClientGetsAppend, ClientGetsDelete, ClientGetsState,
     ClientExits, StreamBegins, ClientGetsToken, StreamEnds
<1>2. CASE ClientGetsEdit(c)
  <2>1. Got(c) \in Said /\ c \in Peer
    BY <1>2, GetsTyped, FramesCarry DEF ClientGetsEdit, Got, Peer
  <2>2. Echo(c, Got(c)) = <<>>
    BY <1>2, <2>1, EditTyped DEF ClientGetsEdit
  <2>3. toHost' = toHost
    BY <1>2, <2>2 DEF ClientGetsEdit, TypeOK
  <2>4. QED
    BY <1>2, <2>3, SameKeeps DEF ClientGetsEdit
<1>3. CASE ClientEnters(c)
  <2>1. UNCHANGED <<posted, last>>
    BY <1>3 DEF ClientEnters
  <2>2. CASE c \in open
    BY <1>0, <1>3, <2>1, <2>2, SendKeeps DEF ClientEnters
  <2>3. CASE c \notin open
    BY <1>3, <2>1, <2>3, SameKeeps DEF ClientEnters
  <2>4. QED
    BY <2>2, <2>3
<1>4. CASE Returns(c)
  BY <1>0, <1>4, SendKeeps DEF Returns
<1>5. QED
  BY <1>1, <1>2, <1>3, <1>4 DEF ClientRoutes

\* Every step leaves the turns on their way new.
LEMMA StepKeepsNew ==
  ASSUME TypeOK, TypeOK', TurnsAreNew, [Next]_vars
  PROVE  TurnsAreNew'
<1> USE DEF hostVars, runVars
<1>0. \A op : Signal(op).op = op
  BY DEF Signal, Msg
<1>1. CASE UNCHANGED vars
  BY <1>1, SameKeeps, KeptTurnsAreNew DEF vars, netVars
<1>2. CASE Users
  <2>1. CASE \E t \in Texts : HostSays(t)
    BY <2>1, PostKeepsNew DEF HostSays
  <2>2. CASE \E t \in Texts, c \in Client : ClientSays(c, t)
    BY <2>2, SaysKeepsNew
  <2>3. CASE \E p \in Peer : \E k \in DOMAIN rows[p] :
               DeletesRow(p, k) \/ \E t \in Texts : EditsRow(p, k, t)
    BY <2>3, ChangesKeep, KeptTurnsAreNew
  <2>4. CASE \E c \in Client : ClientMoves(c)
    <3>1. PICK c \in Client : ClientMoves(c)
      BY <2>4
    <3>2. UNCHANGED <<posted, last>>
      BY <3>1 DEF ClientMoves
    <3>3. KeepsTurns
      BY <1>0, <3>1, <3>2, SendKeeps, SameKeeps DEF ClientMoves
    <3>4. QED
      BY <3>3, KeptTurnsAreNew
  <2>5. CASE \E c \in Client : Drops(c)
    BY <2>5, DropsKeeps, KeptTurnsAreNew
  <2>6. CASE \E c \in Client : ClientAsks(c)
    BY <1>0, <2>6, SendKeeps, KeptTurnsAreNew DEF ClientAsks
  <2>7. CASE HostMoves \/ GenStarts
    BY <2>7, SameKeeps, KeptTurnsAreNew DEF HostMoves, GenStarts
  <2>8. QED
    BY <1>2, <2>1, <2>2, <2>3, <2>4, <2>5, <2>6, <2>7 DEF Users
<1>3. CASE Generation
  <2>1. CASE GenStreams \/ TokenTimer \/ GenEnds
    BY <2>1, SameKeeps, KeptTurnsAreNew DEF GenStreams, TokenTimer, GenEnds, netVars
  <2>2. CASE \E t \in Texts : GenLands(t)
    BY <2>2, PostKeepsNew DEF GenLands
  <2>3. QED
    BY <1>3, <2>1, <2>2 DEF Generation
<1>4. CASE HostRoutes
  <2>1. CASE SaveDone \/ ReplyDone
    BY <2>1, SameKeeps, KeptTurnsAreNew DEF SaveDone, ReplyDone, netVars
  <2>2. ASSUME NEW c \in Client, HostTakesTurn(c)
        PROVE  TurnsAreNew'
    BY <2>2, TurnKeepsNew
  <2>3. ASSUME NEW c \in Client,
               \/ HostAway(c) \/ HostTakesRequest(c) \/ HostTakesEdit(c)
               \/ HostTakesDelete(c) \/ HostTakesJoin(c) \/ HostTakesRepublish(c)
        PROVE  TurnsAreNew'
    <3>1. UNCHANGED <<posted, last>> /\ \E op : Takes(c, op)
      BY <2>3 DEF HostAway, HostTakesRequest, HostTakesEdit, HostTakesDelete, HostTakesJoin,
         HostTakesRepublish
    <3>2. QED
      BY <3>1, TakesKeeps, KeptTurnsAreNew
  <2>4. QED
    BY <1>4, <2>1, <2>2, <2>3 DEF HostRoutes
<1>5. CASE \E c \in Client : Returns(c) \/ ClientRoutes(c)
  BY <1>5, ClientRoutesKeep, KeptTurnsAreNew
<1>6. CASE \E p \in Peer, id \in Ids : Forgets(p, id)
  BY <1>6, SameKeeps, KeptTurnsAreNew DEF Forgets, netVars
<1>7. QED
  BY <1>1, <1>2, <1>3, <1>4, <1>5, <1>6 DEF Next

\* No turn on its way to the host has been in its chat, and no two have the same id:
\* acceptRemoteTurn, which does not look, cannot add a turn twice.
THEOREM NewTurns == Spec => []TurnsAreNew
<1>1. Init => TurnsAreNew
  BY DEF Init, TurnsAreNew, Turns
<1>2. TypeOK /\ TypeOK' /\ TurnsAreNew /\ [Next]_vars => TurnsAreNew'
  BY StepKeepsNew
<1>3. QED
  BY <1>1, <1>2, TypeCorrect, PTL DEF Spec

-----------------------------------------------------------------------------
(* The host's chat is a Transcript *)

\* A row at the end, with an id that was never in the chat, is a message added.
LEMMA AddRefines ==
  ASSUME NEW row \in Said, row.id \notin posted,
         rows'[Host] = Append(rows[Host], row), posted' = posted \cup {row.id}
  PROVE  HostChat!Next
<1>1. row \in HostChat!Message /\ row.id \in Ids \ posted
  BY SaidTyped DEF HostChat!Message, Message
<1>2. HostChat!Add(row)
  BY <1>1 DEF HostChat!Add
<1>3. QED
  BY <1>1, <1>2 DEF HostChat!Next

\* A row replaced by one with its id is a message reworded.
LEMMA RewordRefines ==
  ASSUME TypeOK, NEW k \in DOMAIN rows[Host], NEW row \in Message, row.id = rows[Host][k].id,
         rows'[Host] = [rows[Host] EXCEPT ![k] = row], posted' = posted
  PROVE  HostChat!Next
<1>1. rows[Host] \in Seq(Message) /\ rows[Host][k] \in Message
  BY DEF TypeOK
<1>2. row = [rows[Host][k] EXCEPT !.text = row.text] /\ row.text \in Texts
  BY <1>1 DEF Message
<1>3. rows'[Host] = [rows[Host] EXCEPT ![k].text = row.text]
  BY <1>2
<1>4. HostChat!Reword(k, row.text)
  BY <1>3 DEF HostChat!Reword
<1>5. QED
  BY <1>2, <1>4 DEF HostChat!Next

\* A row taken out is a message removed.
LEMMA RemoveRefines ==
  ASSUME NEW k \in DOMAIN rows[Host],
         rows'[Host] = RemoveAtIndex(rows[Host], k), posted' = posted
  PROVE  HostChat!Next
<1>1. HostChat!Remove(k)
  BY DEF HostChat!Remove, RemoveAtIndex
<1>2. QED
  BY <1>1 DEF HostChat!Next

\* A message in the host's own chat has the next id.
LEMMA PostRefines ==
  ASSUME TypeOK, TurnsAreNew, NEW t \in Texts, HostPosts(t)
  PROVE  HostChat!Next
<1> DEFINE row == [id |-> last + 1, text |-> t]
<1>1. last + 1 \in Ids /\ last + 1 \notin posted
  BY DEF HostPosts, TypeOK, Ids, TurnsAreNew
<1>2. row \in Said /\ row.id \notin posted
  BY <1>1 DEF Said
<1>3. /\ rows' = [rows EXCEPT ![Host] = Append(@, row)]
      /\ posted' = posted \cup {row.id}
  BY DEF HostPosts
<1> HIDE DEF row
<1>4. rows'[Host] = Append(rows[Host], row)
  BY <1>3 DEF TypeOK, Peer
<1>5. QED
  BY <1>2, <1>3, <1>4, AddRefines

\* What a client does to its own chat is no step of the host's.
LEMMA ElsewhereRefines ==
  ASSUME TypeOK, NEW c \in Client, NEW r, rows' = [rows EXCEPT ![c] = r] \/ rows' = rows,
         posted' = posted
  PROVE  UNCHANGED HostChat!vars
<1>1. c # Host /\ Host \in DOMAIN rows
  BY DEF TypeOK, Peer
<1>2. rows'[Host] = rows[Host]
  BY <1>1
<1>3. QED
  BY <1>2 DEF HostChat!vars

\* Every step of a user adds, rewords or removes a message of the host's chat, or
\* leaves it alone.
LEMMA UsersRefine ==
  ASSUME TypeOK, TurnsAreNew, Users
  PROVE  [HostChat!Next]_HostChat!vars
<1> USE DEF peerVars, runVars
<1>1. CASE \E t \in Texts : HostSays(t)
  BY <1>1, PostRefines DEF HostSays
<1>2. CASE \E t \in Texts, c \in Client : ClientSays(c, t)
  <2>1. PICK t \in Texts, c \in Client : ClientSays(c, t)
    BY <1>2
  <2>2. QED
    BY <2>1, ElsewhereRefines DEF ClientSays
<1>3. CASE \E p \in Peer : \E k \in DOMAIN rows[p] : DeletesRow(p, k)
  <2>1. PICK p \in Peer : \E k \in DOMAIN rows[p] : DeletesRow(p, k)
    BY <1>3
  <2>2. PICK k \in DOMAIN rows[p] : DeletesRow(p, k)
    BY <2>1
  <2>3. rows' = [rows EXCEPT ![p] = RemoveAtIndex(@, k)] /\ posted' = posted
    BY <2>2 DEF DeletesRow
  <2>4. CASE p = Host
    BY <2>3, <2>4, RemoveRefines DEF TypeOK
  <2>5. CASE p # Host
    BY <2>3, <2>5, ElsewhereRefines DEF Peer
  <2>6. QED
    BY <2>4, <2>5
<1>4. CASE \E p \in Peer : \E k \in DOMAIN rows[p] : \E t \in Texts : EditsRow(p, k, t)
  <2>1. PICK p \in Peer : \E k \in DOMAIN rows[p] : \E t \in Texts : EditsRow(p, k, t)
    BY <1>4
  <2>2. PICK k \in DOMAIN rows[p], t \in Texts : EditsRow(p, k, t)
    BY <2>1
  <2> DEFINE row == [rows[p][k] EXCEPT !.text = t]
  <2>3. rows' = [rows EXCEPT ![p][k] = row] /\ posted' = posted
    BY <2>2 DEF EditsRow
  <2>4. CASE p = Host
    <3>1. rows[Host][k] \in Message
      BY <2>4 DEF TypeOK
    <3>2. row \in Message /\ row.id = rows[Host][k].id
      BY <2>4, <3>1 DEF Message
    <3> HIDE DEF row
    <3>3. rows'[Host] = [rows[Host] EXCEPT ![k] = row]
      BY <2>3, <2>4 DEF TypeOK
    <3>4. QED
      BY <2>3, <2>4, <3>2, <3>3, RewordRefines
  <2>5. CASE p # Host
    BY <2>3, <2>5, ElsewhereRefines DEF Peer
  <2>6. QED
    BY <2>4, <2>5
<1>5. CASE \E c \in Client : ClientMoves(c) \/ Drops(c) \/ ClientAsks(c)
  BY <1>5 DEF ClientMoves, Drops, ClientAsks, HostChat!vars
<1>6. CASE HostMoves \/ GenStarts
  BY <1>6 DEF HostMoves, GenStarts, HostChat!vars
<1>7. QED
  BY <1>1, <1>2, <1>3, <1>4, <1>5, <1>6 DEF Users

\* So does every step of the host's routing chain.
LEMMA HostRoutesRefine ==
  ASSUME TypeOK, TurnsAreNew, HostRoutes
  PROVE  [HostChat!Next]_HostChat!vars
<1> USE DEF peerVars, runVars
<1>0. Host \in Peer
  BY DEF Peer
<1>1. CASE SaveDone \/ ReplyDone
  BY <1>1 DEF SaveDone, ReplyDone, HostChat!vars
<1>2. ASSUME NEW c \in Client, HostTakesTurn(c)
      PROVE  HostChat!Next
  <2> DEFINE row == Head(toHost[c]).row
  <2>1. toHost[c] \in Seq(Frame) /\ toHost[c] # <<>> /\ Head(toHost[c]).op = "turn"
    BY <1>2 DEF HostTakesTurn, Takes, TypeOK
  <2>2. row \in Said
    BY <1>2, TakesTyped, FramesCarry DEF HostTakesTurn
  <2>3. 1 \in Turns(c) /\ row = toHost[c][1].row
    BY <2>1 DEF Turns
  <2>4. row.id \notin posted
    BY <2>3 DEF TurnsAreNew
  <2>5. rows' = [rows EXCEPT ![Host] = Append(@, row)] /\ posted' = posted \cup {row.id}
    BY <1>2 DEF HostTakesTurn
  <2> HIDE DEF row
  <2>6. rows'[Host] = Append(rows[Host], row)
    BY <1>0, <2>5 DEF TypeOK
  <2>7. QED
    BY <2>2, <2>4, <2>5, <2>6, AddRefines
<1>3. ASSUME NEW c \in Client, HostTakesEdit(c)
      PROVE  [HostChat!Next]_HostChat!vars
  <2> DEFINE row == Head(toHost[c]).row
  <2>1. row \in Said
    BY <1>3, TakesTyped, FramesCarry DEF HostTakesEdit
  <2>2. row \in Message
    BY <2>1, SaidTyped
  <2>3. AppliesEdit(Host, row) /\ posted' = posted
    BY <1>3 DEF HostTakesEdit
  <2> HIDE DEF row
  <2>4. CASE rows' = rows
    BY <2>3, <2>4 DEF HostChat!vars
  <2>5. CASE \E k \in Found(Host, row.id) : rows' = [rows EXCEPT ![Host][k] = row]
    <3>1. PICK k \in Found(Host, row.id) : rows' = [rows EXCEPT ![Host][k] = row]
      BY <2>5
    <3>2. k \in DOMAIN rows[Host] /\ row.id = rows[Host][k].id
      BY DEF Found
    <3>3. rows'[Host] = [rows[Host] EXCEPT ![k] = row]
      BY <1>0, <3>1 DEF TypeOK
    <3>4. QED
      BY <2>2, <2>3, <3>2, <3>3, RewordRefines
  <2>6. QED
    BY <2>3, <2>4, <2>5 DEF AppliesEdit
<1>4. ASSUME NEW c \in Client, HostTakesDelete(c)
      PROVE  [HostChat!Next]_HostChat!vars
  <2> DEFINE f == Head(toHost[c])
  <2>1. AppliesDelete(Host, f) /\ posted' = posted
    BY <1>4 DEF HostTakesDelete
  <2> HIDE DEF f
  <2>2. CASE rows' = rows
    BY <2>1, <2>2 DEF HostChat!vars
  <2>3. CASE \E k \in Target(Host, f) : rows' = [rows EXCEPT ![Host] = RemoveAtIndex(@, k)]
    <3>1. PICK k \in Target(Host, f) : rows' = [rows EXCEPT ![Host] = RemoveAtIndex(@, k)]
      BY <2>3
    <3>2. k \in DOMAIN rows[Host]
      BY DEF Target, Found
    <3>3. rows'[Host] = RemoveAtIndex(rows[Host], k)
      BY <1>0, <3>1 DEF TypeOK
    <3>4. QED
      BY <2>1, <3>2, <3>3, RemoveRefines
  <2>4. QED
    BY <2>1, <2>2, <2>3 DEF AppliesDelete
<1>5. CASE \E c \in Client : HostAway(c) \/ HostTakesRequest(c) \/ HostTakesJoin(c) \/ HostTakesRepublish(c)
  BY <1>5 DEF HostAway, HostTakesRequest, HostTakesJoin, HostTakesRepublish, HostChat!vars
<1>6. QED
  BY <1>1, <1>2, <1>3, <1>4, <1>5 DEF HostRoutes

\* And no step of a client's touches it.
LEMMA ClientRoutesRefine ==
  ASSUME TypeOK, NEW c \in Client, ClientRoutes(c) \/ Returns(c)
  PROVE  UNCHANGED HostChat!vars
<1> USE DEF peerVars, runVars
<1>1. CASE ClientIgnores(c) \/ ClientEnters(c) \/ ClientExits(c) \/ StreamBegins(c) \/ Returns(c)
  BY <1>1 DEF ClientIgnores, ClientEnters, ClientExits, StreamBegins, Returns, HostChat!vars
<1>2. CASE ClientGetsAppend(c)
  BY <1>2, ElsewhereRefines DEF ClientGetsAppend
<1>3. CASE ClientGetsEdit(c)
  <2>1. AppliesEdit(c, Got(c)) /\ posted' = posted
    BY <1>3 DEF ClientGetsEdit
  <2>2. c # Host /\ Host \in DOMAIN rows
    BY DEF TypeOK, Peer
  <2>3. rows'[Host] = rows[Host]
    BY <2>1, <2>2 DEF AppliesEdit
  <2>4. QED
    BY <2>1, <2>3 DEF HostChat!vars
<1>4. CASE ClientGetsDelete(c)
  <2>1. AppliesDelete(c, Head(toClient[c])) /\ posted' = posted
    BY <1>4 DEF ClientGetsDelete
  <2>2. c # Host /\ Host \in DOMAIN rows
    BY DEF TypeOK, Peer
  <2>3. rows'[Host] = rows[Host]
    BY <2>1, <2>2 DEF AppliesDelete
  <2>4. QED
    BY <2>1, <2>3 DEF HostChat!vars
<1>5. CASE ClientGetsState(c)
  BY <1>5, ElsewhereRefines DEF ClientGetsState
<1>6. CASE ClientGetsToken(c)
  BY <1>6, ElsewhereRefines DEF ClientGetsToken
<1>7. CASE StreamEnds(c)
  BY <1>7, ElsewhereRefines DEF StreamEnds
<1>8. QED
  BY <1>1, <1>2, <1>3, <1>4, <1>5, <1>6, <1>7 DEF ClientRoutes

\* The host's chat implements Transcript: messages are added once and keep their
\* place, and nothing a client sends, however late, brings a removed one back.
THEOREM HostChatIsTranscript == Spec => ImplementsTranscript
<1>1. Init => HostChat!Init
  <2> SUFFICES ASSUME Init PROVE HostChat!Init
    OBVIOUS
  <2>1. TypeOK
    BY InitTyped
  <2>2. rows[Host] \in Seq(HostChat!Message)
    BY <2>1 DEF TypeOK, HostChat!Message, Message
  <2>3. \A k \in DOMAIN rows[Host] : rows[Host][k].id = None
    BY DEF Init, Peer
  <2>4. QED
    BY <2>2, <2>3 DEF Init, HostChat!Init
<1>2. TypeOK /\ TurnsAreNew /\ [Next]_vars => [HostChat!Next]_HostChat!vars
  <2> SUFFICES ASSUME TypeOK, TurnsAreNew, [Next]_vars
               PROVE  [HostChat!Next]_HostChat!vars
    OBVIOUS
  <2> USE DEF peerVars, runVars
  <2>1. CASE UNCHANGED vars
    BY <2>1 DEF vars, HostChat!vars
  <2>2. CASE Generation
    <3>1. CASE GenStreams \/ TokenTimer \/ GenEnds
      BY <3>1 DEF GenStreams, TokenTimer, GenEnds, HostChat!vars
    <3>2. CASE \E t \in Texts : GenLands(t)
      BY <3>2, PostRefines DEF GenLands
    <3>3. QED
      BY <2>2, <3>1, <3>2 DEF Generation
  <2>3. CASE \E p \in Peer, id \in Ids : Forgets(p, id)
    BY <2>3 DEF Forgets, HostChat!vars
  <2>4. QED
    BY <2>1, <2>2, <2>3, UsersRefine, HostRoutesRefine, ClientRoutesRefine DEF Next
<1>3. QED
  BY <1>1, <1>2, TypeCorrect, NewTurns, PTL DEF Spec, ImplementsTranscript, HostChat!Spec

\* Every message is in the host's chat at most once, whatever was edited, deleted
\* and written meanwhile: findIndex finds the one row that was meant.
THEOREM HostHoldsEachOnce == Spec => []HostChat!Once
<1>1. HostChat!Init => HostChat!Once
  BY DEF HostChat!Init, HostChat!Once
<1>2. TypeOK /\ HostChat!Once /\ [HostChat!Next]_HostChat!vars => HostChat!Once'
  <2> SUFFICES ASSUME TypeOK, HostChat!Once, [HostChat!Next]_HostChat!vars
               PROVE  HostChat!Once'
    OBVIOUS
  <2> DEFINE log == rows[Host]
  <2>0. log \in Seq(Message)
    BY DEF TypeOK
  <2>1. CASE UNCHANGED HostChat!vars
    BY <2>1 DEF HostChat!vars, HostChat!Once
  <2>2. ASSUME NEW m \in HostChat!Message, HostChat!Add(m)
        PROVE  HostChat!Once'
    <3>1. log' = Append(log, m) /\ posted' = posted \cup {m.id} /\ m.id \notin posted
      BY <2>2 DEF HostChat!Add
    <3>2. /\ DOMAIN log' = 1..(Len(log) + 1) /\ log'[Len(log) + 1] = m
          /\ \A k \in 1..Len(log) : log'[k] = log[k]
      BY <2>0, <3>1
    <3>3. \A k \in 1..Len(log) : log[k].id \in posted \cup {None}
      BY <2>0 DEF HostChat!Once
    <3>4. \A k \in DOMAIN log' : k \in 1..Len(log) \/ k = Len(log) + 1
      BY <2>0, <3>2
    <3> HIDE DEF log
    <3>5. \A k \in DOMAIN log' : log'[k].id \in posted' \cup {None}
      BY <3>1, <3>2, <3>3, <3>4
    <3>6. \A j, k \in 1..Len(log) : log[j].id = log[k].id /\ log[j].id # None => j = k
      BY <2>0 DEF HostChat!Once, log
    <3>7. \A j, k \in DOMAIN log' : log'[j].id = log'[k].id /\ log'[j].id # None => j = k
      BY <3>1, <3>2, <3>3, <3>4, <3>6
    <3>8. QED
      BY <3>5, <3>7 DEF HostChat!Once, log
  <2>3. ASSUME NEW k \in DOMAIN log, HostChat!Remove(k)
        PROVE  HostChat!Once'
    <3>1. log' = SubSeq(log, 1, k - 1) \o SubSeq(log, k + 1, Len(log)) /\ posted' = posted
      BY <2>3 DEF HostChat!Remove
    <3>2. k \in 1..Len(log) /\ Len(log) \in Nat
      BY <2>0
    <3>3. /\ SubSeq(log, 1, k - 1) \in Seq(Message) /\ Len(SubSeq(log, 1, k - 1)) = k - 1
          /\ SubSeq(log, k + 1, Len(log)) \in Seq(Message)
          /\ Len(SubSeq(log, k + 1, Len(log))) = Len(log) - k
      BY <2>0, <3>2
    <3>4. DOMAIN log' = 1..(Len(log) - 1)
      BY <2>0, <3>1, <3>2, <3>3
    <3>5. ASSUME NEW j \in DOMAIN log'
          PROVE  LET i == IF j < k THEN j ELSE j + 1
                 IN  i \in DOMAIN log /\ log'[j] = log[i]
      <4>1. CASE j < k
        BY <2>0, <3>1, <3>2, <3>3, <3>4, <3>5, <4>1
      <4>2. CASE ~(j < k)
        <5> DEFINE before == SubSeq(log, 1, k - 1)
        <5> DEFINE after == SubSeq(log, k + 1, Len(log))
        <5>1. j - (k - 1) \in 1..(Len(log) - k) /\ j \in Nat /\ j + 1 \in DOMAIN log
          BY <2>0, <3>2, <3>4, <3>5, <4>2
        <5>2. after[j - (k - 1)] = log[j + 1]
          <6>1. /\ \A i \in (k + 1)..Len(log) : log[i] \in Message
                /\ j - (k - 1) \in 1..(Len(log) - (k + 1) + 1)
            BY <2>0, <3>2, <5>1
          <6>2. after[j - (k - 1)] = log[k + 1 + (j - (k - 1)) - 1]
            BY <3>2, <6>1, SubSeqProperties
          <6>3. k + 1 + (j - (k - 1)) - 1 = j + 1
            BY <3>2, <5>1
          <6>4. QED
            BY <6>2, <6>3
        <5>3. /\ log' = before \o after /\ before \in Seq(Message) /\ after \in Seq(Message)
              /\ Len(before) = k - 1 /\ Len(after) = Len(log) - k
          BY <3>1, <3>3
        <5> HIDE DEF before, after, log
        <5>4. j \in 1..(Len(before) + Len(after)) /\ ~(j <= Len(before))
          <6>1. Len(before) = k - 1 /\ Len(before) + Len(after) = Len(log) - 1
            BY <3>2, <5>3
          <6>2. j \in 1..(Len(log) - 1) /\ ~(j <= k - 1)
            BY <3>2, <3>4, <3>5, <4>2
          <6>3. QED
            BY <6>1, <6>2
        <5>5. (before \o after)[j] = after[j - Len(before)]
          BY <5>3, <5>4
        <5>6. QED
          BY <4>2, <5>1, <5>2, <5>3, <5>5
      <4>3. QED
        BY <4>1, <4>2
    <3>6. DOMAIN log' \subseteq Nat /\ k \in Nat
      BY <3>2, <3>4
    <3> HIDE DEF log
    <3>7. \A j \in DOMAIN log' : log'[j].id \in posted' \cup {None}
      BY <3>1, <3>5 DEF HostChat!Once, log
    <3>8. ASSUME NEW i \in DOMAIN log', NEW j \in DOMAIN log',
                 log'[i].id = log'[j].id, log'[i].id # None
          PROVE  i = j
      <4> DEFINE a == IF i < k THEN i ELSE i + 1
      <4> DEFINE b == IF j < k THEN j ELSE j + 1
      <4>1. /\ a \in DOMAIN log /\ b \in DOMAIN log
            /\ log[a].id = log[b].id /\ log[a].id # None
        BY <3>5, <3>8
      <4>2. a = b
        BY <4>1 DEF HostChat!Once, log
      <4>3. QED
        BY <3>6, <4>2
    <3>9. QED
      BY <3>7, <3>8 DEF HostChat!Once, log
  <2>4. ASSUME NEW k \in DOMAIN log, NEW t \in Texts, HostChat!Reword(k, t)
        PROVE  HostChat!Once'
    <3>1. log' = [log EXCEPT ![k].text = t] /\ posted' = posted
      BY <2>4 DEF HostChat!Reword
    <3>2. DOMAIN log' = DOMAIN log /\ \A j \in DOMAIN log : log'[j].id = log[j].id
      BY <2>0, <3>1 DEF Message
    <3>3. QED
      BY <3>1, <3>2 DEF HostChat!Once
  <2>5. QED
    BY <2>1, <2>2, <2>3, <2>4 DEF HostChat!Next
<1>3. QED
  BY <1>1, <1>2, TypeCorrect, HostChatIsTranscript, PTL DEF ImplementsTranscript, HostChat!Spec

-----------------------------------------------------------------------------
(* No echo *)

\* A step sends nothing for client c, or takes nothing off its queue, or is its
\* answer to the news that the host entered a chat.
Quiet(c) ==
  \/ Len(toHost'[c]) <= Len(toHost[c])
  \/ toClient'[c] = toClient[c]
  \/ Head(toClient[c]).op = "enter"

\* Of all that happens, only entering a chat makes a client send what nobody asked for.
LEMMA StepsAreQuiet ==
  ASSUME TypeOK, NEW c \in Client, [Next]_vars
  PROVE  Quiet(c)
<1> USE DEF Quiet, netVars
<1>0. toHost[c] \in Seq(Frame) /\ Len(toHost[c]) \in Nat
  BY DEF TypeOK
<1>1. CASE UNCHANGED <<toHost>> \/ UNCHANGED <<toClient>>
  BY <1>0, <1>1
<1>2. CASE UNCHANGED vars
  BY <1>1, <1>2 DEF vars
<1>3. CASE Users
  <2>1. CASE \E t \in Texts : HostSays(t) \/ \E d \in Client : ClientSays(d, t)
    BY <1>1, <2>1 DEF HostSays, ClientSays
  <2>2. ASSUME NEW p \in Peer, NEW k \in DOMAIN rows[p],
               DeletesRow(p, k) \/ \E t \in Texts : EditsRow(p, k, t)
        PROVE  Quiet(c)
    BY <1>1, <2>2 DEF DeletesRow, EditsRow, Publish
  <2>3. CASE \E d \in Client : ClientMoves(d) \/ ClientAsks(d)
    BY <1>1, <2>3 DEF ClientMoves, ClientAsks
  <2>4. ASSUME NEW d \in Client, Drops(d)
        PROVE  Quiet(c)
    <3>1. PICK n \in 0..Len(toHost[d]) :
            toHost' = [toHost EXCEPT ![d] = [k \in 1..n |-> Orphan(toHost[d][k])]]
      BY <2>4 DEF Drops
    <3>2. CASE d # c
      BY <1>0, <3>1, <3>2 DEF TypeOK
    <3>3. CASE d = c
      <4>1. toHost'[c] = [k \in 1..n |-> Orphan(toHost[c][k])] /\ n \in Nat /\ n <= Len(toHost[c])
        BY <1>0, <3>1, <3>3 DEF TypeOK
      <4>2. Len(toHost'[c]) = n
        BY <4>1
      <4>3. QED
        BY <4>1, <4>2
    <3>4. QED
      BY <3>2, <3>3
  <2>5. CASE HostMoves \/ GenStarts
    BY <1>1, <2>5 DEF HostMoves, GenStarts
  <2>6. QED
    BY <1>3, <2>1, <2>2, <2>3, <2>4, <2>5 DEF Users
<1>4. CASE Generation
  BY <1>1, <1>4 DEF Generation, GenStreams, TokenTimer, GenEnds, GenLands
<1>5. CASE HostRoutes
  <2>1. CASE SaveDone \/ ReplyDone
    BY <1>1, <2>1 DEF SaveDone, ReplyDone
  <2>2. ASSUME NEW d \in Client, NEW op, Takes(d, op)
        PROVE  Quiet(c)
    <3>1. toHost[d] # <<>> /\ toHost' = [toHost EXCEPT ![d] = Tail(@)]
      BY <2>2 DEF Takes
    <3>2. CASE d # c
      BY <1>0, <3>1, <3>2 DEF TypeOK
    <3>3. CASE d = c
      <4>1. toHost'[c] = Tail(toHost[c]) /\ toHost[c] # <<>>
        BY <3>1, <3>3 DEF TypeOK
      <4>2. Len(toHost'[c]) = Len(toHost[c]) - 1
        BY <1>0, <4>1
      <4>3. QED
        BY <1>0, <4>2
    <3>4. QED
      BY <3>2, <3>3
  <2>3. ASSUME NEW d \in Client,
               \/ HostAway(d) \/ HostTakesTurn(d) \/ HostTakesRequest(d) \/ HostTakesEdit(d)
               \/ HostTakesDelete(d) \/ HostTakesJoin(d) \/ HostTakesRepublish(d)
        PROVE  Quiet(c)
    <3>1. \E op : Takes(d, op)
      BY <2>3 DEF HostAway, HostTakesTurn, HostTakesRequest, HostTakesEdit, HostTakesDelete,
         HostTakesJoin, HostTakesRepublish
    <3>2. QED
      BY <2>2, <3>1
  <2>4. QED
    BY <1>5, <2>1, <2>3 DEF HostRoutes
<1>6. ASSUME NEW d \in Client, Returns(d) \/ ClientRoutes(d)
      PROVE  Quiet(c)
  <2>1. CASE Returns(d)
    BY <1>1, <2>1 DEF Returns
  <2>2. CASE \/ ClientIgnores(d) \/ ClientGetsAppend(d) \/ ClientGetsDelete(d) \/ ClientGetsState(d)
             \/ ClientExits(d) \/ StreamBegins(d) \/ ClientGetsToken(d) \/ StreamEnds(d)
    BY <1>1, <2>2 DEF ClientIgnores, ClientGetsAppend, ClientGetsDelete, ClientGetsState,
       ClientExits, StreamBegins, ClientGetsToken, StreamEnds
  <2>3. CASE ClientGetsEdit(d)
    <3>1. Got(d) \in Said /\ d \in Peer
      BY <2>3, GetsTyped, FramesCarry DEF ClientGetsEdit, Got, Peer
    <3>2. Echo(d, Got(d)) = <<>>
      BY <2>3, <3>1, EditTyped DEF ClientGetsEdit
    <3>3. toHost' = toHost
      BY <2>3, <3>2 DEF ClientGetsEdit, TypeOK
    <3>4. QED
      BY <1>1, <3>3
  <2>4. CASE ClientEnters(d)
    <3>1. CASE d = c
      BY <2>4, <3>1 DEF ClientEnters, Gets
    <3>2. CASE d # c
      BY <2>4, <3>2 DEF ClientEnters, Gets, TypeOK
    <3>3. QED
      BY <3>1, <3>2
  <2>5. QED
    BY <1>6, <2>1, <2>2, <2>3, <2>4 DEF ClientRoutes
<1>7. CASE \E p \in Peer, id \in Ids : Forgets(p, id)
  BY <1>1, <1>7 DEF Forgets
<1>8. QED
  BY <1>2, <1>3, <1>4, <1>5, <1>6, <1>7 DEF Next

\* A queue without its head is another queue.
LEMMA TailDiffers ==
  ASSUME NEW q \in Seq(Frame), q # <<>>
  PROVE  Tail(q) # q
<1>1. Len(q) \in Nat /\ Len(Tail(q)) = Len(q) - 1
  BY HeadTailProperties, LenProperties
<1>2. SUFFICES ASSUME Tail(q) = q PROVE FALSE
  OBVIOUS
<1>3. Len(q) = Len(q) - 1
  BY <1>1, <1>2
<1>4. QED
  BY <1>1, <1>3

\* Applying an edit or a delete that arrived never makes a client send one.
THEOREM ChangesAreNotEchoed == Spec => NoEcho
<1> DEFINE Echoless ==
      \A c \in Client :
        toClient[c] # <<>> /\ toClient'[c] = Tail(toClient[c])
          /\ Head(toClient[c]).op \in {"edit", "delete"} => Len(toHost'[c]) <= Len(toHost[c])
<1>1. TypeOK /\ [Next]_vars => Echoless
  <2> SUFFICES ASSUME TypeOK, [Next]_vars, NEW c \in Client,
                      toClient[c] # <<>>, toClient'[c] = Tail(toClient[c]),
                      Head(toClient[c]).op \in {"edit", "delete"}
               PROVE  Len(toHost'[c]) <= Len(toHost[c])
    OBVIOUS
  <2>1. toClient[c] \in Seq(Frame)
    BY DEF TypeOK
  <2>2. Tail(toClient[c]) # toClient[c]
    BY <2>1, TailDiffers
  <2>3. toClient'[c] # toClient[c]
    BY <2>2
  <2>4. QED
    BY <2>3, StepsAreQuiet DEF Quiet
<1>2. QED
  BY <1>1, TypeCorrect, PTL DEF Spec, NoEcho

-----------------------------------------------------------------------------
(* No token behind the end of its generation *)

\* Between an end and a later token there is a start.
Ordered(q) ==
  \A i, j \in DOMAIN q :
    i < j /\ q[i].op = "end" /\ q[j].op = "token" => \E k \in i..j : q[k].op = "start"

\* Every end is followed by a start.
Begun(q) == \A i \in DOMAIN q : q[i].op = "end" => \E k \in DOMAIN q : i < k /\ q[k].op = "start"

\* A token waits for its timer only while the host generates; while it does, a
\* client has the start of this generation behind every end; and nothing is on its
\* way to a client that is not there.
StreamOrder ==
  /\ scheduled => gen # "off"
  /\ \A c \in Client : Ordered(toClient[c]) /\ (gen # "off" => Begun(toClient[c]))
  /\ \A c \in Client : c \notin online => toClient[c] = <<>>

\* What a step may do to a queue that is none of the generation's business.
Beside(q, r) == \E f \in Frame : f.op \notin {"start", "token", "end"} /\ r = Append(q, f)

Calm(q, r) ==
  \/ r = q \/ r = <<>>
  \/ q # <<>> /\ r = Tail(q)
  \/ Beside(q, r)
  \/ \E s \in Seq(Frame) : Beside(q, s) /\ Beside(s, r)

LEMMA AppendOrders ==
  ASSUME NEW q \in Seq(Frame), NEW f \in Frame
  PROVE  /\ Ordered(q) /\ (f.op = "token" => Begun(q)) => Ordered(Append(q, f))
         /\ Begun(q) /\ f.op # "end" => Begun(Append(q, f))
         /\ f.op = "start" => Begun(Append(q, f))
<1> DEFINE n == Len(q) + 1
<1> DEFINE r == Append(q, f)
<1>1. /\ n \in Nat /\ DOMAIN q = 1..(n - 1) /\ DOMAIN r = 1..n
      /\ r[n] = f /\ \A i \in 1..(n - 1) : r[i] = q[i]
  OBVIOUS
<1> HIDE DEF n, r
<1>2. ASSUME Ordered(q), f.op = "token" => Begun(q), NEW i \in DOMAIN r, NEW j \in DOMAIN r,
             i < j, r[i].op = "end", r[j].op = "token"
      PROVE  \E k \in i..j : r[k].op = "start"
  <2>1. i \in DOMAIN q /\ q[i].op = "end"
    BY <1>1, <1>2
  <2>2. CASE j = n
    <3>1. PICK k \in DOMAIN q : i < k /\ q[k].op = "start"
      BY <1>1, <1>2, <2>1, <2>2 DEF Begun
    <3>2. k \in i..j /\ r[k].op = "start"
      BY <1>1, <2>1, <2>2, <3>1
    <3>3. QED
      BY <3>2
  <2>3. CASE j # n
    <3>1. j \in DOMAIN q /\ q[j].op = "token"
      BY <1>1, <1>2, <2>3
    <3>2. PICK k \in i..j : q[k].op = "start"
      BY <1>2, <2>1, <3>1 DEF Ordered
    <3>3. r[k].op = "start"
      BY <1>1, <2>1, <3>1, <3>2
    <3>4. QED
      BY <3>2, <3>3
  <2>4. QED
    BY <2>2, <2>3
<1>3. ASSUME Begun(q), f.op # "end", NEW i \in DOMAIN r, r[i].op = "end"
      PROVE  \E k \in DOMAIN r : i < k /\ r[k].op = "start"
  <2>1. i \in DOMAIN q /\ q[i].op = "end"
    BY <1>1, <1>3
  <2>2. PICK k \in DOMAIN q : i < k /\ q[k].op = "start"
    BY <1>3, <2>1 DEF Begun
  <2>3. k \in DOMAIN r /\ r[k].op = "start"
    BY <1>1, <2>2
  <2>4. QED
    BY <2>2, <2>3
<1>4. ASSUME f.op = "start", NEW i \in DOMAIN r, r[i].op = "end"
      PROVE  \E k \in DOMAIN r : i < k /\ r[k].op = "start"
  <2>1. n \in DOMAIN r /\ i < n /\ r[n].op = "start"
    BY <1>1, <1>4
  <2>2. QED
    BY <2>1
<1>5. QED
  BY <1>2, <1>3, <1>4 DEF Ordered, Begun, r

LEMMA TailOrders ==
  ASSUME NEW q \in Seq(Frame), q # <<>>
  PROVE  (Ordered(q) => Ordered(Tail(q))) /\ (Begun(q) => Begun(Tail(q)))
<1> DEFINE n == Len(q) - 1
<1> DEFINE r == Tail(q)
<1>1. /\ n \in Nat /\ DOMAIN q = 1..(n + 1) /\ DOMAIN r = 1..n
      /\ \A i \in 1..n : r[i] = q[i + 1]
  <2>1. Len(q) \in Nat /\ DOMAIN q = 1..Len(q) /\ Len(q) # 0
    OBVIOUS
  <2>2. r \in Seq(Frame) /\ Len(r) = n /\ \A i \in 1..Len(r) : r[i] = q[i + 1]
    BY HeadTailProperties
  <2>3. QED
    BY <2>1, <2>2
<1> HIDE DEF n, r
<1>2. ASSUME Ordered(q), NEW i \in DOMAIN r, NEW j \in DOMAIN r,
             i < j, r[i].op = "end", r[j].op = "token"
      PROVE  \E k \in i..j : r[k].op = "start"
  <2>1. /\ i + 1 \in DOMAIN q /\ j + 1 \in DOMAIN q /\ i + 1 < j + 1
        /\ q[i + 1].op = "end" /\ q[j + 1].op = "token"
    BY <1>1, <1>2
  <2>2. PICK k \in (i + 1)..(j + 1) : q[k].op = "start"
    BY <1>2, <2>1 DEF Ordered
  <2>3. k - 1 \in i..j /\ k - 1 \in 1..n /\ (k - 1) + 1 = k
    BY <1>1, <2>2
  <2>4. r[k - 1].op = "start"
    BY <1>1, <2>2, <2>3
  <2>5. QED
    BY <2>3, <2>4
<1>3. ASSUME Begun(q), NEW i \in DOMAIN r, r[i].op = "end"
      PROVE  \E k \in DOMAIN r : i < k /\ r[k].op = "start"
  <2>1. i + 1 \in DOMAIN q /\ q[i + 1].op = "end"
    BY <1>1, <1>3
  <2>2. PICK k \in DOMAIN q : i + 1 < k /\ q[k].op = "start"
    BY <1>3, <2>1 DEF Begun
  <2>3. k - 1 \in DOMAIN r /\ i < k - 1 /\ (k - 1) + 1 = k
    BY <1>1, <2>2
  <2>4. r[k - 1].op = "start"
    BY <1>1, <2>2, <2>3
  <2>5. QED
    BY <2>3, <2>4
<1>4. QED
  BY <1>2, <1>3 DEF Ordered, Begun, r

\* Calm steps keep a queue's order.
LEMMA CalmOrders ==
  ASSUME NEW q \in Seq(Frame), NEW r, Calm(q, r)
  PROVE  (Ordered(q) => Ordered(r)) /\ (Begun(q) => Begun(r))
<1>1. CASE r = q
  BY <1>1
<1>2. CASE r = <<>>
  BY <1>2 DEF Ordered, Begun
<1>3. CASE q # <<>> /\ r = Tail(q)
  BY <1>3, TailOrders
<1>4. ASSUME NEW s \in Seq(Frame), NEW t, Beside(s, t)
      PROVE  (Ordered(s) => Ordered(t)) /\ (Begun(s) => Begun(t))
  BY <1>4, AppendOrders DEF Beside
<1>5. CASE \E s \in Seq(Frame) : Beside(q, s) /\ Beside(s, r)
  BY <1>4, <1>5
<1>6. QED
  BY <1>1, <1>2, <1>3, <1>4, <1>5 DEF Calm

\* A broadcast of one frame puts it behind what every client that is there has coming.
LEMMA BroadcastAppends ==
  ASSUME TypeOK, NEW f \in Frame, Broadcast(<<f>>), NEW c \in Client
  PROVE  toClient'[c] = IF c \in online THEN Append(toClient[c], f) ELSE toClient[c]
<1>1. toClient[c] \in Seq(Frame)
  BY DEF TypeOK
<1>2. toClient[c] \o <<f>> = Append(toClient[c], f)
  BY <1>1
<1>3. QED
  BY <1>2 DEF Broadcast

\* A step leaves the queue to c alone, or does what has nothing to do with a
\* generation; it adds to it only while c is there, and empties it when c goes.
CalmStep(c) ==
  /\ Calm(toClient[c], toClient'[c])
  /\ c \notin online /\ toClient[c] = <<>> => toClient'[c] = <<>>
  /\ c \notin online' => c \notin online \/ toClient'[c] = <<>>

LEMMA SameCalm ==
  ASSUME NEW c \in Client, toClient'[c] = toClient[c], online' = online
  PROVE  CalmStep(c)
BY DEF CalmStep, Calm

LEMMA BroadcastCalm ==
  ASSUME TypeOK, NEW f \in Frame, f.op \notin {"start", "token", "end"}, Broadcast(<<f>>),
         online' = online, NEW c \in Client
  PROVE  CalmStep(c)
BY BroadcastAppends DEF CalmStep, Calm, Beside

LEMMA GetsCalm ==
  ASSUME TypeOK, NEW d \in Client, NEW op, Gets(d, op), online' = online, NEW c \in Client
  PROVE  CalmStep(c)
<1>1. CASE d # c
  BY <1>1, SameCalm DEF Gets, TypeOK
<1>2. CASE d = c
  BY <1>2 DEF Gets, CalmStep, Calm, TypeOK
<1>3. QED
  BY <1>1, <1>2

\* Every step is calm but the three that start, stream and end a generation.
LEMMA StepsAreCalm ==
  ASSUME TypeOK, NEW c \in Client, [Next]_vars, ~GenStarts, ~TokenTimer, ~GenEnds
  PROVE  CalmStep(c)
<1> USE DEF netVars
<1>0. \A op : Signal(op).op = op /\ \A row : Msg(op, row).op = op
  BY DEF Signal, Msg
<1>1. CASE toClient' = toClient /\ online' = online
  BY <1>1, SameCalm
<1>2. CASE UNCHANGED vars
  BY <1>1, <1>2 DEF vars
<1>3. ASSUME NEW t \in Texts, HostPosts(t), online' = online
      PROVE  CalmStep(c)
  <2> DEFINE row == [id |-> last + 1, text |-> t]
  <2>1. row \in Said
    BY <1>3 DEF HostPosts, TypeOK, Said, Ids
  <2>2. Broadcast(<<Msg("append", row)>>)
    BY <1>3 DEF HostPosts
  <2> HIDE DEF row
  <2>3. Msg("append", row) \in Frame
    BY <2>1, FramesTyped
  <2>4. QED
    BY <1>0, <1>3, <2>2, <2>3, BroadcastCalm
<1>4. ASSUME NEW p \in Peer, NEW k \in DOMAIN rows[p],
             DeletesRow(p, k) \/ \E t \in Texts : EditsRow(p, k, t)
      PROVE  CalmStep(c)
  <2>1. online' = online
    BY <1>4 DEF DeletesRow, EditsRow
  <2>2. rows[p][k] \in Message /\ k \in Nat
    <3>1. rows[p][k] \in Message \cup {Empty} /\ k \in Nat
      BY DEF TypeOK
    <3>2. rows[p][k].id # Stream
      BY <1>4 DEF DeletesRow, EditsRow, CanChange
    <3>3. QED
      BY <3>1, <3>2 DEF Empty
  <2>3. PICK fs : /\ Publish(p, fs)
                  /\ fs = <<>> \/ \E f \in Frame : f.op \in {"edit", "delete"} /\ fs = <<f>>
    <3>1. CASE DeletesRow(p, k)
      <4>1. [Msg("delete", rows[p][k]) EXCEPT !.at = k].op = "delete"
        BY DEF Msg
      <4>2. QED
        BY <2>2, <3>1, <4>1, FramesTyped DEF DeletesRow, LocalDelete
    <3>2. CASE \E t \in Texts : EditsRow(p, k, t)
      <4>1. PICK t \in Texts : EditsRow(p, k, t)
        BY <3>2
      <4> DEFINE row == [rows[p][k] EXCEPT !.text = t]
      <4>2. row \in Message /\ Publish(p, LocalEdit(row, suppress[p]))
        BY <2>2, <4>1 DEF EditsRow, Message
      <4> HIDE DEF row
      <4>3. row.id # None => Msg("edit", row) \in Frame
        BY <4>2, SaidTyped, FramesTyped
      <4>4. QED
        BY <1>0, <4>2, <4>3 DEF LocalEdit
    <3>3. QED
      BY <1>4, <3>1, <3>2
  <2>4. CASE p = Host
    <3>1. CASE fs = <<>>
      <4>1. Broadcast(<<>>)
        BY <2>3, <2>4, <3>1 DEF Publish
      <4>2. toClient'[c] = toClient[c]
        BY <4>1 DEF Broadcast, TypeOK
      <4>3. QED
        BY <2>1, <4>2, SameCalm
    <3>2. CASE \E f \in Frame : f.op \in {"edit", "delete"} /\ fs = <<f>>
      BY <2>1, <2>3, <2>4, <3>2, BroadcastCalm DEF Publish
    <3>3. QED
      BY <2>3, <3>1, <3>2
  <2>5. CASE p # Host
    BY <1>1, <2>1, <2>3, <2>5 DEF Publish
  <2>6. QED
    BY <2>4, <2>5
<1>5. CASE Users
  <2>1. CASE \E t \in Texts : HostSays(t) \/ \E d \in Client : ClientSays(d, t)
    BY <1>1, <1>3, <2>1 DEF HostSays, ClientSays
  <2>2. CASE \E d \in Client : ClientMoves(d) \/ ClientAsks(d)
    BY <1>1, <2>2 DEF ClientMoves, ClientAsks
  <2>3. ASSUME NEW d \in Client, Drops(d)
        PROVE  CalmStep(c)
    <3>1. toClient' = [toClient EXCEPT ![d] = <<>>] /\ online' = online \ {d}
      BY <2>3 DEF Drops
    <3>2. QED
      BY <3>1 DEF CalmStep, Calm, TypeOK
  <2>4. CASE HostMoves
    <3>1. Signal(IF hostIn THEN "exit" ELSE "enter") \in Frame
      BY FramesTyped DEF Signals
    <3>2. QED
      BY <1>0, <2>4, <3>1, BroadcastCalm DEF HostMoves
  <2>5. QED
    BY <1>4, <1>5, <2>1, <2>2, <2>3, <2>4 DEF Users
<1>6. CASE Generation
  BY <1>1, <1>3, <1>6 DEF Generation, GenStreams, GenLands
<1>7. CASE HostRoutes
  <2>1. CASE SaveDone
    <3>1. Msg("append", saved) \in Frame
      BY <2>1, FramesTyped DEF SaveDone, TypeOK
    <3>2. QED
      BY <1>0, <2>1, <3>1, BroadcastCalm DEF SaveDone
  <2>2. CASE ReplyDone
    BY <1>1, <2>2 DEF ReplyDone
  <2>3. ASSUME NEW d \in Client, HostAway(d) \/ HostTakesTurn(d) \/ HostTakesRequest(d)
        PROVE  CalmStep(c)
    BY <1>1, <2>3 DEF HostAway, HostTakesTurn, HostTakesRequest
  <2>4. ASSUME NEW d \in Client, HostTakesEdit(d)
        PROVE  CalmStep(c)
    <3>1. Head(toHost[d]).row \in Said /\ Host \in Peer
      BY <2>4, TakesTyped, FramesCarry DEF HostTakesEdit, Peer
    <3>2. Echo(Host, Head(toHost[d]).row) = <<>>
      BY <2>4, <3>1, EditTyped DEF HostTakesEdit
    <3>3. Msg("edit", Head(toHost[d]).row) \in Frame
      BY <3>1, FramesTyped
    <3> DEFINE f == Msg("edit", Head(toHost[d]).row)
    <3>4. Broadcast(Echo(Host, Head(toHost[d]).row) \o <<f>>) /\ online' = online
      BY <2>4 DEF HostTakesEdit
    <3> HIDE DEF f
    <3>5. <<>> \o <<f>> = <<f>>
      OBVIOUS
    <3>6. Broadcast(<<f>>)
      BY <3>2, <3>4, <3>5
    <3>7. f \in Frame /\ f.op = "edit"
      BY <1>0, <3>3 DEF f
    <3>8. QED
      BY <3>4, <3>6, <3>7, BroadcastCalm
  <2>5. ASSUME NEW d \in Client, HostTakesDelete(d)
        PROVE  CalmStep(c)
    <3> DEFINE f == Head(toHost[d])
    <3>1. Broadcast(<<f>>) /\ online' = online
      BY <2>5 DEF HostTakesDelete
    <3>2. f \in Frame /\ f.op = "delete"
      BY <2>5, TakesTyped DEF HostTakesDelete
    <3> HIDE DEF f
    <3>3. QED
      BY <3>1, <3>2, BroadcastCalm
  <2>6. Transcript(rows[Host]) \in Frame /\ Transcript(rows[Host]).op = "state"
    BY FramesTyped DEF TypeOK, Transcript
  <2>7. ASSUME NEW d \in Client, HostTakesJoin(d)
        PROVE  CalmStep(c)
    <3>1. /\ online' = online
          /\ toClient' = [toClient EXCEPT ![d] =
               IF d \in online THEN Append(@, Transcript(rows[Host])) ELSE @]
      BY <2>7 DEF HostTakesJoin
    <3>2. CASE d # c \/ d \notin online
      BY <3>1, <3>2, SameCalm DEF TypeOK
    <3>3. CASE d = c /\ d \in online
      BY <2>6, <3>1, <3>3 DEF CalmStep, Calm, Beside, TypeOK
    <3>4. QED
      BY <3>2, <3>3
  <2>8. ASSUME NEW d \in Client, HostTakesRepublish(d)
        PROVE  CalmStep(c)
    <3> DEFINE f == Signal(IF hostIn THEN "enter" ELSE "exit")
    <3> DEFINE g == Transcript(rows[Host])
    <3>1. /\ online' = online
          /\ toClient' = [toClient EXCEPT ![d] = IF d \in online THEN @ \o <<f, g>> ELSE @]
      BY <2>8 DEF HostTakesRepublish
    <3>2. f \in Frame /\ f.op \in {"enter", "exit"} /\ g \in Frame /\ g.op = "state"
      BY <1>0, <2>6, FramesTyped DEF Signals
    <3> HIDE DEF f, g
    <3>3. CASE d # c \/ d \notin online
      BY <3>1, <3>3, SameCalm DEF TypeOK
    <3>4. CASE d = c /\ d \in online
      <4>1. toClient[c] \in Seq(Frame) /\ toClient'[c] = toClient[c] \o <<f, g>>
        BY <3>1, <3>4 DEF TypeOK
      <4>2. toClient[c] \o <<f, g>> = Append(Append(toClient[c], f), g)
        BY <3>2, <4>1
      <4>3. Append(toClient[c], f) \in Seq(Frame)
        BY <3>2, <4>1
      <4>4. /\ Beside(toClient[c], Append(toClient[c], f))
            /\ Beside(Append(toClient[c], f), toClient'[c])
        BY <3>2, <4>1, <4>2 DEF Beside
      <4>5. QED
        BY <3>1, <3>4, <4>3, <4>4 DEF CalmStep, Calm
    <3>5. QED
      BY <3>3, <3>4
  <2>9. QED
    BY <1>7, <2>1, <2>2, <2>3, <2>4, <2>5, <2>7, <2>8 DEF HostRoutes
<1>8. ASSUME NEW d \in Client, Returns(d) \/ ClientRoutes(d)
      PROVE  CalmStep(c)
  <2>1. CASE Returns(d)
    <3>1. toClient' = toClient /\ online' = online \cup {d}
      BY <2>1 DEF Returns
    <3>2. QED
      BY <3>1 DEF CalmStep, Calm
  <2>2. CASE ClientRoutes(d)
    <3>1. online' = online /\ \E op : Gets(d, op)
      BY <2>2 DEF ClientRoutes, ClientIgnores, ClientGetsAppend, ClientGetsEdit, ClientGetsDelete,
         ClientGetsState, ClientEnters, ClientExits, StreamBegins, ClientGetsToken, StreamEnds
    <3>2. QED
      BY <3>1, GetsCalm
  <2>3. QED
    BY <1>8, <2>1, <2>2
<1>9. CASE \E p \in Peer, id \in Ids : Forgets(p, id)
  BY <1>1, <1>9 DEF Forgets
<1>10. QED
  BY <1>2, <1>5, <1>6, <1>7, <1>8, <1>9 DEF Next

LEMMA InitOrdered == Init => StreamOrder
BY DEF Init, StreamOrder, Ordered, Begun

LEMMA StepOrdered == TypeOK /\ StreamOrder /\ [Next]_vars => StreamOrder'
<1> SUFFICES ASSUME TypeOK, StreamOrder, [Next]_vars
             PROVE  StreamOrder'
  OBVIOUS
<1> USE DEF netVars, hostVars
<1>0. /\ Signal("start") \in Frame /\ Signal("start").op = "start"
      /\ Signal("token") \in Frame /\ Signal("token").op = "token"
      /\ Signal("end") \in Frame /\ Signal("end").op = "end"
  BY FramesTyped DEF Signals, Signal, Msg
<1>1. CASE GenStarts
  <2>1. Broadcast(<<Signal("start")>>) /\ online' = online /\ gen' = "on"
    BY <1>1 DEF GenStarts
  <2>2. ASSUME NEW c \in Client
        PROVE  /\ Ordered(toClient'[c]) /\ Begun(toClient'[c])
               /\ c \notin online => toClient'[c] = <<>>
    <3>1. toClient'[c] = IF c \in online THEN Append(toClient[c], Signal("start")) ELSE toClient[c]
      BY <1>0, <2>1, BroadcastAppends
    <3>2. toClient[c] \in Seq(Frame)
      BY DEF TypeOK
    <3>3. CASE c \in online
      BY <1>0, <3>1, <3>2, <3>3, AppendOrders DEF StreamOrder
    <3>4. CASE c \notin online
      BY <3>1, <3>4 DEF StreamOrder, Ordered, Begun
    <3>5. QED
      BY <3>3, <3>4
  <2>3. QED
    BY <2>1, <2>2 DEF StreamOrder
<1>2. CASE TokenTimer
  <2>1. scheduled /\ ~scheduled' /\ online' = online /\ gen' = gen /\ gen # "off"
    BY <1>2 DEF TokenTimer, StreamOrder
  <2>2. ASSUME NEW c \in Client
        PROVE  /\ Ordered(toClient'[c]) /\ Begun(toClient'[c])
               /\ c \notin online => toClient'[c] = <<>>
    <3>1. toClient[c] \in Seq(Frame) /\ Ordered(toClient[c]) /\ Begun(toClient[c])
          /\ (c \notin online => toClient[c] = <<>>)
      BY <2>1 DEF TypeOK, StreamOrder
    <3>2. toClient' = toClient \/ Broadcast(<<Signal("token")>>)
      BY <1>2 DEF TokenTimer
    <3>3. CASE toClient' = toClient
      BY <3>1, <3>3
    <3>4. CASE Broadcast(<<Signal("token")>>)
      <4>1. toClient'[c] = IF c \in online THEN Append(toClient[c], Signal("token")) ELSE toClient[c]
        BY <1>0, <3>4, BroadcastAppends
      <4>2. QED
        BY <1>0, <3>1, <4>1, AppendOrders
    <3>5. QED
      BY <3>2, <3>3, <3>4
  <2>3. QED
    BY <2>1, <2>2 DEF StreamOrder
<1>3. CASE GenEnds
  <2>1. Broadcast(<<Signal("end")>>) /\ online' = online /\ gen' = "off" /\ ~scheduled'
    BY <1>3 DEF GenEnds
  <2>2. ASSUME NEW c \in Client
        PROVE  Ordered(toClient'[c]) /\ (c \notin online => toClient'[c] = <<>>)
    <3>1. toClient'[c] = IF c \in online THEN Append(toClient[c], Signal("end")) ELSE toClient[c]
      BY <1>0, <2>1, BroadcastAppends
    <3>2. toClient[c] \in Seq(Frame) /\ Ordered(toClient[c])
      BY DEF TypeOK, StreamOrder
    <3>3. QED
      BY <1>0, <3>1, <3>2, AppendOrders DEF StreamOrder
  <2>3. QED
    BY <2>1, <2>2 DEF StreamOrder
<1>4. CASE ~GenStarts /\ ~TokenTimer /\ ~GenEnds
  <2>1. (gen' # "off" => gen # "off") /\ (scheduled' => gen' # "off")
    <3>1. CASE UNCHANGED vars
      BY <3>1 DEF vars, StreamOrder
    <3>2. CASE gen' = gen /\ (scheduled' = scheduled \/ ~scheduled')
      BY <3>2 DEF StreamOrder
    <3>3. CASE Users
      BY <1>4, <3>2, <3>3 DEF Users, HostSays, ClientSays, DeletesRow, EditsRow, ClientMoves, Drops,
         ClientAsks, HostMoves
    <3>4. CASE Generation
      BY <1>4, <3>4 DEF Generation, GenStreams, GenLands
    <3>5. CASE HostRoutes
      BY <3>2, <3>5 DEF HostRoutes, SaveDone, ReplyDone, HostAway, HostTakesTurn, HostTakesRequest,
         HostTakesEdit, HostTakesDelete, HostTakesJoin, HostTakesRepublish
    <3>6. CASE \E c \in Client : Returns(c) \/ ClientRoutes(c)
      BY <3>2, <3>6 DEF Returns, ClientRoutes, ClientIgnores, ClientGetsAppend, ClientGetsEdit,
         ClientGetsDelete, ClientGetsState, ClientEnters, ClientExits, StreamBegins,
         ClientGetsToken, StreamEnds
    <3>7. CASE \E p \in Peer, id \in Ids : Forgets(p, id)
      BY <3>2, <3>7 DEF Forgets
    <3>8. QED
      BY <3>1, <3>3, <3>4, <3>5, <3>6, <3>7 DEF Next
  <2>2. ASSUME NEW c \in Client
        PROVE  /\ Ordered(toClient'[c]) /\ (gen' # "off" => Begun(toClient'[c]))
               /\ c \notin online' => toClient'[c] = <<>>
    <3>1. CalmStep(c)
      BY <1>4, StepsAreCalm
    <3>2. toClient[c] \in Seq(Frame)
      BY DEF TypeOK
    <3>3. Ordered(toClient'[c]) /\ (gen' # "off" => Begun(toClient'[c]))
      BY <2>1, <3>1, <3>2, CalmOrders DEF CalmStep, StreamOrder
    <3>4. c \notin online' => toClient'[c] = <<>>
      BY <3>1 DEF CalmStep, StreamOrder
    <3>5. QED
      BY <3>3, <3>4
  <2>3. QED
    BY <2>1, <2>2 DEF StreamOrder
<1>5. QED
  BY <1>1, <1>2, <1>3, <1>4

\* On its way to a client no token stands behind the end of its generation: the
\* coalescing timer of #onStreamToken never outlives the generation it was armed in.
THEOREM TokensStayInOrder == Spec => []TokensBeforeEnd
<1>1. Spec => []TypeOK
  BY TypeCorrect
<1>2. Init => StreamOrder
  BY InitOrdered
<1>3. TypeOK /\ StreamOrder /\ [Next]_vars => StreamOrder'
  BY StepOrdered
<1>4. StreamOrder => TokensBeforeEnd
  BY DEF StreamOrder, Ordered, TokensBeforeEnd
<1>5. QED
  BY <1>1, <1>2, <1>3, <1>4, PTL DEF Spec
=============================================================================
