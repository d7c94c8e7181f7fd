------------------------------ MODULE ChatSync ------------------------------
(***************************************************************************)
(* The shared transcript, src/lib/chat.js with the routing that calls it   *)
(* (src/lib/session.js): turns, appends, edits, deletes, the streaming      *)
(* placeholder, snapshots, and the host walking out of the shared chat.    *)
(*                                                                         *)
(* The relay keeps order per socket, so host and clients are joined by one *)
(* queue each way.  A peer handles its incoming frames one at a time; what *)
(* its user or SillyTavern does can fall between any two steps.            *)
(***************************************************************************)
EXTENDS Naturals, Sequences

CONSTANTS
  Client,         \* the clients of the room
  Host,           \* its host
  Texts,          \* what a message can say
  History,        \* rows the host's chat had before it was shared: they carry no id
  Events,         \* what users and the network do in this instance
  MaxSays,        \* bound: messages written in a run
  MaxActs,        \* bound: everything users and the network do in a run
  Stream,         \* the id of a streaming placeholder, which carries none
  None            \* no id, no text

Peer == {Host} \cup Client

\* "early": a client writes before the transcript it asked for has arrived.
\* "hasty": a user edits or deletes a row that was changed remotely a moment ago.
\* "careless": the host deletes a client's turn while it is being saved.
\* "old": a user edits or deletes a row that carries no id.
AllEvents == {"say", "edit", "delete", "reply", "move", "away", "drop",
              "early", "hasty", "careless", "old"}

ASSUME ChatAssumption ==
  /\ Host \notin Client
  /\ Events \subseteq AllEvents /\ History \in Seq(Texts)
  /\ MaxSays \in Nat /\ MaxActs \in Nat
  /\ Stream \notin Nat /\ None \notin Nat /\ None \notin Texts /\ Stream # None

VARIABLES
  rows,           \* per peer: context.chat of the session's chat
  applied,        \* per peer: appliedIds
  suppress,       \* per peer: suppress, ids changed remotely in the last two seconds
  toHost,         \* per client: frames on their way to the host
  toClient,       \* per client: frames on their way to it
  online,         \* clients that are connected and admitted
  active,         \* clients whose activeCardId is the session's card
  open,           \* clients looking at the session's chat
  streaming,      \* clients with streamActive
  placeholder,    \* per client: _placeholderIndex, one-based; 0 is null
  hostIn,         \* the host is in the session's chat
  pc,             \* the host's routing chain: idle, saving or replying
  saved,          \* the message whose saveChat() is awaited
  gen,            \* the host's generation: off, on, or landed in the chat
  scheduled,      \* _streamScheduled: a coalesced token waits for its timer
  last,           \* ids handed out
  posted,         \* ids that have been in the host's transcript
  acts            \* what users and the network have done so far

peerVars   == <<rows, applied, suppress>>
netVars    == <<toHost, toClient, online>>
clientVars == <<active, open, streaming, placeholder>>
hostVars   == <<hostIn, pc, saved, gen, scheduled>>
runVars    == <<last, posted, acts>>
vars == <<peerVars, netVars, clientVars, hostVars, runVars>>

Ids     == 1..MaxSays
Said    == [id : Ids, text : Texts]
Message == [id : Ids \cup {None}, text : Texts]
Empty   == [id |-> Stream, text |-> None]
Signals == {"join", "republish", "request", "orphan", "enter", "exit", "start", "token", "end"}
Frame   == [op : {"turn", "append", "edit"}, row : Said, at : {0}, log : {<<>>}]
             \cup [op : {"delete"}, row : Message, at : Nat, log : {<<>>}]
             \cup [op : Signals, row : {Empty}, at : {0}, log : {<<>>}]
             \cup [op : {"state"}, row : {Empty}, at : {0}, log : Seq(Message)]

Msg(op, row)   == [op |-> op, row |-> row, at |-> 0, log |-> <<>>]
Signal(op)     == Msg(op, Empty)
Transcript(s)  == [op |-> "state", row |-> Empty, at |-> 0, log |-> s]

TypeOK ==
  /\ rows \in [Peer -> Seq(Message \cup {Empty})] /\ rows[Host] \in Seq(Message)
  /\ applied \in [Peer -> SUBSET Ids] /\ suppress \in [Peer -> SUBSET Ids]
  /\ toHost \in [Client -> Seq(Frame)] /\ toClient \in [Client -> Seq(Frame)]
  /\ online \subseteq Client /\ active \subseteq Client /\ open \subseteq Client
  /\ streaming \subseteq Client /\ placeholder \in [Client -> Nat]
  /\ hostIn \in BOOLEAN /\ pc \in {"idle", "saving", "replying"} /\ saved \in Said \cup {Empty}
  /\ pc = "saving" <=> saved # Empty
  /\ gen \in {"off", "on", "landed"} /\ scheduled \in BOOLEAN
  /\ last \in 0..MaxSays /\ posted \subseteq Ids /\ acts \in Nat

Init ==
  /\ rows = [p \in Peer |-> [k \in DOMAIN History |-> [id |-> None, text |-> History[k]]]]
  /\ applied = [p \in Peer |-> {}] /\ suppress = [p \in Peer |-> {}]
  /\ toHost = [c \in Client |-> <<>>] /\ toClient = [c \in Client |-> <<>>]
  /\ online = Client /\ active = Client /\ open = Client
  /\ streaming = {} /\ placeholder = [c \in Client |-> 0]
  /\ hostIn = TRUE /\ pc = "idle" /\ saved = Empty /\ gen = "off" /\ scheduled = FALSE
  /\ last = 0 /\ posted = {} /\ acts = 0

-----------------------------------------------------------------------------
(* Helpers *)

\* Mutant: the row is blanked and stays.
BlankAtIndex(s, k) == [s EXCEPT ![k] = Empty]

RemoveAtIndex(s, k) == SubSeq(s, 1, k - 1) \o SubSeq(s, k + 1, Len(s))

\* findIndex over context.chat: the first row with the id, if there is one.
Found(p, id) ==
  {k \in DOMAIN rows[p] : rows[p][k].id = id /\ \A j \in 1..(k - 1) : rows[p][j].id # id}

\* inSessionChat() of a client.
Viewing(c) == c \in online \cap active \cap open

\* A broadcast reaches every client that is connected and admitted.
Broadcast(frames) ==
  toClient' = [c \in Client |-> IF c \in online THEN toClient[c] \o frames ELSE toClient[c]]

Send(c, frame) == toHost' = [toHost EXCEPT ![c] = Append(@, frame)]

Acts(event) == event \in Events /\ acts < MaxActs /\ acts' = acts + 1

\* The transcript a client asked for, or was promised, is still to come.
Awaiting(c) ==
  \/ \E k \in DOMAIN toHost[c] : toHost[c][k].op \in {"join", "republish"}
  \/ \E k \in DOMAIN toClient[c] : toClient[c][k].op \in {"enter", "state"}

\* Mutant: an edit is sent whoever made it.
LocalEditAlways(row, touched) == IF row.id = None THEN <<>> ELSE <<Msg("edit", row)>>

\* #onLocalEdit: nothing is sent about a row without an id, or one that a remote
\* change has just touched.
LocalEdit(row, touched) ==
  IF row.id = None \/ row.id \in touched THEN <<>> ELSE <<Msg("edit", row)>>

\* #onLocalDelete: by id where there is one, with the index beside it.
LocalDelete(row, k, touched) ==
  IF row.id \in touched THEN <<>> ELSE <<[Msg("delete", row) EXCEPT !.at = k]>>

-----------------------------------------------------------------------------
(* The users *)

\* A message appears in the host's own chat: typed there, or generated.
HostPosts(t) ==
  /\ hostIn /\ last < MaxSays
  /\ LET row == [id |-> last + 1, text |-> t]
     IN  /\ rows' = [rows EXCEPT ![Host] = Append(@, row)]
         /\ applied' = [applied EXCEPT ![Host] = @ \cup {row.id}]
         /\ Broadcast(<<Msg("append", row)>>)
         /\ posted' = posted \cup {row.id}
  /\ last' = last + 1

HostSays(t) ==
  /\ Acts("say") /\ HostPosts(t)
  /\ UNCHANGED <<suppress, toHost, online, clientVars, hostVars>>

\* A client's own turn is on its screen at once and goes to the host.
ClientSays(c, t) ==
  /\ Acts("say") /\ Viewing(c) /\ last < MaxSays
  /\ Awaiting(c) => "early" \in Events
  /\ LET row == [id |-> last + 1, text |-> t]
     IN  /\ rows' = [rows EXCEPT ![c] = Append(@, row)]
         /\ applied' = [applied EXCEPT ![c] = @ \cup {row.id}]
         /\ Send(c, Msg("turn", row))
  /\ last' = last + 1
  /\ UNCHANGED <<suppress, toClient, online, clientVars, hostVars, posted>>

\* What a local change of p is sent as: broadcast by the host, forwarded to the
\* host by a client.
Publish(p, frames) ==
  IF p = Host
  THEN Broadcast(frames) /\ UNCHANGED toHost
  ELSE /\ toHost' = [toHost EXCEPT ![p] = @ \o frames]
       /\ UNCHANGED toClient

CanChange(p, k) ==
  /\ IF p = Host THEN hostIn ELSE Viewing(p)
  /\ k \in DOMAIN rows[p] /\ rows[p][k].id # Stream
  /\ rows[p][k].id \in suppress[p] => "hasty" \in Events
  /\ rows[p][k].id = None => "old" \in Events

Reworded(row) == IF saved.id = row.id THEN row ELSE saved

EditsRow(p, k, t) ==
  /\ Acts("edit") /\ CanChange(p, k) /\ rows[p][k].text # t
  /\ LET row == [rows[p][k] EXCEPT !.text = t]
     IN  /\ rows' = [rows EXCEPT ![p][k] = row]
         /\ saved' = IF p = Host THEN Reworded(row) ELSE saved
         /\ Publish(p, LocalEdit(row, suppress[p]))
  /\ UNCHANGED <<applied, suppress, online, clientVars, hostIn, pc, gen, scheduled, last, posted>>

DeletesRow(p, k) ==
  /\ Acts("delete") /\ CanChange(p, k)
  /\ p = Host /\ saved.id = rows[p][k].id => "careless" \in Events
  /\ rows' = [rows EXCEPT ![p] = RemoveAtIndex(@, k)]
  /\ Publish(p, LocalDelete(rows[p][k], k, suppress[p]))
  /\ UNCHANGED <<applied, suppress, online, clientVars, hostVars, last, posted>>

\* The two seconds are over.
Forgets(p, id) ==
  /\ id \in suppress[p]
  /\ suppress' = [suppress EXCEPT ![p] = @ \ {id}]
  /\ UNCHANGED <<rows, applied, netVars, clientVars, hostVars, runVars>>

\* A client walks away from the session's chat, or back into it (CHAT_CHANGED).
ClientMoves(c) ==
  /\ Acts("move")
  /\ open' = IF c \in open THEN open \ {c} ELSE open \cup {c}
  /\ IF c \notin open /\ c \in online \cap active
     THEN Send(c, Signal("join")) ELSE UNCHANGED toHost
  /\ UNCHANGED <<peerVars, toClient, online, active, streaming, placeholder, hostVars, last, posted>>

\* announceSession: the host opens another chat, or this one again; both reset.
HostMoves ==
  /\ Acts("away") /\ gen = "off"
  /\ hostIn' = ~hostIn
  /\ Broadcast(<<Signal(IF hostIn THEN "exit" ELSE "enter")>>)
  /\ applied' = [applied EXCEPT ![Host] = {}] /\ suppress' = [suppress EXCEPT ![Host] = {}]
  /\ scheduled' = FALSE
  /\ UNCHANGED <<rows, toHost, online, clientVars, pc, saved, gen, last, posted>>

\* Who asked is gone: the relay has nobody to give the answer to.
Orphan(f) == IF f.op \in {"join", "republish"} THEN Signal("orphan") ELSE f

\* A client's connection is lost: nothing more reaches it, and of what it sent only
\* a prefix reached the relay.
Drops(c) ==
  /\ Acts("drop") /\ c \in online
  /\ online' = online \ {c} /\ active' = active \ {c}
  /\ toClient' = [toClient EXCEPT ![c] = <<>>]
  /\ \E n \in 0..Len(toHost[c]) :
       toHost' = [toHost EXCEPT ![c] = [k \in 1..n |-> Orphan(toHost[c][k])]]
  /\ UNCHANGED <<peerVars, open, streaming, placeholder, hostVars, last, posted>>

\* Admitted again: the relay asks the host to republish for it.
Returns(c) ==
  /\ c \notin online
  /\ online' = online \cup {c}
  /\ Send(c, Signal("republish"))
  /\ UNCHANGED <<peerVars, toClient, clientVars, hostVars, runVars>>
-----------------------------------------------------------------------------
(* The host's generation *)

GenStarts ==
  /\ Acts("reply") /\ hostIn /\ gen = "off"
  /\ gen' = "on"
  /\ Broadcast(<<Signal("start")>>)
  /\ UNCHANGED <<peerVars, toHost, online, clientVars, hostIn, pc, saved, scheduled, last, posted>>

\* STREAM_TOKEN_RECEIVED: the latest text waits for the timer.
GenStreams ==
  /\ Acts("reply") /\ gen = "on" /\ ~scheduled /\ scheduled' = TRUE
  /\ UNCHANGED <<peerVars, netVars, clientVars, hostIn, pc, saved, gen, last, posted>>

TokenTimer ==
  /\ scheduled /\ scheduled' = FALSE
  /\ IF hostIn THEN Broadcast(<<Signal("token")>>) ELSE UNCHANGED toClient
  /\ UNCHANGED <<peerVars, toHost, online, clientVars, hostIn, pc, saved, gen, runVars>>

GenLands(t) ==
  /\ gen = "on" /\ gen' = "landed" /\ HostPosts(t)
  /\ UNCHANGED <<suppress, toHost, online, clientVars, hostIn, pc, saved, scheduled, acts>>

\* Mutant: the coalesced token keeps its timer.
GenEndsTokenPending ==
  /\ gen # "off" /\ gen' = "off" /\ UNCHANGED scheduled
  /\ Broadcast(<<Signal("end")>>)
  /\ UNCHANGED <<peerVars, toHost, online, clientVars, hostIn, pc, saved, runVars>>

\* Finished, or stopped before anything landed.
GenEnds ==
  /\ gen # "off" /\ gen' = "off" /\ scheduled' = FALSE
  /\ Broadcast(<<Signal("end")>>)
  /\ UNCHANGED <<peerVars, toHost, online, clientVars, hostIn, pc, saved, runVars>>

\* A client's send button asks the host for a reply.
ClientAsks(c) ==
  /\ Acts("reply") /\ Viewing(c)
  /\ Send(c, Signal("request"))
  /\ UNCHANGED <<peerVars, toClient, online, clientVars, hostVars, last, posted>>

-----------------------------------------------------------------------------
(* The host's routing chain *)

\* The next frame of client c reaches the host's handler.
Takes(c, op) ==
  /\ pc = "idle" /\ toHost[c] # <<>> /\ Head(toHost[c]).op = op
  /\ toHost' = [toHost EXCEPT ![c] = Tail(@)]

\* A frame about the chat is dropped while the host is elsewhere, and the answer to
\* a peer that is gone at any time.
HostAway(c) ==
  /\ \E op \in {"turn", "edit", "delete", "join", "request", "orphan"} :
       Takes(c, op) /\ (hostIn => op = "orphan")
  /\ UNCHANGED <<peerVars, toClient, online, clientVars, hostVars, runVars>>

\* acceptRemoteTurn up to the await of saveChat().  SillyTavern's own event for
\* the injected row finds its id applied and sends nothing.
HostTakesTurn(c) ==
  /\ hostIn /\ Takes(c, "turn")
  /\ LET row == Head(toHost[c]).row
     IN  /\ rows' = [rows EXCEPT ![Host] = Append(@, row)]
         /\ applied' = [applied EXCEPT ![Host] = @ \cup {row.id}]
         /\ posted' = posted \cup {row.id}
         /\ saved' = row
  /\ pc' = "saving"
  /\ UNCHANGED <<suppress, toClient, online, clientVars, hostIn, gen, scheduled, last, acts>>

\* The message object is sent as it is by then.
SaveDone ==
  /\ pc = "saving" /\ pc' = "idle" /\ saved' = Empty
  /\ Broadcast(<<Msg("append", saved)>>)
  /\ UNCHANGED <<peerVars, toHost, online, clientVars, hostIn, gen, scheduled, runVars>>

\* handleGenerationRequest awaits the whole reply, and the routing chain with it.
HostTakesRequest(c) ==
  /\ hostIn /\ Takes(c, "request") /\ pc' = "replying"
  /\ UNCHANGED <<peerVars, toClient, online, clientVars, hostIn, saved, gen, scheduled, runVars>>

ReplyDone ==
  /\ pc = "replying" /\ gen = "off" /\ pc' = "idle"
  /\ UNCHANGED <<peerVars, netVars, clientVars, hostIn, saved, gen, scheduled, runVars>>

\* Mutant: an edit of a row that is not there adds it.
AppliesEditOrAdds(p, row) ==
  /\ IF Found(p, row.id) = {}
     THEN rows' = [rows EXCEPT ![p] = Append(@, row)]
     ELSE \E k \in Found(p, row.id) : rows' = [rows EXCEPT ![p][k] = row]
  /\ suppress' = [suppress EXCEPT ![p] = @ \cup {row.id}]

\* applyRemoteEdit by p; SillyTavern may report the repainted row as edited, which
\* the suppression keeps from being sent back.
AppliesEdit(p, row) ==
  \/ Found(p, row.id) = {} /\ UNCHANGED <<rows, suppress>>
  \/ \E k \in Found(p, row.id) :
       /\ rows' = [rows EXCEPT ![p][k] = row]
       /\ suppress' = [suppress EXCEPT ![p] = @ \cup {row.id}]

Echo(p, row) ==
  IF Found(p, row.id) = {} THEN <<>> ELSE LocalEdit(row, suppress'[p])

\* The host applies a client's edit and sends it to everyone, its author included.
HostTakesEdit(c) ==
  /\ hostIn /\ Takes(c, "edit")
  /\ LET row == Head(toHost[c]).row
     IN  /\ AppliesEdit(Host, row)
         /\ saved' = Reworded(row)
         /\ Broadcast(Echo(Host, row) \o <<Msg("edit", row)>>)
  /\ UNCHANGED <<applied, online, clientVars, hostIn, pc, gen, scheduled, runVars>>

\* Mutant: the index is used also when the id is not found.
TargetOrIndex(p, f) ==
  IF Found(p, f.row.id) # {} THEN Found(p, f.row.id) ELSE {f.at} \cap DOMAIN rows[p]

\* applyRemoteDelete by p: the index counts only for a row without an id.
Target(p, f) ==
  IF f.row.id # None THEN Found(p, f.row.id) ELSE {f.at} \cap DOMAIN rows[p]

AppliesDelete(p, f) ==
  \/ Target(p, f) = {} /\ UNCHANGED <<rows, suppress>>
  \/ \E k \in Target(p, f) :
       /\ rows' = [rows EXCEPT ![p] = RemoveAtIndex(@, k)]
       /\ suppress' = [suppress EXCEPT ![p] = @ \cup ({f.row.id} \ {None})]

HostTakesDelete(c) ==
  /\ hostIn /\ Takes(c, "delete")
  /\ AppliesDelete(Host, Head(toHost[c])) /\ Broadcast(<<Head(toHost[c])>>)
  /\ UNCHANGED <<applied, online, clientVars, hostVars, runVars>>

HostTakesJoin(c) ==
  /\ hostIn /\ Takes(c, "join")
  /\ toClient' = [toClient EXCEPT ![c] = IF c \in online THEN Append(@, Transcript(rows[Host])) ELSE @]
  /\ UNCHANGED <<peerVars, online, clientVars, hostVars, runVars>>

\* A republication says which chat is the session's and sends the transcript,
\* also when there is none.
HostTakesRepublish(c) ==
  /\ Takes(c, "republish")
  /\ toClient' = [toClient EXCEPT ![c] =
       IF c \in online THEN @ \o <<Signal(IF hostIn THEN "enter" ELSE "exit"), Transcript(rows[Host])>> ELSE @]
  /\ UNCHANGED <<peerVars, online, clientVars, hostVars, runVars>>

-----------------------------------------------------------------------------
(* A client's routing chain *)

Gets(c, op) ==
  /\ toClient[c] # <<>> /\ Head(toClient[c]).op = op
  /\ toClient' = [toClient EXCEPT ![c] = Tail(@)]
Got(c) == Head(toClient[c]).row

\* Outside the session's chat every frame about it is dropped but its end.
ClientIgnores(c) ==
  /\ ~Viewing(c)
  /\ \E op \in {"append", "edit", "delete", "state", "start", "token"} : Gets(c, op)
  /\ UNCHANGED <<peerVars, toHost, online, clientVars, hostVars, runVars>>

\* Mutant: whatever stands at the index is removed.
ClearedAtIndex(c, r) ==
  IF placeholder[c] \in DOMAIN r THEN RemoveAtIndex(r, placeholder[c]) ELSE r

\* #clearStreamPlaceholder on the rows r.
Cleared(c, r) ==
  IF placeholder[c] \in DOMAIN r /\ r[placeholder[c]].id = Stream
  THEN RemoveAtIndex(r, placeholder[c]) ELSE r

\* applyRemoteMessage: an id that was applied before is the echo of an own turn.
ClientGetsAppend(c) ==
  /\ Viewing(c) /\ Gets(c, "append")
  /\ IF Got(c).id \in applied[c]
     THEN UNCHANGED <<rows, applied, placeholder>>
     ELSE /\ applied' = [applied EXCEPT ![c] = @ \cup {Got(c).id}]
          /\ rows' = [rows EXCEPT ![c] = Cleared(c, Append(@, Got(c)))]
          /\ placeholder' = [placeholder EXCEPT ![c] = 0]
  /\ UNCHANGED <<suppress, toHost, online, active, open, streaming, hostVars, runVars>>

ClientGetsEdit(c) ==
  /\ Viewing(c) /\ Gets(c, "edit")
  /\ AppliesEdit(c, Got(c))
  /\ toHost' = [toHost EXCEPT ![c] = @ \o Echo(c, Got(c))]
  /\ UNCHANGED <<applied, online, clientVars, hostVars, runVars>>

ClientGetsDelete(c) ==
  /\ Viewing(c) /\ Gets(c, "delete")
  /\ AppliesDelete(c, Head(toClient[c]))
  /\ UNCHANGED <<applied, toHost, online, clientVars, hostVars, runVars>>

\* applySnapshot replaces the chat; the ids it brings count as applied.
ClientGetsState(c) ==
  /\ Viewing(c) /\ Gets(c, "state")
  /\ LET log == Head(toClient[c]).log
     IN  /\ rows' = [rows EXCEPT ![c] = log]
         /\ applied' = [applied EXCEPT ![c] = @ \cup ({log[k].id : k \in DOMAIN log} \ {None})]
  /\ UNCHANGED <<suppress, toHost, online, clientVars, hostVars, runVars>>

\* #onSessionState: everything is reset, and a client that is there asks for the
\* transcript.
ClientEnters(c) ==
  /\ Gets(c, "enter")
  /\ active' = active \cup {c}
  /\ applied' = [applied EXCEPT ![c] = {}] /\ suppress' = [suppress EXCEPT ![c] = {}]
  /\ streaming' = streaming \ {c}
  /\ IF c \in open THEN Send(c, Signal("join")) ELSE UNCHANGED toHost
  /\ UNCHANGED <<rows, online, open, placeholder, hostVars, runVars>>

ClientExits(c) ==
  /\ Gets(c, "exit")
  /\ active' = active \ {c}
  /\ applied' = [applied EXCEPT ![c] = {}] /\ suppress' = [suppress EXCEPT ![c] = {}]
  /\ streaming' = streaming \ {c}
  /\ UNCHANGED <<rows, toHost, online, open, placeholder, hostVars, runVars>>

StreamBegins(c) ==
  /\ Viewing(c) /\ Gets(c, "start")
  /\ streaming' = streaming \cup {c}
  /\ UNCHANGED <<peerVars, toHost, online, active, open, placeholder, hostVars, runVars>>

\* Mutant: every token gets a row.
ClientGetsTokenAnew(c) ==
  /\ Viewing(c) /\ Gets(c, "token")
  /\ c \in streaming
  /\ rows' = [rows EXCEPT ![c] = Append(@, Empty)]
  /\ placeholder' = [placeholder EXCEPT ![c] = Len(rows[c]) + 1]
  /\ UNCHANGED <<applied, suppress, toHost, online, active, open, streaming, hostVars, runVars>>

\* applyStreamToken: repaint the placeholder, or make one at the end.
ClientGetsToken(c) ==
  /\ Viewing(c) /\ Gets(c, "token")
  /\ IF c \notin streaming \/ (placeholder[c] \in DOMAIN rows[c] /\ rows[c][placeholder[c]].id = Stream)
     THEN UNCHANGED <<rows, placeholder>>
     ELSE /\ rows' = [rows EXCEPT ![c] = Append(@, Empty)]
          /\ placeholder' = [placeholder EXCEPT ![c] = Len(rows[c]) + 1]
  /\ UNCHANGED <<applied, suppress, toHost, online, active, open, streaming, hostVars, runVars>>

\* endStream, also in another chat, where there is no placeholder to remove.
StreamEnds(c) ==
  /\ Gets(c, "end")
  /\ streaming' = streaming \ {c}
  /\ rows' = [rows EXCEPT ![c] = IF c \in open THEN Cleared(c, @) ELSE @]
  /\ placeholder' = [placeholder EXCEPT ![c] = 0]
  /\ UNCHANGED <<applied, suppress, toHost, online, active, open, hostVars, runVars>>
-----------------------------------------------------------------------------
(* Specification *)

Users ==
  \/ \E t \in Texts : HostSays(t) \/ \E c \in Client : ClientSays(c, t)
  \/ \E p \in Peer : \E k \in DOMAIN rows[p] : DeletesRow(p, k) \/ \E t \in Texts : EditsRow(p, k, t)
  \/ \E c \in Client : ClientMoves(c) \/ Drops(c) \/ ClientAsks(c)
  \/ HostMoves \/ GenStarts

Generation ==
  \/ GenStreams \/ TokenTimer \/ GenEnds
  \/ \E t \in Texts : GenLands(t)

HostRoutes ==
  \/ SaveDone \/ ReplyDone
  \/ \E c \in Client :
       \/ HostAway(c) \/ HostTakesTurn(c) \/ HostTakesRequest(c)
       \/ HostTakesEdit(c) \/ HostTakesDelete(c)
       \/ HostTakesJoin(c) \/ HostTakesRepublish(c)

ClientRoutes(c) ==
  \/ ClientIgnores(c)
  \/ ClientGetsAppend(c) \/ ClientGetsEdit(c) \/ ClientGetsDelete(c) \/ ClientGetsState(c)
  \/ ClientEnters(c) \/ ClientExits(c)
  \/ StreamBegins(c) \/ ClientGetsToken(c) \/ StreamEnds(c)

Next ==
  \/ Users \/ Generation \/ HostRoutes
  \/ \E c \in Client : Returns(c) \/ ClientRoutes(c)
  \/ \E p \in Peer, id \in Ids : Forgets(p, id)

Spec == Init /\ [][Next]_vars

-----------------------------------------------------------------------------
(* Properties *)

\* Nothing is on its way, being saved, being generated or waiting for its timer.
Settled ==
  /\ \A c \in Client : toHost[c] = <<>> /\ toClient[c] = <<>>
  /\ pc = "idle" /\ gen = "off" /\ ~scheduled

\* c is in the session's chat and has its transcript, and the host has not left with
\* the news of it on its way to c.
Following(c) ==
  Viewing(c) /\ ~Awaiting(c) /\ \A k \in DOMAIN toClient[c] : toClient[c][k].op # "exit"

\* How often the row occurs in the chat of p.
Copies(p, row) == {k \in DOMAIN rows[p] : rows[p][k] = row}

SameRows(p, q) ==
  /\ Len(rows[p]) = Len(rows[q])
  /\ \A k \in DOMAIN rows[p] :
       \E f \in [Copies(p, rows[p][k]) -> Copies(q, rows[p][k])] :
         \A i, j \in DOMAIN f : f[i] = f[j] => i = j

\* acceptRemoteTurn, applyRemoteMessage, applyRemoteEdit, applyRemoteDelete and
\* applySnapshot together: once nothing is on its way, a client in the session's
\* chat shows the host's messages, each once and with the host's wording, whoever
\* wrote, corrected and deleted at the same time (the order of turns may differ).
Mirrored == Settled => \A c \in Client : Viewing(c) => SameRows(c, Host)

\* acceptRemoteTurn, #onLocalMessage, applyRemoteEdit and applyRemoteDelete at the
\* host: its chat is a Transcript, so a client's turn is added once, an edit finds the
\* turn it was meant for, and what was deleted is not brought back by a late frame.
HostChat == INSTANCE Transcript WITH
  Id <- Ids, Text <- Texts, log <- rows[Host], used <- posted

ImplementsTranscript == HostChat!Spec

\* suppress: applying a change that arrived never makes a client send one, so two
\* peers cannot echo an edit to each other for ever.
NoEcho ==
  [][\A c \in Client :
       toClient[c] # <<>> /\ toClient'[c] = Tail(toClient[c])
         /\ Head(toClient[c]).op \in {"edit", "delete"} => Len(toHost'[c]) <= Len(toHost[c])]_vars

\* streamActive and #clearStreamPlaceholder: a client that follows the session's chat
\* never shows two copies of the reply being written, and none once the generation is
\* over.
Writing(c) == {k \in DOMAIN rows[c] : rows[c][k].id = Stream}

OneReply ==
  \A c \in Client : Following(c) =>
    /\ \A j, k \in Writing(c) : j = k
    /\ Settled => Writing(c) = {}

\* #onStreamToken's timer: on its way to a client no token stands behind the end of
\* its generation.
TokensBeforeEnd ==
  \A c \in Client : \A i, j \in DOMAIN toClient[c] :
    i < j /\ toClient[c][i].op = "end" /\ toClient[c][j].op = "token" =>
      \E k \in i..j : toClient[c][k].op = "start"

=============================================================================
