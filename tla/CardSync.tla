------------------------------- MODULE CardSync -------------------------------
(* A client's side of a shared card, #onCardIndex to requestDefinition of      *)
(* lib/session.js: the catalogue and its revisions, the requests for what is   *)
(* missing, the definition that lives in memory only, over the SharedCardStore *)
(* of CardStore. The messages of one connection are handled one after another, *)
(* but a handler of a lost connection may still be at an await when the next   *)
(* connection's handlers start. One card is followed, which the host may       *)
(* change, stop sharing and share again; of the others in the catalogue only   *)
(* that a file of theirs was written.                                          *)
EXTENDS CardStore, Sequences

CONSTANTS
  Handler,    \* slots for the handlers of this window, its connections' together
  Panel       \* the user interface, which links a copy outside the routing

ASSUME CardSyncAssumption ==
  /\ Actor = Handler \cup {Panel, Tab}
  /\ Panel \notin Handler /\ Tab \notin Handler \cup {Panel}

VARIABLES
  up,         \* connected and admitted
  index,      \* this.cardIndex: the revision it lists, 0 when the card is not in it
  stub,       \* this.stubs: the file, or None
  held,       \* this.definitions: the revision held, 0 when none
  pending,    \* this.pendingDefinitions, likewise
  asked,      \* _definitionRequests, likewise
  illustrating, \* _avatarRequests, likewise
  live,       \* the definition in the character object, 0 when it is the bare stub
  behind,     \* the card's sync has failed since the catalogue came
  at,         \* per actor: the await it is at
  toClient,   \* messages on their way to this client
  toHost,     \* requests on their way to the host
  card,       \* the host's card, 0 when it is not shared
  catalogue   \* the host's cardIndex

clientVars == <<index, stub, held, pending, asked, illustrating, live, behind>>
roomVars == <<toClient, toHost, card, catalogue>>
vars == <<storeVars, clientVars, up, at, roomVars>>

Revision == Rev \cup {0}
Message == [op : {"index", "definition", "avatar"}, rev : Revision]
Request == {"republish", "avatar", "definition"}

Place == {"idle", "sync", "want", "wanted", "hash", "illustrate", "refresh", "list", "adopt"}

TypeOK ==
  /\ StoreTypeOK
  /\ up \in BOOLEAN /\ behind \in BOOLEAN
  /\ {index, held, pending, asked, illustrating, live, card, catalogue} \subseteq Revision
  /\ stub \in File \cup {None}
  /\ at \in [Actor -> Place]
  /\ toClient \in Seq(Message) /\ toHost \in Seq(Request)

Init ==
  /\ StoreInit
  /\ up = FALSE /\ stub = None /\ behind = FALSE
  /\ index = 0 /\ held = 0 /\ pending = 0 /\ asked = 0 /\ illustrating = 0 /\ live = 0
  /\ at = [a \in Actor |-> "idle"]
  /\ toClient = <<>> /\ toHost = <<>>
  /\ card = CHOOSE v \in Rev : TRUE
  /\ catalogue = card

Message1(op, rev) == [op |-> op, rev |-> rev]

-------------------------------------------------------------------------------
(* The host *)

\* The host edits the card, stops sharing it or shares it again.
HostChanges ==
  /\ Happens
  /\ card' \in Revision \ {card}
  /\ UNCHANGED <<fileVars, current, job, clientVars, up, at, toClient, toHost, catalogue>>

\* publishCards: the catalogue becomes what the cards are, and is sent.
Announces == catalogue' = card /\ toClient' = Append(toClient, Message1("index", card))

\* scheduleCardPublish: some time after a change, when there is something new.
HostPublishes ==
  /\ up /\ catalogue # card
  /\ Announces
  /\ UNCHANGED <<storeVars, clientVars, up, at, toHost, card>>

\* #onCardWant. A definition that is not the catalogue's any more is not sent:
\* the catalogue is, to the client that asked.
HostAnswers ==
  /\ up /\ toHost # <<>>
  /\ toHost' = Tail(toHost)
  /\ LET want == Head(toHost)
         changed == card \notin {catalogue, 0}
         stale == want = "definition" /\ changed
     IN  \/ (want = "republish" \/ (catalogue # 0 /\ stale)) /\ Announces
         \/ /\ catalogue # 0 /\ want # "republish" /\ ~stale
            /\ toClient' = Append(toClient, Message1(want, catalogue))
            /\ UNCHANGED catalogue
         \/ /\ want # "republish" /\ catalogue = 0
            /\ UNCHANGED <<toClient, catalogue>>
  /\ UNCHANGED <<storeVars, clientVars, up, at, card>>

\* socket.send: what is sent while there is no connection is lost.
Asks(want) == toHost' = IF up THEN Append(toHost, want) ELSE toHost

\* HydrationTracker: a definition is put into the character, whatever it carried
\* before, or every character becomes the bare stub again.
Hydrates(v) == live' = v
Dehydrates == live' = 0

-------------------------------------------------------------------------------
(* The connection *)

\* Welcome and the extension check are over; the relay has the host re-announce.
Connects ==
  /\ ~up
  /\ up' = TRUE
  /\ toClient' = <<Message1("index", card)>> /\ toHost' = <<>> /\ catalogue' = card
  /\ UNCHANGED <<storeVars, clientVars, at, card>>

\* The close listener of #openSocket, or leave(): definitions and requests go.
Disconnects ==
  /\ up /\ Happens
  /\ up' = FALSE
  /\ current' = [a \in Actor |-> IF a = Tab THEN current[a] ELSE FALSE]
  /\ held' = 0 /\ pending' = 0 /\ asked' = 0 /\ illustrating' = 0 /\ Dehydrates
  /\ \/ UNCHANGED <<index, stub>>
     \/ index' = 0 /\ stub' = None
  /\ toClient' = <<>> /\ toHost' = <<>>
  /\ UNCHANGED <<fileVars, job, at, card, catalogue, behind>>

-------------------------------------------------------------------------------
(* Handlers *)

\* #route: the next message, when the handlers before it on this connection are
\* over. Handlers of an earlier one may not be.
Next1(a, op) ==
  /\ a \in Handler /\ at[a] = "idle"
  /\ \A b \in Handler : at[b] # "idle" => ~current[b]
  /\ up /\ toClient # <<>> /\ Head(toClient).op = op
  /\ toClient' = Tail(toClient)

Goes(a, place) == at' = [at EXCEPT ![a] = place]

\* A handler is over, and with it its call of the store.
Over(a) == Goes(a, "idle") /\ job' = [job EXCEPT ![a] = NoJob] /\ current' = [current EXCEPT ![a] = FALSE]
StoreKept == UNCHANGED <<fileVars, events>>

\* What a new catalogue does to the memory: what is not listed any more is
\* forgotten, and every definition is taken out of the characters.
Forgets(v) ==
  /\ Dehydrates
  /\ IF v # 0 THEN UNCHANGED <<stub, held, pending, asked, illustrating>>
     ELSE stub' = None /\ held' = 0 /\ pending' = 0 /\ asked' = 0 /\ illustrating' = 0

\* #onCardIndex up to storage.sync, or, for a catalogue without the card, through
\* the loop over the others.
TakesIndex(a) ==
  /\ Next1(a, "index")
  /\ LET v == Head(toClient).rev
     IN  /\ index' = v
         /\ Forgets(v)
         /\ IF v = 0 THEN Goes(a, "wanted") /\ UNCHANGED job
                     ELSE Goes(a, "sync") /\ Calls(a, "sync", v, None)
         /\ current' = [current EXCEPT ![a] = TRUE]
         /\ behind' = FALSE
  /\ StoreKept
  /\ UNCHANGED <<up, toHost, card, catalogue>>

\* What is held of the listed revision is to be applied again; anything else is
\* dropped and asked for, once per revision.
Definition(a, v) ==
  /\ IF held = v
     THEN pending' = v /\ UNCHANGED <<held, asked>>
     ELSE held' = 0 /\ pending' = 0 /\ asked' = v
  /\ IF held = v \/ asked = v THEN UNCHANGED toHost ELSE Asks("definition")
  /\ Goes(a, "wanted")

\* storage.sync has returned: the portrait is asked for once, and sent for
\* before the definition is looked at.
Synced(a) ==
  /\ at[a] = "sync" /\ job[a].pc = "done" /\ current[a]
  /\ LET v == job[a].rev
     IN  /\ stub' = job[a].file
         /\ IF job[a].read.installed # v /\ illustrating # v
            THEN illustrating' = v /\ Asks("avatar") /\ Goes(a, "want") /\ UNCHANGED <<held, pending, asked>>
            ELSE UNCHANGED illustrating /\ Definition(a, v)
  /\ UNCHANGED <<storeVars, index, live, behind, up, toClient, card, catalogue>>

\* The request for the portrait is sent. Nothing asks whether the connection is
\* still the one the request was for.
Wanted(a) ==
  /\ at[a] = "want"
  /\ Definition(a, job[a].rev)
  /\ UNCHANGED <<storeVars, index, stub, illustrating, live, behind, up, toClient, card, catalogue>>

\* storage.sync has failed for this card: it is logged, and the loop goes on. What
\* is held of the card, of whichever revision, is left as it is.
SyncFailed(a) ==
  /\ at[a] = "sync" /\ job[a].pc = "failed"
  /\ Goes(a, "wanted")
  /\ job' = [job EXCEPT ![a].changed = FALSE]
  /\ behind' = (behind \/ current[a])
  /\ StoreKept
  /\ UNCHANGED <<current, index, stub, held, pending, asked, illustrating, live, up, roomVars>>

\* The character in the list that a pending definition is for.
InList == stub # None /\ list["this"][stub] = "stub"

\* applyPendingDefinitions, without a refresh.
Applies ==
  IF pending # 0 /\ index # 0 /\ InList
  THEN Hydrates(pending) /\ pending' = 0
  ELSE pending' = (IF index = 0 THEN 0 ELSE pending) /\ UNCHANGED live

\* The loop of #onCardIndex is over. Another card's file may have been written.
LoopEnds(a) ==
  /\ at[a] = "wanted"
  /\ \/ /\ Goes(a, "refresh")
        /\ UNCHANGED <<job, current, pending, live>>
     \/ /\ ~job[a].changed
        /\ Over(a)
        /\ IF current[a] THEN Applies ELSE UNCHANGED <<pending, live>>
  /\ StoreKept
  /\ UNCHANGED <<index, stub, held, asked, illustrating, behind, up, roomVars>>

\* refreshCharacters, once the refresh it found under way is over. The panel's
\* call has no isCurrent.
RefreshBegins(a) ==
  /\ at[a] = "refresh"
  /\ \A b \in Actor : at[b] # "list"
  /\ IF current[a] \/ a = Panel
     THEN Dehydrates /\ Goes(a, "list") /\ UNCHANGED <<job, current>>
     ELSE UNCHANGED live /\ Over(a)
  /\ StoreKept
  /\ UNCHANGED <<index, stub, held, pending, asked, illustrating, behind, up, roomVars>>

\* resyncSharedData, after publishPersona: every request may be made again.
Resyncs ==
  IF up THEN asked' = 0 /\ illustrating' = 0 /\ Asks("republish")
        ELSE UNCHANGED <<asked, illustrating, toHost>>

\* getCharacters has replaced the list and its objects: everything held is
\* applied to the new ones.
RefreshEnds(a) ==
  /\ at[a] = "list"
  /\ Lists("this")
  /\ Over(a)
  /\ IF current[a] \/ a = Panel
     THEN LET shown == stub # None /\ list'["this"][stub] = "stub" /\ index # 0
              due == IF held # 0 THEN held ELSE pending
          IN  /\ Hydrates(IF shown THEN due ELSE 0)
              /\ pending' = IF shown \/ index = 0 THEN 0 ELSE due
     ELSE Dehydrates /\ UNCHANGED pending
  /\ IF a = Panel THEN Resyncs ELSE UNCHANGED <<asked, illustrating, toHost>>
  /\ UNCHANGED <<disk, records, events, index, stub, held, behind, up, toClient, card, catalogue>>

-------------------------------------------------------------------------------
\* #onCardDefinition up to the hash of its content. An obsolete one is dropped.
TakesDefinition(a) ==
  /\ Next1(a, "definition")
  /\ IF index # 0 /\ Head(toClient).rev = index
     THEN /\ Goes(a, "hash")
          /\ job' = [job EXCEPT ![a] = [NoJob EXCEPT !.rev = index]]
          /\ current' = [current EXCEPT ![a] = TRUE]
     ELSE UNCHANGED <<at, job, current>>
  /\ StoreKept
  /\ UNCHANGED <<clientVars, up, toHost, card, catalogue>>

\* Mutant: the hash is awaited and the connection is not looked at again.
HashedUnchecked(a) ==
  /\ at[a] = "hash"
  /\ asked' = 0 /\ held' = job[a].rev
  /\ IF InList /\ index # 0
     THEN live' = job[a].rev /\ pending' = 0 /\ Over(a)
     ELSE pending' = job[a].rev /\ Goes(a, "refresh") /\ UNCHANGED <<live, job, current>>
  /\ StoreKept
  /\ UNCHANGED <<index, stub, illustrating, behind, up, roomVars>>

\* The content is what it says: it is held, and applied, after a refresh when
\* the card is not in the list yet.
Hashed(a) ==
  /\ at[a] = "hash"
  /\ IF ~current[a]
     THEN Over(a) /\ UNCHANGED <<asked, held, pending, live>>
     ELSE /\ asked' = 0 /\ held' = job[a].rev
          /\ IF InList /\ index # 0
             THEN Hydrates(job[a].rev) /\ pending' = 0 /\ Over(a)
             ELSE pending' = job[a].rev /\ Goes(a, "refresh") /\ UNCHANGED <<live, job, current>>
  /\ StoreKept
  /\ UNCHANGED <<index, stub, illustrating, behind, up, roomVars>>

\* #onCardAvatar, the transfer assembled, up to storage.avatar.
TakesAvatar(a) ==
  /\ Next1(a, "avatar")
  /\ IF index # 0 /\ Head(toClient).rev = index
     THEN /\ Goes(a, "illustrate")
          /\ Calls(a, "avatar", index, None)
          /\ current' = [current EXCEPT ![a] = TRUE]
     ELSE UNCHANGED <<at, job, current>>
  /\ StoreKept
  /\ UNCHANGED <<clientVars, up, toHost, card, catalogue>>

Illustrated(a) ==
  /\ at[a] = "illustrate" /\ job[a].pc \in {"done", "failed", "aborted"}
  /\ illustrating' = IF current[a] THEN 0 ELSE illustrating
  /\ IF current[a] /\ job[a].pc = "done"
     THEN Goes(a, "refresh") /\ UNCHANGED <<job, current>>
     ELSE Over(a)
  /\ StoreKept
  /\ UNCHANGED <<index, stub, held, pending, asked, live, behind, up, roomVars>>

\* A call that noticed the end of its connection, or that its caller has lost
\* interest in: the handler ends with it.
Aborted(a) ==
  /\ \/ at[a] = "sync" /\ (job[a].pc = "aborted" \/ (job[a].pc = "done" /\ ~current[a]))
     \/ at[a] = "adopt" /\ job[a].pc \in {"failed", "aborted"}
  /\ Over(a)
  /\ StoreKept
  /\ UNCHANGED <<clientVars, up, roomVars>>

-------------------------------------------------------------------------------
(* The panel, the user and the other tab *)

\* The user links a copy an older build made.
PanelLinks(f) ==
  /\ up /\ index # 0 /\ at[Panel] = "idle" /\ list["this"][f] = "legacy"
  /\ Happens
  /\ Goes(Panel, "adopt")
  /\ Calls(Panel, "adopt", index, f)
  /\ current' = [current EXCEPT ![Panel] = TRUE]
  /\ UNCHANGED fileVars
  /\ UNCHANGED <<clientVars, up, toClient, toHost, card, catalogue>>

PanelLinked ==
  /\ at[Panel] = "adopt" /\ job[Panel].pc = "done"
  /\ Goes(Panel, "refresh")
  /\ UNCHANGED <<storeVars, clientVars, up, roomVars>>

\* requestDefinition, when the user opens a card that is not in memory.
UserOpens ==
  /\ up /\ index # 0 /\ live = 0 /\ InList
  /\ Happens
  /\ Asks("definition")
  /\ UNCHANGED <<fileVars, current, job, clientVars, up, at, toClient, card, catalogue>>

\* The other tab, in a session of its own, handles the same card.
TabCalls(what, v) ==
  /\ job[Tab].pc = "idle"
  /\ Happens
  /\ Calls(Tab, what, v, None)
  /\ current' = [current EXCEPT ![Tab] = TRUE]
  /\ UNCHANGED fileVars
  /\ UNCHANGED <<clientVars, up, at, toClient, toHost, card, catalogue>>

TabReturns ==
  /\ job[Tab].pc \in {"done", "failed", "aborted"}
  /\ job' = [job EXCEPT ![Tab] = NoJob]
  /\ IF job[Tab].pc = "done" THEN Lists("tab") ELSE UNCHANGED list
  /\ current' = [current EXCEPT ![Tab] = FALSE]
  /\ UNCHANGED <<disk, records, events, clientVars, up, at, roomVars>>

UserChanges(f, kind) ==
  /\ UserReplaces(f, kind)
  /\ UNCHANGED <<clientVars, up, at, toClient, toHost, card, catalogue>>

-------------------------------------------------------------------------------
Handles(a) ==
  \/ TakesIndex(a) \/ Synced(a) \/ Wanted(a) \/ SyncFailed(a) \/ LoopEnds(a)
  \/ TakesDefinition(a) \/ Hashed(a) \/ TakesAvatar(a) \/ Illustrated(a)

Carries(a) ==
  \/ StoreStep(a) /\ UNCHANGED <<clientVars, up, at, roomVars>>
  \/ RefreshBegins(a) \/ RefreshEnds(a) \/ Aborted(a)

Next ==
  \/ HostChanges \/ HostPublishes \/ HostAnswers
  \/ Connects \/ Disconnects
  \/ \E a \in Handler : Handles(a)
  \/ \E a \in Actor : Carries(a)
  \/ \E f \in File : PanelLinks(f)
  \/ PanelLinked \/ UserOpens \/ TabReturns
  \/ \E v \in Rev : TabCalls("sync", v) \/ TabCalls("avatar", v)
  \/ \E f \in File, kind \in {"none", "own"} : UserChanges(f, kind)

Spec == Init /\ [][Next]_vars

-------------------------------------------------------------------------------
(* Properties *)

\* Definitions are borrowed: when the connection is gone, or the host has
\* stopped sharing the card, no character carries one, whatever was still on its
\* way or at an await (lib/session.js:1299, README.md: "Disconnect restores").
BorrowedOnly == live # 0 => up /\ index # 0

\* Nothing is at an await, running or on its way.
AtRest ==
  /\ \A a \in Actor : at[a] = "idle" /\ job[a].pc = "idle"
  /\ toClient = <<>> /\ toHost = <<>>

\* "Obsolete or corrupted revisions must never replace the latest"
\* (lib/session.js:1425; #onCardIndex, #onCardDefinition, refreshCharacters): when
\* nothing is under way any more, a character carries the definition the catalogue
\* lists or none, whatever refresh, obsolete definition or handler of a lost
\* connection came in between - as long as the card's last synchronisation did not
\* fail: after that what is held of it comes back with another card's refresh.
ObsoleteNeverStays == AtRest /\ ~behind => live \in {0, index}

\* "The extension intentionally stops instead of creating a speculative
\* duplicate" (README.md:285): no two files carry the marker of the card.
OneCopy ==
  \A f, g \in File : disk[f].kind = "stub" /\ disk[g].kind = "stub" => f = g
=============================================================================
