------------------------------- MODULE Presence -------------------------------
(* Who is playing whom. A player publishes the persona of the moment:          *)
(* publishPersona of lib/session.js, one job per connection with several       *)
(* awaits, and the persona that goes with a turn, over the portrait cache of   *)
(* lib/chat.js. The host remembers it and puts it in front of its model. The   *)
(* relay in between passes personas on and keeps the last of each connection.  *)
(* A persona is its identity, its text (name, description, lorebook) and its   *)
(* portrait; a connection has a number, which is also the peer's id.           *)
EXTENDS Integers, Sequences

CONSTANTS
  Id,        \* the player's personas
  Text,      \* what a persona says of itself
  MaxImages, \* images a persona's file may hold one after another
  Job,       \* slots for describeLocalPersona calls under way
  MaxConn,   \* connections of the player, one after another
  MaxActs,   \* changes, turns, resyncs, failures and losses together, a bound
  None

Conn == 1..MaxConn
Version == 0..MaxImages
Persona == [id : Id, text : Text, face : Version, full : BOOLEAN]

\* What is remembered, the identity of a portrait with it.
Memory == [id : Id, text : Text, face : {None} \cup (Id \X Version)]
Frame == [op : {"persona", "turn"}, from : Conn, persona : Persona]
News == Frame \cup [op : {"leave"}, from : Conn] \cup [op : {"roster"}, peers : SUBSET Conn]

ASSUME PresenceAssumption ==
  /\ Id # {} /\ Text # {}
  /\ MaxImages \in Nat \ {0} /\ MaxConn \in Nat \ {0} /\ MaxActs \in Nat
  /\ None \notin Id \cup Job \cup Persona \cup Memory \cup Frame

VARIABLES
  mine,      \* the persona the user has chosen, and its text
  image,     \* the image in each persona's file
  portraits, \* the captured ones, 0 when there is none
  sentFor,   \* #publishedPortraitFor
  conn,      \* the player's connection, counted
  up,        \* it is admitted
  dirty,     \* _personaDirty
  force,     \* _personaForce
  print,     \* _personaFingerprint, or None
  owner,     \* _personaJob, or None
  jobs,      \* per slot: a call under way
  timer,     \* the 250 ms timer of the user interface
  acts

playerVars == <<mine, image, portraits, sentFor, conn, up, dirty, force, print, owner,
                jobs, timer, acts>>

VARIABLES
  uplink,    \* per connection: frames on their way to the relay
  present,   \* connections the relay still counts
  cached,    \* per connection: the last persona the relay has had from it
  down,      \* frames on their way to the host
  hostUp,    \* the host is connected
  inRoom,    \* the host looks at the room's chat
  personas,  \* what the host remembers of each connection
  prompt,    \* connections whose persona is in the host's extension prompt
  outside,   \* whom the host's last generation outside the room's chat was told of
  strayed    \* a persona that publishPersona did not send has changed the view

hostVars == <<hostUp, inRoom, personas, prompt, outside>>
relayVars == <<uplink, present, cached, down>>
vars == <<playerVars, relayVars, hostVars, strayed>>

Bare(face) == [id |-> mine.id, text |-> mine.text, face |-> face, full |-> FALSE]

Call == [what : {"publish", "follow"},
         pc : {"idle", "lore", "portrait", "decoding", "hash", "sending"},
         conn : Conn \cup {0}, forced : BOOLEAN, said : Persona]

Idle(j) == jobs[j].pc = "idle"

\* The types, by whose variables they are.
PlayerOK ==
  /\ mine \in [id : Id, text : Text]
  /\ image \in [Id -> 1..MaxImages] /\ portraits \in [Id -> Version]
  /\ sentFor \in Id \cup {None}
  /\ conn \in 0..MaxConn /\ up \in BOOLEAN
  /\ dirty \in BOOLEAN /\ force \in BOOLEAN /\ timer \in BOOLEAN
  /\ print \in Persona \cup {None}
  /\ owner \in Job \cup {None}
  /\ jobs \in [Job -> Call]
  /\ acts \in 0..MaxActs

RelayOK ==
  /\ uplink \in [Conn -> Seq(Frame)] /\ present \subseteq Conn
  /\ cached \in [Conn -> Frame \cup {None}] /\ down \in Seq(News)

HostOK ==
  /\ hostUp \in BOOLEAN /\ inRoom \in BOOLEAN /\ strayed \in BOOLEAN
  /\ personas \in [Conn -> Memory \cup {None}]
  /\ prompt \subseteq Conn
  /\ outside \subseteq Conn

TypeOK == PlayerOK /\ RelayOK /\ HostOK

NoCall == [what |-> "publish", pc |-> "idle", conn |-> 0, forced |-> FALSE,
           said |-> CHOOSE s \in Persona : s.face = 0 /\ ~s.full]

Init ==
  /\ mine = CHOOSE m \in [id : Id, text : Text] : TRUE
  /\ image = [i \in Id |-> 1] /\ portraits = [i \in Id |-> 0]
  /\ sentFor = None
  /\ conn = 0 /\ up = FALSE
  /\ dirty = FALSE /\ force = FALSE /\ timer = FALSE /\ print = None /\ owner = None
  /\ jobs = [j \in Job |-> NoCall]
  /\ acts = 0
  /\ uplink = [c \in Conn |-> <<>>] /\ present = {}
  /\ cached = [c \in Conn |-> None] /\ down = <<>>
  /\ hostUp = TRUE /\ inRoom = FALSE /\ strayed = FALSE
  /\ personas = [c \in Conn |-> None]
  /\ prompt = {} /\ outside = {}

Roster(peers) == [op |-> "roster", peers |-> peers]

Acts == acts < MaxActs /\ acts' = acts + 1

-------------------------------------------------------------------------------
(* publishPersona *)

\* Mutant: any job under way will do, one of a lost connection too.
UnderWayAtAll(c) == owner # None

\* The job of this connection that is under way.
UnderWay(c) == owner # None /\ jobs[owner].conn = c

\* describeLocalPersona has read the persona, and is at the await of its lorebook.
Describes(j, what, c, forced) ==
  jobs' = [jobs EXCEPT ![j] = [what |-> what, pc |-> "lore", conn |-> c, forced |-> forced,
                               said |-> Bare(0)]]

\* publishPersona: a note for the job under way, or a job of its own.
Publish(c, forced) ==
  IF UnderWay(c)
  THEN dirty' = TRUE /\ force' = (force \/ forced) /\ UNCHANGED <<owner, jobs>>
  ELSE \E j \in Job :
         /\ Idle(j)
         /\ Describes(j, "publish", c, force \/ forced)
         /\ owner' = j /\ dirty' = FALSE /\ force' = FALSE

IsCurrent(j) == up /\ jobs[j].conn = conn

\* The lorebook is there. A captured portrait is used, another one is fetched.
Captures(j) ==
  /\ jobs[j].pc = "lore"
  /\ LET i == jobs[j].said.id
     IN  IF portraits[i] # 0
         THEN /\ jobs' = [jobs EXCEPT ![j].pc = "hash", ![j].said.face = portraits[i]]
              /\ sentFor' = i
         ELSE jobs' = [jobs EXCEPT ![j].pc = "portrait"] /\ UNCHANGED sentFor
  /\ UNCHANGED <<mine, image, portraits, conn, up, dirty, force, print, owner, timer, acts,
                 relayVars, hostVars, strayed>>

\* The server answers with the image of that moment, or does not.
Fetched(j) ==
  /\ jobs[j].pc = "portrait"
  /\ \/ /\ jobs' = [jobs EXCEPT ![j].pc = "decoding", ![j].said.face = image[jobs[j].said.id]]
        /\ UNCHANGED acts
     \/ Acts /\ jobs' = [jobs EXCEPT ![j].pc = "hash"]
  /\ UNCHANGED <<mine, image, portraits, sentFor, conn, up, dirty, force, print, owner, timer,
                 relayVars, hostVars, strayed>>

\* The portrait is drawn and kept, whatever has happened to the cache meanwhile.
Captured(j) ==
  /\ jobs[j].pc = "decoding"
  /\ LET i == jobs[j].said.id
     IN  portraits' = [portraits EXCEPT ![i] = jobs[j].said.face] /\ sentFor' = i
  /\ jobs' = [jobs EXCEPT ![j].pc = "hash"]
  /\ UNCHANGED <<mine, image, conn, up, dirty, force, print, owner, timer, acts,
                 relayVars, hostVars, strayed>>

Ends(j) ==
  /\ jobs' = [jobs EXCEPT ![j] = NoCall]
  /\ owner' = IF owner = j THEN None ELSE owner
  /\ UNCHANGED <<dirty, force>>

\* Once more when something changed while the job was at an await.
Repeats(j) ==
  IF dirty /\ IsCurrent(j)
  THEN dirty' = FALSE /\ force' = FALSE /\ Describes(j, "publish", conn, force) /\ UNCHANGED owner
  ELSE Ends(j)

Sends(op, persona) ==
  uplink' = [uplink EXCEPT ![conn] = Append(@, [op |-> op, from |-> conn, persona |-> persona])]

\* The fingerprint is computed: what the room has already is not sent again.
Hashed(j) ==
  /\ jobs[j].pc = "hash" /\ jobs[j].what = "publish"
  /\ LET said == [jobs[j].said EXCEPT !.full = TRUE]
     IN  \/ ~IsCurrent(j) /\ Ends(j) /\ UNCHANGED <<uplink, strayed>>
         \/ /\ IsCurrent(j) /\ ~jobs[j].forced /\ print = said
            /\ Repeats(j) /\ UNCHANGED <<uplink, strayed>>
         \/ /\ IsCurrent(j) /\ (jobs[j].forced \/ print # said)
            /\ Sends("persona", said)
            /\ jobs' = [jobs EXCEPT ![j].pc = "sending", ![j].said = said]
            /\ strayed' = FALSE
            /\ UNCHANGED <<dirty, force, owner>>
  /\ UNCHANGED <<mine, image, portraits, sentFor, conn, up, print, timer, acts,
                 present, cached, down, hostVars>>

\* The send has resolved.
Sent(j) ==
  /\ jobs[j].pc = "sending"
  /\ IF IsCurrent(j) THEN print' = jobs[j].said /\ Repeats(j) ELSE Ends(j) /\ UNCHANGED print
  /\ UNCHANGED <<mine, image, portraits, sentFor, conn, up, timer, acts, relayVars, hostVars, strayed>>

\* A turn's persona is resolved: it goes out on the connection of the moment.
Follows(j) ==
  /\ jobs[j].pc = "hash" /\ jobs[j].what = "follow"
  /\ Ends(j)
  /\ IF up THEN Sends("persona", jobs[j].said) /\ strayed' = TRUE
           ELSE UNCHANGED <<uplink, strayed>>
  /\ UNCHANGED <<mine, image, portraits, sentFor, conn, up, print, timer, acts,
                 present, cached, down, hostVars>>

-------------------------------------------------------------------------------
(* The player *)

\* PERSONA_UPDATED drops the portrait and starts the timer again, as does
\* SETTINGS_UPDATED, which drops nothing.
UserEdits ==
  /\ Acts
  /\ timer' = TRUE
  /\ \/ \E t \in Text \ {mine.text} : mine' = [mine EXCEPT !.text = t] /\ UNCHANGED <<image, portraits>>
     \/ \E i \in Id \ {mine.id} : mine' = [mine EXCEPT !.id = i] /\ UNCHANGED <<image, portraits>>
     \/ /\ image[mine.id] < MaxImages
        /\ image' = [image EXCEPT ![mine.id] = @ + 1]
        /\ portraits' = [portraits EXCEPT ![mine.id] = 0]
        /\ UNCHANGED mine
  /\ UNCHANGED <<sentFor, conn, up, dirty, force, print, owner, jobs, relayVars, hostVars, strayed>>

TimerFires ==
  /\ timer
  /\ timer' = FALSE
  /\ IF up THEN Publish(conn, FALSE) ELSE UNCHANGED <<dirty, force, owner, jobs>>
  /\ UNCHANGED <<mine, image, portraits, sentFor, conn, up, print, acts, relayVars, hostVars, strayed>>

\* resyncSharedData up to the publication.
UserResyncs ==
  /\ Acts /\ up
  /\ portraits' = [i \in Id |-> 0]
  /\ Publish(conn, TRUE)
  /\ UNCHANGED <<mine, image, sentFor, conn, up, print, timer, relayVars, hostVars, strayed>>

\* #onLocalMessage: a turn carries the persona as it is, and what is missing in
\* it follows when the portrait has not been out.
UserSays ==
  /\ Acts /\ up
  /\ Sends("turn", Bare(0))
  /\ strayed' = TRUE
  /\ IF sentFor = mine.id THEN UNCHANGED jobs
     ELSE \E j \in Job : Idle(j) /\ Describes(j, "follow", conn, FALSE)
  /\ UNCHANGED <<mine, image, portraits, sentFor, conn, up, dirty, force, print, owner, timer,
                 present, cached, down, hostVars>>

\* A connection is admitted: open() has forgotten the fingerprint, and the
\* persona is published whatever it is. The relay announces the newcomer. What an
\* earlier connection has sent is there by then, or never.
Connects ==
  /\ ~up /\ conn < MaxConn
  /\ \A c \in Conn : uplink[c] = <<>>
  /\ conn' = conn + 1 /\ up' = TRUE
  /\ print' = None
  /\ Publish(conn + 1, TRUE)
  /\ present' = present \cup {conn + 1}
  /\ down' = IF hostUp THEN Append(down, Roster(present')) ELSE down
  /\ UNCHANGED <<mine, image, portraits, sentFor, timer, acts, uplink, cached, hostVars, strayed>>

\* The close listener, or leave(): what it clears is clearPersonas of chat.js.
\* The last frames may be lost.
Disconnects ==
  /\ Acts /\ up
  /\ up' = FALSE
  /\ portraits' = [i \in Id |-> 0] /\ sentFor' = None
  /\ \E n \in 0..Len(uplink[conn]) : uplink' = [uplink EXCEPT ![conn] = SubSeq(@, 1, n)]
  /\ UNCHANGED <<mine, image, conn, dirty, force, print, owner, jobs, timer,
                 present, cached, down, hostVars, strayed>>

-------------------------------------------------------------------------------
(* The relay *)

\* #onPersona keeps the last one; a turn is only passed on.
RelayPasses(c) ==
  /\ c \in present /\ uplink[c] # <<>>
  /\ LET f == Head(uplink[c])
     IN  /\ uplink' = [uplink EXCEPT ![c] = Tail(@)]
         /\ cached' = IF f.op = "persona" THEN [cached EXCEPT ![c] = f] ELSE cached
         /\ down' = IF hostUp THEN Append(down, f) ELSE down
  /\ UNCHANGED <<playerVars, present, hostVars, strayed>>

\* The relay notices that a connection is gone, maybe after the next has come.
RelayMisses(c) ==
  /\ c \in present /\ ~(up /\ c = conn)
  /\ present' = present \ {c}
  /\ uplink' = [uplink EXCEPT ![c] = <<>>]
  /\ cached' = [cached EXCEPT ![c] = None]
  /\ down' = IF hostUp THEN down \o <<[op |-> "leave", from |-> c], Roster(present')>> ELSE down
  /\ UNCHANGED <<playerVars, hostVars, strayed>>

-------------------------------------------------------------------------------
(* The host *)

\* Mutant: a portrait outlives the persona it belongs to.
RemembersOnly(c, f) ==
  [q \in Conn |->
     IF q = c
     THEN [id |-> f.id, text |-> f.text,
           face |-> IF f.face # 0 THEN <<f.id, f.face>>
                    ELSE IF personas[c] # None THEN personas[c].face ELSE None]
     ELSE IF personas[q] # None /\ personas[q].id = f.id THEN None ELSE personas[q]]

\* rememberPersona: what is missing is kept, from the same persona only, and
\* another connection's entry of the same persona goes.
Remembers(c, f) ==
  [q \in Conn |->
     IF q = c
     THEN [id |-> f.id, text |-> f.text,
           face |-> IF f.face # 0 THEN <<f.id, f.face>>
                    ELSE IF personas[c] # None /\ personas[c].id = f.id THEN personas[c].face
                    ELSE None]
     ELSE IF personas[q] # None /\ personas[q].id = f.id THEN None ELSE personas[q]]

\* forgetPersona and retainPeers. When an entry goes, so does the injection.
Keeps(S) ==
  /\ personas' = [c \in Conn |-> IF c \in S THEN personas[c] ELSE None]
  /\ prompt' = IF personas' = personas THEN prompt ELSE {}

\* #route of the host: a turn is of interest only in the room's chat.
HostHears ==
  /\ hostUp /\ down # <<>>
  /\ down' = Tail(down)
  /\ LET f == Head(down)
     IN  \/ /\ f.op = "persona" \/ (f.op = "turn" /\ inRoom)
            /\ personas' = Remembers(f.from, f.persona)
            /\ UNCHANGED prompt
         \/ f.op = "turn" /\ ~inRoom /\ UNCHANGED <<personas, prompt>>
         \/ f.op = "leave" /\ Keeps(Conn \ {f.from})
         \/ f.op = "roster" /\ Keeps(f.peers)
  /\ UNCHANGED <<playerVars, uplink, present, cached, hostUp, inRoom, outside, strayed>>

\* Mutant: the personas are cleared, what was injected is not.
ClearsMemory == personas' = [c \in Conn |-> None] /\ UNCHANGED prompt

\* clearPersonas, when the connection ends.
Clears == personas' = [c \in Conn |-> None] /\ prompt' = {}

HostLoses ==
  /\ Acts /\ hostUp
  /\ hostUp' = FALSE /\ down' = <<>>
  /\ Clears
  /\ UNCHANGED <<mine, image, portraits, sentFor, conn, up, dirty, force, print, owner, jobs,
                 timer, uplink, present, cached, inRoom, outside, strayed>>

\* #admit gives a newcomer the personas of the others, the older first.
HostReturns ==
  /\ ~hostUp
  /\ hostUp' = TRUE
  /\ \E n \in 0..MaxConn : \E order \in [1..n -> Conn] :
       /\ {order[i] : i \in 1..n} = {c \in Conn : cached[c] # None}
       /\ \A i, k \in 1..n : i < k => order[i] < order[k]
       /\ down' = Append([i \in 1..n |-> cached[order[i]]], Roster(present))
  /\ UNCHANGED <<playerVars, uplink, present, cached, inRoom, personas, prompt, outside, strayed>>

\* The host's user opens another chat, or the room's again.
HostMoves ==
  /\ Acts
  /\ inRoom' = ~inRoom
  /\ UNCHANGED <<mine, image, portraits, sentFor, conn, up, dirty, force, print, owner, jobs,
                 timer, relayVars, hostUp, personas, prompt, outside, strayed>>

\* injectPersonas, of the others, when there are any.
Injected == {c \in Conn : personas[c] # None}

\* stmpGenerateInterceptor, and the generation that follows. Off line it leaves
\* the prompt as it is.
HostGenerates ==
  /\ prompt' = IF ~hostUp THEN prompt ELSE IF inRoom THEN Injected ELSE {}
  /\ outside' = IF hostUp /\ inRoom THEN outside ELSE prompt'
  /\ UNCHANGED <<playerVars, relayVars, hostUp, inRoom, personas, strayed>>

-------------------------------------------------------------------------------
Describing(j) ==
  Captures(j) \/ Fetched(j) \/ Captured(j) \/ Hashed(j) \/ Sent(j) \/ Follows(j)

Next ==
  \/ \E j \in Job : Describing(j)
  \/ UserEdits \/ TimerFires \/ UserResyncs \/ UserSays \/ Connects \/ Disconnects
  \/ \E c \in Conn : RelayPasses(c) \/ RelayMisses(c)
  \/ HostHears \/ HostLoses \/ HostReturns \/ HostMoves \/ HostGenerates

Spec == Init /\ [][Next]_vars

-------------------------------------------------------------------------------
(* Properties *)

Quiet ==
  /\ up /\ hostUp /\ ~timer /\ \A j \in Job : Idle(j)
  /\ down = <<>> /\ \A c \in Conn : uplink[c] = <<>>

\* "So the roster stays truthful without anyone having to send a message first"
\* (lib/session.js:820): when nothing is under way the host knows the persona the
\* player has chosen, whatever changed at which await of publishPersona and
\* however often either was connected - unless a turn's persona, which
\* publishPersona knows nothing of, was sent after the last it published.
RoomSeesMe ==
  Quiet /\ ~strayed =>
    personas[conn] # None /\ personas[conn].id = mine.id /\ personas[conn].text = mine.text

\* "Everyone still wore the host's face" (lib/chat.js:777): a remembered portrait
\* is one of the persona that is remembered with it, and one persona has one
\* entry, whatever turns, publications and reconnections have brought.
FaceBelongs ==
  \A c \in Conn : personas[c] # None =>
    /\ personas[c].face # None => personas[c].face[1] = personas[c].id
    /\ \A q \in Conn \ {c} : personas[q] # None => personas[q].id # personas[c].id

\* "So it cannot bleed into unrelated chats" (lib/chat.js:948): a generation
\* outside the room's chat, or off line, is told of nobody.
PromptStaysInRoom == outside = {}
=============================================================================
