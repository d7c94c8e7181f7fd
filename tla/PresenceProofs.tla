--------------------------- MODULE PresenceProofs ---------------------------
(* Theorems about Presence, for every set of personas, texts and connections *)
(* and any number of images, calls and changes.                              *)
EXTENDS Presence, TLAPS, SequenceTheorems

-----------------------------------------------------------------------------
(* What the host remembers *)

\* What a frame leaves behind, whatever it says and whoever sent it.
LEMMA Merged ==
  ASSUME FaceBelongs, NEW c, NEW f, personas' = Remembers(c, f)
  PROVE  FaceBelongs'
<1>1. \A q \in Conn : q # c /\ personas'[q] # None => personas'[q] = personas[q] /\ personas[q].id # f.id
  BY DEF Remembers
<1>2. ASSUME c \in Conn
      PROVE  /\ personas'[c].id = f.id
             /\ personas'[c].face # None => personas'[c].face[1] = f.id
  <2>1. personas'[c] = [id |-> f.id, text |-> f.text,
                        face |-> IF f.face # 0 THEN <<f.id, f.face>>
                                 ELSE IF personas[c] # None /\ personas[c].id = f.id THEN personas[c].face
                                 ELSE None]
    BY <1>2 DEF Remembers
  <2>2. CASE f.face # 0
    BY <2>1, <2>2
  <2>3. CASE f.face = 0
    BY <1>2, <2>1, <2>3 DEF FaceBelongs
  <2>4. QED
    BY <2>1, <2>2, <2>3
<1>3. ASSUME NEW a \in Conn, personas'[a] # None
      PROVE  personas'[a].face # None => personas'[a].face[1] = personas'[a].id
  BY <1>1, <1>2, <1>3 DEF FaceBelongs
<1>4. ASSUME NEW a \in Conn, personas'[a] # None, NEW q \in Conn \ {a}, personas'[q] # None
      PROVE  personas'[q].id # personas'[a].id
  BY <1>1, <1>2, <1>4 DEF FaceBelongs
<1>5. QED
  BY <1>3, <1>4 DEF FaceBelongs

\* Those who have gone are forgotten, and nothing else.
LEMMA Thinned ==
  ASSUME FaceBelongs, NEW S, Keeps(S)
  PROVE  FaceBelongs'
<1>1. \A q \in Conn : personas'[q] = personas[q] \/ personas'[q] = None
  BY DEF Keeps
<1>2. QED
  BY <1>1 DEF FaceBelongs

LEMMA FaceStep == ASSUME FaceBelongs, [Next]_vars PROVE FaceBelongs'
<1>1. CASE UNCHANGED personas
  BY <1>1 DEF FaceBelongs
<1>2. CASE HostHears
  BY <1>1, <1>2, Merged, Thinned DEF HostHears
<1>3. CASE HostLoses
  BY <1>3 DEF HostLoses, Clears, FaceBelongs
<1>4. QED
  BY <1>1, <1>2, <1>3
     DEF Next, Describing, vars, playerVars, hostVars, relayVars, Captures, Fetched, Captured, Hashed,
         Sent, Follows, UserEdits, TimerFires, UserResyncs, UserSays, Connects, Disconnects,
         RelayPasses, RelayMisses, HostReturns, HostMoves, HostGenerates

\* No remembered persona wears another one's portrait, and none is there twice:
\* rememberPersona.
THEOREM NobodyWearsAnothersFace == Spec => []FaceBelongs
<1>1. Init => FaceBelongs
  BY DEF Init, FaceBelongs
<1>2. QED
  BY <1>1, FaceStep, PTL DEF Spec

-----------------------------------------------------------------------------
(* What is in the prompt *)

\* A host that is not connected has nothing injected: why a generation off line,
\* which the interceptor leaves alone, is told of nobody.
Bared == (hostUp \in BOOLEAN) /\ (~hostUp => prompt = {}) /\ PromptStaysInRoom

LEMMA BaredStep == ASSUME Bared, [Next]_vars PROVE Bared'
<1>1. CASE UNCHANGED <<hostUp, prompt, outside>>
  BY <1>1 DEF Bared, PromptStaysInRoom
<1>2. CASE HostHears
  BY <1>2 DEF HostHears, Bared, PromptStaysInRoom
<1>3. CASE HostLoses
  BY <1>3 DEF HostLoses, Clears, Bared, PromptStaysInRoom
<1>4. CASE HostReturns
  BY <1>4 DEF HostReturns, Bared, PromptStaysInRoom
<1>5. CASE HostGenerates
  BY <1>5 DEF HostGenerates, Bared, PromptStaysInRoom
<1>6. QED
  BY <1>1, <1>2, <1>3, <1>4, <1>5
     DEF Next, Describing, vars, playerVars, hostVars, relayVars, Captures, Fetched, Captured, Hashed,
         Sent, Follows, UserEdits, TimerFires, UserResyncs, UserSays, Connects, Disconnects,
         RelayPasses, RelayMisses, HostMoves

\* Nothing that was injected for the room is in the prompt of another chat, on
\* line or off: stmpGenerateInterceptor and clearPersonas.
THEOREM OtherChatsAreNotTold == Spec => []PromptStaysInRoom
<1>1. Init => Bared
  BY DEF Init, Bared, PromptStaysInRoom
<1>2. Bared => PromptStaysInRoom
  BY DEF Bared
<1>3. QED
  BY <1>1, <1>2, BaredStep, PTL DEF Spec

-----------------------------------------------------------------------------
(* Types *)

\* What the assumptions on the constants come to in the proofs.
LEMMA Constants ==
  /\ Id # {} /\ Text # {}
  /\ MaxImages \in Nat \ {0} /\ MaxConn \in Nat \ {0} /\ MaxActs \in Nat
  /\ None \notin Id /\ None \notin Job /\ None \notin Persona /\ None \notin Memory /\ None \notin Frame
  BY PresenceAssumption DEF PresenceAssumption

\* A slot that is free holds a call of the right type.
LEMMA NoCallTyped == NoCall \in Call /\ NoCall.pc = "idle" /\ NoCall.conn = 0
<1>1. PICK i \in Id, t \in Text : TRUE
  BY Constants
<1>2. [id |-> i, text |-> t, face |-> 0, full |-> FALSE] \in Persona
  BY <1>1, Constants DEF Persona, Version
<1>3. \E s \in Persona : s.face = 0 /\ ~s.full
  BY <1>2
<1>4. (CHOOSE s \in Persona : s.face = 0 /\ ~s.full) \in Persona
  BY <1>3
<1>5. QED
  BY <1>4 DEF NoCall, Call

\* What describeLocalPersona reads first is a persona.
LEMMA BareTyped == ASSUME PlayerOK PROVE Bare(0) \in Persona
  BY Constants DEF PlayerOK, Bare, Persona, Version

\* A call that begins.
LEMMA Described ==
  ASSUME PlayerOK, NEW j \in Job, NEW what \in {"publish", "follow"}, NEW c \in Conn \cup {0},
         NEW forced \in BOOLEAN, Describes(j, what, c, forced)
  PROVE  /\ jobs' \in [Job -> Call]
         /\ \A k \in Job \ {j} : jobs'[k] = jobs[k]
         /\ jobs'[j].what = what /\ jobs'[j].pc = "lore" /\ jobs'[j].conn = c
         /\ jobs'[j].forced = forced /\ jobs'[j].said = Bare(0)
<1> DEFINE call == [what |-> what, pc |-> "lore", conn |-> c, forced |-> forced, said |-> Bare(0)]
<1>1. call \in Call
  BY BareTyped DEF Call
<1>2. jobs' = [jobs EXCEPT ![j] = call] /\ jobs \in [Job -> Call]
  BY DEF Describes, PlayerOK
<1>3. QED
  BY <1>1, <1>2

\* A call that ends frees its slot, and lets go of the publication if it was its.
LEMMA Ended ==
  ASSUME PlayerOK, NEW j \in Job, Ends(j)
  PROVE  /\ jobs' \in [Job -> Call] /\ owner' \in Job \cup {None}
         /\ \A k \in Job \ {j} : jobs'[k] = jobs[k]
         /\ jobs'[j] = NoCall
         /\ owner' = IF owner = j THEN None ELSE owner
         /\ UNCHANGED <<dirty, force>>
  BY NoCallTyped DEF Ends, PlayerOK

\* publishPersona keeps the types.
LEMMA PublishTyped ==
  ASSUME PlayerOK, NEW c \in Conn, NEW forced \in BOOLEAN, Publish(c, forced)
  PROVE  /\ jobs' \in [Job -> Call] /\ owner' \in Job \cup {None}
         /\ dirty' \in BOOLEAN /\ force' \in BOOLEAN
<1>1. CASE UnderWay(c)
  BY <1>1 DEF Publish, PlayerOK
<1>2. CASE ~UnderWay(c)
  <2>1. PICK j \in Job : /\ Describes(j, "publish", c, force \/ forced)
                         /\ owner' = j /\ dirty' = FALSE /\ force' = FALSE
    BY <1>2 DEF Publish
  <2>2. (force \/ forced) \in BOOLEAN
    BY DEF PlayerOK
  <2>3. jobs' \in [Job -> Call]
    BY <2>1, <2>2, Described
  <2>4. QED
    BY <2>1, <2>3
<1>3. QED
  BY <1>1, <1>2

\* So does the second round of a job that has been noted to.
LEMMA RepeatsTyped ==
  ASSUME PlayerOK, NEW j \in Job, Repeats(j)
  PROVE  /\ jobs' \in [Job -> Call] /\ owner' \in Job \cup {None}
         /\ dirty' \in BOOLEAN /\ force' \in BOOLEAN
<1>1. CASE dirty /\ IsCurrent(j)
  <2>1. conn \in Conn \cup {0} /\ force \in BOOLEAN
    BY DEF PlayerOK, Conn
  <2>2. QED
    BY <1>1, <2>1, Described DEF Repeats, PlayerOK
<1>2. CASE ~(dirty /\ IsCurrent(j))
  BY <1>2, Ended DEF Repeats, PlayerOK
<1>3. QED
  BY <1>1, <1>2

\* A call whose place or words change stays a call.
LEMMA CallKept ==
  ASSUME NEW call \in Call
  PROVE  /\ \A p \in {"lore", "portrait", "decoding", "hash", "sending"} :
              /\ [call EXCEPT !.pc = p] \in Call
              /\ \A v \in Version : [call EXCEPT !.pc = p, !.said.face = v] \in Call
         /\ \A s \in Persona : [call EXCEPT !.pc = "sending", !.said = s] \in Call
<1>1. call.said \in Persona
  BY DEF Call
<1>2. \A v \in Version : [call.said EXCEPT !.face = v] \in Persona
  BY <1>1 DEF Persona
<1>3. QED
  BY <1>1, <1>2 DEF Call

\* A step of describeLocalPersona towards the fingerprint.
LEMMA Goes ==
  ASSUME PlayerOK, NEW j \in Job, Captures(j) \/ Fetched(j) \/ Captured(j)
  PROVE  /\ jobs' \in [Job -> Call]
         /\ \A k \in Job \ {j} : jobs'[k] = jobs[k]
         /\ jobs[j].pc \in {"lore", "portrait", "decoding"} /\ jobs'[j].pc \in {"portrait", "decoding", "hash"}
         /\ jobs'[j].what = jobs[j].what /\ jobs'[j].conn = jobs[j].conn
         /\ jobs'[j].said.id = jobs[j].said.id /\ jobs'[j].said.text = jobs[j].said.text
<1> DEFINE call == jobs[j]
<1>1. jobs \in [Job -> Call] /\ call \in Call /\ call.said.id \in Id /\ call.said \in Persona
  BY DEF PlayerOK, Call, Persona
<1>2. \E p \in {"portrait", "decoding", "hash"} :
        \/ jobs' = [jobs EXCEPT ![j].pc = p]
        \/ \E v \in Version : jobs' = [jobs EXCEPT ![j].pc = p, ![j].said.face = v]
  <2>1. portraits[call.said.id] \in Version /\ image[call.said.id] \in Version
    BY <1>1, Constants DEF PlayerOK, Version
  <2>2. QED
    BY <2>1 DEF Captures, Fetched, Captured
<1>3. jobs[j].pc \in {"lore", "portrait", "decoding"}
  BY DEF Captures, Fetched, Captured
<1>4. ASSUME NEW p \in {"portrait", "decoding", "hash"}, jobs' = [jobs EXCEPT ![j].pc = p]
      PROVE  /\ jobs' \in [Job -> Call] /\ \A k \in Job \ {j} : jobs'[k] = jobs[k]
             /\ jobs'[j] = [call EXCEPT !.pc = p]
  BY <1>1, <1>4, CallKept
<1>5. ASSUME NEW p \in {"portrait", "decoding", "hash"}, NEW v \in Version,
             jobs' = [jobs EXCEPT ![j].pc = p, ![j].said.face = v]
      PROVE  /\ jobs' \in [Job -> Call] /\ \A k \in Job \ {j} : jobs'[k] = jobs[k]
             /\ jobs'[j] = [call EXCEPT !.pc = p, !.said.face = v]
  <2>1. [call EXCEPT !.pc = p, !.said.face = v] \in Call
    BY <1>1, CallKept
  <2>2. jobs' = [jobs EXCEPT ![j] = [call EXCEPT !.pc = p, !.said.face = v]]
    BY <1>1, <1>5
  <2>3. QED
    BY <1>1, <2>1, <2>2
<1>6. ASSUME NEW p \in {"portrait", "decoding", "hash"},
             \/ jobs'[j] = [call EXCEPT !.pc = p]
             \/ \E v \in Version : jobs'[j] = [call EXCEPT !.pc = p, !.said.face = v]
      PROVE  /\ jobs'[j].pc = p /\ jobs'[j].what = call.what /\ jobs'[j].conn = call.conn
             /\ jobs'[j].said.id = call.said.id /\ jobs'[j].said.text = call.said.text
  <2>1. CASE jobs'[j] = [call EXCEPT !.pc = p]
    BY <1>1, <2>1 DEF Call
  <2>2. ASSUME NEW v \in Version, jobs'[j] = [call EXCEPT !.pc = p, !.said.face = v]
        PROVE  /\ jobs'[j].pc = p /\ jobs'[j].what = call.what /\ jobs'[j].conn = call.conn
               /\ jobs'[j].said.id = call.said.id /\ jobs'[j].said.text = call.said.text
    <3>1. jobs'[j].pc = p /\ jobs'[j].what = call.what /\ jobs'[j].conn = call.conn
      BY <1>1, <2>2 DEF Call
    <3>2. jobs'[j].said = [call.said EXCEPT !.face = v]
      BY <1>1, <2>2 DEF Call
    <3>3. QED
      BY <1>1, <3>1, <3>2 DEF Persona
  <2>3. QED
    BY <1>6, <2>1, <2>2
<1>7. PICK p \in {"portrait", "decoding", "hash"} :
        \/ jobs' = [jobs EXCEPT ![j].pc = p]
        \/ \E v \in Version : jobs' = [jobs EXCEPT ![j].pc = p, ![j].said.face = v]
  BY <1>2
<1>8. /\ jobs' \in [Job -> Call] /\ \A k \in Job \ {j} : jobs'[k] = jobs[k]
      /\ \/ jobs'[j] = [call EXCEPT !.pc = p]
         \/ \E v \in Version : jobs'[j] = [call EXCEPT !.pc = p, !.said.face = v]
  BY <1>4, <1>5, <1>7
<1>9. QED
  BY <1>3, <1>6, <1>8

-----------------------------------------------------------------------------
(* The inductive invariant *)

Says(p, q) == p.id = q.id /\ p.text = q.text

\* The publications of the present connection are one job, which owns the notes.
OneJob ==
  /\ \A j \in Job : jobs[j].conn <= conn
  /\ owner # None => jobs[owner].what = "publish" /\ ~Idle(owner)
  /\ \A j \in Job : ~Idle(j) /\ jobs[j].what = "publish" /\ jobs[j].conn = conn => owner = j
  /\ \A j \in Job : jobs[j].pc = "sending" => jobs[j].what = "publish"
  /\ up => conn > 0

\* What the room has been told is the persona of the moment, or something is under
\* way that will tell it.
Known ==
  up => \/ timer
        \/ UnderWay(conn) /\ (dirty \/ Says(jobs[owner].said, mine))
        \/ ~UnderWay(conn) /\ print # None /\ Says(print, mine)

\* Frames are their connection's, and none of an earlier one is still to come.
Routed ==
  /\ \A c \in Conn : c # conn => uplink[c] = <<>>
  /\ \A c \in Conn : \A i \in DOMAIN uplink[c] : uplink[c][i].from = c
  /\ \A c \in Conn : cached[c] # None => cached[c].op = "persona" /\ cached[c].from = c /\ c <= conn
  /\ up => conn \in present

\* News that leaves the host what it knows of the present connection.
Harmless(f) == (f.op = "leave" /\ f.from # conn) \/ (f.op = "roster" /\ conn \in f.peers)

Tells(f, p) == f.op = "persona" /\ f.from = conn /\ Says(f.persona, p)

HostWillKnow(p) ==
  \/ personas[conn] # None /\ Says(personas[conn], p) /\ \A k \in DOMAIN down : Harmless(down[k])
  \/ \E i \in DOMAIN down : Tells(down[i], p) /\ \A k \in DOMAIN down : k > i => Harmless(down[k])

\* What publishPersona has sent last, its fingerprint noted or not yet.
LastSaid == IF UnderWay(conn) /\ jobs[owner].pc = "sending" THEN jobs[owner].said ELSE print

\* Wherever it is, on its way or at the relay, nothing behind it undoes it.
OnItsWay(p) ==
  IF uplink[conn] = <<>>
  THEN cached[conn] # None /\ Tells(cached[conn], p) /\ (hostUp => HostWillKnow(p))
  ELSE Tells(uplink[conn][Len(uplink[conn])], p)

Followed == up /\ ~strayed /\ LastSaid # None => OnItsWay(LastSaid)

IInv == TypeOK /\ OneJob /\ Known /\ Routed /\ Followed

\* A frame the player sends goes behind those before it.
LEMMA SendsTyped ==
  ASSUME TypeOK, conn \in Conn, NEW op \in {"persona", "turn"}, NEW persona \in Persona, Sends(op, persona)
  PROVE  /\ uplink' \in [Conn -> Seq(Frame)]
         /\ uplink'[conn] = Append(uplink[conn], [op |-> op, from |-> conn, persona |-> persona])
         /\ \A c \in Conn \ {conn} : uplink'[c] = uplink[c]
<1> DEFINE f == [op |-> op, from |-> conn, persona |-> persona]
<1>1. f \in Frame
  BY DEF Frame
<1>2. uplink \in [Conn -> Seq(Frame)] /\ uplink[conn] \in Seq(Frame)
  BY DEF TypeOK, RelayOK
<1>3. Append(uplink[conn], f) \in Seq(Frame)
  BY <1>1, <1>2
<1>4. uplink' = [uplink EXCEPT ![conn] = Append(uplink[conn], f)]
  BY DEF Sends
<1>5. QED
  BY <1>2, <1>3, <1>4

\* What the host remembers of a frame has the frame's words.
LEMMA RemembersTyped ==
  ASSUME TypeOK, NEW c \in Conn, NEW f \in Persona
  PROVE  /\ Remembers(c, f) \in [Conn -> Memory \cup {None}]
         /\ Remembers(c, f)[c] # None /\ Says(Remembers(c, f)[c], f)
<1>1. personas \in [Conn -> Memory \cup {None}]
  BY DEF TypeOK, HostOK
<1> DEFINE face == IF f.face # 0 THEN <<f.id, f.face>>
                   ELSE IF personas[c] # None /\ personas[c].id = f.id THEN personas[c].face
                   ELSE None
           entry == [id |-> f.id, text |-> f.text, face |-> face]
<1>2. face \in {None} \cup (Id \X Version)
  BY <1>1 DEF Persona, Memory
<1>3. entry \in Memory
  BY <1>2 DEF Persona, Memory
<1>4. Remembers(c, f) = [q \in Conn |->
        IF q = c THEN entry
        ELSE IF personas[q] # None /\ personas[q].id = f.id THEN None ELSE personas[q]]
  BY DEF Remembers
<1> HIDE DEF entry
<1>5. Remembers(c, f)[c] = entry
  BY <1>4
<1>6. Remembers(c, f) \in [Conn -> Memory \cup {None}]
  BY <1>1, <1>3, <1>4
<1>7. entry.id = f.id /\ entry.text = f.text
  BY DEF entry
<1>8. QED
  BY <1>3, <1>5, <1>6, <1>7, Constants DEF Says

LEMMA TypeStep ==
  ASSUME TypeOK, OneJob, Next
  PROVE  TypeOK'
<1>1. PlayerOK /\ RelayOK /\ HostOK
  BY DEF TypeOK
<1>2. ASSUME UNCHANGED <<relayVars, hostVars, strayed>>, PlayerOK' PROVE TypeOK'
  BY <1>1, <1>2 DEF TypeOK, RelayOK, HostOK, relayVars, hostVars
<1>3. up => conn \in Conn
  BY <1>1 DEF OneJob, PlayerOK, Conn
<1>4. acts' = acts \/ Acts => acts' \in 0..MaxActs
  BY <1>1, Constants DEF Acts, PlayerOK
<1>5. ASSUME NEW j \in Job, Captures(j) \/ Fetched(j) \/ Captured(j)
      PROVE  TypeOK'
  <2>1. jobs' \in [Job -> Call] /\ jobs[j].said.id \in Id /\ jobs[j].said.face \in Version
    BY <1>1, <1>5, Goes DEF PlayerOK, Call, Persona
  <2>2. sentFor' \in Id \cup {None} /\ portraits' \in [Id -> Version] /\ acts' \in 0..MaxActs
    BY <1>1, <1>4, <1>5, <2>1 DEF PlayerOK, Captures, Fetched, Captured
  <2>3. UNCHANGED <<mine, image, conn, up, dirty, force, print, owner, timer, relayVars, hostVars, strayed>>
    BY <1>5 DEF Captures, Fetched, Captured
  <2>4. QED
    BY <1>1, <1>2, <2>1, <2>2, <2>3 DEF PlayerOK
<1>6. ASSUME NEW j \in Job, Hashed(j) PROVE TypeOK'
  <2> DEFINE said == [jobs[j].said EXCEPT !.full = TRUE]
  <2>1. said \in Persona /\ jobs[j] \in Call /\ jobs \in [Job -> Call]
    <3>1. jobs[j] \in Call /\ jobs \in [Job -> Call]
      BY <1>1 DEF PlayerOK
    <3>2. jobs[j].said \in Persona
      BY <3>1 DEF Call
    <3>3. QED
      BY <3>1, <3>2 DEF Persona
  <2>2. UNCHANGED <<mine, image, portraits, sentFor, conn, up, print, timer, acts, present, cached, down, hostVars>>
    BY <1>6 DEF Hashed
  <2>3. CASE (Ends(j) \/ Repeats(j)) /\ UNCHANGED <<uplink, strayed>>
    BY <1>1, <1>2, <2>2, <2>3, Ended, RepeatsTyped DEF PlayerOK, relayVars
  <2>4. CASE /\ IsCurrent(j) /\ Sends("persona", said) /\ strayed' = FALSE
             /\ jobs' = [jobs EXCEPT ![j].pc = "sending", ![j].said = said]
             /\ UNCHANGED <<dirty, force, owner>>
    <3>1. uplink' \in [Conn -> Seq(Frame)]
      BY <1>3, <2>1, <2>4, SendsTyped DEF IsCurrent
    <3>2. [jobs[j] EXCEPT !.pc = "sending", !.said = said] \in Call
      BY <2>1, CallKept
    <3>3. jobs' = [jobs EXCEPT ![j] = [jobs[j] EXCEPT !.pc = "sending", !.said = said]]
      BY <2>1, <2>4
    <3>4. jobs' \in [Job -> Call]
      BY <2>1, <3>2, <3>3
    <3>5. QED
      BY <1>1, <2>2, <2>4, <3>1, <3>4 DEF TypeOK, PlayerOK, RelayOK, HostOK, hostVars
  <2>5. QED
    BY <1>6, <2>3, <2>4 DEF Hashed
<1>7. ASSUME NEW j \in Job, Sent(j) PROVE TypeOK'
  <2>1. /\ UNCHANGED <<mine, image, portraits, sentFor, conn, up, timer, acts, relayVars, hostVars, strayed>>
        /\ jobs[j].said \in Persona
    BY <1>1, <1>7 DEF Sent, PlayerOK, Call
  <2>2. print' \in Persona \cup {None} /\ (Repeats(j) \/ Ends(j))
    BY <1>1, <1>7, <2>1 DEF Sent, PlayerOK
  <2>3. QED
    BY <1>1, <1>2, <2>1, <2>2, Ended, RepeatsTyped DEF PlayerOK
<1>8. ASSUME NEW j \in Job, Follows(j) PROVE TypeOK'
  <2>1. /\ UNCHANGED <<mine, image, portraits, sentFor, conn, up, print, timer, acts, present, cached, down, hostVars>>
        /\ jobs[j].said \in Persona /\ Ends(j)
    BY <1>1, <1>8 DEF Follows, PlayerOK, Call
  <2>2. uplink' \in [Conn -> Seq(Frame)] /\ strayed' \in BOOLEAN
    BY <1>1, <1>3, <1>8, <2>1, SendsTyped DEF Follows, RelayOK, HostOK
  <2>3. QED
    BY <1>1, <2>1, <2>2, Ended DEF TypeOK, PlayerOK, RelayOK, HostOK, hostVars
<1>9. CASE UserEdits
  <2>1. /\ mine' \in [id : Id, text : Text]
        /\ image' \in [Id -> 1..MaxImages] /\ portraits' \in [Id -> Version]
    <3>1. mine.id \in Id /\ image[mine.id] \in 1..MaxImages
      BY <1>1 DEF PlayerOK
    <3>2. QED
      BY <1>1, <1>9, <3>1, Constants DEF UserEdits, PlayerOK, Version
  <2>2. acts' \in 0..MaxActs /\ timer' \in BOOLEAN
    BY <1>4, <1>9 DEF UserEdits
  <2>3. UNCHANGED <<sentFor, conn, up, dirty, force, print, owner, jobs, relayVars, hostVars, strayed>>
    BY <1>9 DEF UserEdits
  <2>4. QED
    BY <1>1, <1>2, <2>1, <2>2, <2>3 DEF PlayerOK
<1>10. CASE TimerFires
  <2>1. /\ UNCHANGED <<mine, image, portraits, sentFor, conn, up, print, acts, relayVars, hostVars, strayed>>
        /\ timer' \in BOOLEAN
    BY <1>10 DEF TimerFires
  <2>2. /\ jobs' \in [Job -> Call] /\ owner' \in Job \cup {None}
        /\ dirty' \in BOOLEAN /\ force' \in BOOLEAN
    BY <1>1, <1>3, <1>10, PublishTyped DEF TimerFires, PlayerOK
  <2>3. QED
    BY <1>1, <1>2, <2>1, <2>2 DEF PlayerOK
<1>11. CASE UserResyncs
  <2>1. /\ UNCHANGED <<mine, image, sentFor, conn, up, print, timer, relayVars, hostVars, strayed>>
        /\ acts' \in 0..MaxActs /\ portraits' \in [Id -> Version]
    BY <1>4, <1>11, Constants DEF UserResyncs, Version
  <2>2. /\ jobs' \in [Job -> Call] /\ owner' \in Job \cup {None}
        /\ dirty' \in BOOLEAN /\ force' \in BOOLEAN
    BY <1>1, <1>3, <1>11, PublishTyped DEF UserResyncs
  <2>3. QED
    BY <1>1, <1>2, <2>1, <2>2 DEF PlayerOK
<1>12. CASE UserSays
  <2>1. /\ UNCHANGED <<mine, image, portraits, sentFor, conn, up, dirty, force, print, owner, timer,
                       present, cached, down, hostVars>>
        /\ acts' \in 0..MaxActs /\ strayed' \in BOOLEAN
    BY <1>4, <1>12 DEF UserSays
  <2>2. uplink' \in [Conn -> Seq(Frame)]
    BY <1>1, <1>3, <1>12, BareTyped, SendsTyped DEF UserSays
  <2>3. jobs' \in [Job -> Call]
    BY <1>1, <1>3, <1>12, Described DEF UserSays, PlayerOK
  <2>4. QED
    BY <1>1, <2>1, <2>2, <2>3 DEF TypeOK, PlayerOK, RelayOK, HostOK, hostVars
<1>13. CASE Connects
  <2>1. /\ UNCHANGED <<mine, image, portraits, sentFor, timer, acts, uplink, cached, hostVars, strayed>>
        /\ conn' = conn + 1 /\ conn' \in Conn /\ up' \in BOOLEAN /\ print' \in Persona \cup {None}
    BY <1>1, <1>13, Constants DEF Connects, PlayerOK, Conn
  <2>2. /\ jobs' \in [Job -> Call] /\ owner' \in Job \cup {None}
        /\ dirty' \in BOOLEAN /\ force' \in BOOLEAN
    BY <1>1, <1>13, <2>1, PublishTyped DEF Connects
  <2>3. present' \subseteq Conn
    BY <1>1, <1>13, <2>1 DEF Connects, RelayOK
  <2>4. down' \in Seq(News)
    <3>1. Roster(present') \in News
      BY <2>3 DEF Roster, News
    <3>2. QED
      BY <1>1, <1>13, <3>1 DEF Connects, RelayOK
  <2>5. QED
    BY <1>1, <2>1, <2>2, <2>3, <2>4 DEF TypeOK, PlayerOK, RelayOK, HostOK, hostVars, Conn
<1>14. CASE Disconnects
  <2>1. /\ UNCHANGED <<mine, image, conn, dirty, force, print, owner, jobs, timer,
                       present, cached, down, hostVars, strayed>>
        /\ up' \in BOOLEAN /\ acts' \in 0..MaxActs /\ sentFor' = None /\ portraits' \in [Id -> Version]
    <3>1. /\ UNCHANGED <<mine, image, conn, dirty, force, print, owner, jobs, timer,
                          present, cached, down, hostVars, strayed>>
          /\ Acts /\ up' = FALSE /\ sentFor' = None /\ portraits' = [i \in Id |-> 0]
      BY <1>14 DEF Disconnects
    <3>2. acts' \in 0..MaxActs /\ portraits' \in [Id -> Version]
      BY <1>4, <3>1, Constants DEF Version
    <3>3. QED
      BY <3>1, <3>2
  <2>2. uplink' \in [Conn -> Seq(Frame)]
    <3>1. uplink \in [Conn -> Seq(Frame)] /\ uplink[conn] \in Seq(Frame)
      BY <1>1, <1>3, <1>14 DEF RelayOK, Disconnects
    <3>2. PICK n \in 0..Len(uplink[conn]) : uplink' = [uplink EXCEPT ![conn] = SubSeq(uplink[conn], 1, n)]
      BY <1>14 DEF Disconnects
    <3>3. SubSeq(uplink[conn], 1, n) \in Seq(Frame)
      BY <3>1
    <3>4. QED
      BY <3>1, <3>2, <3>3
  <2>3. QED
    BY <1>1, <2>1, <2>2 DEF TypeOK, PlayerOK, RelayOK, HostOK, hostVars
<1>15. ASSUME NEW c \in Conn, RelayPasses(c) PROVE TypeOK'
  <2>1. uplink[c] \in Seq(Frame) /\ uplink[c] # <<>> /\ UNCHANGED <<playerVars, present, hostVars, strayed>>
    BY <1>1, <1>15 DEF RelayPasses, RelayOK
  <2>2. Head(uplink[c]) \in Frame /\ Head(uplink[c]) \in News /\ Tail(uplink[c]) \in Seq(Frame)
    BY <2>1 DEF News
  <2>3. uplink' \in [Conn -> Seq(Frame)] /\ cached' \in [Conn -> Frame \cup {None}] /\ down' \in Seq(News)
    BY <1>1, <1>15, <2>2 DEF RelayPasses, RelayOK
  <2>4. QED
    BY <1>1, <2>1, <2>3 DEF TypeOK, PlayerOK, RelayOK, HostOK, playerVars, hostVars
<1>16. ASSUME NEW c \in Conn, RelayMisses(c) PROVE TypeOK'
  <2>1. UNCHANGED <<playerVars, hostVars, strayed>> /\ present' \subseteq Conn
    BY <1>1, <1>16 DEF RelayMisses, RelayOK
  <2>2. [op |-> "leave", from |-> c] \in News /\ Roster(present') \in News
    BY <2>1 DEF News, Roster
  <2>3. <<[op |-> "leave", from |-> c], Roster(present')>> \in Seq(News)
    BY <2>2
  <2>4. down' \in Seq(News)
    BY <1>1, <1>16, <2>3 DEF RelayMisses, RelayOK
  <2>5. uplink' \in [Conn -> Seq(Frame)] /\ cached' \in [Conn -> Frame \cup {None}]
    BY <1>1, <1>16 DEF RelayMisses, RelayOK
  <2>6. QED
    BY <1>1, <2>1, <2>4, <2>5 DEF TypeOK, PlayerOK, RelayOK, HostOK, playerVars, hostVars
<1>17. CASE HostHears
  <2>1. down \in Seq(News) /\ down # <<>> /\ Head(down) \in News /\ Tail(down) \in Seq(News)
    BY <1>1, <1>17 DEF HostHears, RelayOK
  <2>2. UNCHANGED <<playerVars, uplink, present, cached, hostUp, inRoom, outside, strayed>> /\ down' = Tail(down)
    BY <1>17 DEF HostHears
  <2>3. personas' \in [Conn -> Memory \cup {None}] /\ prompt' \subseteq Conn
    <3>1. CASE /\ Head(down).op \in {"persona", "turn"} /\ UNCHANGED prompt
               /\ personas' = Remembers(Head(down).from, Head(down).persona)
      <4>1. Head(down) \in Frame
        BY <2>1, <3>1 DEF News
      <4>2. QED
        BY <1>1, <3>1, <4>1, RemembersTyped DEF Frame, HostOK
    <3>2. CASE UNCHANGED <<personas, prompt>>
      BY <1>1, <3>2 DEF HostOK
    <3>3. ASSUME NEW S, Keeps(S) PROVE personas' \in [Conn -> Memory \cup {None}] /\ prompt' \subseteq Conn
      BY <1>1, <3>3 DEF Keeps, HostOK
    <3>4. QED
      BY <1>17, <3>1, <3>2, <3>3 DEF HostHears
  <2>4. QED
    BY <1>1, <2>1, <2>2, <2>3 DEF TypeOK, PlayerOK, RelayOK, HostOK, playerVars
<1>18. CASE HostLoses
  <2>1. /\ acts' \in 0..MaxActs /\ down' \in Seq(News) /\ hostUp' \in BOOLEAN
        /\ personas' \in [Conn -> Memory \cup {None}] /\ prompt' \subseteq Conn
    <3>1. Acts /\ down' = <<>> /\ hostUp' = FALSE /\ personas' = [c \in Conn |-> None] /\ prompt' = {}
      BY <1>18 DEF HostLoses, Clears
    <3>2. acts' \in 0..MaxActs
      BY <1>4, <3>1
    <3>3. down' \in Seq(News)
      BY <3>1
    <3>4. personas' \in [Conn -> Memory \cup {None}]
      BY <3>1
    <3>5. QED
      BY <3>1, <3>2, <3>3, <3>4
  <2>2. UNCHANGED <<mine, image, portraits, sentFor, conn, up, dirty, force, print, owner, jobs,
                    timer, uplink, present, cached, inRoom, outside, strayed>>
    BY <1>18 DEF HostLoses
  <2>3. QED
    BY <1>1, <2>1, <2>2 DEF TypeOK, PlayerOK, RelayOK, HostOK
<1>19. CASE HostReturns
  <2>0. PICK n \in 0..MaxConn : \E order \in [1..n -> Conn] :
          /\ {order[i] : i \in 1..n} = {c \in Conn : cached[c] # None}
          /\ down' = Append([i \in 1..n |-> cached[order[i]]], Roster(present))
    BY <1>19 DEF HostReturns
  <2>1. PICK order \in [1..n -> Conn] :
          /\ {order[i] : i \in 1..n} = {c \in Conn : cached[c] # None}
          /\ down' = Append([i \in 1..n |-> cached[order[i]]], Roster(present))
    BY <2>0
  <2>2. \A i \in 1..n : cached[order[i]] \in News
    <3>1. \A i \in 1..n : order[i] \in Conn /\ cached[order[i]] # None
      BY <2>1
    <3>2. QED
      BY <1>1, <3>1 DEF RelayOK, News
  <2>3. [i \in 1..n |-> cached[order[i]]] \in Seq(News)
    BY <2>2
  <2>4. Roster(present) \in News
    BY <1>1 DEF RelayOK, Roster, News
  <2>5. down' \in Seq(News)
    BY <2>1, <2>3, <2>4
  <2>6. UNCHANGED <<playerVars, uplink, present, cached, inRoom, personas, prompt, outside, strayed>>
        /\ hostUp' \in BOOLEAN
    BY <1>19 DEF HostReturns
  <2>7. QED
    BY <1>1, <2>5, <2>6 DEF TypeOK, PlayerOK, RelayOK, HostOK, playerVars
<1>20. CASE HostMoves
  BY <1>1, <1>4, <1>20 DEF HostMoves, TypeOK, PlayerOK, RelayOK, HostOK, relayVars
<1>21. CASE HostGenerates
  <2>1. prompt' \subseteq Conn /\ outside' \subseteq Conn
    BY <1>1, <1>21 DEF HostGenerates, HostOK, Injected
  <2>2. QED
    BY <1>1, <1>21, <2>1 DEF HostGenerates, TypeOK, PlayerOK, RelayOK, HostOK, playerVars, relayVars
<1>22. QED
  BY <1>5, <1>6, <1>7, <1>8, <1>9, <1>10, <1>11, <1>12, <1>13, <1>14, <1>15, <1>16, <1>17, <1>18,
     <1>19, <1>20, <1>21 DEF Next, Describing

\* A publication is noted by the job under way, or begins one.
LEMMA Published ==
  ASSUME PlayerOK, NEW c \in Conn, NEW forced \in BOOLEAN, Publish(c, forced)
  PROVE  \/ UnderWay(c) /\ dirty' = TRUE /\ UNCHANGED <<owner, jobs>>
         \/ \E j \in Job :
              /\ ~UnderWay(c) /\ Idle(j) /\ owner' = j /\ owner' # None
              /\ \A k \in Job \ {j} : jobs'[k] = jobs[k]
              /\ jobs'[j].what = "publish" /\ jobs'[j].pc = "lore" /\ jobs'[j].conn = c
              /\ jobs'[j].said = Bare(0)
<1>1. CASE UnderWay(c)
  BY <1>1 DEF Publish
<1>2. CASE ~UnderWay(c)
  <2>1. PICK j \in Job : /\ Idle(j) /\ Describes(j, "publish", c, force \/ forced)
                         /\ owner' = j /\ dirty' = FALSE /\ force' = FALSE
    BY <1>2 DEF Publish
  <2>2. (force \/ forced) \in BOOLEAN
    BY DEF PlayerOK
  <2>3. /\ \A k \in Job \ {j} : jobs'[k] = jobs[k]
        /\ jobs'[j].what = "publish" /\ jobs'[j].pc = "lore" /\ jobs'[j].conn = c
        /\ jobs'[j].said = Bare(0)
    BY <2>1, <2>2, Described
  <2>4. QED
    BY <1>2, <2>1, <2>3, Constants
<1>3. QED
  BY <1>1, <1>2

\* A job that is done with a publication ends, or begins anew when it is the
\* present connection's and has been noted to.
LEMMA Repeated ==
  ASSUME PlayerOK, NEW j \in Job, Repeats(j)
  PROVE  \/ /\ dirty /\ IsCurrent(j) /\ UNCHANGED owner
            /\ \A k \in Job \ {j} : jobs'[k] = jobs[k]
            /\ jobs'[j].what = "publish" /\ jobs'[j].pc = "lore" /\ jobs'[j].conn = conn
            /\ jobs'[j].said = Bare(0)
         \/ ~(dirty /\ IsCurrent(j)) /\ Ends(j)
<1>1. CASE dirty /\ IsCurrent(j)
  <2>1. conn \in Conn \cup {0} /\ force \in BOOLEAN
    BY DEF PlayerOK, Conn
  <2>2. QED
    BY <1>1, <2>1, Described DEF Repeats
<1>2. CASE ~(dirty /\ IsCurrent(j))
  BY <1>2 DEF Repeats
<1>3. QED
  BY <1>1, <1>2

\* The frame goes out: the words of the call, its portrait final.
LEMMA Emitted ==
  ASSUME PlayerOK, NEW j \in Job, NEW said \in Persona,
         jobs' = [jobs EXCEPT ![j].pc = "sending", ![j].said = said]
  PROVE  /\ \A k \in Job \ {j} : jobs'[k] = jobs[k]
         /\ jobs'[j].what = jobs[j].what /\ jobs'[j].pc = "sending" /\ jobs'[j].conn = jobs[j].conn
         /\ jobs'[j].said = said
<1>1. jobs \in [Job -> Call] /\ jobs[j] \in Call
  BY DEF PlayerOK
<1>2. jobs'[j] = [jobs[j] EXCEPT !.pc = "sending", !.said = said]
  BY <1>1
<1>3. QED
  BY <1>1, <1>2 DEF Call

\* Filling in the portrait leaves a persona its words.
LEMMA Filled ==
  ASSUME PlayerOK, NEW j \in Job
  PROVE  /\ [jobs[j].said EXCEPT !.full = TRUE] \in Persona
         /\ Says([jobs[j].said EXCEPT !.full = TRUE], jobs[j].said)
         /\ [jobs[j].said EXCEPT !.full = TRUE] # None
<1>1. jobs[j] \in Call
  BY DEF PlayerOK
<1>2. jobs[j].said \in Persona
  BY <1>1 DEF Call
<1>3. QED
  BY <1>2, Constants DEF Persona, Says

\* There is one job per connection, whichever awaits interleave.
LEMMA OneJobStep ==
  ASSUME TypeOK, OneJob, Next
  PROVE  OneJob'
<1>1. /\ PlayerOK /\ conn \in Nat /\ (up => conn \in Conn) /\ jobs \in [Job -> Call]
      /\ owner \in Job \cup {None}
  BY Constants DEF TypeOK, OneJob, PlayerOK, Conn
<1>2. CASE UNCHANGED <<jobs, owner, conn, up>>
  BY <1>2 DEF OneJob, Idle
<1>3. ASSUME NEW j \in Job, Captures(j) \/ Fetched(j) \/ Captured(j)
      PROVE  OneJob'
  <2>1. UNCHANGED <<owner, conn, up>>
    BY <1>3 DEF Captures, Fetched, Captured
  <2>2. QED
    BY <1>1, <1>3, <2>1, Goes DEF OneJob, Idle
<1>4. ASSUME NEW j \in Job, Ends(j), UNCHANGED <<conn, up>> PROVE OneJob'
  BY <1>1, <1>4, Ended, NoCallTyped, Constants DEF OneJob, Idle
<1>5. ASSUME NEW j \in Job, Repeats(j), UNCHANGED <<conn, up>>, ~Idle(j), jobs[j].what = "publish"
      PROVE OneJob'
  <2>1. CASE Ends(j)
    BY <1>4, <1>5, <2>1
  <2>2. CASE ~Ends(j)
    <3>1. /\ IsCurrent(j) /\ UNCHANGED owner
          /\ \A k \in Job \ {j} : jobs'[k] = jobs[k]
          /\ jobs'[j].what = "publish" /\ jobs'[j].pc = "lore" /\ jobs'[j].conn = conn
      BY <1>1, <1>5, <2>2, Repeated
    <3>2. QED
      BY <1>1, <1>5, <3>1 DEF OneJob, Idle, IsCurrent
  <2>3. QED
    BY <2>1, <2>2
<1>6. ASSUME NEW j \in Job, Hashed(j) PROVE OneJob'
  <2>1. UNCHANGED <<conn, up>> /\ jobs[j].pc = "hash" /\ jobs[j].what = "publish"
    BY <1>6 DEF Hashed
  <2>2. CASE Ends(j) \/ Repeats(j)
    BY <1>4, <1>5, <2>1, <2>2 DEF Idle
  <2>3. CASE ~(Ends(j) \/ Repeats(j))
    <3>1. /\ jobs' = [jobs EXCEPT ![j].pc = "sending", ![j].said = [jobs[j].said EXCEPT !.full = TRUE]]
          /\ UNCHANGED owner
      BY <1>6, <2>3 DEF Hashed
    <3>2. /\ \A k \in Job \ {j} : jobs'[k] = jobs[k]
          /\ jobs'[j].what = "publish" /\ jobs'[j].pc = "sending" /\ jobs'[j].conn = jobs[j].conn
      BY <1>1, <2>1, <3>1, Filled, Emitted
    <3>3. QED
      BY <1>1, <2>1, <3>1, <3>2 DEF OneJob, Idle
  <2>4. QED
    BY <2>2, <2>3
<1>7. ASSUME NEW j \in Job, Sent(j) PROVE OneJob'
  <2>1. UNCHANGED <<conn, up>> /\ jobs[j].pc = "sending" /\ (Repeats(j) \/ Ends(j))
    BY <1>7 DEF Sent
  <2>2. CASE Ends(j)
    BY <1>4, <2>1, <2>2
  <2>3. CASE ~Ends(j)
    <3>1. jobs[j].what = "publish"
      BY <2>1 DEF OneJob
    <3>2. QED
      BY <1>5, <2>1, <2>3, <3>1 DEF Idle
  <2>4. QED
    BY <2>2, <2>3
<1>8. ASSUME NEW j \in Job, Follows(j) PROVE OneJob'
  BY <1>4, <1>8 DEF Follows
<1>9. ASSUME NEW c \in Conn, NEW forced \in BOOLEAN, Publish(c, forced), c = conn', conn' >= conn, up'
      PROVE  OneJob'
  <2>1. CASE UNCHANGED <<owner, jobs>> /\ UnderWay(c)
    <3>1. conn' = conn
      BY <1>1, <1>9, <2>1, Constants DEF OneJob, UnderWay, PlayerOK, Conn
    <3>2. QED
      BY <1>1, <1>9, <2>1, <3>1 DEF OneJob, Idle, Conn
  <2>2. ASSUME NEW j \in Job,
               /\ ~UnderWay(c) /\ Idle(j) /\ owner' = j /\ owner' # None
               /\ \A k \in Job \ {j} : jobs'[k] = jobs[k]
               /\ jobs'[j].what = "publish" /\ jobs'[j].pc = "lore" /\ jobs'[j].conn = c
        PROVE  OneJob'
    <3>1. \A k \in Job \ {j} : ~(~Idle(k) /\ jobs[k].what = "publish" /\ jobs[k].conn = conn')
      <4>1. CASE conn' = conn
        BY <1>9, <2>2, <4>1, Constants DEF OneJob, UnderWay
      <4>2. CASE conn' # conn
        BY <1>1, <1>9, <4>2 DEF OneJob, Call, Conn
      <4>3. QED
        BY <4>1, <4>2
    <3>2. \A k \in Job : jobs'[k].conn <= conn'
      <4>1. \A k \in Job : jobs[k].conn \in Nat
        BY <1>1 DEF Call, Conn
      <4>2. QED
        BY <1>1, <1>9, <2>2, <4>1 DEF OneJob, Conn
    <3>3. QED
      BY <1>9, <2>2, <3>1, <3>2 DEF OneJob, Idle, Conn
  <2>3. QED
    BY <1>1, <1>9, <2>1, <2>2, Published
<1>10. CASE TimerFires
  <2>1. UNCHANGED <<conn, up>>
    BY <1>10 DEF TimerFires
  <2>2. CASE up
    <3>1. Publish(conn, FALSE) /\ up'
      BY <1>10, <2>1, <2>2 DEF TimerFires
    <3>2. conn \in Conn /\ conn' >= conn
      BY <1>1, <2>1, <2>2
    <3>3. QED
      BY <1>9, <2>1, <3>1, <3>2
  <2>3. CASE ~up
    BY <1>2, <1>10, <2>1, <2>3 DEF TimerFires
  <2>4. QED
    BY <2>2, <2>3
<1>11. CASE UserResyncs
  <2>1. Publish(conn, TRUE) /\ conn' = conn /\ up /\ up'
    BY <1>11 DEF UserResyncs
  <2>2. conn \in Conn /\ conn' >= conn
    BY <1>1, <2>1
  <2>3. QED
    BY <1>9, <2>1, <2>2
<1>12. CASE UserSays
  <2>1. CASE UNCHANGED jobs
    BY <1>2, <1>12, <2>1 DEF UserSays
  <2>2. ASSUME NEW j \in Job, Idle(j), Describes(j, "follow", conn, FALSE) PROVE OneJob'
    <3>1. UNCHANGED <<owner, conn, up>> /\ up
      BY <1>12 DEF UserSays
    <3>2. /\ \A k \in Job \ {j} : jobs'[k] = jobs[k]
          /\ jobs'[j].what = "follow" /\ jobs'[j].pc = "lore" /\ jobs'[j].conn = conn
      BY <1>1, <2>2, <3>1, Described
    <3>3. QED
      BY <1>1, <2>2, <3>1, <3>2 DEF OneJob, Idle
  <2>3. QED
    BY <1>12, <2>1, <2>2 DEF UserSays
<1>13. CASE Connects
  <2>1. conn < MaxConn /\ conn' = conn + 1 /\ up' /\ Publish(conn + 1, TRUE)
    BY <1>13 DEF Connects
  <2>2. conn + 1 \in Conn /\ conn' >= conn
    BY <1>1, <2>1, Constants DEF Conn
  <2>3. QED
    BY <1>9, <2>1, <2>2
<1>14. CASE Disconnects
  BY <1>14 DEF Disconnects, OneJob, Idle
<1>15. QED
  BY <1>2, <1>3, <1>6, <1>7, <1>8, <1>10, <1>11, <1>12, <1>13, <1>14
     DEF Next, Describing, UserEdits, RelayPasses, RelayMisses, HostHears, HostLoses, HostReturns, HostMoves,
         HostGenerates, playerVars

\* A change of the persona is told, or its telling is due: the timer runs, or the
\* job under way has been noted to or has read the persona since.
LEMMA KnownStep ==
  ASSUME TypeOK, OneJob, Known, Next
  PROVE  Known'
<1>1. /\ PlayerOK /\ conn \in Nat /\ (up => conn \in Conn) /\ jobs \in [Job -> Call]
      /\ owner \in Job \cup {None}
  BY Constants DEF TypeOK, OneJob, PlayerOK, Conn
<1>2. CASE ~up'
  BY <1>2 DEF Known
<1>3. CASE /\ UNCHANGED <<mine, up, conn, timer, dirty, owner, print>>
           /\ owner # None /\ up => /\ jobs'[owner].conn = jobs[owner].conn
                                    /\ Says(jobs'[owner].said, jobs[owner].said)
  BY <1>3 DEF Known, UnderWay, Says
<1>4. ASSUME NEW j \in Job, Captures(j) \/ Fetched(j) \/ Captured(j)
      PROVE  Known'
  <2>1. UNCHANGED <<mine, up, conn, timer, dirty, owner, print>>
    BY <1>4 DEF Captures, Fetched, Captured
  <2>2. /\ \A k \in Job \ {j} : jobs'[k] = jobs[k]
        /\ jobs'[j].conn = jobs[j].conn
        /\ jobs'[j].said.id = jobs[j].said.id /\ jobs'[j].said.text = jobs[j].said.text
    BY <1>1, <1>4, Goes
  <2>3. QED
    BY <1>1, <1>3, <2>1, <2>2 DEF Says
<1>5. ASSUME NEW j \in Job, Ends(j), UNCHANGED <<mine, up, conn, timer, print>>,
             owner # j \/ ~IsCurrent(j)
      PROVE  Known'
  <2>1. /\ \A k \in Job \ {j} : jobs'[k] = jobs[k]
        /\ owner' = IF owner = j THEN None ELSE owner
        /\ UNCHANGED dirty
    BY <1>1, <1>5, Ended
  <2>2. CASE owner = j
    BY <1>1, <1>5, <2>1, <2>2 DEF Known, UnderWay, IsCurrent
  <2>3. CASE owner # j
    BY <1>1, <1>3, <1>5, <2>1, <2>3 DEF Says
  <2>4. QED
    BY <2>2, <2>3
<1>6. ASSUME NEW j \in Job, Repeats(j), UNCHANGED <<mine, up, conn, timer>>, IsCurrent(j), owner = j,
             print' # None, Says(print', jobs[j].said)
      PROVE  Known'
  <2>1. UnderWay(conn)
    BY <1>1, <1>6, Constants DEF UnderWay, IsCurrent
  <2>2. CASE dirty
    <3>1. /\ owner' = j /\ jobs'[j].conn = conn /\ jobs'[j].said = Bare(0)
      BY <1>1, <1>6, <2>2, Repeated
    <3>2. QED
      BY <1>6, <3>1, Constants DEF Known, UnderWay, Says, Bare
  <2>3. CASE ~dirty
    <3>1. owner' = None
      BY <1>1, <1>6, <2>3, Repeated, Ended
    <3>2. QED
      BY <1>6, <2>1, <2>3, <3>1 DEF Known, UnderWay, Says
  <2>4. QED
    BY <2>2, <2>3
<1>7. ASSUME NEW j \in Job, Hashed(j) PROVE Known'
  <2> DEFINE said == [jobs[j].said EXCEPT !.full = TRUE]
  <2>1. UNCHANGED <<mine, up, conn, timer, print>> /\ jobs[j].pc = "hash" /\ jobs[j].what = "publish"
    BY <1>7 DEF Hashed
  <2>2. said # None /\ Says(said, jobs[j].said) /\ said \in Persona
    BY <1>1, Filled
  <2>3. IsCurrent(j) => owner = j
    BY <2>1 DEF IsCurrent, OneJob, Idle
  <2>4. CASE ~IsCurrent(j) /\ Ends(j)
    BY <1>5, <2>1, <2>4
  <2>5. CASE IsCurrent(j) /\ print = said /\ Repeats(j)
    BY <1>6, <2>1, <2>2, <2>3, <2>5
  <2>6. CASE /\ IsCurrent(j) /\ jobs' = [jobs EXCEPT ![j].pc = "sending", ![j].said = said]
             /\ UNCHANGED <<dirty, owner>>
    <3>1. /\ \A k \in Job \ {j} : jobs'[k] = jobs[k]
          /\ jobs'[j].conn = jobs[j].conn /\ jobs'[j].said = said
      BY <1>1, <2>2, <2>6, Emitted
    <3>2. QED
      BY <1>1, <1>3, <2>1, <2>2, <2>6, <3>1 DEF Says
  <2>7. QED
    BY <1>7, <2>4, <2>5, <2>6 DEF Hashed
<1>8. ASSUME NEW j \in Job, Sent(j) PROVE Known'
  <2>1. UNCHANGED <<mine, up, conn, timer>> /\ jobs[j].pc = "sending" /\ jobs[j].what = "publish"
    BY <1>8 DEF Sent, OneJob
  <2>2. CASE IsCurrent(j)
    <3>1. owner = j /\ print' = jobs[j].said /\ Repeats(j)
      BY <1>8, <2>1, <2>2 DEF Sent, IsCurrent, OneJob, Idle
    <3>2. print' # None /\ Says(print', jobs[j].said)
      BY <1>1, <3>1, Constants DEF Call, Says
    <3>3. QED
      BY <1>6, <2>1, <2>2, <3>1, <3>2
  <2>3. CASE ~IsCurrent(j)
    BY <1>5, <1>8, <2>1, <2>3 DEF Sent
  <2>4. QED
    BY <2>2, <2>3
<1>9. ASSUME NEW j \in Job, Follows(j) PROVE Known'
  <2>1. UNCHANGED <<mine, up, conn, timer, print>> /\ Ends(j) /\ owner # j
    BY <1>1, <1>9, Constants DEF Follows, OneJob
  <2>2. QED
    BY <1>5, <2>1
<1>10. CASE UserEdits
  BY <1>10 DEF UserEdits, Known
<1>11. ASSUME NEW c \in Conn, NEW forced \in BOOLEAN, Publish(c, forced), c = conn', mine' = mine
       PROVE  Known'
  <2>1. CASE UnderWay(c) /\ dirty' = TRUE /\ UNCHANGED <<owner, jobs>>
    BY <1>11, <2>1 DEF Known, UnderWay
  <2>2. ASSUME NEW j \in Job, owner' = j, owner' # None, jobs'[j].conn = c, jobs'[j].said = Bare(0)
        PROVE  Known'
    BY <1>11, <2>2 DEF Known, UnderWay, Says, Bare
  <2>3. QED
    BY <1>1, <1>11, <2>1, <2>2, Published
<1>12. CASE TimerFires
  <2>1. UNCHANGED <<conn, up, mine>>
    BY <1>12 DEF TimerFires
  <2>2. CASE up
    <3>1. Publish(conn, FALSE)
      BY <1>12, <2>2 DEF TimerFires
    <3>2. QED
      BY <1>1, <1>11, <2>1, <2>2, <3>1
  <2>3. QED
    BY <1>2, <2>1, <2>2
<1>13. CASE UserResyncs
  <2>1. UNCHANGED <<conn, mine>> /\ up /\ Publish(conn, TRUE)
    BY <1>13 DEF UserResyncs
  <2>2. QED
    BY <1>1, <1>11, <2>1
<1>14. CASE UserSays
  <2>1. UNCHANGED <<mine, up, conn, timer, dirty, owner, print>> /\ up
    BY <1>14 DEF UserSays
  <2>2. CASE UNCHANGED jobs
    BY <1>3, <2>1, <2>2 DEF Says
  <2>3. ASSUME NEW j \in Job, Idle(j), Describes(j, "follow", conn, FALSE) PROVE Known'
    <3>1. \A k \in Job \ {j} : jobs'[k] = jobs[k]
      BY <1>1, <2>1, <2>3, Described
    <3>2. owner # j
      BY <1>1, <2>3, Constants DEF OneJob
    <3>3. QED
      BY <1>1, <1>3, <2>1, <3>1, <3>2 DEF Says
  <2>4. QED
    BY <1>14, <2>2, <2>3 DEF UserSays
<1>15. CASE Connects
  <2>1. conn < MaxConn /\ conn' = conn + 1 /\ mine' = mine /\ Publish(conn + 1, TRUE)
    BY <1>15 DEF Connects
  <2>2. conn + 1 \in Conn
    BY <1>1, <2>1, Constants DEF Conn
  <2>3. QED
    BY <1>11, <2>1, <2>2
<1>16. CASE Disconnects
  BY <1>2, <1>16 DEF Disconnects
<1>17. CASE UNCHANGED playerVars
  BY <1>3, <1>17 DEF playerVars, Says
<1>18. QED
  BY <1>4, <1>7, <1>8, <1>9, <1>10, <1>12, <1>13, <1>14, <1>15, <1>16, <1>17, <1>3
     DEF Next, Describing, RelayPasses, RelayMisses, HostHears, HostLoses, HostReturns, HostMoves,
         HostGenerates, playerVars, Says

\* The elements of a sequence that grows, or loses its first or its last ones.
LEMMA Grown ==
  ASSUME NEW S, NEW s \in Seq(S), NEW f \in S
  PROVE  /\ DOMAIN Append(s, f) = DOMAIN s \cup {Len(s) + 1} /\ DOMAIN s = 1..Len(s)
         /\ Append(s, f)[Len(s) + 1] = f /\ \A i \in DOMAIN s : Append(s, f)[i] = s[i]
         /\ Append(s, f) # <<>> /\ Len(Append(s, f)) = Len(s) + 1
  BY AppendProperties, LenProperties

LEMMA Shrunk ==
  ASSUME NEW S, NEW s \in Seq(S), s # <<>>
  PROVE  /\ Len(s) \in Nat \ {0} /\ DOMAIN s = 1..Len(s) /\ Head(s) = s[1] /\ s[1] \in S
         /\ Tail(s) \in Seq(S) /\ Len(Tail(s)) = Len(s) - 1 /\ DOMAIN Tail(s) = 1..(Len(s) - 1)
         /\ \A i \in 1..(Len(s) - 1) : Tail(s)[i] = s[i + 1]
  BY HeadTailProperties, LenProperties, EmptySeq

LEMMA Cut ==
  ASSUME NEW S, NEW s \in Seq(S), NEW n \in 0..Len(s)
  PROVE  /\ SubSeq(s, 1, n) \in Seq(S) /\ DOMAIN SubSeq(s, 1, n) = 1..n
         /\ \A i \in 1..n : SubSeq(s, 1, n)[i] = s[i] /\ i \in DOMAIN s
<1>1. Len(s) \in Nat /\ DOMAIN s = 1..Len(s)
  BY LenProperties
<1>2. \A i \in 1..n : s[i] \in S
  BY <1>1, ElementOfSeq
<1>3. SubSeq(s, 1, n) = [i \in 1..n |-> s[i]]
  BY <1>1
<1>4. [i \in 1..n |-> s[i]] \in Seq(S)
  BY <1>2, IsASeq
<1>5. QED
  BY <1>1, <1>3, <1>4

\* The frames of a connection are its own, and only the present one has any.
LEMMA RoutedStep ==
  ASSUME TypeOK, OneJob, Routed, Next
  PROVE  Routed'
<1>1. /\ conn \in Nat /\ (up => conn \in Conn) /\ uplink \in [Conn -> Seq(Frame)]
      /\ cached \in [Conn -> Frame \cup {None}] /\ PlayerOK
      /\ \A c \in Conn : uplink[c] \in Seq(Frame)
  BY Constants DEF TypeOK, OneJob, PlayerOK, RelayOK, Conn
<1>2. CASE UNCHANGED <<uplink, cached, present, conn, up>>
  BY <1>2 DEF Routed
<1>3. ASSUME NEW op \in {"persona", "turn"}, NEW persona \in Persona, Sends(op, persona), up,
             UNCHANGED <<cached, present, conn, up>>
      PROVE  Routed'
  <2>1. /\ uplink'[conn] = Append(uplink[conn], [op |-> op, from |-> conn, persona |-> persona])
        /\ \A c \in Conn \ {conn} : uplink'[c] = uplink[c]
    BY <1>1, <1>3, SendsTyped
  <2>2. [op |-> op, from |-> conn, persona |-> persona] \in Frame
    BY <1>1, <1>3 DEF Frame
  <2>3. \A i \in DOMAIN uplink'[conn] : uplink'[conn][i].from = conn
    BY <1>1, <1>3, <2>1, <2>2, Grown DEF Routed
  <2>4. QED
    BY <1>1, <1>3, <2>1, <2>3 DEF Routed
<1>4. ASSUME NEW j \in Job, Hashed(j) PROVE Routed'
  <2>1. UNCHANGED <<cached, present, conn, up>>
    BY <1>4 DEF Hashed
  <2>2. CASE UNCHANGED uplink
    BY <1>2, <2>1, <2>2
  <2>3. CASE IsCurrent(j) /\ Sends("persona", [jobs[j].said EXCEPT !.full = TRUE])
    BY <1>1, <1>3, <2>1, <2>3, Filled DEF IsCurrent
  <2>4. QED
    BY <1>4, <2>2, <2>3 DEF Hashed
<1>5. ASSUME NEW j \in Job, Follows(j) PROVE Routed'
  <2>1. UNCHANGED <<cached, present, conn, up>>
    BY <1>5 DEF Follows
  <2>2. jobs[j].said \in Persona
    BY <1>1 DEF PlayerOK, Call
  <2>3. QED
    BY <1>2, <1>3, <1>5, <2>1, <2>2 DEF Follows
<1>6. CASE UserSays
  <2>1. UNCHANGED <<cached, present, conn, up>> /\ up /\ Sends("turn", Bare(0))
    BY <1>6 DEF UserSays
  <2>2. QED
    BY <1>1, <1>3, <2>1, BareTyped
<1>7. CASE Connects
  BY <1>1, <1>7, Constants DEF Connects, Routed, Conn
<1>8. CASE Disconnects
  <2>1. PICK n \in 0..Len(uplink[conn]) : uplink' = [uplink EXCEPT ![conn] = SubSeq(uplink[conn], 1, n)]
    BY <1>8 DEF Disconnects
  <2>2. UNCHANGED <<cached, present, conn>> /\ ~up' /\ up
    BY <1>8 DEF Disconnects
  <2>3. /\ uplink'[conn] = SubSeq(uplink[conn], 1, n) /\ \A c \in Conn \ {conn} : uplink'[c] = uplink[c]
    BY <1>1, <2>1, <2>2
  <2>4. \A i \in DOMAIN uplink'[conn] : uplink'[conn][i].from = conn
    BY <1>1, <2>2, <2>3, Cut DEF Routed
  <2>5. QED
    BY <2>2, <2>3, <2>4 DEF Routed
<1>9. ASSUME NEW c \in Conn, RelayPasses(c) PROVE Routed'
  <2>1. UNCHANGED <<conn, up, present>> /\ uplink[c] # <<>> /\ c = conn
    BY <1>9 DEF RelayPasses, playerVars, Routed
  <2>2. uplink' = [uplink EXCEPT ![c] = Tail(uplink[c])]
    BY <1>9 DEF RelayPasses
  <2>3. uplink'[c] = Tail(uplink[c]) /\ \A q \in Conn \ {c} : uplink'[q] = uplink[q]
    BY <1>1, <2>2
  <2>4. \A i \in DOMAIN uplink'[c] : uplink'[c][i].from = c
    BY <1>1, <2>1, <2>3, Shrunk DEF Routed
  <2>5. Head(uplink[c]).from = c
    BY <1>1, <2>1, Shrunk DEF Routed
  <2>6. \A q \in Conn : cached'[q] # None => cached'[q].op = "persona" /\ cached'[q].from = q /\ q <= conn
    <3>1. CASE Head(uplink[c]).op = "persona"
      <4>1. cached' = [cached EXCEPT ![c] = Head(uplink[c])]
        BY <1>9, <3>1 DEF RelayPasses
      <4>2. QED
        BY <1>1, <2>1, <2>5, <3>1, <4>1 DEF Routed
    <3>2. CASE Head(uplink[c]).op # "persona"
      BY <1>9, <3>2 DEF RelayPasses, Routed
    <3>3. QED
      BY <3>1, <3>2
  <2>7. QED
    BY <2>1, <2>3, <2>4, <2>6 DEF Routed
<1>10. ASSUME NEW c \in Conn, RelayMisses(c) PROVE Routed'
  <2>1. /\ UNCHANGED <<conn, up>> /\ present' = present \ {c} /\ ~(up /\ c = conn)
        /\ uplink' = [uplink EXCEPT ![c] = <<>>] /\ cached' = [cached EXCEPT ![c] = None]
    BY <1>10 DEF RelayMisses, playerVars
  <2>2. QED
    BY <1>1, <2>1 DEF Routed
<1>11. QED
  BY <1>2, <1>4, <1>5, <1>6, <1>7, <1>8, <1>9, <1>10
     DEF Next, Describing, Captures, Fetched, Captured, Sent, UserEdits, TimerFires, UserResyncs,
         HostHears, HostLoses, HostReturns, HostMoves, HostGenerates, playerVars, relayVars

\* What a step that is not about a frame leaves as it is.
Elsewhere == UNCHANGED <<conn, up, strayed, uplink, cached, down, hostUp, personas>>

\* A job's steps, and a publication on the present connection, leave what was
\* said last what it was - but for the sending of a frame.
LEMMA SaidEnds ==
  ASSUME TypeOK, OneJob, NEW j \in Job, Ends(j), UNCHANGED <<conn, up, print>>, up,
         jobs[j].pc # "sending" \/ ~IsCurrent(j)
  PROVE  LastSaid' = LastSaid
<1>1. /\ \A k \in Job \ {j} : jobs'[k] = jobs[k]
      /\ owner' = IF owner = j THEN None ELSE owner
  BY Ended DEF TypeOK
<1>2. owner \in Job \cup {None}
  BY DEF TypeOK, PlayerOK
<1>3. CASE owner = j
  BY <1>1, <1>3 DEF LastSaid, UnderWay, IsCurrent
<1>4. CASE owner # j
  BY <1>1, <1>2, <1>4 DEF LastSaid, UnderWay
<1>5. QED
  BY <1>3, <1>4

\* The fingerprint takes over what the owner has sent.
LEMMA SaidRepeats ==
  ASSUME TypeOK, OneJob, NEW j \in Job, Repeats(j), UNCHANGED <<conn, up>>, IsCurrent(j), owner = j,
         print' = LastSaid
  PROVE  LastSaid' = LastSaid
<1>1. CASE dirty
  BY <1>1, Repeated DEF LastSaid, UnderWay, TypeOK
<1>2. CASE ~dirty
  <2>1. owner' = None
    BY <1>2, Repeated, Ended DEF TypeOK
  <2>2. QED
    BY <2>1 DEF LastSaid, UnderWay
<1>3. QED
  BY <1>1, <1>2

\* A publication asked for changes nothing of what was said.
LEMMA SaidPublishes ==
  ASSUME TypeOK, conn \in Conn, NEW forced \in BOOLEAN, Publish(conn, forced), UNCHANGED <<conn, print>>
  PROVE  LastSaid' = LastSaid
<1>1. CASE UnderWay(conn) /\ UNCHANGED <<owner, jobs>>
  BY <1>1 DEF LastSaid, UnderWay
<1>2. ASSUME NEW j \in Job, ~UnderWay(conn), owner' = j, owner' # None, jobs'[j].pc = "lore"
      PROVE  LastSaid' = LastSaid
  BY <1>2 DEF LastSaid, UnderWay
<1>3. QED
  BY <1>1, <1>2, Published DEF TypeOK

\* The words of a publication are behind the frames before them.
LEMMA FollowedSending ==
  ASSUME TypeOK, OneJob, NEW j \in Job, Hashed(j), up,
         jobs' = [jobs EXCEPT ![j].pc = "sending", ![j].said = [jobs[j].said EXCEPT !.full = TRUE]],
         Sends("persona", [jobs[j].said EXCEPT !.full = TRUE]), UNCHANGED owner, IsCurrent(j)
  PROVE  Followed'
<1> DEFINE said == [jobs[j].said EXCEPT !.full = TRUE]
           f == [op |-> "persona", from |-> conn, persona |-> said]
<1>1. said \in Persona /\ said # None /\ PlayerOK /\ conn \in Conn
  BY Filled, Constants DEF TypeOK, OneJob, PlayerOK, Conn
<1>2. UNCHANGED <<conn, up, print>> /\ jobs[j].what = "publish" /\ jobs[j].pc = "hash"
  BY DEF Hashed
<1>3. owner = j
  BY <1>2 DEF OneJob, IsCurrent, Idle
<1>4. jobs'[j].pc = "sending" /\ jobs'[j].said = said /\ jobs'[j].conn = jobs[j].conn
  BY <1>1, Emitted
<1> HIDE DEF said
<1>5. LastSaid' = said
  BY <1>2, <1>3, <1>4, Constants DEF LastSaid, UnderWay, IsCurrent
<1>6. uplink'[conn] = Append(uplink[conn], f) /\ uplink[conn] \in Seq(Frame) /\ f \in Frame
  BY <1>1, SendsTyped DEF said, TypeOK, RelayOK, Frame
<1>7. uplink'[conn] # <<>> /\ uplink'[conn][Len(uplink'[conn])] = f
  BY <1>6, Grown
<1>8. QED
  BY <1>2, <1>5, <1>7 DEF Followed, OnItsWay, Tells, Says

\* A step that touches no frame leaves the last words where they are.
LEMMA FollowedElsewhere ==
  ASSUME Followed, Elsewhere, up => LastSaid' = LastSaid
  PROVE  Followed'
  BY DEF Followed, Elsewhere, OnItsWay, HostWillKnow, Tells, Harmless, Says

\* The player's steps.
LEMMA FollowedPlayer ==
  ASSUME IInv,
         \/ \E j \in Job : Describing(j)
         \/ UserEdits \/ TimerFires \/ UserResyncs \/ UserSays \/ Connects \/ Disconnects
  PROVE  Followed'
<1>1. /\ PlayerOK /\ conn \in Nat /\ (up => conn \in Conn) /\ jobs \in [Job -> Call]
      /\ owner \in Job \cup {None} /\ TypeOK /\ OneJob /\ Followed
  BY Constants DEF IInv, TypeOK, OneJob, PlayerOK, Conn
<1>2. CASE ~up' \/ strayed'
  BY <1>2 DEF Followed
<1>3. ASSUME NEW j \in Job, Captures(j) \/ Fetched(j) \/ Captured(j)
      PROVE  Followed'
  <2>1. Elsewhere /\ UNCHANGED <<owner, print>>
    BY <1>3 DEF Captures, Fetched, Captured, Elsewhere, relayVars, hostVars
  <2>2. LastSaid' = LastSaid
    <3>1. /\ \A k \in Job \ {j} : jobs'[k] = jobs[k]
          /\ jobs[j].pc # "sending" /\ jobs'[j].pc # "sending"
      BY <1>1, <1>3, Goes
    <3>2. conn' = conn
      BY <2>1 DEF Elsewhere
    <3>3. CASE owner = j
      BY <2>1, <3>1, <3>3 DEF LastSaid
    <3>4. CASE owner # j
      BY <1>1, <2>1, <3>1, <3>2, <3>4 DEF LastSaid, UnderWay
    <3>5. QED
      BY <3>3, <3>4
  <2>3. QED
    BY <1>1, <2>1, <2>2, FollowedElsewhere
<1>4. ASSUME NEW j \in Job, Hashed(j), up PROVE Followed'
  <2>1. UNCHANGED <<conn, up, print, cached, down, hostUp, personas>> /\ jobs[j].pc = "hash" /\ jobs[j].what = "publish"
    BY <1>4 DEF Hashed, hostVars
  <2>2. CASE ~IsCurrent(j) /\ Ends(j) /\ UNCHANGED <<uplink, strayed>>
    BY <1>1, <1>4, <2>1, <2>2, SaidEnds, FollowedElsewhere DEF Elsewhere
  <2>3. CASE IsCurrent(j) /\ Repeats(j) /\ UNCHANGED <<uplink, strayed>>
    <3>1. owner = j
      BY <2>1, <2>3, <1>1 DEF OneJob, IsCurrent, Idle
    <3>2. print' = LastSaid
      BY <2>1, <3>1 DEF LastSaid
    <3>3. QED
      BY <1>1, <2>1, <2>3, <3>1, <3>2, SaidRepeats, FollowedElsewhere DEF Elsewhere
  <2>4. QED
    BY <1>1, <1>4, <2>2, <2>3, FollowedSending DEF Hashed
<1>5. ASSUME NEW j \in Job, Sent(j), up PROVE Followed'
  <2>1. Elsewhere /\ jobs[j].pc = "sending"
    BY <1>5 DEF Sent, Elsewhere, relayVars, hostVars
  <2>2. CASE IsCurrent(j)
    <3>1. print' = jobs[j].said /\ Repeats(j) /\ jobs[j].conn = conn
      BY <1>5, <2>2 DEF Sent, IsCurrent
    <3>2. owner = j
      BY <1>1, <2>1, <3>1 DEF OneJob, Idle
    <3>3. print' = LastSaid
      BY <2>1, <3>1, <3>2, Constants DEF LastSaid, UnderWay
    <3>4. QED
      BY <1>1, <2>1, <2>2, <3>1, <3>2, <3>3, SaidRepeats, FollowedElsewhere DEF Elsewhere
  <2>3. CASE ~IsCurrent(j)
    BY <1>1, <1>5, <2>1, <2>3, SaidEnds, FollowedElsewhere DEF Elsewhere, Sent
  <2>4. QED
    BY <2>2, <2>3
<1>6. ASSUME NEW j \in Job, Follows(j) PROVE Followed'
  BY <1>2, <1>6 DEF Follows
<1>7. CASE UserEdits
  BY <1>1, <1>7, FollowedElsewhere DEF UserEdits, Elsewhere, relayVars, hostVars, LastSaid, UnderWay
<1>8. CASE TimerFires \/ UserResyncs
  <2>1. Elsewhere /\ UNCHANGED print
    BY <1>8 DEF TimerFires, UserResyncs, Elsewhere, relayVars, hostVars
  <2>2. CASE up
    <3>1. \E forced \in BOOLEAN : Publish(conn, forced)
      BY <1>8, <2>2 DEF TimerFires, UserResyncs
    <3>2. LastSaid' = LastSaid
      BY <1>1, <2>1, <2>2, <3>1, SaidPublishes DEF Elsewhere
    <3>3. QED
      BY <1>1, <2>1, <3>2, FollowedElsewhere
  <2>3. QED
    BY <1>2, <2>1, <2>2 DEF Elsewhere
<1>9. CASE UserSays
  BY <1>2, <1>9 DEF UserSays
<1>10. CASE Connects
  <2>1. conn < MaxConn /\ conn' = conn + 1 /\ print' = None /\ Publish(conn + 1, TRUE)
    BY <1>10 DEF Connects
  <2>2. conn + 1 \in Conn
    BY <1>1, <2>1, Constants DEF Conn
  <2>3. ASSUME UnderWay(conn + 1) PROVE FALSE
    BY <1>1, <2>3 DEF UnderWay, OneJob
  <2>4. LastSaid' = None
    BY <1>1, <2>1, <2>2, <2>3, Published DEF LastSaid, UnderWay
  <2>5. QED
    BY <2>4 DEF Followed
<1>11. CASE Disconnects
  BY <1>2, <1>11 DEF Disconnects
<1>12. CASE ~up /\ UNCHANGED up
  BY <1>2, <1>12
<1>13. QED
  BY <1>3, <1>4, <1>5, <1>6, <1>7, <1>8, <1>9, <1>10, <1>11, <1>12 DEF Describing, Hashed, Sent

\* What the host will know stays so when only harmless news comes behind.
LEMMA KnowsOn ==
  ASSUME NEW p, HostWillKnow(p), UNCHANGED <<conn, personas>>,
         DOMAIN down \subseteq Nat, DOMAIN down \subseteq DOMAIN down',
         \A i \in DOMAIN down : down'[i] = down[i],
         \A i \in DOMAIN down' \ DOMAIN down : Harmless(down'[i])
  PROVE  HostWillKnow(p)'
<1>1. \A f : Harmless(f)' <=> Harmless(f)
  BY DEF Harmless
<1>2. CASE personas[conn] # None /\ Says(personas[conn], p) /\ \A k \in DOMAIN down : Harmless(down[k])
  BY <1>2 DEF HostWillKnow, Harmless, Says
<1>3. CASE \E i \in DOMAIN down : Tells(down[i], p) /\ \A k \in DOMAIN down : k > i => Harmless(down[k])
  <2>1. PICK i \in DOMAIN down : Tells(down[i], p) /\ \A k \in DOMAIN down : k > i => Harmless(down[k])
    BY <1>3
  <2>2. i \in DOMAIN down' /\ Tells(down'[i], p)
    BY <2>1
  <2>3. \A k \in DOMAIN down' : k > i => Harmless(down'[k])
    BY <2>1
  <2>4. QED
    BY <2>2, <2>3 DEF HostWillKnow, Tells, Harmless, Says
<1>4. QED
  BY <1>2, <1>3 DEF HostWillKnow

\* The host hears what was on its way to it.
LEMMA HostHearsIt ==
  ASSUME TypeOK, conn \in Conn, NEW p, HostWillKnow(p), HostHears
  PROVE  HostWillKnow(p)'
<1> DEFINE f == Head(down)
<1>1. /\ down # <<>> /\ down' = Tail(down) /\ conn' = conn /\ down \in Seq(News)
      /\ personas \in [Conn -> Memory \cup {None}]
  BY DEF HostHears, TypeOK, RelayOK, HostOK, playerVars
<1>2. /\ Len(down) \in Nat \ {0} /\ DOMAIN down = 1..Len(down) /\ f = down[1] /\ f \in News
      /\ DOMAIN down' = 1..(Len(down) - 1) /\ \A i \in 1..(Len(down) - 1) : down'[i] = down[i + 1]
  BY <1>1, Shrunk
<1>3. \A g : Harmless(g)' <=> Harmless(g)
  BY <1>1 DEF Harmless
<1>4. CASE personas[conn] # None /\ Says(personas[conn], p) /\ \A k \in DOMAIN down : Harmless(down[k])
  <2>1. Harmless(f) /\ \A k \in DOMAIN down' : Harmless(down'[k])
    BY <1>2, <1>4
  <2>2. personas'[conn] = personas[conn]
    <3>1. CASE f.op = "leave" /\ f.from # conn
      BY <1>1, <3>1 DEF HostHears, Keeps
    <3>2. CASE f.op = "roster" /\ conn \in f.peers
      BY <1>1, <3>2 DEF HostHears, Keeps
    <3>3. QED
      BY <2>1, <3>1, <3>2 DEF Harmless
  <2>3. QED
    BY <1>1, <1>4, <2>1, <2>2 DEF HostWillKnow, Harmless, Says
<1>5. ASSUME NEW i \in DOMAIN down, Tells(down[i], p), \A k \in DOMAIN down : k > i => Harmless(down[k])
      PROVE  HostWillKnow(p)'
  <2>1. CASE i = 1
    <3>1. f.op = "persona" /\ f.from = conn /\ Says(f.persona, p)
      BY <1>2, <1>5, <2>1 DEF Tells
    <3>2. f.persona \in Persona
      BY <1>2, <3>1 DEF News, Frame
    <3>3. personas' = Remembers(conn, f.persona)
      BY <3>1 DEF HostHears
    <3>4. personas'[conn] # None /\ Says(personas'[conn], p)
      BY <3>1, <3>2, <3>3, RemembersTyped DEF Says
    <3>5. \A k \in DOMAIN down' : Harmless(down'[k])
      BY <1>2, <1>5, <2>1
    <3>6. QED
      BY <1>1, <3>4, <3>5 DEF HostWillKnow, Harmless, Says
  <2>2. CASE i # 1
    <3>1. i - 1 \in DOMAIN down' /\ Tells(down'[i - 1], p)
      BY <1>2, <1>5, <2>2
    <3>2. \A k \in DOMAIN down' : k > i - 1 => Harmless(down'[k])
      BY <1>2, <1>5, <2>2
    <3>3. QED
      BY <1>1, <3>1, <3>2 DEF HostWillKnow, Tells, Harmless, Says
  <2>3. QED
    BY <2>1, <2>2
<1>6. QED
  BY <1>4, <1>5 DEF HostWillKnow

\* The personas a host that returns is given end with the present connection's.
LEMMA HostReturnsToIt ==
  ASSUME TypeOK, Routed, conn \in Conn, up, NEW p, cached[conn] # None, Tells(cached[conn], p), HostReturns
  PROVE  HostWillKnow(p)'
<1>1. PICK n \in 0..MaxConn : \E order \in [1..n -> Conn] :
        /\ {order[i] : i \in 1..n} = {c \in Conn : cached[c] # None}
        /\ \A i, k \in 1..n : i < k => order[i] < order[k]
        /\ down' = Append([i \in 1..n |-> cached[order[i]]], Roster(present))
  BY DEF HostReturns
<1>2. PICK order \in [1..n -> Conn] :
        /\ {order[i] : i \in 1..n} = {c \in Conn : cached[c] # None}
        /\ \A i, k \in 1..n : i < k => order[i] < order[k]
        /\ down' = Append([i \in 1..n |-> cached[order[i]]], Roster(present))
  BY <1>1
<1>3. n \in Nat /\ cached \in [Conn -> Frame \cup {None}]
  BY Constants DEF TypeOK, RelayOK
<1>4. PICK i \in 1..n : order[i] = conn
  BY <1>2
<1>5. i = n
  <2>1. order[n] \in Conn /\ cached[order[n]] # None
    BY <1>2, <1>3, <1>4
  <2>2. order[n] <= conn
    BY <2>1 DEF Routed
  <2>3. ~(i < n)
    BY <1>2, <1>3, <1>4, <2>1, <2>2 DEF Conn
  <2>4. QED
    BY <1>3, <2>3
<1> DEFINE s == [k \in 1..n |-> cached[order[k]]]
<1>6. s \in Seq(News) /\ Len(s) = n
  <2>1. \A k \in 1..n : cached[order[k]] \in News
    BY <1>2, <1>3 DEF News
  <2>2. s \in Seq(News)
    BY <1>3, <2>1, IsASeq
  <2>3. QED
    BY <1>3, <2>2, LenProperties
<1>7. Roster(present) \in News
  BY DEF Roster, News, TypeOK, RelayOK
<1>8. s[n] = cached[conn] /\ n \in 1..n
  BY <1>4, <1>5
<1>9. down' = Append(s, Roster(present))
  BY <1>2
<1> HIDE DEF s
<1>10. /\ DOMAIN down' = 1..(n + 1) /\ down'[n + 1] = Roster(present) /\ down'[n] = cached[conn]
  BY <1>3, <1>6, <1>7, <1>8, <1>9, Grown
<1>11. Tells(down'[n], p) /\ Harmless(down'[n + 1])
  BY <1>10 DEF Harmless, Roster, Routed
<1>12. \A k \in DOMAIN down' : k > n => Harmless(down'[k])
  BY <1>3, <1>10, <1>11
<1>13. conn' = conn /\ n \in DOMAIN down'
  BY <1>3, <1>8, <1>10 DEF HostReturns, playerVars
<1>14. QED
  BY <1>11, <1>12, <1>13 DEF HostWillKnow, Tells, Harmless, Says

\* Beyond the player, what was said last stays what it was.
LEMMA FollowedBeyond ==
  ASSUME UNCHANGED <<conn, up, strayed, owner, jobs, print>>,
         ASSUME NEW p, up, ~strayed, p = LastSaid, p # None PROVE OnItsWay(p)'
  PROVE  Followed'
<1>1. LastSaid' = LastSaid
  BY DEF LastSaid, UnderWay
<1>2. CASE up /\ ~strayed /\ LastSaid # None
  <2>1. PICK p : p = LastSaid
    OBVIOUS
  <2>2. OnItsWay(p)'
    BY <1>2, <2>1
  <2>3. p = LastSaid'
    BY <1>1, <2>1
  <2>4. QED
    BY <2>2, <2>3 DEF Followed, OnItsWay, HostWillKnow, Tells, Says, Harmless
<1>3. CASE ~(up /\ ~strayed /\ LastSaid # None)
  BY <1>1, <1>3 DEF Followed
<1>4. QED
  BY <1>2, <1>3

\* A frame the relay passes on is at the relay and on its way to the host.
LEMMA FollowedPassing ==
  ASSUME IInv, NEW c \in Conn, RelayPasses(c)
  PROVE  Followed'
<1> SUFFICES ASSUME up, ~strayed, NEW p, p = LastSaid, p # None
             PROVE  OnItsWay(p)'
  BY FollowedBeyond DEF RelayPasses, playerVars
<1> DEFINE f == Head(uplink[conn])
<1>1. c = conn /\ uplink[conn] # <<>> /\ uplink \in [Conn -> Seq(Frame)] /\ uplink[conn] \in Seq(Frame)
  BY DEF RelayPasses, IInv, TypeOK, RelayOK, Routed
<1>2. /\ UNCHANGED <<conn, hostUp, personas>> /\ uplink'[conn] = Tail(uplink[conn])
      /\ cached \in [Conn -> Frame \cup {None}]
  BY <1>1 DEF RelayPasses, playerVars, hostVars, IInv, TypeOK, RelayOK
<1>3. /\ Len(uplink[conn]) \in Nat \ {0} /\ f = uplink[conn][1] /\ f \in Frame
      /\ Tail(uplink[conn]) \in Seq(Frame) /\ Len(Tail(uplink[conn])) = Len(uplink[conn]) - 1
      /\ \A i \in 1..(Len(uplink[conn]) - 1) : Tail(uplink[conn])[i] = uplink[conn][i + 1]
  BY <1>1, Shrunk
<1>4. Tells(uplink[conn][Len(uplink[conn])], p)
  BY <1>1 DEF IInv, Followed, OnItsWay
<1>5. CASE Len(uplink[conn]) = 1
  <2>1. uplink'[conn] = <<>> /\ Tells(f, p) /\ f # None
    <3>1. Tail(uplink[conn]) = <<>>
      <4>1. Tail(uplink[conn]) \in Seq(Frame) /\ Len(Tail(uplink[conn])) = 0
        BY <1>3, <1>5
      <4>2. QED
        BY <4>1, EmptySeq
    <3>2. QED
      BY <1>2, <1>3, <1>4, <1>5, <3>1, Constants
  <2>2. cached'[conn] = f
    BY <1>1, <1>2, <2>1 DEF RelayPasses, Tells
  <2>3. ASSUME hostUp PROVE HostWillKnow(p)'
    <3>1. down' = Append(down, f) /\ down \in Seq(News) /\ f \in News
      BY <1>1, <1>3, <2>3 DEF RelayPasses, IInv, TypeOK, RelayOK, News
    <3>2. DOMAIN down' = 1..(Len(down) + 1) /\ down'[Len(down) + 1] = f /\ Len(down) \in Nat
      BY <3>1, Grown, LenProperties
    <3>3. /\ Len(down) + 1 \in DOMAIN down' /\ Tells(down'[Len(down) + 1], p)
          /\ \A k \in DOMAIN down' : ~(k > Len(down) + 1)
      BY <2>1, <3>2
    <3>4. QED
      BY <1>2, <3>3 DEF HostWillKnow, Tells, Says
  <2>4. QED
    BY <1>2, <2>1, <2>2, <2>3 DEF OnItsWay, Tells, Says
<1>6. CASE Len(uplink[conn]) # 1
  <2>1. /\ Len(uplink'[conn]) = Len(uplink[conn]) - 1 /\ Len(uplink'[conn]) \in Nat \ {0}
        /\ uplink'[conn][Len(uplink'[conn])] = uplink[conn][Len(uplink[conn])]
    <3>1. Len(uplink[conn]) - 1 \in 1..(Len(uplink[conn]) - 1)
      <4>1. \A n \in Nat \ {0} : n # 1 => n - 1 \in 1..(n - 1)
        OBVIOUS
      <4>2. QED
        BY <1>3, <1>6, <4>1
    <3>2. Tail(uplink[conn])[Len(uplink[conn]) - 1] = uplink[conn][Len(uplink[conn])]
      BY <1>3, <3>1
    <3>3. QED
      BY <1>2, <1>3, <3>1, <3>2
  <2>2. uplink'[conn] # <<>>
    BY <2>1, EmptySeq
  <2>3. QED
    BY <1>2, <1>4, <2>1, <2>2 DEF OnItsWay, Tells, Says
<1>7. QED
  BY <1>5, <1>6

\* Another connection's end is no news of this one.
LEMMA FollowedMissing ==
  ASSUME IInv, NEW c \in Conn, RelayMisses(c)
  PROVE  Followed'
<1> SUFFICES ASSUME up, ~strayed, NEW p, p = LastSaid, p # None
             PROVE  OnItsWay(p)'
  BY FollowedBeyond DEF RelayMisses, playerVars
<1>1. /\ UNCHANGED <<conn, hostUp, personas>> /\ c # conn /\ OnItsWay(p) /\ conn \in Conn
      /\ uplink \in [Conn -> Seq(Frame)] /\ cached \in [Conn -> Frame \cup {None}]
      /\ down \in Seq(News) /\ present' = present \ {c} /\ conn \in present /\ present \subseteq Conn
  BY Constants DEF RelayMisses, playerVars, hostVars, IInv, TypeOK, PlayerOK, RelayOK, Followed, Routed, OneJob, Conn
<1>2. uplink'[conn] = uplink[conn] /\ cached'[conn] = cached[conn]
  BY <1>1 DEF RelayMisses
<1>3. ASSUME hostUp, HostWillKnow(p) PROVE HostWillKnow(p)'
  <2> DEFINE more == <<[op |-> "leave", from |-> c], Roster(present')>>
  <2>1. down' = down \o more
    BY <1>3 DEF RelayMisses
  <2>2. more[1] = [op |-> "leave", from |-> c] /\ more[2] = Roster(present') /\ Len(more) = 2
    OBVIOUS
  <2>3. Harmless(more[1]) /\ Harmless(more[2])
    BY <1>1, <2>2 DEF Harmless, Roster
  <2>4. more \in Seq(News)
    BY <1>1 DEF Roster, News
  <2> HIDE DEF more
  <2>5. /\ Len(down) \in Nat /\ DOMAIN down = 1..Len(down) /\ DOMAIN down' = 1..(Len(down) + 2)
        /\ \A i \in 1..(Len(down) + 2) : down'[i] = IF i <= Len(down) THEN down[i] ELSE more[i - Len(down)]
    <3>1. /\ down \o more \in Seq(News) /\ Len(down \o more) = Len(down) + 2
          /\ \A i \in 1..(Len(down) + 2) :
               (down \o more)[i] = IF i <= Len(down) THEN down[i] ELSE more[i - Len(down)]
      <4>1. /\ down \o more \in Seq(News) /\ Len(down \o more) = Len(down) + Len(more)
            /\ \A i \in 1..(Len(down) + Len(more)) :
                 (down \o more)[i] = IF i <= Len(down) THEN down[i] ELSE more[i - Len(down)]
        BY <1>1, <2>4, ConcatProperties
      <4>2. QED
        BY <2>2, <4>1
    <3>2. QED
      BY <1>1, <2>1, <3>1, LenProperties
  <2>6. \A i \in DOMAIN down' \ DOMAIN down : Harmless(down'[i])
    <3> SUFFICES ASSUME NEW i \in DOMAIN down' \ DOMAIN down PROVE Harmless(down'[i])
      OBVIOUS
    <3>1. i - Len(down) \in {1, 2} /\ down'[i] = more[i - Len(down)]
      BY <2>5
    <3>2. QED
      BY <2>3, <3>1
  <2>7. /\ DOMAIN down \subseteq Nat /\ DOMAIN down \subseteq DOMAIN down'
        /\ \A i \in DOMAIN down : down'[i] = down[i]
    BY <2>5
  <2>8. QED
    BY <1>1, <1>3, <2>6, <2>7, KnowsOn
<1>4. QED
  BY <1>1, <1>2, <1>3 DEF OnItsWay, Tells, Says

\* The host's steps.
LEMMA FollowedHost ==
  ASSUME IInv, HostHears \/ HostLoses \/ HostReturns \/ HostMoves \/ HostGenerates
  PROVE  Followed'
<1> SUFFICES ASSUME up, ~strayed, NEW p, p = LastSaid, p # None
             PROVE  OnItsWay(p)'
  BY FollowedBeyond DEF HostHears, HostLoses, HostReturns, HostMoves, HostGenerates, playerVars
<1>1. UNCHANGED <<conn, uplink, cached>> /\ OnItsWay(p) /\ conn \in Conn /\ TypeOK /\ Routed
  <2>1. UNCHANGED <<conn, uplink, cached>>
    BY DEF HostHears, HostLoses, HostReturns, HostMoves, HostGenerates, playerVars, relayVars
  <2>2. OnItsWay(p) /\ conn \in Conn /\ TypeOK /\ Routed
    BY Constants DEF IInv, TypeOK, PlayerOK, Followed, OneJob, Conn
  <2>3. QED
    BY <2>1, <2>2
<1>2. CASE uplink[conn] # <<>>
  BY <1>1, <1>2 DEF OnItsWay, Tells, Says
<1>3. CASE uplink[conn] = <<>>
  <2>1. cached[conn] # None /\ Tells(cached[conn], p) /\ (hostUp => HostWillKnow(p))
    BY <1>1, <1>3 DEF OnItsWay
  <2>2. hostUp' => HostWillKnow(p)'
    <3>1. CASE HostHears
      BY <1>1, <2>1, <3>1, HostHearsIt DEF HostHears
    <3>2. CASE HostLoses
      BY <3>2 DEF HostLoses
    <3>3. CASE HostReturns
      BY <1>1, <2>1, <3>3, HostReturnsToIt
    <3>4. CASE HostMoves \/ HostGenerates
      <4>1. UNCHANGED <<conn, hostUp, personas, down>>
        BY <1>1, <3>4 DEF HostMoves, HostGenerates, relayVars
      <4>2. DOMAIN down \subseteq Nat
        <5>1. down \in Seq(News)
          BY <1>1 DEF TypeOK, RelayOK
        <5>2. DOMAIN down = 1..Len(down) /\ Len(down) \in Nat
          BY <5>1, LenProperties
        <5>3. QED
          BY <5>2
      <4>3. HostWillKnow(p) => HostWillKnow(p)'
        BY <4>1, <4>2, KnowsOn
      <4>4. QED
        BY <2>1, <4>1, <4>3
    <3>5. QED
      BY <3>1, <3>2, <3>3, <3>4
  <2>3. QED
    BY <1>1, <1>3, <2>1, <2>2 DEF OnItsWay, Tells, Says
<1>4. QED
  BY <1>2, <1>3

\* Wherever the last words are, every step keeps them on their way.
LEMMA FollowedStep ==
  ASSUME IInv, Next
  PROVE  Followed'
<1>1. CASE \E c \in Conn : RelayPasses(c) \/ RelayMisses(c)
  BY <1>1, FollowedPassing, FollowedMissing
<1>2. CASE HostHears \/ HostLoses \/ HostReturns \/ HostMoves \/ HostGenerates
  BY <1>2, FollowedHost
<1>3. CASE \/ \E j \in Job : Describing(j)
           \/ UserEdits \/ TimerFires \/ UserResyncs \/ UserSays \/ Connects \/ Disconnects
  BY <1>3, FollowedPlayer
<1>4. QED
  BY <1>1, <1>2, <1>3 DEF Next

\* The start.
LEMMA Start ==
  ASSUME Init
  PROVE  IInv
<1>1. mine \in [id : Id, text : Text]
  <2>1. PICK i \in Id, t \in Text : TRUE
    BY Constants
  <2>2. [id |-> i, text |-> t] \in [id : Id, text : Text]
    OBVIOUS
  <2>3. QED
    BY <2>2 DEF Init
<1>2. TypeOK
  <2>1. image \in [Id -> 1..MaxImages] /\ portraits \in [Id -> Version] /\ conn \in 0..MaxConn /\ acts \in 0..MaxActs
    BY Constants DEF Init, Version
  <2>2. jobs \in [Job -> Call]
    BY NoCallTyped DEF Init
  <2>3. PlayerOK
    BY <1>1, <2>1, <2>2 DEF Init, PlayerOK
  <2>4. RelayOK /\ HostOK
    <3>1. <<>> \in Seq(Frame) /\ <<>> \in Seq(News)
      BY EmptySeq
    <3>2. QED
      BY <3>1 DEF Init, RelayOK, HostOK
  <2>5. QED
    BY <2>3, <2>4 DEF TypeOK
<1>3. OneJob
  BY NoCallTyped DEF Init, OneJob, Idle
<1>4. Known /\ Followed
  BY DEF Init, Known, Followed
<1>5. Routed
  BY Constants DEF Init, Routed
<1>6. QED
  BY <1>2, <1>3, <1>4, <1>5 DEF IInv

\* Every step keeps the invariant.
LEMMA IInvStep ==
  ASSUME IInv, [Next]_vars
  PROVE  IInv'
<1>1. CASE Next
  <2>1. TypeOK'
    BY <1>1, TypeStep DEF IInv
  <2>2. OneJob' /\ Known' /\ Routed'
    BY <1>1, OneJobStep, KnownStep, RoutedStep DEF IInv
  <2>3. Followed'
    BY <1>1, FollowedStep
  <2>4. QED
    BY <2>1, <2>2, <2>3 DEF IInv
<1>2. CASE UNCHANGED vars
  <2>1. TypeOK' /\ OneJob'
    BY <1>2 DEF IInv, vars, playerVars, relayVars, hostVars, TypeOK, PlayerOK, RelayOK, HostOK, OneJob, Idle
  <2>2. Known' /\ Routed'
    BY <1>2 DEF IInv, vars, playerVars, relayVars, Known, UnderWay, Says, Routed
  <2>3. Followed'
    BY <1>2 DEF IInv, vars, playerVars, relayVars, hostVars, Followed, LastSaid, UnderWay, OnItsWay,
                HostWillKnow, Tells, Harmless, Says
  <2>4. QED
    BY <2>1, <2>2, <2>3 DEF IInv
<1>3. QED
  BY <1>1, <1>2

\* The invariant the proofs below rest on: one job publishes for the connection,
\* what it has said is the persona of the moment or on the way to be, and what it
\* has sent is wherever frames can be with nothing behind it that undoes it.
THEOREM Invariance == Spec => []IInv
  BY Start, IInvStep, PTL DEF Spec

\* Every variable keeps its type, whatever is lost and whoever returns.
THEOREM TypeCorrect == Spec => []TypeOK
<1>1. IInv => TypeOK
  BY DEF IInv
<1>2. QED
  BY <1>1, Invariance, PTL

\* "So the roster stays truthful without anyone having to send a message first"
\* (lib/session.js:820): once the awaits of publishPersona, the relay's queue and
\* the host's are done, the host knows the persona the player has chosen, for
\* every number of edits, reconnections of either, and calls under way at once.
THEOREM RoomKnows == Spec => []RoomSeesMe
<1>1. ASSUME IInv PROVE RoomSeesMe
  <2> SUFFICES ASSUME Quiet, ~strayed
               PROVE  personas[conn] # None /\ personas[conn].id = mine.id /\ personas[conn].text = mine.text
    BY DEF RoomSeesMe
  <2>1. up /\ hostUp /\ ~timer /\ down = <<>> /\ conn \in Conn /\ uplink[conn] = <<>>
    BY <1>1, Constants DEF Quiet, IInv, TypeOK, PlayerOK, OneJob, Conn
  <2>2. ~UnderWay(conn)
    BY <1>1 DEF Quiet, UnderWay, IInv, OneJob, TypeOK, PlayerOK
  <2>3. print # None /\ Says(print, mine)
    BY <1>1, <2>1, <2>2 DEF IInv, Known
  <2>4. OnItsWay(print)
    BY <1>1, <2>1, <2>2, <2>3 DEF IInv, Followed, LastSaid
  <2>5. HostWillKnow(print) /\ DOMAIN down = {}
    BY <2>1, <2>4 DEF OnItsWay
  <2>6. personas[conn] # None /\ Says(personas[conn], print)
    BY <2>5 DEF HostWillKnow
  <2>7. QED
    BY <2>3, <2>6 DEF Says
<1>2. QED
  BY <1>1, Invariance, PTL
=============================================================================
