--------------------------- MODULE CardSyncProofs ---------------------------
(* Theorems about CardStore and CardSync, for every set of files, handlers   *)
(* and revisions, with and without the browser's locks.                      *)
EXTENDS CardSync, TLAPS

\* Whoever is about to link a copy knows which.
Adopting == \A a \in Actor : job[a].what = "adopt" /\ job[a].pc = "waiting" => job[a].file # None

LEMMA Actors ==
  /\ Actor = Handler \cup {Panel, Tab} /\ Tab \in Actor /\ Panel \in Actor /\ Handler \subseteq Actor
  /\ Panel \notin Handler /\ Tab \notin Handler /\ Tab # Panel
  BY CardSyncAssumption DEF CardSyncAssumption

LEMMA Constants ==
  /\ Rev # {} /\ Rev \subseteq Nat \ {0} /\ MaxEvents \in Nat
  /\ Det \in File /\ None \notin File
  BY CardStoreAssumption DEF CardStoreAssumption, File

LEMMA NoJobTyped == NoJob \in Job /\ NoCard \in Card
  BY DEF NoJob, Job, NoCard, Card, Kind

-----------------------------------------------------------------------------
(* Types of the store *)

\* Where the steps of a call leave it.
LEMMA MovesTyped ==
  ASSUME StoreTypeOK, NEW a \in Actor, NEW j \in Job, job' = [job EXCEPT ![a] = j]
  PROVE  job' \in [Actor -> Job]
  BY DEF StoreTypeOK

LEMMA EndsTyped ==
  ASSUME StoreTypeOK, NEW a \in Actor,
         NEW how \in {"idle", "waiting", "reading", "legacy", "found", "writing", "checking",
                      "done", "failed", "aborted"},
         job' = [job EXCEPT ![a] = [job[a] EXCEPT !.pc = how]]
  PROVE  job' \in [Actor -> Job]
<1>1. [job[a] EXCEPT !.pc = how] \in Job
  BY DEF StoreTypeOK, Job
<1>2. QED
  BY <1>1, MovesTyped

LEMMA FailsTyped ==
  ASSUME StoreTypeOK, NEW a \in Actor, Fails(a)
  PROVE  job' \in [Actor -> Job] /\ events' \in 0..MaxEvents
<1>1. [job[a] EXCEPT !.pc = "failed"] \in Job
  BY DEF StoreTypeOK, Job
<1>2. job' = [job EXCEPT ![a] = [job[a] EXCEPT !.pc = "failed"]]
  BY DEF Fails
<1>3. events' \in 0..MaxEvents
  BY Constants DEF Fails, Happens, StoreTypeOK
<1>4. QED
  BY <1>1, <1>2, <1>3, MovesTyped

LEMMA CallsTyped ==
  ASSUME StoreTypeOK, NEW a \in Actor, NEW what \in {"sync", "avatar", "adopt"},
         NEW rev \in Rev \cup {0}, NEW file \in File \cup {None}, Calls(a, what, rev, file)
  PROVE  job' \in [Actor -> Job]
<1>1. [NoJob EXCEPT !.what = what, !.pc = "waiting", !.rev = rev, !.file = file] \in Job
  BY NoJobTyped DEF Job
<1>2. QED
  BY <1>1, MovesTyped DEF Calls

LEMMA FilesDue ==
  ASSUME StoreTypeOK, NEW a \in Actor
  PROVE  /\ WindowOf(a) \in Window
         /\ Names(WindowOf(a)) \subseteq File /\ Det \in Names(WindowOf(a))
         /\ Due(a) \subseteq job[a].todo
<1>1. WindowOf(a) \in Window
  BY DEF WindowOf, Window
<1>2. QED
  BY <1>1, Constants DEF StoreTypeOK, Names, Due

LEMMA BeginsTyped ==
  ASSUME StoreTypeOK, NEW a \in Actor, Begins(a), Adopting
  PROVE  job' \in [Actor -> Job] /\ events' = events
<1>1. ASSUME NEW names \in SUBSET File,
             Moves(a, [job[a] EXCEPT !.pc = "reading", !.todo = names])
      PROVE  job' \in [Actor -> Job] /\ events' = events
  <2>1. [job[a] EXCEPT !.pc = "reading", !.todo = names] \in Job
    BY DEF StoreTypeOK, Job
  <2>2. QED
    BY <1>1, <2>1, MovesTyped DEF Moves
<1>2. CASE Ends(a, "aborted") \/ Ends(a, "failed")
  BY <1>2, EndsTyped DEF Ends, Moves
<1>3. CASE \E names \in SUBSET File : Moves(a, [job[a] EXCEPT !.pc = "reading", !.todo = names])
  BY <1>1, <1>3
<1>4. \/ Ends(a, "aborted") \/ Ends(a, "failed")
      \/ \E names \in SUBSET File : Moves(a, [job[a] EXCEPT !.pc = "reading", !.todo = names])
  <2>1. records[WindowOf(a)] # None => {records[WindowOf(a)]} \in SUBSET File
    BY FilesDue DEF StoreTypeOK
  <2>2. job[a].pc = "waiting" /\ job[a].what = "adopt" => {job[a].file} \in SUBSET File
    BY DEF StoreTypeOK, Job, Adopting
  <2>3. QED
    BY <2>1, <2>2, FilesDue DEF Begins
<1>5. QED
  BY <1>2, <1>3, <1>4

\* A file that is read is a file, and what is left to read are files.
LEMMA FoundTyped ==
  ASSUME StoreTypeOK, NEW a \in Actor, NEW f \in File, Found(a, f)
  PROVE  job' \in [Actor -> Job] /\ events' = events
<1>1. [job[a] EXCEPT !.pc = "found", !.file = f, !.read = disk[f], !.todo = {}] \in Job
  BY DEF StoreTypeOK, Job
<1>2. QED
  BY <1>1, MovesTyped DEF Found, Moves

LEMMA PassesTyped ==
  ASSUME StoreTypeOK, NEW a \in Actor, NEW f, Moves(a, [job[a] EXCEPT !.todo = @ \ {f}])
  PROVE  job' \in [Actor -> Job] /\ events' = events
<1>1. [job[a] EXCEPT !.todo = @ \ {f}] \in Job
  BY DEF StoreTypeOK, Job
<1>2. QED
  BY <1>1, MovesTyped DEF Moves

LEMMA ReadsTyped ==
  ASSUME StoreTypeOK, NEW a \in Actor, Reads(a) \/ ReadsLegacy(a)
  PROVE  job' \in [Actor -> Job] /\ events' \in 0..MaxEvents
<1>1. \/ Ends(a, "aborted") \/ Ends(a, "failed") \/ Fails(a)
      \/ \E f \in job[a].todo : Found(a, f) \/ Moves(a, [job[a] EXCEPT !.todo = @ \ {f}])
  BY FilesDue DEF Reads, ReadsLegacy
<1>2. job[a].todo \subseteq File /\ events \in 0..MaxEvents
  BY DEF StoreTypeOK, Job
<1>3. CASE Ends(a, "aborted") \/ Ends(a, "failed")
  BY <1>2, <1>3, EndsTyped DEF Ends, Moves
<1>4. CASE Fails(a)
  BY <1>4, FailsTyped
<1>5. ASSUME NEW f \in job[a].todo, Found(a, f) \/ Moves(a, [job[a] EXCEPT !.todo = @ \ {f}])
      PROVE  job' \in [Actor -> Job] /\ events' \in 0..MaxEvents
  BY <1>2, <1>5, FoundTyped, PassesTyped
<1>6. QED
  BY <1>1, <1>3, <1>4, <1>5

LEMMA WrittenTyped ==
  ASSUME StoreTypeOK, NEW a \in Actor, NEW f \in File
  PROVE  Written(a, f) \in Card /\ [Written(a, f) EXCEPT !.picture = 0] \in Card
<1>1. disk[f] \in Card /\ job[a] \in Job
  BY DEF StoreTypeOK
<1>2. SyncWrites(a, f) \in Card /\ AdoptWrites(a, f) \in Card /\ AvatarWrites(a) \in Card
  BY <1>1 DEF SyncWrites, AdoptWrites, AvatarWrites, Card, Job, Kind
<1>3. Written(a, f) \in Card
  BY <1>1, <1>2 DEF Written, Job
<1>4. QED
  BY <1>3 DEF Card

LEMMA SucceedsTyped ==
  ASSUME StoreTypeOK, NEW a \in Actor, NEW f \in File \cup {None}, Succeeds(a, f)
  PROVE  job' \in [Actor -> Job] /\ records' \in [Window -> File \cup {None}] /\ events' = events
<1>1. [job[a] EXCEPT !.pc = "done", !.file = f] \in Job
  BY DEF StoreTypeOK, Job
<1>2. QED
  BY <1>1, MovesTyped DEF Succeeds, Moves, Recorded, StoreTypeOK

LEMMA DecidesTyped ==
  ASSUME StoreTypeOK, NEW a \in Actor, Decides(a) \/ Checks(a), UNCHANGED current
  PROVE  StoreTypeOK'
<1>1. job[a].file \in File \cup {None} /\ events \in 0..MaxEvents
  BY DEF StoreTypeOK, Job
<1>2. CASE Succeeds(a, job[a].file)
  BY <1>1, <1>2, SucceedsTyped DEF Succeeds, StoreTypeOK
<1>3. CASE UNCHANGED fileVars /\ (Ends(a, "aborted") \/ Ends(a, "failed"))
  BY <1>3, EndsTyped DEF Ends, Moves, fileVars, StoreTypeOK
<1>4. CASE UNCHANGED fileVars /\ Fails(a)
  BY <1>4, FailsTyped DEF fileVars, StoreTypeOK
<1>5. CASE UNCHANGED fileVars /\ Moves(a, [job[a] EXCEPT !.pc = "writing", !.changed = TRUE])
  <2>1. [job[a] EXCEPT !.pc = "writing", !.changed = TRUE] \in Job
    BY DEF StoreTypeOK, Job
  <2>2. QED
    BY <1>5, <2>1, MovesTyped DEF Moves, fileVars, StoreTypeOK
<1>6. QED
  BY <1>2, <1>3, <1>4, <1>5 DEF Decides, Checks

LEMMA RequestsTyped ==
  ASSUME StoreTypeOK, NEW a \in Actor, NEW f \in File, NEW new \in Card, Requests(a, f, new),
         UNCHANGED current
  PROVE  StoreTypeOK'
<1>1. [job[a] EXCEPT !.pc = "checking", !.file = f] \in Job
  BY DEF StoreTypeOK, Job
<1>2. disk' \in [File -> Card] /\ UNCHANGED <<list, records>>
  BY DEF Requests, StoreTypeOK
<1>3. CASE Moves(a, [job[a] EXCEPT !.pc = "checking", !.file = f])
  BY <1>1, <1>2, <1>3, MovesTyped DEF Moves, StoreTypeOK
<1>4. CASE Fails(a)
  BY <1>2, <1>4, FailsTyped DEF StoreTypeOK
<1>5. QED
  BY <1>3, <1>4 DEF Requests

LEMMA StoreTyped ==
  ASSUME StoreTypeOK, NEW a \in Actor, StoreStep(a), Adopting
  PROVE  StoreTypeOK'
<1>1. UNCHANGED current
  BY DEF StoreStep
<1>2. CASE Begins(a)
  BY <1>1, <1>2, BeginsTyped DEF Begins, fileVars, StoreTypeOK
<1>3. CASE Reads(a) \/ ReadsLegacy(a)
  BY <1>1, <1>3, ReadsTyped DEF Reads, ReadsLegacy, fileVars, StoreTypeOK
<1>4. CASE TurnsToLegacy(a)
  <2>1. [job[a] EXCEPT !.pc = "legacy", !.todo = {f \in File : list[WindowOf(a)][f] = "legacy"}] \in Job
    BY DEF StoreTypeOK, Job
  <2>2. QED
    BY <1>1, <1>4, <2>1, MovesTyped DEF TurnsToLegacy, Moves, fileVars, StoreTypeOK
<1>5. CASE FindsNothing(a)
  <2>1. [job[a] EXCEPT !.pc = "found", !.file = None] \in Job
    BY DEF StoreTypeOK, Job
  <2>2. QED
    BY <1>1, <1>5, <2>1, MovesTyped DEF FindsNothing, Moves, fileVars, StoreTypeOK
<1>6. CASE Decides(a) \/ Checks(a)
  BY <1>1, <1>6, DecidesTyped
<1>7. CASE Imports(a)
  BY <1>1, <1>7, Constants, WrittenTyped, RequestsTyped DEF Imports
<1>8. CASE Edits(a)
  <2>1. job[a].file \in File
    BY <1>8 DEF Edits, StoreTypeOK, Job
  <2>2. CASE Requests(a, job[a].file, Written(a, job[a].file))
    BY <1>1, <2>1, <2>2, WrittenTyped, RequestsTyped
  <2>3. CASE Ends(a, "failed") /\ UNCHANGED fileVars
    BY <1>1, <2>3, EndsTyped DEF Ends, Moves, fileVars, StoreTypeOK
  <2>4. QED
    BY <1>8, <2>2, <2>3 DEF Edits
<1>9. QED
  BY <1>2, <1>3, <1>4, <1>5, <1>6, <1>7, <1>8 DEF StoreStep

-----------------------------------------------------------------------------
(* The inductive invariant *)

\* A call that looks for its file has the deterministic name still before it,
\* or has seen that no card of the user's is there.
Looks(a) ==
  /\ job[a].pc = "reading" =>
       IF job[a].what = "sync" THEN Det \in job[a].todo \/ disk[Det].kind # "own" ELSE job[a].todo # {}
  /\ job[a].pc = "legacy" => job[a].what = "sync" /\ disk[Det].kind # "own"

\* A call that has found its file, or that there is none, writes over nothing
\* of the user's.
Holds(a) ==
  job[a].pc \in {"found", "writing"} =>
    /\ IF job[a].file = None THEN job[a].what = "sync" /\ disk[Det].kind # "own"
                             ELSE disk[job[a].file].kind # "own"
    /\ job[a].what = "avatar" => job[a].read.kind = "stub"

Careful == \A a \in Actor : Looks(a) /\ Holds(a)

IInv == TypeOK /\ Adopting /\ Careful

ClientTypeOK ==
  /\ {index, held, pending, asked, illustrating, live} \subseteq Revision
  /\ stub \in File \cup {None} /\ behind \in BOOLEAN
RoomTypeOK == {card, catalogue} \subseteq Revision /\ toClient \in Seq(Message) /\ toHost \in Seq(Request)

LEMMA Parts ==
  TypeOK <=> StoreTypeOK /\ ClientTypeOK /\ RoomTypeOK /\ up \in BOOLEAN /\ at \in [Actor -> Place]
  BY DEF TypeOK, ClientTypeOK, RoomTypeOK

LEMMA Initially == Init => IInv
<1> SUFFICES ASSUME Init PROVE IInv
  OBVIOUS
<1>1. \A k \in {"own", "legacy"} : [NoCard EXCEPT !.kind = k] \in Card
  BY DEF NoCard, Card, Kind
<1>2. disk \in [File -> Card]
  BY <1>1, NoJobTyped DEF Init, StoreInit
<1>3. list \in [Window -> [File -> Kind]]
  BY <1>2 DEF Init, StoreInit, Card
<1>4. StoreTypeOK
  BY <1>2, <1>3, NoJobTyped, Constants DEF Init, StoreInit, StoreTypeOK
<1>5. card \in Rev /\ catalogue = card
  BY Constants DEF Init
<1>6. TypeOK
  <2>1. ClientTypeOK
    BY DEF Init, ClientTypeOK, Revision
  <2>4. RoomTypeOK
    BY <1>5 DEF Init, RoomTypeOK, Revision
  <2>2. up \in BOOLEAN
    BY DEF Init
  <2>3. at \in [Actor -> Place]
    BY DEF Init, Place
  <2>5. QED
    BY <1>4, <2>1, <2>2, <2>3, <2>4, Parts
<1>7. Adopting /\ Careful
  BY DEF Init, StoreInit, NoJob, Adopting, Careful, Looks, Holds
<1>8. QED
  BY <1>6, <1>7 DEF IInv

-----------------------------------------------------------------------------
(* Types of the rest *)

LEMMA NextMessage ==
  ASSUME TypeOK, NEW a, NEW op, Next1(a, op)
  PROVE  /\ Head(toClient) \in Message /\ Head(toClient).rev \in Revision
         /\ toClient' \in Seq(Message) /\ a \in Actor
<1>1. toClient \in Seq(Message) /\ toClient # <<>> /\ toClient' = Tail(toClient)
  BY DEF TypeOK, Next1
<1>2. Head(toClient) \in Message /\ toClient' \in Seq(Message)
  BY <1>1
<1>3. QED
  BY <1>2, Actors DEF Next1, Message

LEMMA AsksTyped ==
  ASSUME TypeOK, NEW want \in Request, Asks(want)
  PROVE  toHost' \in Seq(Request)
  BY DEF TypeOK, Asks

LEMMA AnnouncesTyped ==
  ASSUME TypeOK, Announces
  PROVE  catalogue' \in Revision /\ toClient' \in Seq(Message)
  BY DEF TypeOK, Announces, Message1, Message

LEMMA OverTyped ==
  ASSUME TypeOK, NEW a \in Actor, Over(a)
  PROVE  /\ at' \in [Actor -> Place] /\ job' \in [Actor -> Job] /\ current' \in [Actor -> BOOLEAN]
  BY NoJobTyped DEF Over, Goes, TypeOK, StoreTypeOK, Place

LEMMA RevisionOf ==
  ASSUME TypeOK, NEW a \in Actor
  PROVE  job[a].rev \in Revision /\ job[a].file \in File \cup {None}
  BY DEF TypeOK, StoreTypeOK, Job, Revision

LEMMA RoomTyped ==
  ASSUME TypeOK, HostChanges \/ HostPublishes \/ HostAnswers \/ Connects \/ Disconnects \/ UserOpens
  PROVE  TypeOK'
<1>1. CASE HostChanges
  BY <1>1, Constants DEF HostChanges, Happens, TypeOK, StoreTypeOK, clientVars, fileVars
<1>2. CASE HostPublishes
  BY <1>2, AnnouncesTyped DEF HostPublishes, TypeOK, StoreTypeOK, clientVars, storeVars, fileVars
<1>3. CASE HostAnswers
  <2>1. toHost' \in Seq(Request) /\ Head(toHost) \in Request
    BY <1>3 DEF HostAnswers, TypeOK
  <2>2. catalogue' \in Revision /\ toClient' \in Seq(Message)
    <3>1. CASE Announces
      BY <3>1, AnnouncesTyped
    <3>2. CASE /\ Head(toHost) # "republish" /\ UNCHANGED catalogue
               /\ toClient' = Append(toClient, Message1(Head(toHost), catalogue))
      BY <2>1, <3>2 DEF Request, Message1, Message, TypeOK
    <3>3. CASE UNCHANGED <<toClient, catalogue>>
      BY <3>3 DEF TypeOK
    <3>4. QED
      BY <1>3, <3>1, <3>2, <3>3 DEF HostAnswers
  <2>3. QED
    BY <1>3, <2>1, <2>2 DEF HostAnswers, TypeOK, StoreTypeOK, clientVars, storeVars, fileVars
<1>4. CASE Connects
  <2>1. toClient' \in Seq(Message)
    BY <1>4 DEF Connects, Message1, Message, TypeOK
  <2>2. QED
    BY <1>4, <2>1 DEF Connects, TypeOK, StoreTypeOK, clientVars, storeVars, fileVars
<1>5. CASE Disconnects
  <2>1. StoreTypeOK'
    <3>1. current' \in [Actor -> BOOLEAN]
      BY <1>5 DEF Disconnects, TypeOK, StoreTypeOK
    <3>2. events' \in 0..MaxEvents
      BY <1>5, Constants DEF Disconnects, Happens, TypeOK, StoreTypeOK
    <3>3. QED
      BY <1>5, <3>1, <3>2 DEF Disconnects, TypeOK, StoreTypeOK, fileVars
  <2>2. ClientTypeOK'
    BY <1>5 DEF Disconnects, Dehydrates, TypeOK, ClientTypeOK, Revision
  <2>3. RoomTypeOK' /\ up' \in BOOLEAN /\ at' \in [Actor -> Place]
    <3>1. up' \in BOOLEAN
      BY <1>5 DEF Disconnects
    <3>2. QED
      BY <1>5, <3>1 DEF Disconnects, TypeOK, RoomTypeOK
  <2>4. QED
    BY <2>1, <2>2, <2>3 DEF TypeOK, ClientTypeOK, RoomTypeOK
<1>6. CASE UserOpens
  <2>1. toHost' \in Seq(Request)
    BY <1>6, AsksTyped DEF UserOpens, Request
  <2>2. QED
    BY <1>6, <2>1, Constants DEF UserOpens, Happens, TypeOK, StoreTypeOK, clientVars, fileVars
<1>7. QED
  BY <1>1, <1>2, <1>3, <1>4, <1>5, <1>6

LEMMA StoreKeptTyped ==
  ASSUME TypeOK, StoreKept, job' \in [Actor -> Job], current' \in [Actor -> BOOLEAN]
  PROVE  StoreTypeOK'
  BY DEF TypeOK, StoreTypeOK, StoreKept, fileVars

LEMMA GoesTyped ==
  ASSUME TypeOK, NEW a \in Actor, NEW place \in Place, Goes(a, place)
  PROVE  at' \in [Actor -> Place]
  BY DEF TypeOK, Goes

LEMMA BooleanTyped ==
  ASSUME TypeOK, NEW a \in Actor, NEW b \in BOOLEAN, current' = [current EXCEPT ![a] = b]
  PROVE  current' \in [Actor -> BOOLEAN]
  BY DEF TypeOK, StoreTypeOK

LEMMA DefinitionTyped ==
  ASSUME TypeOK, NEW a \in Actor, NEW v \in Revision, Definition(a, v)
  PROVE  /\ {held', pending', asked'} \subseteq Revision
         /\ toHost' \in Seq(Request) /\ at' \in [Actor -> Place]
<1>1. toHost' \in Seq(Request)
  BY AsksTyped DEF Definition, Request, TypeOK
<1>2. QED
  BY <1>1, GoesTyped DEF Definition, TypeOK, Revision, Place

LEMMA IndexTyped ==
  ASSUME TypeOK, NEW a \in Handler, TakesIndex(a)
  PROVE  TypeOK'
<1> DEFINE v == Head(toClient).rev
<1>1. Next1(a, "index")
  BY DEF TakesIndex
<1>2. v \in Revision /\ a \in Actor /\ toClient' \in Seq(Message)
  BY <1>1, NextMessage
<1>3. ClientTypeOK'
  BY <1>2 DEF TakesIndex, Forgets, Dehydrates, TypeOK, ClientTypeOK, Revision
<1>4. job' \in [Actor -> Job] /\ current' \in [Actor -> BOOLEAN] /\ at' \in [Actor -> Place]
  <2>1. CASE v = 0
    <3>1. Goes(a, "wanted") /\ UNCHANGED job /\ current' = [current EXCEPT ![a] = TRUE]
      BY <2>1 DEF TakesIndex
    <3>2. QED
      BY <1>2, <3>1, GoesTyped, BooleanTyped DEF TypeOK, StoreTypeOK, Place
  <2>2. CASE v # 0
    <3>1. Goes(a, "sync") /\ Calls(a, "sync", v, None) /\ current' = [current EXCEPT ![a] = TRUE]
      BY <2>2 DEF TakesIndex
    <3>2. job' \in [Actor -> Job]
      BY <1>2, <3>1, CallsTyped DEF TypeOK, Revision
    <3>3. QED
      BY <1>2, <3>1, <3>2, GoesTyped, BooleanTyped DEF Place
  <2>3. QED
    BY <2>1, <2>2
<1>5. StoreTypeOK'
  BY <1>4, StoreKeptTyped DEF TakesIndex
<1>6. RoomTypeOK' /\ up' \in BOOLEAN
  BY <1>2 DEF TakesIndex, TypeOK, RoomTypeOK
<1>7. QED
  BY <1>3, <1>4, <1>5, <1>6 DEF TypeOK, ClientTypeOK, RoomTypeOK

LEMMA SyncedTyped ==
  ASSUME TypeOK, NEW a \in Handler, Synced(a) \/ Wanted(a) \/ SyncFailed(a)
  PROVE  TypeOK'
<1>1. a \in Actor /\ job[a].rev \in Revision /\ job[a].file \in File \cup {None}
  BY Actors, RevisionOf
<1>2. CASE Synced(a)
  <2>1. CASE illustrating' = job[a].rev /\ Asks("avatar") /\ Goes(a, "want") /\ UNCHANGED <<held, pending, asked>>
    <3>1. toHost' \in Seq(Request) /\ at' \in [Actor -> Place]
      BY <1>1, <2>1, AsksTyped, GoesTyped DEF Request, Place
    <3>2. QED
      BY <1>1, <1>2, <2>1, <3>1 DEF Synced, TypeOK, StoreTypeOK, storeVars, fileVars
  <2>2. CASE UNCHANGED illustrating /\ Definition(a, job[a].rev)
    BY <1>1, <1>2, <2>2, DefinitionTyped DEF Synced, TypeOK, StoreTypeOK, storeVars, fileVars
  <2>3. QED
    BY <1>2, <2>1, <2>2 DEF Synced
<1>3. CASE Wanted(a)
  BY <1>1, <1>3, DefinitionTyped DEF Wanted, TypeOK, StoreTypeOK, storeVars, fileVars
<1>4. CASE SyncFailed(a)
  <2>1. job[a] \in Job /\ FALSE \in BOOLEAN
    BY <1>1 DEF TypeOK, StoreTypeOK
  <2>2. [job[a] EXCEPT !.changed = FALSE] \in Job
    BY ONLY <2>1 DEF Job
  <2>3. job' \in [Actor -> Job] /\ at' \in [Actor -> Place]
    BY <1>1, <1>4, <2>2, GoesTyped DEF SyncFailed, TypeOK, StoreTypeOK, Place
  <2>4. QED
    BY <1>4, <2>3 DEF SyncFailed, StoreKept, TypeOK, StoreTypeOK, fileVars, clientVars, roomVars
<1>5. QED
  BY <1>2, <1>3, <1>4

LEMMA LoopTyped ==
  ASSUME TypeOK, NEW a \in Handler, LoopEnds(a)
  PROVE  TypeOK'
<1>1. a \in Actor
  BY Actors
<1>2. job' \in [Actor -> Job] /\ current' \in [Actor -> BOOLEAN] /\ at' \in [Actor -> Place]
  <2>1. CASE Goes(a, "refresh") /\ UNCHANGED <<job, current>>
    BY <1>1, <2>1, GoesTyped DEF TypeOK, StoreTypeOK, Place
  <2>2. CASE Over(a)
    BY <1>1, <2>2, OverTyped
  <2>3. QED
    BY <2>1, <2>2 DEF LoopEnds
<1>3. ClientTypeOK'
  BY DEF LoopEnds, Applies, Hydrates, TypeOK, ClientTypeOK, Revision
<1>4. StoreTypeOK'
  BY <1>2, StoreKeptTyped DEF LoopEnds
<1>5. QED
  BY <1>2, <1>3, <1>4 DEF LoopEnds, TypeOK, ClientTypeOK, roomVars

LEMMA RefreshTyped ==
  ASSUME TypeOK, NEW a \in Actor, RefreshBegins(a)
  PROVE  TypeOK'
<1>1. job' \in [Actor -> Job] /\ current' \in [Actor -> BOOLEAN] /\ at' \in [Actor -> Place]
  BY OverTyped, GoesTyped DEF RefreshBegins, TypeOK, StoreTypeOK, Place
<1>2. ClientTypeOK'
  BY DEF RefreshBegins, Dehydrates, TypeOK, ClientTypeOK, Revision
<1>3. StoreTypeOK'
  BY <1>1, StoreKeptTyped DEF RefreshBegins
<1>4. QED
  BY <1>1, <1>2, <1>3 DEF RefreshBegins, TypeOK, ClientTypeOK, roomVars

LEMMA RefreshedTyped ==
  ASSUME TypeOK, NEW a \in Actor, RefreshEnds(a)
  PROVE  TypeOK'
<1>1. job' \in [Actor -> Job] /\ current' \in [Actor -> BOOLEAN] /\ at' \in [Actor -> Place]
  BY OverTyped DEF RefreshEnds
<1>2. list' \in [Window -> [File -> Kind]]
  BY DEF RefreshEnds, Lists, TypeOK, StoreTypeOK, Card
<1>3. StoreTypeOK'
  BY <1>1, <1>2 DEF RefreshEnds, TypeOK, StoreTypeOK
<1>4. toHost' \in Seq(Request) /\ {asked', illustrating'} \subseteq Revision
  <2>1. CASE a = Panel /\ up
    BY <2>1, AsksTyped DEF RefreshEnds, Resyncs, Request, Revision
  <2>2. CASE ~(a = Panel /\ up)
    BY <2>2 DEF RefreshEnds, Resyncs, TypeOK
  <2>3. QED
    BY <2>1, <2>2
<1>5. {live', pending'} \subseteq Revision
  BY DEF RefreshEnds, Hydrates, Dehydrates, TypeOK, Revision
<1>6. QED
  BY <1>1, <1>3, <1>4, <1>5 DEF RefreshEnds, TypeOK

LEMMA DefinitionsTyped ==
  ASSUME TypeOK, NEW a \in Handler, TakesDefinition(a) \/ Hashed(a)
  PROVE  TypeOK'
<1>1. a \in Actor /\ job[a].rev \in Revision
  BY Actors, RevisionOf
<1>2. CASE TakesDefinition(a)
  <2>1. Next1(a, "definition")
    BY <1>2 DEF TakesDefinition
  <2>2. toClient' \in Seq(Message)
    BY <2>1, NextMessage
  <2>3. [NoJob EXCEPT !.rev = index] \in Job
    BY NoJobTyped DEF TypeOK, Revision, Job
  <2>4. job' \in [Actor -> Job] /\ current' \in [Actor -> BOOLEAN] /\ at' \in [Actor -> Place]
    BY <1>1, <1>2, <2>3, GoesTyped, BooleanTyped DEF TakesDefinition, TypeOK, StoreTypeOK, Place
  <2>5. StoreTypeOK'
    BY <1>2, <2>4, StoreKeptTyped DEF TakesDefinition
  <2>6. QED
    BY <1>2, <2>2, <2>4, <2>5 DEF TakesDefinition, TypeOK, clientVars
<1>3. CASE Hashed(a)
  <2>1. job' \in [Actor -> Job] /\ current' \in [Actor -> BOOLEAN] /\ at' \in [Actor -> Place]
    BY <1>1, <1>3, OverTyped, GoesTyped DEF Hashed, TypeOK, StoreTypeOK, Place
  <2>2. StoreTypeOK'
    BY <1>3, <2>1, StoreKeptTyped DEF Hashed
  <2>3. ClientTypeOK'
    BY <1>1, <1>3 DEF Hashed, Hydrates, TypeOK, ClientTypeOK, Revision
  <2>4. QED
    BY <1>3, <2>1, <2>2, <2>3 DEF Hashed, TypeOK, ClientTypeOK, roomVars
<1>4. QED
  BY <1>2, <1>3

LEMMA AvatarsTyped ==
  ASSUME TypeOK, NEW a \in Handler, TakesAvatar(a) \/ Illustrated(a)
  PROVE  TypeOK'
<1>1. a \in Actor
  BY Actors
<1>2. CASE TakesAvatar(a)
  <2>1. Next1(a, "avatar")
    BY <1>2 DEF TakesAvatar
  <2>2. toClient' \in Seq(Message)
    BY <2>1, NextMessage
  <2>3. CASE Calls(a, "avatar", index, None) /\ Goes(a, "illustrate") /\ current' = [current EXCEPT ![a] = TRUE]
    <3>1. job' \in [Actor -> Job]
      BY <1>1, <2>3, CallsTyped DEF TypeOK, Revision
    <3>2. current' \in [Actor -> BOOLEAN] /\ at' \in [Actor -> Place]
      BY <1>1, <2>3, GoesTyped, BooleanTyped DEF Place
    <3>3. StoreTypeOK'
      BY <1>2, <3>1, <3>2, StoreKeptTyped DEF TakesAvatar
    <3>4. QED
      BY <1>2, <2>2, <3>2, <3>3 DEF TakesAvatar, TypeOK, clientVars
  <2>4. CASE UNCHANGED <<at, job, current>>
    BY <1>2, <2>2, <2>4 DEF TakesAvatar, StoreKept, TypeOK, StoreTypeOK, fileVars, clientVars
  <2>5. QED
    BY <1>2, <2>3, <2>4 DEF TakesAvatar
<1>3. CASE Illustrated(a)
  <2>1. job' \in [Actor -> Job] /\ current' \in [Actor -> BOOLEAN] /\ at' \in [Actor -> Place]
    BY <1>1, <1>3, OverTyped, GoesTyped DEF Illustrated, TypeOK, StoreTypeOK, Place
  <2>2. StoreTypeOK'
    BY <1>3, <2>1, StoreKeptTyped DEF Illustrated
  <2>3. illustrating' \in Revision
    BY <1>3 DEF Illustrated, TypeOK, Revision
  <2>4. QED
    BY <1>3, <2>1, <2>2, <2>3 DEF Illustrated, TypeOK, roomVars
<1>4. QED
  BY <1>2, <1>3

LEMMA OthersTyped ==
  ASSUME TypeOK,
         \/ \E f \in File : PanelLinks(f)
         \/ PanelLinked \/ TabReturns
         \/ \E v \in Rev, what \in {"sync", "avatar"} : TabCalls(what, v)
         \/ \E f \in File, kind \in {"none", "own"} : UserChanges(f, kind)
  PROVE  TypeOK'
<1>1. ASSUME NEW f \in File, PanelLinks(f) PROVE TypeOK'
  <2>1. job' \in [Actor -> Job]
    BY <1>1, Actors, CallsTyped DEF PanelLinks, TypeOK, Revision
  <2>2. current' \in [Actor -> BOOLEAN] /\ at' \in [Actor -> Place]
    BY <1>1, Actors, GoesTyped, BooleanTyped DEF PanelLinks, Place
  <2>3. events' \in 0..MaxEvents
    BY <1>1, Constants DEF PanelLinks, Happens, TypeOK, StoreTypeOK
  <2>4. QED
    BY <1>1, <2>1, <2>2, <2>3 DEF PanelLinks, TypeOK, StoreTypeOK, fileVars, clientVars
<1>2. CASE PanelLinked
  BY <1>2, Actors, GoesTyped DEF PanelLinked, TypeOK, StoreTypeOK, storeVars, fileVars, clientVars, roomVars, Place
<1>3. CASE TabReturns
  <2>1. job' \in [Actor -> Job] /\ current' \in [Actor -> BOOLEAN]
    BY <1>3, Actors, NoJobTyped, BooleanTyped DEF TabReturns, TypeOK, StoreTypeOK
  <2>2. list' \in [Window -> [File -> Kind]]
    <3>1. disk \in [File -> Card] /\ list \in [Window -> [File -> Kind]]
      BY DEF TypeOK, StoreTypeOK
    <3>2. CASE Lists("tab")
      BY <3>1, <3>2 DEF Lists, Card
    <3>3. QED
      BY <1>3, <3>1, <3>2 DEF TabReturns
  <2>3. QED
    BY <1>3, <2>1, <2>2 DEF TabReturns, TypeOK, StoreTypeOK, clientVars, roomVars
<1>4. ASSUME NEW v \in Rev, NEW what \in {"sync", "avatar"}, TabCalls(what, v) PROVE TypeOK'
  <2>1. job' \in [Actor -> Job]
    <3>1. Calls(Tab, what, v, None)
      BY <1>4 DEF TabCalls
    <3>2. Tab \in Actor /\ v \in Rev \cup {0} /\ what \in {"sync", "avatar", "adopt"} /\ StoreTypeOK
      BY Actors DEF TypeOK
    <3>3. QED
      BY <3>1, <3>2, CallsTyped
  <2>2. current' \in [Actor -> BOOLEAN]
    BY <1>4, Actors, BooleanTyped DEF TabCalls
  <2>3. events' \in 0..MaxEvents
    BY <1>4, Constants DEF TabCalls, Happens, TypeOK, StoreTypeOK
  <2>4. QED
    BY <1>4, <2>1, <2>2, <2>3 DEF TabCalls, TypeOK, StoreTypeOK, fileVars, clientVars
<1>5. ASSUME NEW f \in File, NEW kind \in {"none", "own"}, UserChanges(f, kind) PROVE TypeOK'
  <2>1. [NoCard EXCEPT !.kind = kind] \in Card
    BY DEF NoCard, Card, Kind
  <2>2. disk' \in [File -> Card] /\ events' \in 0..MaxEvents
    BY <1>5, <2>1, Constants DEF UserChanges, UserReplaces, Happens, TypeOK, StoreTypeOK
  <2>3. QED
    BY <1>5, <2>2 DEF UserChanges, UserReplaces, TypeOK, StoreTypeOK, clientVars
<1>6. QED
  BY <1>1, <1>2, <1>3, <1>4, <1>5

LEMMA TypeStep == ASSUME IInv, Next PROVE TypeOK'
<1> USE DEF IInv
<1>1. CASE HostChanges \/ HostPublishes \/ HostAnswers \/ Connects \/ Disconnects \/ UserOpens
  BY <1>1, RoomTyped
<1>2. ASSUME NEW a \in Handler, Handles(a) PROVE TypeOK'
  BY <1>2, IndexTyped, SyncedTyped, LoopTyped, DefinitionsTyped, AvatarsTyped DEF Handles
<1>3. ASSUME NEW a \in Actor, Carries(a) PROVE TypeOK'
  <2>1. CASE StoreStep(a) /\ UNCHANGED <<clientVars, up, at, roomVars>>
    <3>1. StoreTypeOK'
      BY <2>1, StoreTyped DEF TypeOK
    <3>2. QED
      BY <2>1, <3>1 DEF TypeOK, clientVars, roomVars
  <2>2. CASE RefreshBegins(a) \/ RefreshEnds(a)
    BY <2>2, RefreshTyped, RefreshedTyped
  <2>3. CASE Aborted(a)
    <3>1. StoreTypeOK'
      BY <2>3, OverTyped, StoreKeptTyped DEF Aborted
    <3>2. QED
      BY <2>3, <3>1, OverTyped DEF Aborted, TypeOK, clientVars, roomVars
  <2>4. QED
    BY <1>3, <2>1, <2>2, <2>3 DEF Carries
<1>4. CASE \/ \E f \in File : PanelLinks(f)
           \/ PanelLinked \/ TabReturns
           \/ \E v \in Rev, what \in {"sync", "avatar"} : TabCalls(what, v)
           \/ \E f \in File, kind \in {"none", "own"} : UserChanges(f, kind)
  BY <1>4, OthersTyped
<1>5. QED
  BY <1>1, <1>2, <1>3, <1>4 DEF Next

-----------------------------------------------------------------------------
(* The user's own cards *)

\* What is asked to be written is a stub.
LEMMA StubsWritten ==
  ASSUME StoreTypeOK, NEW a \in Actor, Holds(a), job[a].pc = "writing", NEW f \in File
  PROVE  /\ Written(a, f).kind = "stub"
         /\ [Written(a, f) EXCEPT !.picture = 0].kind = "stub"
<1>1. job[a] \in Job
  BY DEF StoreTypeOK
<1>2. job[a].what \in {"sync", "avatar", "adopt"} /\ job[a].read \in Card
  BY <1>1 DEF Job
<1>3. CASE job[a].what = "avatar"
  <2>1. job[a].read.kind = "stub"
    BY <1>3 DEF Holds
  <2>2. Written(a, f).kind = "stub"
    BY <1>2, <1>3, <2>1 DEF Written, AvatarWrites, Card
  <2>3. QED
    BY <2>2, WrittenTyped DEF Card
<1>4. CASE job[a].what # "avatar"
  <2>1. Written(a, f).kind = "stub"
    BY <1>2, <1>4 DEF Written, SyncWrites, AdoptWrites
  <2>2. QED
    BY <2>1, WrittenTyped DEF Card
<1>5. QED
  BY <1>3, <1>4

\* No step of a call takes a card from the user, or makes one of theirs.
OwnKept == \A f \in File : IF disk[f].kind = "own" THEN disk'[f] = disk[f] ELSE disk'[f].kind # "own"

LEMMA StoreKeepsOwn ==
  ASSUME StoreTypeOK, NEW a \in Actor, StoreStep(a), Holds(a)
  PROVE  OwnKept
<1>1. CASE UNCHANGED disk
  BY <1>1 DEF OwnKept
<1>2. ASSUME NEW f \in File, NEW new, disk[f].kind # "own", new.kind = "stub", Requests(a, f, new)
      PROVE  OwnKept
  BY <1>2 DEF OwnKept, Requests, StoreTypeOK
<1>3. CASE Imports(a)
  <2>1. disk[Det].kind # "own" /\ job[a].pc = "writing"
    BY <1>3 DEF Imports, Holds
  <2>2. QED
    BY <1>2, <1>3, <2>1, Constants, StubsWritten DEF Imports
<1>4. CASE Edits(a)
  <2>1. job[a].pc = "writing" /\ job[a].file \in File /\ disk[job[a].file].kind # "own"
    BY <1>4 DEF Edits, Holds, StoreTypeOK, Job
  <2>2. Written(a, job[a].file).kind = "stub"
    BY <2>1, StubsWritten
  <2>3. UNCHANGED fileVars \/ Requests(a, job[a].file, Written(a, job[a].file))
    BY <1>4 DEF Edits
  <2>4. QED
    BY <1>1, <1>2, <2>1, <2>2, <2>3 DEF fileVars
<1>5. CASE Decides(a) \/ Checks(a)
  BY <1>1, <1>5 DEF Decides, Checks, Succeeds, fileVars
<1>6. CASE Begins(a) \/ Reads(a) \/ TurnsToLegacy(a) \/ ReadsLegacy(a) \/ FindsNothing(a)
  BY <1>1, <1>6 DEF Begins, Reads, TurnsToLegacy, ReadsLegacy, FindsNothing, fileVars
<1>7. QED
  BY <1>3, <1>4, <1>5, <1>6 DEF StoreStep

\* What is known of a call stays known while others take their steps, and
\* nothing need be known of a call that is not on its way to a write.
Dormant == {"idle", "waiting", "done", "failed", "aborted"}
Settled == Dormant \cup {"checking"}

LEMMA StaysCareful ==
  ASSUME StoreTypeOK, NEW a \in Actor, Looks(a), Holds(a), OwnKept,
         job'[a] = job[a] \/ job'[a].pc \in Settled
  PROVE  Looks(a)' /\ Holds(a)'
<1>1. CASE job'[a].pc \in Settled
  BY <1>1 DEF Settled, Dormant, Looks, Holds
<1>2. CASE job'[a] = job[a]
  <2>1. job[a].file \in File \cup {None}
    BY DEF StoreTypeOK, Job
  <2>2. QED
    BY <1>2, <2>1, Constants DEF Looks, Holds, OwnKept
<1>3. QED
  BY <1>1, <1>2

LEMMA MovedJob ==
  ASSUME StoreTypeOK, NEW a \in Actor, StoreStep(a)
  PROVE  \A b \in Actor \ {a} : job'[b] = job[b]
<1>1. \/ \E j : Moves(a, j)
      \/ Fails(a)
  BY DEF StoreStep, Begins, Reads, TurnsToLegacy, ReadsLegacy, FindsNothing, Decides, Succeeds,
         Imports, Edits, Requests, Checks, Ends, Found
<1>2. QED
  BY <1>1 DEF Moves, Fails, StoreTypeOK

LEMMA FoundCareful ==
  ASSUME StoreTypeOK, NEW a \in Actor, NEW f \in File, Found(a, f), disk[f].kind # "own",
         job[a].what = "avatar" => disk[f].kind = "stub", UNCHANGED disk
  PROVE  Looks(a)' /\ Holds(a)' /\ job'[a].pc # "waiting"
<1>1. job[a] \in Job
  BY DEF StoreTypeOK
<1>2. job'[a] = [job[a] EXCEPT !.pc = "found", !.file = f, !.read = disk[f], !.todo = {}]
  BY DEF Found, Moves, StoreTypeOK
<1>3. /\ job'[a].pc = "found" /\ job'[a].file = f /\ job'[a].read = disk[f]
      /\ job'[a].what = job[a].what
  BY <1>1, <1>2 DEF Job
<1>4. QED
  BY <1>3, Constants DEF Looks, Holds

\* A call that ends one way or another is settled.
LEMMA EndsCareful ==
  ASSUME StoreTypeOK, NEW a \in Actor, Looks(a), Holds(a), OwnKept,
         job'[a].pc \in {"checking", "done", "failed", "aborted"}
  PROVE  Looks(a)' /\ Holds(a)' /\ job'[a].pc # "waiting"
<1>1. job'[a].pc \in Settled
  BY DEF Settled, Dormant
<1>2. QED
  BY <1>1, StaysCareful

LEMMA Outcome ==
  ASSUME StoreTypeOK, NEW a \in Actor
  PROVE  /\ \A how : Ends(a, how) => job'[a].pc = how
         /\ Fails(a) => job'[a].pc = "failed"
         /\ \A file : Succeeds(a, file) => job'[a].pc = "done"
<1>1. job[a] \in Job /\ job \in [Actor -> Job]
  BY DEF StoreTypeOK
<1>2. QED
  BY <1>1 DEF Ends, Moves, Fails, Succeeds, Job

LEMMA BeginsCareful ==
  ASSUME StoreTypeOK, NEW a \in Actor, Looks(a), Holds(a), Begins(a), Adopting
  PROVE  Looks(a)' /\ Holds(a)' /\ job'[a].pc # "waiting"
<1>1. UNCHANGED disk /\ OwnKept
  BY DEF Begins, fileVars, OwnKept
<1>2. CASE Ends(a, "aborted") \/ Ends(a, "failed")
  BY <1>1, <1>2, Outcome, EndsCareful
<1>3. ASSUME NEW names \in SUBSET File, names # {}, job[a].what = "sync" => Det \in names,
             Moves(a, [job[a] EXCEPT !.pc = "reading", !.todo = names])
      PROVE  Looks(a)' /\ Holds(a)' /\ job'[a].pc # "waiting"
  <2>1. job[a] \in Job
    BY DEF StoreTypeOK
  <2>2. job'[a] = [job[a] EXCEPT !.pc = "reading", !.todo = names]
    BY <1>3 DEF Moves, StoreTypeOK
  <2>3. job'[a].pc = "reading" /\ job'[a].todo = names /\ job'[a].what = job[a].what
    BY <2>1, <2>2 DEF Job
  <2>4. QED
    BY <1>3, <2>3 DEF Looks, Holds
<1>4. \/ Ends(a, "aborted") \/ Ends(a, "failed")
      \/ \E names \in SUBSET File :
           /\ names # {} /\ (job[a].what = "sync" => Det \in names)
           /\ Moves(a, [job[a] EXCEPT !.pc = "reading", !.todo = names])
  <2>1. records[WindowOf(a)] # None => {records[WindowOf(a)]} \in SUBSET File
    BY FilesDue DEF StoreTypeOK
  <2>2. job[a].pc = "waiting" /\ job[a].what = "adopt" => {job[a].file} \in SUBSET File
    BY DEF StoreTypeOK, Job, Adopting
  <2>3. QED
    BY <2>1, <2>2, FilesDue DEF Begins
<1>5. QED
  BY <1>2, <1>3, <1>4

\* A file that is not what is looked for is passed by; the deterministic name
\* is only when nothing at all is there.
LEMMA ReadsCareful ==
  ASSUME StoreTypeOK, NEW a \in Actor, Looks(a), Holds(a), Reads(a) \/ ReadsLegacy(a)
  PROVE  Looks(a)' /\ Holds(a)' /\ job'[a].pc # "waiting"
<1>1. UNCHANGED disk /\ OwnKept
  BY DEF Reads, ReadsLegacy, fileVars, OwnKept
<1>2. job[a] \in Job /\ job[a].todo \subseteq File
  BY DEF StoreTypeOK, Job
<1>3. CASE Ends(a, "aborted") \/ Ends(a, "failed") \/ Fails(a)
  BY <1>1, <1>3, Outcome, EndsCareful
<1>4. ASSUME NEW f \in File, Found(a, f), Expected(a, f) \/ (disk[f].kind = "legacy" /\ job[a].what # "avatar")
      PROVE  Looks(a)' /\ Holds(a)' /\ job'[a].pc # "waiting"
  BY <1>1, <1>4, FoundCareful DEF Expected
<1>5. ASSUME NEW f \in File, job[a].what = "sync", job[a].pc \in {"reading", "legacy"},
             job[a].pc = "reading" => f # Det \/ disk[f].kind = "none",
             Moves(a, [job[a] EXCEPT !.todo = @ \ {f}])
      PROVE  Looks(a)' /\ Holds(a)' /\ job'[a].pc # "waiting"
  <2>1. job'[a] = [job[a] EXCEPT !.todo = @ \ {f}]
    BY <1>5 DEF Moves, StoreTypeOK
  <2>2. /\ job'[a].pc = job[a].pc /\ job'[a].what = job[a].what
        /\ job'[a].todo = job[a].todo \ {f}
    BY <1>2, <2>1 DEF Job
  <2>3. QED
    BY <1>1, <1>5, <2>2 DEF Looks, Holds
<1>6. CASE Reads(a)
  <2>1. PICK f \in Due(a) :
          \/ Ends(a, "aborted") \/ Fails(a) \/ Ends(a, "failed")
          \/ Expected(a, f) /\ Found(a, f)
          \/ /\ job[a].what = "sync" /\ (f # Det \/ disk[f].kind = "none")
             /\ Moves(a, [job[a] EXCEPT !.todo = @ \ {f}])
    BY <1>6 DEF Reads
  <2>2. f \in File /\ job[a].pc = "reading"
    BY <1>2, <1>6, FilesDue DEF Reads
  <2>3. QED
    BY <1>3, <1>4, <1>5, <2>1, <2>2
<1>7. CASE ReadsLegacy(a)
  <2>1. PICK f \in job[a].todo :
          \/ Fails(a)
          \/ disk[f].kind = "legacy" /\ Found(a, f)
          \/ Moves(a, [job[a] EXCEPT !.todo = @ \ {f}])
    BY <1>7 DEF ReadsLegacy
  <2>2. f \in File /\ job[a].pc = "legacy" /\ job[a].what = "sync"
    BY <1>2, <1>7 DEF ReadsLegacy, Looks
  <2>3. QED
    BY <1>3, <1>4, <1>5, <2>1, <2>2
<1>8. QED
  BY <1>6, <1>7

LEMMA StoreCareful ==
  ASSUME StoreTypeOK, NEW a \in Actor, Looks(a), Holds(a), StoreStep(a), Adopting
  PROVE  Looks(a)' /\ Holds(a)' /\ job'[a].pc # "waiting"
<1>1. OwnKept
  BY StoreKeepsOwn
<1>2. job[a] \in Job /\ job \in [Actor -> Job]
  BY DEF StoreTypeOK
<1>3. CASE Begins(a)
  BY <1>3, BeginsCareful
<1>4. CASE Reads(a) \/ ReadsLegacy(a)
  BY <1>4, ReadsCareful
<1>5. CASE TurnsToLegacy(a)
  <2>1. job[a].what = "sync" /\ disk[Det].kind # "own" /\ UNCHANGED disk
    BY <1>5 DEF TurnsToLegacy, Looks, fileVars
  <2>2. job'[a].pc = "legacy" /\ job'[a].what = job[a].what
    BY <1>2, <1>5 DEF TurnsToLegacy, Moves, Job
  <2>3. QED
    BY <2>1, <2>2 DEF Looks, Holds
<1>6. CASE FindsNothing(a)
  <2>1. job[a].what = "sync" /\ disk[Det].kind # "own" /\ UNCHANGED disk
    BY <1>6 DEF FindsNothing, Looks, fileVars
  <2>2. job'[a].pc = "found" /\ job'[a].what = job[a].what /\ job'[a].file = None
    BY <1>2, <1>6 DEF FindsNothing, Moves, Job
  <2>3. QED
    BY <2>1, <2>2 DEF Looks, Holds
<1>7. CASE Decides(a)
  <2>1. CASE Ends(a, "aborted") \/ Succeeds(a, job[a].file)
    BY <1>1, <2>1, Outcome, EndsCareful
  <2>2. CASE Moves(a, [job[a] EXCEPT !.pc = "writing", !.changed = TRUE]) /\ UNCHANGED fileVars
    <3>1. /\ job'[a].pc = "writing" /\ job'[a].what = job[a].what /\ job'[a].file = job[a].file
          /\ job'[a].read = job[a].read
      BY <1>2, <2>2 DEF Moves, Job
    <3>2. UNCHANGED disk /\ job[a].pc = "found"
      BY <1>7, <2>2 DEF Decides, fileVars
    <3>3. QED
      BY <3>1, <3>2 DEF Looks, Holds
  <2>3. QED
    BY <1>7, <2>1, <2>2 DEF Decides
<1>8. CASE Checks(a)
  BY <1>1, <1>8, Outcome, EndsCareful DEF Checks
<1>9. CASE Imports(a) \/ Edits(a)
  <2>1. \/ Fails(a) \/ Ends(a, "failed")
        \/ \E f : Moves(a, [job[a] EXCEPT !.pc = "checking", !.file = f])
    BY <1>9 DEF Imports, Edits, Requests
  <2>2. \A f : Moves(a, [job[a] EXCEPT !.pc = "checking", !.file = f]) => job'[a].pc = "checking"
    BY <1>2 DEF Moves, Job
  <2>3. job'[a].pc \in {"checking", "failed"}
    BY <2>1, <2>2, Outcome
  <2>4. QED
    BY <1>1, <2>3, EndsCareful
<1>10. QED
  BY <1>3, <1>4, <1>5, <1>6, <1>7, <1>8, <1>9 DEF StoreStep

-----------------------------------------------------------------------------
(* Every step *)

\* What the handlers, the panel and the user do to the calls: they start one,
\* drop one that is over, or leave it alone.
LEMMA Started ==
  ASSUME StoreTypeOK, NEW a \in Actor, NEW what, NEW rev, NEW file, Calls(a, what, rev, file)
  PROVE  /\ job'[a].pc = "waiting" /\ job'[a].what = what /\ job'[a].file = file
         /\ job'[a].rev = rev /\ job'[a].read = NoCard
         /\ \A b \in Actor \ {a} : job'[b] = job[b]
  BY DEF Calls, NoJob, StoreTypeOK

LEMMA Dropped ==
  ASSUME StoreTypeOK, NEW a \in Actor, job' = [job EXCEPT ![a] = NoJob]
  PROVE  job'[a].pc = "idle" /\ \A b \in Actor \ {a} : job'[b] = job[b]
  BY DEF NoJob, StoreTypeOK

\* Steps that are not a call's leave the files alone, and every call where it
\* was or not running; one that waits has read nothing, and knows the file it is
\* to adopt.
Otherwise ==
  /\ OwnKept
  /\ \A b \in Actor :
       \/ job'[b] = job[b]
       \/ /\ job'[b].pc \in Dormant
          /\ job'[b].pc = "waiting" => /\ job'[b].read = NoCard
                                       /\ job'[b].what = "adopt" => job'[b].file # None

LEMMA OtherwiseCareful ==
  ASSUME StoreTypeOK, Adopting, Careful, Otherwise
  PROVE  Adopting' /\ Careful'
<1>1. ASSUME NEW a \in Actor PROVE Looks(a)' /\ Holds(a)'
  BY StaysCareful DEF Otherwise, Careful, Settled
<1>2. Adopting'
  BY DEF Otherwise, Adopting
<1>3. QED
  BY <1>1, <1>2 DEF Careful

LEMMA HandlersOtherwise ==
  ASSUME TypeOK, NEW a \in Handler, Handles(a)
  PROVE  UNCHANGED disk /\ Otherwise
<1>1. a \in Actor /\ StoreTypeOK
  BY Actors DEF TypeOK
<1>2. UNCHANGED disk /\ OwnKept
  BY DEF Handles, TakesIndex, Synced, Wanted, SyncFailed, LoopEnds, TakesDefinition, Hashed,
         TakesAvatar, Illustrated, StoreKept, fileVars, storeVars, OwnKept
<1>3. CASE UNCHANGED job
  BY <1>2, <1>3 DEF Otherwise
<1>4. CASE Over(a)
  BY <1>1, <1>2, <1>4, Dropped DEF Over, Otherwise, Dormant
<1>5. CASE TakesIndex(a) \/ TakesAvatar(a)
  <2>1. \/ UNCHANGED job
        \/ \E v : Calls(a, "sync", v, None)
        \/ \E v : Calls(a, "avatar", v, None)
    BY <1>5 DEF TakesIndex, TakesAvatar
  <2>2. QED
    BY <1>1, <1>2, <1>3, <2>1, Started DEF Otherwise, Dormant
<1>6. CASE SyncFailed(a)
  <2>1. job[a] \in Job /\ job \in [Actor -> Job]
    BY <1>1 DEF StoreTypeOK
  <2>2. job[a].pc = "failed" /\ job'[a].pc = "failed"
    BY <1>1, <1>6, <2>1 DEF SyncFailed, Job
  <2>3. \A b \in Actor \ {a} : job'[b] = job[b]
    BY <1>6, <2>1 DEF SyncFailed
  <2>4. QED
    BY <1>2, <2>2, <2>3 DEF Otherwise, Dormant
<1>7. CASE TakesDefinition(a)
  <2>1. UNCHANGED job \/ job' = [job EXCEPT ![a] = [NoJob EXCEPT !.rev = index]]
    BY <1>7 DEF TakesDefinition
  <2>2. CASE job' = [job EXCEPT ![a] = [NoJob EXCEPT !.rev = index]]
    <3>1. job'[a].pc = "idle" /\ \A b \in Actor \ {a} : job'[b] = job[b]
      BY <1>1, <2>2 DEF NoJob, StoreTypeOK
    <3>2. QED
      BY <1>2, <3>1 DEF Otherwise, Dormant
  <2>3. QED
    BY <1>3, <2>1, <2>2
<1>8. CASE Synced(a) \/ Wanted(a) \/ LoopEnds(a) \/ Hashed(a) \/ Illustrated(a)
  <2>1. UNCHANGED job \/ Over(a)
    BY <1>8 DEF Synced, Wanted, LoopEnds, Hashed, Illustrated, storeVars
  <2>2. QED
    BY <1>3, <1>4, <2>1
<1>9. QED
  BY <1>2, <1>5, <1>6, <1>7, <1>8 DEF Handles

LEMMA OthersOtherwise ==
  ASSUME TypeOK,
         \/ HostChanges \/ HostPublishes \/ HostAnswers \/ Connects \/ Disconnects
         \/ \E f \in File : PanelLinks(f)
         \/ PanelLinked \/ UserOpens \/ TabReturns
         \/ \E v \in Rev : TabCalls("sync", v) \/ TabCalls("avatar", v)
         \/ \E a \in Actor : RefreshBegins(a) \/ RefreshEnds(a) \/ Aborted(a)
  PROVE  UNCHANGED disk /\ Otherwise
<1>1. StoreTypeOK /\ Tab \in Actor /\ Panel \in Actor
  BY Actors DEF TypeOK
<1>2. UNCHANGED disk /\ OwnKept
  BY DEF HostChanges, HostPublishes, HostAnswers, Connects, Disconnects, PanelLinks, PanelLinked,
         UserOpens, TabReturns, TabCalls, RefreshBegins, RefreshEnds, Aborted, StoreKept, fileVars,
         storeVars, OwnKept
<1>3. CASE UNCHANGED job
  BY <1>2, <1>3 DEF Otherwise
<1>4. ASSUME NEW a \in Actor, job' = [job EXCEPT ![a] = NoJob] PROVE Otherwise
  BY <1>1, <1>2, <1>4, Dropped DEF Otherwise, Dormant
<1>5. ASSUME NEW f \in File, PanelLinks(f) PROVE Otherwise
  BY <1>1, <1>2, <1>5, Started, Constants DEF PanelLinks, Otherwise, Dormant
<1>6. ASSUME NEW v \in Rev, TabCalls("sync", v) \/ TabCalls("avatar", v) PROVE Otherwise
  BY <1>1, <1>2, <1>6, Started DEF TabCalls, Otherwise, Dormant
<1>7. CASE HostChanges \/ HostPublishes \/ HostAnswers \/ Connects \/ Disconnects \/ PanelLinked \/ UserOpens
  BY <1>3, <1>7 DEF HostChanges, HostPublishes, HostAnswers, Connects, Disconnects, PanelLinked, UserOpens, storeVars
<1>8. CASE TabReturns
  BY <1>1, <1>4, <1>8 DEF TabReturns
<1>9. ASSUME NEW a \in Actor, RefreshBegins(a) \/ RefreshEnds(a) \/ Aborted(a) PROVE Otherwise
  BY <1>3, <1>4, <1>9 DEF RefreshBegins, RefreshEnds, Aborted, Over
<1>10. QED
  BY <1>2, <1>5, <1>6, <1>7, <1>8, <1>9

\* The user changes a copy only while no call runs, and never a card of theirs.
LEMMA UserCareful ==
  ASSUME TypeOK, Adopting, NEW f \in File, NEW kind \in {"none", "own"}, UserChanges(f, kind)
  PROVE  /\ Adopting' /\ Careful'
         /\ \A g \in File : disk[g].kind = "own" => disk'[g] = disk[g]
<1>1. UNCHANGED job /\ \A a \in Actor : job[a].pc = "idle"
  BY DEF UserChanges, UserReplaces
<1>2. Adopting' /\ Careful'
  BY <1>1 DEF Adopting, Careful, Looks, Holds
<1>3. \A g \in File : disk[g].kind = "own" => disk'[g] = disk[g]
  BY DEF UserChanges, UserReplaces, TypeOK, StoreTypeOK
<1>4. QED
  BY <1>2, <1>3

LEMMA Step ==
  ASSUME IInv, [Next]_vars
  PROVE  IInv' /\ \A f \in File : disk[f].kind = "own" => disk'[f] = disk[f]
<1>1. TypeOK /\ StoreTypeOK /\ Adopting /\ Careful
  BY DEF IInv, TypeOK
<1>2. CASE UNCHANGED vars
  <2>1. TypeOK'
    BY <1>1, <1>2 DEF TypeOK, StoreTypeOK, vars, storeVars, fileVars, clientVars, roomVars
  <2>2. UNCHANGED disk /\ Otherwise
    BY <1>2 DEF Otherwise, OwnKept, vars, storeVars, fileVars
  <2>3. QED
    BY <1>1, <2>1, <2>2, OtherwiseCareful DEF IInv
<1>3. CASE Next
  <2>1. TypeOK'
    BY <1>3, TypeStep
  <2>2. CASE UNCHANGED disk /\ Otherwise
    BY <1>1, <2>1, <2>2, OtherwiseCareful DEF IInv
  <2>3. ASSUME NEW a \in Actor, StoreStep(a) PROVE IInv' /\ OwnKept
    <3>1. Looks(a) /\ Holds(a)
      BY <1>1 DEF Careful
    <3>2. OwnKept /\ Looks(a)' /\ Holds(a)' /\ job'[a].pc # "waiting"
      BY <1>1, <2>3, <3>1, StoreKeepsOwn, StoreCareful
    <3>3. \A b \in Actor \ {a} : job'[b] = job[b]
      BY <1>1, <2>3, MovedJob
    <3>4. ASSUME NEW b \in Actor, b # a PROVE Looks(b)' /\ Holds(b)'
      BY <1>1, <3>2, <3>3, <3>4, StaysCareful DEF Careful
    <3>5. Adopting' /\ Careful'
      BY <1>1, <3>2, <3>3, <3>4 DEF Adopting, Careful
    <3>6. QED
      BY <2>1, <3>2, <3>5 DEF IInv
  <2>4. ASSUME NEW f \in File, NEW kind \in {"none", "own"}, UserChanges(f, kind)
        PROVE  IInv' /\ \A g \in File : disk[g].kind = "own" => disk'[g] = disk[g]
    BY <1>1, <2>1, <2>4, UserCareful DEF IInv
  <2>5. QED
    BY <1>1, <1>3, <2>2, <2>3, <2>4, HandlersOtherwise, OthersOtherwise DEF Next, Carries, OwnKept
<1>4. QED
  BY <1>2, <1>3

-----------------------------------------------------------------------------
(* Portraits, with the browser's locks *)

\* One call runs at a time.
Sole == \A a, b \in Actor : Running(a) /\ Running(b) => a = b

\* A call has read nothing before it finds its file, and what it read there is
\* there still when it writes.
ReadStill(a) ==
  /\ job[a].pc \in {"waiting", "reading", "legacy"} => job[a].read = NoCard
  /\ job[a].pc \in {"found", "writing"} =>
       IF job[a].file = None THEN job[a].read = NoCard ELSE disk[job[a].file] = job[a].read

Undisturbed == Sole /\ (\A a \in Actor : ReadStill(a)) /\ PortraitTrue

\* Who takes a step of a call is the only one whose call runs.
LEMMA StoreSole ==
  ASSUME StoreTypeOK, Locks, Sole, NEW a \in Actor, StoreStep(a)
  PROVE  /\ \A b \in Actor \ {a} : ~Running(b) /\ job'[b] = job[b]
         /\ Sole'
<1>1. \A b \in Actor \ {a} : job'[b] = job[b]
  BY MovedJob
<1>2. \A b \in Actor \ {a} : ~Running(b)
  <2>1. CASE Begins(a)
    BY <2>1 DEF Begins, Free
  <2>2. CASE ~Begins(a)
    <3>1. Running(a)
      BY <2>2 DEF StoreStep, Reads, TurnsToLegacy, ReadsLegacy, FindsNothing, Decides, Imports,
                  Edits, Checks, Running
    <3>2. QED
      BY <3>1 DEF Sole
  <2>3. QED
    BY <2>1, <2>2
<1>3. Sole'
  BY <1>1, <1>2 DEF Sole, Running
<1>4. QED
  BY <1>1, <1>2, <1>3

\* A file that is found is as it was read, and nothing has been read when there is
\* none.
LEMMA StoreReads ==
  ASSUME StoreTypeOK, NEW a \in Actor, StoreStep(a), ReadStill(a)
  PROVE  ReadStill(a)'
<1>1. job[a] \in Job /\ job \in [Actor -> Job]
  BY DEF StoreTypeOK
<1>2. CASE job'[a].pc \in {"checking", "done", "failed", "aborted"}
  BY <1>2 DEF ReadStill
<1>3. CASE Begins(a)
  <2>1. \/ Ends(a, "aborted") \/ Ends(a, "failed")
        \/ /\ job[a].pc = "waiting"
           /\ \E names : Moves(a, [job[a] EXCEPT !.pc = "reading", !.todo = names])
    BY <1>3 DEF Begins
  <2>2. ASSUME NEW names, Moves(a, [job[a] EXCEPT !.pc = "reading", !.todo = names])
        PROVE  job'[a].pc = "reading" /\ job'[a].read = job[a].read
    BY <1>1, <2>2 DEF Moves, Job
  <2>3. QED
    BY <1>2, <2>1, <2>2, Outcome DEF ReadStill
<1>4. ASSUME NEW f \in File, Found(a, f), UNCHANGED disk PROVE ReadStill(a)'
  <2>1. job'[a].pc = "found" /\ job'[a].file = f /\ job'[a].read = disk[f]
    BY <1>1, <1>4 DEF Found, Moves, Job
  <2>2. QED
    BY <1>4, <2>1, Constants DEF ReadStill
<1>5. ASSUME NEW f, job[a].pc \in {"reading", "legacy"}, Moves(a, [job[a] EXCEPT !.todo = @ \ {f}])
      PROVE  ReadStill(a)'
  <2>1. job'[a].pc = job[a].pc /\ job'[a].read = job[a].read
    BY <1>1, <1>5 DEF Moves, Job
  <2>2. QED
    BY <1>5, <2>1 DEF ReadStill
<1>6. CASE Reads(a) \/ ReadsLegacy(a)
  <2>1. /\ UNCHANGED disk /\ job[a].pc \in {"reading", "legacy"}
        /\ \/ Ends(a, "aborted") \/ Ends(a, "failed") \/ Fails(a)
           \/ \E f \in job[a].todo : Found(a, f) \/ Moves(a, [job[a] EXCEPT !.todo = @ \ {f}])
    BY <1>6, FilesDue DEF Reads, ReadsLegacy, fileVars
  <2>2. job[a].todo \subseteq File
    BY <1>1 DEF Job
  <2>3. CASE Ends(a, "aborted") \/ Ends(a, "failed") \/ Fails(a)
    BY <1>2, <2>3, Outcome
  <2>4. ASSUME NEW f \in job[a].todo, Found(a, f) PROVE ReadStill(a)'
    BY <1>4, <2>1, <2>2, <2>4
  <2>5. ASSUME NEW f \in job[a].todo, Moves(a, [job[a] EXCEPT !.todo = @ \ {f}]) PROVE ReadStill(a)'
    BY <1>5, <2>1, <2>5
  <2>6. QED
    BY <2>1, <2>3, <2>4, <2>5
<1>7. CASE TurnsToLegacy(a)
  <2>1. job'[a] = [job[a] EXCEPT !.pc = "legacy", !.todo = {f \in File : list[WindowOf(a)][f] = "legacy"}]
    BY <1>1, <1>7 DEF TurnsToLegacy, Moves
  <2>2. job'[a].pc = "legacy" /\ job'[a].read = job[a].read /\ job[a].pc = "reading"
    BY <1>1, <1>7, <2>1 DEF TurnsToLegacy, Job
  <2>3. QED
    BY <2>2 DEF ReadStill
<1>12. CASE FindsNothing(a)
  <2>1. job'[a] = [job[a] EXCEPT !.pc = "found", !.file = None]
    BY <1>1, <1>12 DEF FindsNothing, Moves
  <2>2. job'[a].pc = "found" /\ job'[a].file = None /\ job'[a].read = job[a].read /\ job[a].pc = "legacy"
    BY <1>1, <1>12, <2>1 DEF FindsNothing, Job
  <2>3. QED
    BY <2>2 DEF ReadStill
<1>8. CASE Decides(a)
  <2>1. CASE Ends(a, "aborted") \/ Succeeds(a, job[a].file)
    BY <1>2, <2>1, Outcome
  <2>2. CASE Moves(a, [job[a] EXCEPT !.pc = "writing", !.changed = TRUE]) /\ UNCHANGED fileVars
    <3>1. /\ job'[a].pc = "writing" /\ job'[a].file = job[a].file /\ job'[a].read = job[a].read
          /\ UNCHANGED disk /\ job[a].pc = "found"
      BY <1>1, <1>8, <2>2 DEF Moves, Job, Decides, fileVars
    <3>2. QED
      BY <3>1 DEF ReadStill
  <2>3. QED
    BY <1>8, <2>1, <2>2 DEF Decides
<1>9. CASE Imports(a) \/ Edits(a)
  <2>1. \/ Fails(a) \/ Ends(a, "failed")
        \/ \E f : Moves(a, [job[a] EXCEPT !.pc = "checking", !.file = f])
    BY <1>9 DEF Imports, Edits, Requests
  <2>2. \A f : Moves(a, [job[a] EXCEPT !.pc = "checking", !.file = f]) => job'[a].pc = "checking"
    BY <1>1 DEF Moves, Job
  <2>3. QED
    BY <1>2, <2>1, <2>2, Outcome
<1>10. CASE Checks(a)
  BY <1>2, <1>10, Outcome DEF Checks
<1>11. QED
  BY <1>3, <1>6, <1>7, <1>8, <1>9, <1>10, <1>12 DEF StoreStep

\* What a call writes names the portrait it leaves in the file.
LEMMA StorePortraits ==
  ASSUME StoreTypeOK, NEW a \in Actor, StoreStep(a), Holds(a), ReadStill(a), PortraitTrue
  PROVE  PortraitTrue'
<1>1. job[a] \in Job /\ disk \in [File -> Card]
  BY DEF StoreTypeOK
<1>2. ASSUME NEW f \in File, NEW new, new.installed # 0 => new.picture = new.installed,
             Requests(a, f, new)
      PROVE  PortraitTrue'
  BY <1>1, <1>2 DEF PortraitTrue, Requests
<1>3. CASE UNCHANGED disk
  BY <1>3 DEF PortraitTrue
<1>4. CASE Imports(a)
  <2>1. /\ job[a].what = "sync" /\ job[a].read = NoCard
        /\ Requests(a, Det, [Written(a, Det) EXCEPT !.picture = 0])
    BY <1>4 DEF Imports, Holds, ReadStill
  <2>2. [Written(a, Det) EXCEPT !.picture = 0].installed = 0
    BY <2>1 DEF Written, SyncWrites, NoCard
  <2>3. QED
    BY <1>2, <2>1, <2>2, Constants
<1>5. CASE Edits(a)
  <2> DEFINE f == job[a].file
  <2>1. job[a].pc = "writing" /\ f \in File /\ disk[f] = job[a].read /\ disk[f] \in Card
    BY <1>1, <1>5 DEF Edits, ReadStill, Job
  <2>2. job[a].read.installed # 0 => job[a].read.picture = job[a].read.installed
    BY <2>1 DEF PortraitTrue
  <2>3. CASE job[a].what = "sync"
    <3>1. Written(a, f).installed # 0 => Written(a, f).picture = Written(a, f).installed
      BY <2>1, <2>2, <2>3 DEF Written, SyncWrites
    <3>2. QED
      BY <1>2, <1>3, <1>5, <2>1, <3>1 DEF Edits, fileVars
  <2>4. CASE job[a].what = "adopt"
    <3>1. Written(a, f).installed = 0
      BY <2>4 DEF Written, AdoptWrites
    <3>2. QED
      BY <1>2, <1>3, <1>5, <2>1, <3>1 DEF Edits, fileVars
  <2>5. CASE job[a].what = "avatar"
    <3>1. Written(a, f).picture = Written(a, f).installed
      BY <2>1, <2>5 DEF Written, AvatarWrites, Card
    <3>2. QED
      BY <1>2, <1>3, <1>5, <2>1, <3>1 DEF Edits, fileVars
  <2>6. QED
    BY <1>1, <2>3, <2>4, <2>5 DEF Job
<1>6. QED
  BY <1>3, <1>4, <1>5 DEF StoreStep, Begins, Reads, TurnsToLegacy, ReadsLegacy, FindsNothing,
     Decides, Checks, Succeeds, fileVars

\* With the locks, every step leaves the reading of a call undisturbed.
LEMMA UndisturbedStep ==
  ASSUME Locks, IInv, Undisturbed, [Next]_vars
  PROVE  Undisturbed'
<1>0. TypeOK /\ StoreTypeOK /\ Adopting /\ Careful
  BY DEF IInv, TypeOK
<1>1. CASE UNCHANGED disk /\ Otherwise
  <2>1. \A b \in Actor : job'[b] = job[b] \/ ~(job'[b].pc \in {"reading", "legacy", "found", "writing", "checking"})
    BY <1>1 DEF Otherwise, Dormant
  <2>2. Sole'
    BY <2>1 DEF Undisturbed, Sole, Running
  <2>3. ASSUME NEW b \in Actor PROVE ReadStill(b)'
    BY <1>1, <2>1, <2>3 DEF Undisturbed, ReadStill, Otherwise, Dormant
  <2>4. QED
    BY <1>1, <2>2, <2>3 DEF Undisturbed, PortraitTrue
<1>2. ASSUME NEW a \in Actor, StoreStep(a) PROVE Undisturbed'
  <2>1. Sole' /\ \A b \in Actor \ {a} : ~Running(b) /\ job'[b] = job[b]
    BY <1>0, <1>2, StoreSole DEF Undisturbed
  <2>2. ReadStill(a)' /\ PortraitTrue'
    BY <1>0, <1>2, StoreReads, StorePortraits DEF Undisturbed, Careful
  <2>3. ASSUME NEW b \in Actor \ {a} PROVE ReadStill(b)'
    BY <2>1, <2>3 DEF Undisturbed, ReadStill, Running
  <2>4. QED
    BY <2>1, <2>2, <2>3 DEF Undisturbed
<1>3. ASSUME NEW f \in File, NEW kind \in {"none", "own"}, UserChanges(f, kind) PROVE Undisturbed'
  <2>1. /\ UNCHANGED job /\ \A a \in Actor : job[a].pc = "idle"
        /\ disk' = [disk EXCEPT ![f] = [NoCard EXCEPT !.kind = kind]]
    BY <1>3 DEF UserChanges, UserReplaces
  <2>2. Sole' /\ \A a \in Actor : ReadStill(a)'
    BY <2>1 DEF Sole, Running, ReadStill
  <2>3. PortraitTrue'
    BY <1>0, <2>1 DEF Undisturbed, PortraitTrue, StoreTypeOK, NoCard
  <2>4. QED
    BY <2>2, <2>3 DEF Undisturbed
<1>4. CASE UNCHANGED vars
  BY <1>1, <1>4 DEF Otherwise, OwnKept, vars, storeVars, fileVars
<1>5. QED
  BY <1>0, <1>1, <1>2, <1>3, <1>4, HandlersOtherwise, OthersOtherwise DEF Next, Carries

LEMMA UndisturbedFirst == Init => Undisturbed
<1> SUFFICES ASSUME Init PROVE Undisturbed
  OBVIOUS
<1>1. \A a \in Actor : job[a].pc = "idle"
  BY DEF Init, StoreInit, NoJob
<1>2. \A f \in File : disk[f].installed = 0
  BY DEF Init, StoreInit, NoCard
<1>3. QED
  BY <1>1, <1>2 DEF Undisturbed, Sole, Running, ReadStill, PortraitTrue

-----------------------------------------------------------------------------
(* The handlers of a connection *)

\* A handler acts for the connection only between its message and its end; its
\* call is over when it is; a call that noticed the end of its connection has
\* none to act for; and what a handler is renewing is the catalogue's revision.
Proper(a) ==
  /\ current[a] => up /\ at[a] # "idle"
  /\ at[a] = "idle" => job[a].pc = "idle"
  /\ job[a].pc = "aborted" => ~current[a]
  /\ current[a] /\ at[a] \in {"sync", "want", "hash"} => job[a].rev = index /\ index # 0

\* One handler at a time acts for the connection.
Ordered ==
  /\ at[Tab] = "idle"
  /\ \A a \in Handler : Proper(a)
  /\ \A a, b \in Handler : current[a] /\ current[b] => a = b

Kept1(a) == at'[a] = at[a] /\ job'[a] = job[a] /\ current'[a] = current[a]

LEMMA OverSets ==
  ASSUME TypeOK, NEW a \in Actor, Over(a)
  PROVE  /\ at'[a] = "idle" /\ job'[a].pc = "idle" /\ ~current'[a]
         /\ \A b \in Actor \ {a} : Kept1(b)
<1>1. at \in [Actor -> Place] /\ job \in [Actor -> Job] /\ current \in [Actor -> BOOLEAN]
  BY DEF TypeOK, StoreTypeOK
<1>2. QED
  BY <1>1 DEF Over, Goes, Kept1, NoJob

LEMMA GoesSets ==
  ASSUME TypeOK, NEW a \in Actor, NEW place, Goes(a, place)
  PROVE  at'[a] = place /\ \A b \in Actor \ {a} : at'[b] = at[b]
  BY DEF TypeOK, Goes

\* A call of the store keeps its revision, and is given up only when the
\* connection it acts for is gone.
LEMMA StoreKeeps ==
  ASSUME StoreTypeOK, NEW a \in Actor, StoreStep(a)
  PROVE  /\ job'[a].rev = job[a].rev /\ UNCHANGED current /\ job[a].pc # "idle"
         /\ job'[a].pc = "aborted" => ~current[a]
<1>1. job[a] \in Job /\ job \in [Actor -> Job]
  BY DEF StoreTypeOK
<1>2. \A how : Ends(a, how) => job'[a].rev = job[a].rev /\ job'[a].pc = how
  BY <1>1 DEF Ends, Moves, Job
<1>3. Fails(a) => job'[a].rev = job[a].rev /\ job'[a].pc = "failed"
  BY <1>1 DEF Fails, Job
<1>4. \A f : Succeeds(a, f) => job'[a].rev = job[a].rev /\ job'[a].pc = "done"
  BY <1>1 DEF Succeeds, Moves, Job
<1>5. UNCHANGED current
  BY DEF StoreStep
<1>6. CASE Begins(a)
  <2>1. \/ ~current[a] /\ Ends(a, "aborted")
        \/ Ends(a, "failed")
        \/ \E names : Moves(a, [job[a] EXCEPT !.pc = "reading", !.todo = names])
    BY <1>6 DEF Begins
  <2>2. ASSUME NEW names, Moves(a, [job[a] EXCEPT !.pc = "reading", !.todo = names])
        PROVE  job'[a].pc = "reading" /\ job'[a].rev = job[a].rev
    BY <1>1, <2>2 DEF Moves, Job
  <2>3. job[a].pc = "waiting"
    BY <1>6 DEF Begins
  <2>4. CASE (~current[a] /\ Ends(a, "aborted")) \/ Ends(a, "failed")
    BY <1>2, <1>5, <2>3, <2>4
  <2>5. QED
    BY <1>5, <2>1, <2>2, <2>3, <2>4
<1>7. CASE Reads(a) \/ ReadsLegacy(a)
  <2>1. /\ job[a].pc \in {"reading", "legacy"}
        /\ \/ ~current[a] /\ Ends(a, "aborted")
           \/ Fails(a) \/ Ends(a, "failed")
           \/ \E f : Found(a, f) \/ Moves(a, [job[a] EXCEPT !.todo = @ \ {f}])
    BY <1>7 DEF Reads, ReadsLegacy
  <2>2. ASSUME NEW f, Found(a, f)
        PROVE  job'[a].pc = "found" /\ job'[a].rev = job[a].rev
    BY <1>1, <2>2 DEF Found, Moves, Job
  <2>3. ASSUME NEW f, Moves(a, [job[a] EXCEPT !.todo = @ \ {f}])
        PROVE  job'[a].pc = job[a].pc /\ job'[a].rev = job[a].rev
    BY <1>1, <2>3 DEF Moves, Job
  <2>4. QED
    BY <1>2, <1>3, <1>5, <2>1, <2>2, <2>3
<1>8. CASE TurnsToLegacy(a)
  <2>1. job'[a] = [job[a] EXCEPT !.pc = "legacy", !.todo = {f \in File : list[WindowOf(a)][f] = "legacy"}]
    BY <1>1, <1>8 DEF TurnsToLegacy, Moves
  <2>2. QED
    BY <1>1, <1>5, <1>8, <2>1 DEF TurnsToLegacy, Job
<1>9. CASE FindsNothing(a)
  <2>1. job'[a] = [job[a] EXCEPT !.pc = "found", !.file = None]
    BY <1>1, <1>9 DEF FindsNothing, Moves
  <2>2. QED
    BY <1>1, <1>5, <1>9, <2>1 DEF FindsNothing, Job
<1>10. CASE Decides(a)
  <2>1. \/ ~current[a] /\ Ends(a, "aborted")
        \/ Moves(a, [job[a] EXCEPT !.pc = "writing", !.changed = TRUE])
        \/ Succeeds(a, job[a].file)
    BY <1>10 DEF Decides
  <2>2. ASSUME Moves(a, [job[a] EXCEPT !.pc = "writing", !.changed = TRUE])
        PROVE  job'[a].pc = "writing" /\ job'[a].rev = job[a].rev
    BY <1>1, <2>2 DEF Moves, Job
  <2>3. QED
    BY <1>2, <1>4, <1>5, <1>10, <2>1, <2>2 DEF Decides
<1>11. CASE Imports(a) \/ Edits(a) \/ Checks(a)
  <2>1. /\ job[a].pc \in {"writing", "checking"}
        /\ \/ Fails(a) \/ Ends(a, "failed") \/ Succeeds(a, job[a].file)
           \/ \E f : Moves(a, [job[a] EXCEPT !.pc = "checking", !.file = f])
    BY <1>11 DEF Imports, Edits, Checks, Requests
  <2>2. ASSUME NEW f, Moves(a, [job[a] EXCEPT !.pc = "checking", !.file = f])
        PROVE  job'[a].pc = "checking" /\ job'[a].rev = job[a].rev
    BY <1>1, <2>2 DEF Moves, Job
  <2>3. QED
    BY <1>2, <1>3, <1>4, <1>5, <2>1, <2>2
<1>12. QED
  BY <1>6, <1>7, <1>8, <1>9, <1>10, <1>11 DEF StoreStep

\* What a step of an actor leaves alone: the others, and the connection.
LEMMA Alone ==
  ASSUME TypeOK, NEW a \in Actor, (a \in Handler /\ Handles(a)) \/ Carries(a)
  PROVE  /\ \A b \in Actor \ {a} : Kept1(b)
         /\ UNCHANGED up
         /\ UNCHANGED index \/ (a \in Handler /\ TakesIndex(a))
<1>1. at \in [Actor -> Place] /\ job \in [Actor -> Job] /\ current \in [Actor -> BOOLEAN] /\ StoreTypeOK
  BY DEF TypeOK, StoreTypeOK
<1>2. CASE Over(a)
  <2>1. \A b \in Actor \ {a} : Kept1(b)
    BY <1>2, OverSets
  <2>2. QED
    BY <1>2, <2>1 DEF Handles, Carries, TakesIndex, Synced, Wanted, SyncFailed, LoopEnds,
       TakesDefinition, Hashed, TakesAvatar, Illustrated, RefreshBegins, RefreshEnds, Aborted,
       clientVars
<1>3. CASE StoreStep(a) /\ UNCHANGED <<clientVars, up, at, roomVars>>
  BY <1>1, <1>3, MovedJob, StoreKeeps DEF Kept1, clientVars
<1>4. CASE a \in Handler /\ (TakesIndex(a) \/ TakesDefinition(a) \/ TakesAvatar(a))
  <2>1. /\ (\E place : Goes(a, place)) \/ UNCHANGED at
        /\ \/ UNCHANGED job \/ job' = [job EXCEPT ![a] = [NoJob EXCEPT !.rev = index]]
           \/ \E what, rev : Calls(a, what, rev, None)
        /\ UNCHANGED current \/ current' = [current EXCEPT ![a] = TRUE]
    BY <1>4 DEF TakesIndex, TakesDefinition, TakesAvatar
  <2>2. \A b \in Actor \ {a} : at'[b] = at[b]
    BY <2>1, GoesSets
  <2>3. \A b \in Actor \ {a} : job'[b] = job[b]
    BY <1>1, <2>1 DEF Calls
  <2>4. \A b \in Actor \ {a} : current'[b] = current[b]
    BY <1>1, <2>1
  <2>5. QED
    BY <1>4, <2>2, <2>3, <2>4 DEF TakesIndex, TakesDefinition, TakesAvatar, Kept1, clientVars
<1>5. CASE a \in Handler /\ (Synced(a) \/ Wanted(a) \/ SyncFailed(a))
  <2>1. /\ \E place : Goes(a, place)
        /\ UNCHANGED current /\ UNCHANGED up /\ UNCHANGED index
        /\ UNCHANGED job \/ job' = [job EXCEPT ![a].changed = FALSE]
    BY <1>5 DEF Synced, Wanted, SyncFailed, Definition, storeVars
  <2>2. \A b \in Actor \ {a} : job'[b] = job[b]
    BY <1>1, <2>1
  <2>3. QED
    BY <2>1, <2>2, GoesSets DEF Kept1
<1>6. CASE /\ \/ a \in Handler /\ (LoopEnds(a) \/ Hashed(a) \/ Illustrated(a))
              \/ RefreshBegins(a)
           /\ ~Over(a)
  <2>1. (\E place : Goes(a, place)) /\ UNCHANGED <<job, current>> /\ UNCHANGED up /\ UNCHANGED index
    BY <1>6 DEF LoopEnds, Hashed, Illustrated, RefreshBegins
  <2>2. QED
    BY <2>1, GoesSets DEF Kept1
<1>7. QED
  BY <1>2, <1>3, <1>4, <1>5, <1>6 DEF Handles, Carries, RefreshEnds, Aborted

\* The next message is for a handler when no other acts for the connection.
LEMMA NextAlone ==
  ASSUME TypeOK, Ordered, NEW a \in Actor, NEW op, Next1(a, op)
  PROVE  /\ up /\ at[a] = "idle" /\ job[a].pc = "idle" /\ a \in Handler
         /\ \A b \in Handler : ~current[b]
  BY DEF Next1, Ordered, Proper

LEMMA HandlesProper ==
  ASSUME TypeOK, Ordered, NEW a \in Handler, Handles(a)
  PROVE  Proper(a)'
<1>1. a \in Actor /\ Proper(a) /\ StoreTypeOK
  BY Actors DEF Ordered, TypeOK
<1>2. UNCHANGED up
  BY <1>1, Alone
<1>3. CASE Over(a)
  BY <1>1, <1>3, OverSets DEF Proper
<1>4. CASE TakesIndex(a)
  <2> DEFINE v == Head(toClient).rev
  <2>1. up /\ job[a].pc = "idle" /\ current'[a] /\ index' = v
    BY <1>1, <1>4, NextAlone DEF TakesIndex, StoreTypeOK
  <2>2. CASE v = 0
    BY <1>1, <1>2, <1>4, <2>1, <2>2, GoesSets DEF TakesIndex, Proper
  <2>3. CASE v # 0
    <3>1. at'[a] = "sync" /\ job'[a].pc = "waiting" /\ job'[a].rev = v
      BY <1>1, <1>4, <2>3, GoesSets, Started DEF TakesIndex
    <3>2. QED
      BY <1>2, <2>1, <2>3, <3>1 DEF Proper
  <2>4. QED
    BY <2>2, <2>3
<1>5. CASE TakesDefinition(a) \/ TakesAvatar(a)
  <2>1. up
    BY <1>1, <1>5, NextAlone DEF TakesDefinition, TakesAvatar
  <2>2. UNCHANGED index
    BY <1>5 DEF TakesDefinition, TakesAvatar, clientVars
  <2>3. CASE UNCHANGED <<at, job, current>>
    BY <1>1, <1>2, <2>2, <2>3 DEF Proper
  <2>4. CASE index # 0 /\ Goes(a, "hash") /\ job' = [job EXCEPT ![a] = [NoJob EXCEPT !.rev = index]]
    <3>1. at'[a] = "hash" /\ job'[a].pc = "idle" /\ job'[a].rev = index
      BY <1>1, <2>4, GoesSets DEF NoJob, StoreTypeOK
    <3>2. QED
      BY <1>2, <2>1, <2>2, <2>4, <3>1 DEF Proper
  <2>5. CASE Goes(a, "illustrate") /\ Calls(a, "avatar", index, None)
    <3>1. at'[a] = "illustrate" /\ job'[a].pc = "waiting"
      BY <1>1, <2>5, GoesSets, Started
    <3>2. QED
      BY <1>2, <2>1, <2>2, <3>1 DEF Proper
  <2>6. QED
    BY <1>5, <2>3, <2>4, <2>5 DEF TakesDefinition, TakesAvatar
<1>6. CASE Synced(a) \/ Wanted(a)
  <2>1. at[a] \in {"sync", "want"} /\ UNCHANGED <<job, current, index>>
    BY <1>6 DEF Synced, Wanted, storeVars
  <2>2. at'[a] = "want" \/ at'[a] = "wanted"
    BY <1>1, <1>6, GoesSets DEF Synced, Wanted, Definition
  <2>3. QED
    BY <1>1, <1>2, <2>1, <2>2 DEF Proper
<1>7. CASE SyncFailed(a)
  <2>1. job[a] \in Job /\ job \in [Actor -> Job]
    BY <1>1 DEF StoreTypeOK
  <2>2. job'[a].pc = "failed"
    BY <1>1, <1>7, <2>1 DEF SyncFailed, Job
  <2>3. at'[a] = "wanted" /\ at[a] = "sync" /\ UNCHANGED <<current, index>>
    BY <1>1, <1>7, GoesSets DEF SyncFailed
  <2>4. QED
    BY <1>1, <1>2, <2>2, <2>3 DEF Proper
<1>8. CASE (LoopEnds(a) \/ Hashed(a) \/ Illustrated(a)) /\ ~Over(a)
  <2>1. at[a] # "idle" /\ Goes(a, "refresh") /\ UNCHANGED <<job, current, index>>
    BY <1>8 DEF LoopEnds, Hashed, Illustrated
  <2>2. at'[a] = "refresh"
    BY <1>1, <2>1, GoesSets
  <2>3. QED
    BY <1>1, <1>2, <2>1, <2>2 DEF Proper
<1>9. QED
  BY <1>3, <1>4, <1>5, <1>6, <1>7, <1>8 DEF Handles

LEMMA CarriesProper ==
  ASSUME TypeOK, Ordered, NEW a \in Handler, Carries(a)
  PROVE  Proper(a)' /\ (current'[a] => current[a])
<1>1. a \in Actor /\ Proper(a) /\ StoreTypeOK
  BY Actors DEF Ordered, TypeOK
<1>2. UNCHANGED up
  BY <1>1, Alone
<1>3. CASE Over(a)
  BY <1>1, <1>3, OverSets DEF Proper
<1>4. CASE StoreStep(a) /\ UNCHANGED <<clientVars, up, at, roomVars>>
  BY <1>1, <1>2, <1>4, StoreKeeps DEF Proper, clientVars
<1>5. CASE RefreshBegins(a) /\ ~Over(a)
  <2>1. at[a] # "idle" /\ Goes(a, "list") /\ UNCHANGED <<job, current, index>>
    BY <1>5 DEF RefreshBegins
  <2>2. at'[a] = "list"
    BY <1>1, <2>1, GoesSets
  <2>3. QED
    BY <1>1, <1>2, <2>1, <2>2 DEF Proper
<1>6. QED
  BY <1>3, <1>4, <1>5 DEF Carries, RefreshEnds, Aborted

\* The panel, the other tab, the host and the user leave the handlers alone.
Aside ==
  /\ UNCHANGED index /\ (up => up')
  /\ \A a \in Handler : Kept1(a)
  /\ at'[Tab] = at[Tab]

LEMMA AsideOrdered ==
  ASSUME Ordered, Aside
  PROVE  Ordered'
  BY DEF Ordered, Aside, Proper, Kept1

LEMMA OthersAside ==
  ASSUME TypeOK, Ordered,
         \/ HostChanges \/ HostPublishes \/ HostAnswers \/ Connects
         \/ \E a \in {Panel, Tab} : Carries(a)
         \/ \E f \in File : PanelLinks(f)
         \/ PanelLinked \/ UserOpens \/ TabReturns
         \/ \E v \in Rev : TabCalls("sync", v) \/ TabCalls("avatar", v)
         \/ \E f \in File, kind \in {"none", "own"} : UserChanges(f, kind)
         \/ UNCHANGED vars
  PROVE  Aside
<1>1. /\ at \in [Actor -> Place] /\ job \in [Actor -> Job] /\ current \in [Actor -> BOOLEAN]
      /\ StoreTypeOK /\ at[Tab] = "idle"
  BY DEF TypeOK, StoreTypeOK, Ordered
<1>2. CASE UNCHANGED <<at, job, current, index>> /\ (up => up')
  BY <1>2 DEF Aside, Kept1
<1>3. CASE HostChanges \/ HostPublishes \/ HostAnswers \/ Connects \/ UserOpens \/ UNCHANGED vars
  BY <1>2, <1>3 DEF HostChanges, HostPublishes, HostAnswers, Connects, UserOpens, storeVars,
     clientVars, vars
<1>4. ASSUME NEW a \in {Panel, Tab}, Carries(a) PROVE Aside
  <2>1. a \in Actor /\ a \notin Handler
    BY Actors
  <2>2. /\ \A b \in Handler : Kept1(b)
        /\ UNCHANGED up /\ UNCHANGED index
    BY <1>4, <2>1, Alone, Actors
  <2>3. at'[Tab] = at[Tab]
    <3>1. CASE a = Tab
      BY <1>1, <1>4, <3>1 DEF Carries, RefreshBegins, RefreshEnds, Aborted
    <3>2. CASE a # Tab
      BY <1>4, <2>1, <3>2, Alone, Actors DEF Kept1
    <3>3. QED
      BY <3>1, <3>2
  <2>4. QED
    BY <2>2, <2>3 DEF Aside
<1>5. CASE (\E f \in File : PanelLinks(f)) \/ PanelLinked
  <2>1. /\ \E place : Goes(Panel, place)
        /\ UNCHANGED job \/ \E f : Calls(Panel, "adopt", index, f)
        /\ UNCHANGED current \/ current' = [current EXCEPT ![Panel] = TRUE]
        /\ UNCHANGED <<up, index>>
    BY <1>5 DEF PanelLinks, PanelLinked, storeVars, clientVars
  <2>2. \A b \in Actor \ {Panel} : at'[b] = at[b]
    BY <2>1, GoesSets, Actors
  <2>3. \A b \in Actor \ {Panel} : job'[b] = job[b] /\ current'[b] = current[b]
    BY <1>1, <2>1 DEF Calls
  <2>4. QED
    BY <2>1, <2>2, <2>3, Actors DEF Aside, Kept1
<1>6. CASE TabReturns \/ \E v \in Rev : TabCalls("sync", v) \/ TabCalls("avatar", v)
  <2>1. /\ \/ job' = [job EXCEPT ![Tab] = NoJob]
           \/ \E v, what : Calls(Tab, what, v, None)
        /\ \E x : current' = [current EXCEPT ![Tab] = x]
        /\ UNCHANGED <<at, up, index>>
    BY <1>6 DEF TabReturns, TabCalls, clientVars
  <2>2. \A b \in Actor \ {Tab} : job'[b] = job[b] /\ current'[b] = current[b]
    BY <1>1, <2>1 DEF Calls
  <2>3. QED
    BY <2>1, <2>2, Actors DEF Aside, Kept1
<1>7. CASE \E f \in File, kind \in {"none", "own"} : UserChanges(f, kind)
  BY <1>2, <1>7 DEF UserChanges, UserReplaces, clientVars
<1>8. QED
  BY <1>3, <1>4, <1>5, <1>6, <1>7

LEMMA OrderedFirst == Init => Ordered
  BY Actors DEF Init, StoreInit, NoJob, Ordered, Proper

LEMMA OrderedStep ==
  ASSUME TypeOK, Ordered, [Next]_vars
  PROVE  Ordered'
<1>1. CASE Aside
  BY <1>1, AsideOrdered
<1>2. CASE Disconnects
  <2>1. \A a \in Handler : ~current'[a]
    BY <1>2, Actors DEF Disconnects, TypeOK, StoreTypeOK
  <2>2. QED
    BY <1>2, <2>1 DEF Disconnects, Ordered, Proper
<1>3. ASSUME NEW a \in Handler, Handles(a) \/ Carries(a) PROVE Ordered'
  <2>1. a \in Actor /\ Tab \in Actor \ {a} /\ \A b \in Handler \ {a} : b \in Actor \ {a}
    BY Actors
  <2>2. Proper(a)'
    BY <1>3, HandlesProper, CarriesProper
  <2>3. /\ \A b \in Actor \ {a} : Kept1(b)
        /\ UNCHANGED up /\ (UNCHANGED index \/ TakesIndex(a))
    BY <1>3, <2>1, Alone
  <2>4. CASE \A b \in Handler : ~current[b]
    <3>1. \A b \in Handler \ {a} : ~current'[b]
      BY <2>1, <2>3, <2>4 DEF Kept1
    <3>2. \A b \in Handler \ {a} : Proper(b)'
      BY <2>1, <2>3, <3>1 DEF Ordered, Proper, Kept1
    <3>3. QED
      BY <2>1, <2>2, <2>3, <3>1, <3>2 DEF Ordered, Kept1
  <2>5. CASE UNCHANGED index /\ (current'[a] => current[a])
    <3>1. \A b \in Handler \ {a} : Proper(b)'
      BY <2>1, <2>3, <2>5 DEF Ordered, Proper, Kept1
    <3>2. QED
      BY <2>1, <2>2, <2>3, <2>5, <3>1 DEF Ordered, Kept1
  <2>6. TakesIndex(a) \/ TakesDefinition(a) \/ TakesAvatar(a) => \A b \in Handler : ~current[b]
    BY <2>1, NextAlone DEF TakesIndex, TakesDefinition, TakesAvatar
  <2>7. CASE Synced(a) \/ Wanted(a) \/ SyncFailed(a) \/ LoopEnds(a) \/ Hashed(a) \/ Illustrated(a)
    <3>1. current'[a] => current[a]
      BY <2>1, <2>7, OverSets DEF Synced, Wanted, SyncFailed, LoopEnds, Hashed, Illustrated, storeVars
    <3>2. QED
      BY <2>3, <2>4, <2>5, <2>6, <3>1
  <2>8. CASE Carries(a)
    BY <2>3, <2>4, <2>5, <2>6, <2>8, CarriesProper
  <2>9. QED
    BY <1>3, <2>4, <2>6, <2>7, <2>8 DEF Handles
<1>4. QED
  BY <1>1, <1>2, <1>3, OthersAside, Actors DEF Next

-----------------------------------------------------------------------------
(* What a character carries *)

\* Whatever is held of the card, or carried, is held in a connection whose
\* catalogue lists the card.
Borrowed == held # 0 \/ pending # 0 \/ live # 0 => up /\ index # 0

LEMMA DefinitionHolds ==
  ASSUME TypeOK, NEW a \in Actor, NEW v, Definition(a, v)
  PROVE  /\ {held', pending'} \subseteq {0, v}
         /\ held = 0 => held' = 0
         /\ held = 0 => pending' = 0
  BY DEF Definition

LEMMA HandlesBorrowed ==
  ASSUME TypeOK, Ordered, Borrowed, NEW a \in Handler, Handles(a)
  PROVE  Borrowed'
<1>1. a \in Actor /\ Proper(a) /\ UNCHANGED up
  BY Actors, Alone DEF Ordered
<1>2. CASE TakesIndex(a)
  <2>1. up
    BY <1>1, <1>2, NextAlone DEF TakesIndex
  <2>2. QED
    BY <1>1, <1>2, <2>1 DEF TakesIndex, Forgets, Dehydrates, Borrowed
<1>3. CASE Synced(a) \/ Wanted(a)
  <2>1. UNCHANGED <<index, live>>
    BY <1>3 DEF Synced, Wanted
  <2>2. UNCHANGED <<held, pending>> \/ \E v : Definition(a, v)
    BY <1>3 DEF Synced, Wanted
  <2>3. QED
    BY <1>1, <2>1, <2>2, DefinitionHolds DEF Borrowed
<1>4. CASE LoopEnds(a)
  BY <1>1, <1>4 DEF LoopEnds, Applies, Hydrates, Borrowed
<1>5. CASE Hashed(a)
  BY <1>1, <1>5 DEF Hashed, Hydrates, Borrowed, Proper
<1>6. CASE SyncFailed(a) \/ TakesDefinition(a) \/ TakesAvatar(a) \/ Illustrated(a)
  BY <1>1, <1>6 DEF SyncFailed, TakesDefinition, TakesAvatar, Illustrated, clientVars, Borrowed
<1>7. QED
  BY <1>2, <1>3, <1>4, <1>5, <1>6 DEF Handles

LEMMA BorrowedStep ==
  ASSUME TypeOK, Ordered, Borrowed, [Next]_vars
  PROVE  Borrowed'
<1>1. CASE UNCHANGED clientVars /\ (up => up')
  BY <1>1 DEF Borrowed, clientVars
<1>2. CASE Disconnects
  BY <1>2 DEF Disconnects, Dehydrates, Borrowed
<1>3. ASSUME NEW a \in Actor, Carries(a) PROVE Borrowed'
  <2>1. UNCHANGED up
    BY <1>3, Alone
  <2>2. CASE (StoreStep(a) /\ UNCHANGED <<clientVars, up, at, roomVars>>) \/ Aborted(a)
    BY <1>1, <2>2 DEF Aborted
  <2>3. CASE RefreshBegins(a)
    BY <2>1, <2>3 DEF RefreshBegins, Dehydrates, Borrowed
  <2>4. CASE RefreshEnds(a)
    BY <2>1, <2>4 DEF RefreshEnds, Hydrates, Dehydrates, Borrowed
  <2>5. QED
    BY <1>3, <2>2, <2>3, <2>4 DEF Carries
<1>4. CASE \/ HostChanges \/ HostPublishes \/ HostAnswers \/ Connects \/ PanelLinked \/ UserOpens \/ TabReturns
           \/ \E f \in File : PanelLinks(f)
           \/ \E v \in Rev : TabCalls("sync", v) \/ TabCalls("avatar", v)
           \/ \E f \in File, kind \in {"none", "own"} : UserChanges(f, kind)
           \/ UNCHANGED vars
  BY <1>1, <1>4 DEF HostChanges, HostPublishes, HostAnswers, Connects, PanelLinks, PanelLinked,
     UserOpens, TabReturns, TabCalls, UserChanges, vars
<1>5. QED
  BY <1>2, <1>3, <1>4, HandlesBorrowed DEF Next

-----------------------------------------------------------------------------
(* Obsolete definitions *)

\* A handler that is renewing the card will look at what is held of it.
RenewedBy(a) == current[a] /\ at[a] \in {"sync", "want"}
Renewing == \E a \in Handler : RenewedBy(a)

\* A catalogue is on its way, or asked for.
Asked1 == \E i \in DOMAIN toHost : toHost[i] = "republish"
Sent1 == \E i \in DOMAIN toClient : toClient[i].op = "index"
Announced == Asked1 \/ Sent1

\* What is held is the revision the catalogue lists, or is about to be looked at;
\* what a character carries is, or a catalogue is to come.
HeldFresh == {held, pending} \subseteq {0, index} \/ Renewing
LiveFresh == live \in {0, index} \/ Announced
Fresh == ~behind => HeldFresh /\ LiveFresh

LEMMA Appended ==
  ASSUME NEW S, NEW s \in Seq(S), NEW x \in S
  PROVE  /\ DOMAIN Append(s, x) = 1..(Len(s) + 1)
         /\ \A i \in DOMAIN s : i \in DOMAIN Append(s, x) /\ Append(s, x)[i] = s[i]
         /\ Len(s) + 1 \in DOMAIN Append(s, x) /\ Append(s, x)[Len(s) + 1] = x
  OBVIOUS

LEMMA Taken ==
  ASSUME NEW S, NEW s \in Seq(S), s # <<>>
  PROVE  /\ \A i \in DOMAIN s : i = 1 \/ (i - 1 \in DOMAIN Tail(s) /\ Tail(s)[i - 1] = s[i])
         /\ s[1] = Head(s)
  OBVIOUS

\* A request that is sent, and a message that is not a catalogue, keep what was
\* announced.
LEMMA AsksKeeps ==
  ASSUME TypeOK, NEW want \in Request, Asks(want)
  PROVE  (Asked1 => Asked1') /\ (want = "republish" /\ up => Asked1')
<1>1. toHost \in Seq(Request)
  BY DEF TypeOK
<1>2. CASE toHost' = Append(toHost, want)
  BY <1>1, <1>2, Appended DEF Asked1
<1>3. QED
  BY <1>2 DEF Asks, Asked1

LEMMA SentKeeps ==
  ASSUME TypeOK, NEW m \in Message, toClient' = Append(toClient, m)
  PROVE  (Sent1 => Sent1') /\ (m.op = "index" => Sent1')
<1>1. toClient \in Seq(Message)
  BY DEF TypeOK
<1>2. QED
  BY <1>1, Appended DEF Sent1

LEMMA TakenKeeps ==
  ASSUME TypeOK, NEW a, NEW op, Next1(a, op), op # "index", Sent1
  PROVE  Sent1'
<1>1. toClient \in Seq(Message) /\ toClient # <<>> /\ toClient' = Tail(toClient) /\ Head(toClient).op = op
  BY DEF TypeOK, Next1
<1>2. QED
  BY <1>1, Taken DEF Sent1

LEMMA AnnouncesSends ==
  ASSUME TypeOK, Announces
  PROVE  Sent1'
<1>1. Message1("index", card) \in Message /\ Message1("index", card).op = "index"
  BY DEF Message1, Message, TypeOK
<1>2. QED
  BY <1>1, SentKeeps DEF Announces

LEMMA HostFresh ==
  ASSUME TypeOK, Fresh, HostPublishes \/ HostAnswers \/ Connects
  PROVE  Fresh'
<1>1. UNCHANGED <<clientVars, at, current>>
  BY DEF HostPublishes, HostAnswers, Connects, storeVars
<1>2. HeldFresh => HeldFresh'
  BY <1>1 DEF HeldFresh, Renewing, RenewedBy, clientVars
<1>3. Announced => Announced'
  <2>1. CASE HostPublishes
    BY <2>1, AnnouncesSends DEF HostPublishes, Announced
  <2>2. CASE HostAnswers
    <3>1. toHost \in Seq(Request) /\ toHost # <<>> /\ toHost' = Tail(toHost)
      BY <2>2 DEF HostAnswers, TypeOK
    <3>2. CASE Announces
      BY <3>2, AnnouncesSends DEF Announced
    <3>3. CASE ~Announces
      <4>1. Head(toHost) # "republish"
        BY <2>2, <3>3 DEF HostAnswers
      <4>2. Asked1 => Asked1'
        BY <3>1, <4>1, Taken DEF Asked1
      <4>3. Sent1 => Sent1'
        <5>1. Message1(Head(toHost), catalogue) \in Message
          BY <3>1, <4>1 DEF Message1, Message, Request, TypeOK
        <5>2. UNCHANGED toClient \/ toClient' = Append(toClient, Message1(Head(toHost), catalogue))
          BY <2>2, <3>3 DEF HostAnswers
        <5>3. QED
          BY <5>1, <5>2, SentKeeps DEF Sent1
      <4>4. QED
        BY <4>2, <4>3 DEF Announced
    <3>4. QED
      BY <3>2, <3>3
  <2>3. CASE Connects
    BY <2>3 DEF Connects, Announced, Sent1, Message1
  <2>4. QED
    BY <2>1, <2>2, <2>3
<1>4. QED
  BY <1>1, <1>2, <1>3 DEF Fresh, LiveFresh, clientVars

\* A handler that is not renewing the card takes no one's place who is.
LEMMA StillRenewing ==
  ASSUME NEW a \in Actor, a \notin Handler \/ ~RenewedBy(a), \A b \in Actor \ {a} : Kept1(b), Renewing
  PROVE  Renewing'
  BY Actors DEF Renewing, RenewedBy, Kept1

LEMMA NotRenewing ==
  ASSUME Ordered, NEW a \in Handler, current[a], ~RenewedBy(a)
  PROVE  ~Renewing
  BY DEF Ordered, Renewing, RenewedBy

LEMMA HandlesFresh ==
  ASSUME TypeOK, Ordered, Borrowed, Fresh, NEW a \in Handler, Handles(a)
  PROVE  Fresh'
<1>1. a \in Actor /\ Proper(a) /\ \A b \in Actor \ {a} : Kept1(b)
  BY Actors, Alone DEF Ordered
<1>2. CASE TakesIndex(a)
  <2>1. live' = 0
    BY <1>2 DEF TakesIndex, Forgets, Dehydrates
  <2>2. CASE Head(toClient).rev = 0
    BY <1>2, <2>1, <2>2 DEF TakesIndex, Forgets, Fresh, HeldFresh, LiveFresh
  <2>3. CASE Head(toClient).rev # 0
    <3>1. at'[a] = "sync" /\ current'[a]
      BY <1>1, <1>2, <2>3, GoesSets DEF TakesIndex, TypeOK, StoreTypeOK
    <3>2. QED
      BY <2>1, <3>1 DEF Fresh, HeldFresh, LiveFresh, Renewing, RenewedBy
  <2>4. QED
    BY <2>2, <2>3
<1>3. CASE Synced(a) \/ Wanted(a)
  <2>1. UNCHANGED <<index, live, behind, current, toClient>> /\ at[a] \in {"sync", "want"}
    BY <1>3 DEF Synced, Wanted, storeVars
  <2>2. \/ UNCHANGED toHost
        \/ \E want \in Request : Asks(want)
    BY <1>3 DEF Synced, Wanted, Definition, Request
  <2>3. LiveFresh => LiveFresh'
    BY <2>1, <2>2, AsksKeeps DEF LiveFresh, Announced, Asked1, Sent1
  <2>4. CASE Goes(a, "want") /\ current[a]
    <3>1. at'[a] = "want" /\ current'[a]
      BY <1>1, <2>1, <2>4, GoesSets
    <3>2. QED
      BY <2>1, <2>3, <3>1 DEF Fresh, HeldFresh, Renewing, RenewedBy
  <2>5. CASE Definition(a, job[a].rev) /\ current[a]
    <3>1. job[a].rev = index
      BY <1>1, <2>1, <2>5 DEF Proper
    <3>2. {held', pending'} \subseteq {0, index'}
      BY <1>1, <2>1, <2>5, <3>1, DefinitionHolds
    <3>3. QED
      BY <2>1, <2>3, <3>2 DEF Fresh, HeldFresh
  <2>6. CASE Definition(a, job[a].rev) /\ ~current[a]
    <3>1. Renewing => Renewing'
      BY <1>1, <2>6, StillRenewing DEF RenewedBy
    <3>2. {held', pending'} \subseteq {0, held}
      BY <2>6 DEF Definition
    <3>3. QED
      BY <2>1, <2>3, <3>1, <3>2 DEF Fresh, HeldFresh
  <2>7. QED
    BY <1>3, <2>4, <2>5, <2>6 DEF Synced, Wanted
<1>4. CASE SyncFailed(a)
  <2>1. CASE current[a]
    BY <1>4, <2>1 DEF SyncFailed, Fresh
  <2>2. CASE ~current[a]
    <3>1. Renewing => Renewing'
      BY <1>1, <2>2, StillRenewing DEF RenewedBy
    <3>2. QED
      BY <1>4, <2>2, <3>1 DEF SyncFailed, Fresh, HeldFresh, LiveFresh, Announced, Asked1, Sent1, roomVars
  <2>3. QED
    BY <2>1, <2>2
<1>5. CASE LoopEnds(a)
  <2>1. at[a] = "wanted" /\ UNCHANGED <<index, behind, held, roomVars>>
    BY <1>5 DEF LoopEnds
  <2>2. ~RenewedBy(a) /\ (Renewing => Renewing')
    BY <1>1, <2>1, StillRenewing DEF RenewedBy
  <2>3. Announced => Announced'
    BY <2>1 DEF Announced, Asked1, Sent1, roomVars
  <2>4. CASE UNCHANGED <<pending, live>>
    BY <2>1, <2>2, <2>3, <2>4 DEF Fresh, HeldFresh, LiveFresh
  <2>5. CASE current[a] /\ Applies
    <3>1. ~Renewing
      BY <2>2, <2>5, NotRenewing
    <3>2. QED
      BY <2>1, <2>3, <2>5, <3>1 DEF Applies, Hydrates, Fresh, HeldFresh, LiveFresh
  <2>6. QED
    BY <1>5, <2>4, <2>5 DEF LoopEnds
<1>6. CASE TakesDefinition(a) \/ TakesAvatar(a)
  <2>1. UNCHANGED <<clientVars, toHost>> /\ at[a] = "idle"
    BY <1>6 DEF TakesDefinition, TakesAvatar, Next1
  <2>2. Renewing => Renewing'
    BY <1>1, <2>1, StillRenewing DEF RenewedBy
  <2>3. Announced => Announced'
    BY <1>6, <2>1, TakenKeeps DEF TakesDefinition, TakesAvatar, Announced, Asked1
  <2>4. QED
    BY <2>1, <2>2, <2>3 DEF Fresh, HeldFresh, LiveFresh, clientVars
<1>7. CASE Hashed(a)
  <2>1. at[a] = "hash" /\ UNCHANGED <<index, behind, roomVars>>
    BY <1>7 DEF Hashed
  <2>2. Renewing => Renewing'
    BY <1>1, <2>1, StillRenewing DEF RenewedBy
  <2>3. Announced => Announced'
    BY <2>1 DEF Announced, Asked1, Sent1, roomVars
  <2>4. CASE ~current[a]
    BY <1>7, <2>1, <2>2, <2>3, <2>4 DEF Hashed, Fresh, HeldFresh, LiveFresh
  <2>5. CASE current[a]
    <3>1. held' = index /\ pending' \in {0, index} /\ live' \in {live, index}
      BY <1>1, <1>7, <2>1, <2>5 DEF Hashed, Hydrates, Proper
    <3>2. QED
      BY <2>1, <2>3, <3>1 DEF Fresh, HeldFresh, LiveFresh
  <2>6. QED
    BY <2>4, <2>5
<1>8. CASE Illustrated(a)
  <2>1. at[a] = "illustrate" /\ UNCHANGED <<index, held, pending, live, behind, roomVars>>
    BY <1>8 DEF Illustrated
  <2>2. Renewing => Renewing'
    BY <1>1, <2>1, StillRenewing DEF RenewedBy
  <2>3. QED
    BY <2>1, <2>2 DEF Fresh, HeldFresh, LiveFresh, Announced, Asked1, Sent1, roomVars
<1>9. QED
  BY <1>2, <1>3, <1>4, <1>5, <1>6, <1>7, <1>8 DEF Handles

LEMMA CarriesFresh ==
  ASSUME TypeOK, Ordered, Borrowed, Fresh, NEW a \in Actor, Carries(a)
  PROVE  Fresh'
<1>1. \A b \in Actor \ {a} : Kept1(b)
  BY Alone
<1>2. CASE StoreStep(a) /\ UNCHANGED <<clientVars, up, at, roomVars>>
  <2>1. UNCHANGED current
    BY <1>2 DEF StoreStep
  <2>2. QED
    BY <1>2, <2>1 DEF Fresh, HeldFresh, LiveFresh, Renewing, RenewedBy, Announced, Asked1, Sent1,
       clientVars, roomVars
<1>3. CASE RefreshBegins(a)
  <2>1. at[a] = "refresh" /\ UNCHANGED <<index, held, pending, behind, roomVars>> /\ live' \in {0, live}
    BY <1>3 DEF RefreshBegins, Dehydrates
  <2>2. Renewing => Renewing'
    BY <1>1, <2>1, StillRenewing DEF RenewedBy
  <2>3. QED
    BY <2>1, <2>2 DEF Fresh, HeldFresh, LiveFresh, Announced, Asked1, Sent1, roomVars
<1>4. CASE Aborted(a)
  <2>1. UNCHANGED <<clientVars, roomVars>>
    BY <1>4 DEF Aborted
  <2>2. a \notin Handler \/ ~RenewedBy(a)
    BY <1>4 DEF Aborted, RenewedBy, Ordered, Proper
  <2>3. Renewing => Renewing'
    BY <1>1, <2>2, StillRenewing
  <2>4. QED
    BY <2>1, <2>3 DEF Fresh, HeldFresh, LiveFresh, Announced, Asked1, Sent1, clientVars, roomVars
<1>5. CASE RefreshEnds(a)
  <2>1. at[a] = "list" /\ UNCHANGED <<index, held, behind, toClient>> /\ a # Tab
    BY <1>5 DEF RefreshEnds, Ordered
  <2>2. ~RenewedBy(a) /\ (Renewing => Renewing')
    BY <1>1, <2>1, StillRenewing DEF RenewedBy
  <2>3. /\ live' \in {0, held, pending} /\ pending' \in {0, held, pending}
        /\ live' # 0 => current[a] \/ a = Panel
    BY <1>5 DEF RefreshEnds, Hydrates, Dehydrates
  <2>4. HeldFresh => HeldFresh'
    BY <2>1, <2>2, <2>3 DEF HeldFresh
  <2>5. CASE live' = 0
    BY <2>1, <2>4, <2>5 DEF Fresh, LiveFresh
  <2>6. CASE a \in Handler /\ current[a]
    <3>1. ~Renewing
      BY <2>2, <2>6, NotRenewing
    <3>2. QED
      BY <2>1, <2>3, <2>4, <3>1 DEF Fresh, HeldFresh, LiveFresh
  <2>7. CASE a = Panel /\ live' # 0
    <3>1. up
      BY <2>3, <2>7 DEF Borrowed
    <3>2. Asked1'
      BY <1>5, <2>7, <3>1, AsksKeeps DEF RefreshEnds, Resyncs, Request
    <3>3. QED
      BY <2>1, <2>4, <3>2 DEF Fresh, LiveFresh, Announced
  <2>8. QED
    BY <2>1, <2>3, <2>5, <2>6, <2>7, Actors
<1>6. QED
  BY <1>2, <1>3, <1>4, <1>5 DEF Carries

LEMMA FreshStep ==
  ASSUME TypeOK, Ordered, Borrowed, Fresh, [Next]_vars
  PROVE  Fresh'
<1>1. ASSUME UNCHANGED <<clientVars, toClient>>, Asked1 => Asked1', Aside PROVE Fresh'
  BY <1>1 DEF Aside, Kept1, Fresh, HeldFresh, LiveFresh, Renewing, RenewedBy, Announced, Sent1, clientVars
<1>2. CASE Disconnects
  BY <1>2 DEF Disconnects, Dehydrates, Fresh, HeldFresh, LiveFresh
<1>3. CASE UserOpens
  <2>1. Asked1 => Asked1'
    BY <1>3, AsksKeeps DEF UserOpens, Request
  <2>2. Aside
    BY <1>3, OthersAside
  <2>3. QED
    BY <1>1, <1>3, <2>1, <2>2 DEF UserOpens
<1>4. CASE \/ HostChanges \/ PanelLinked \/ TabReturns
           \/ \E f \in File : PanelLinks(f)
           \/ \E v \in Rev : TabCalls("sync", v) \/ TabCalls("avatar", v)
           \/ \E f \in File, kind \in {"none", "own"} : UserChanges(f, kind)
           \/ UNCHANGED vars
  <2>1. UNCHANGED <<clientVars, toClient, toHost>>
    BY <1>4 DEF HostChanges, PanelLinks, PanelLinked, TabReturns, TabCalls, UserChanges, roomVars, vars
  <2>2. Aside
    BY <1>4, OthersAside
  <2>3. QED
    BY <1>1, <2>1, <2>2 DEF Asked1
<1>5. QED
  BY <1>2, <1>3, <1>4, HostFresh, HandlesFresh, CarriesFresh DEF Next

\* The invariant on which the two theorems on definitions rest.
Carried == Ordered /\ Borrowed /\ Fresh

LEMMA CarriedFirst == Init => Carried
  BY OrderedFirst DEF Init, Carried, Borrowed, Fresh, HeldFresh, LiveFresh

LEMMA CarriedStep == IInv /\ Carried /\ [Next]_vars => Carried'
  BY OrderedStep, BorrowedStep, FreshStep DEF Carried, IInv

-----------------------------------------------------------------------------
\* The invariant on which the theorems below rest.
THEOREM Invariance == Spec => []IInv
<1>1. IInv /\ [Next]_vars => IInv'
  BY Step
<1>2. QED
  BY Initially, <1>1, PTL DEF Spec

\* Every variable of the store and the client keeps to its type, whatever
\* fails, is lost or is changed behind its back.
THEOREM TypeCorrect == Spec => []TypeOK
<1>1. IInv => TypeOK
  BY DEF IInv
<1>2. QED
  BY Invariance, <1>1, PTL

\* No call of sync, avatar or adopt ever touches a character file that is the
\* user's own (the conflict check of lib/card-store.js:76-77), however many
\* handlers and windows are at it and whichever of their requests fail.
THEOREM OwnCards == Spec => OwnCardsSafe
<1>1. IInv /\ [Next]_vars => [\A f \in File : disk[f].kind = "own" => disk'[f] = disk[f]]_disk
  BY Step
<1>2. QED
  BY Invariance, <1>1, PTL DEF Spec, OwnCardsSafe

\* In a browser with Web Locks the portrait a marker says is installed is the one
\* the file shows (lib/card-store.js: avatar(), and sync() and adopt() writing
\* around it), whichever calls of whichever windows meet and whatever fails:
\* sharedWrite lets one call run at a time, so that what a call read is still
\* there when it writes.
THEOREM Portraits ==
  ASSUME Locks
  PROVE  Spec => []PortraitTrue
<1>1. IInv /\ Undisturbed /\ [Next]_vars => Undisturbed'
  BY UndisturbedStep
<1>2. Undisturbed => PortraitTrue
  BY DEF Undisturbed
<1>3. QED
  BY Invariance, UndisturbedFirst, <1>1, <1>2, PTL DEF Spec

\* No character carries a definition, and none is held for one, when the
\* connection is gone or the host has stopped sharing the card (dehydrateAll and
\* the clearing of definitions in #onCardIndex and leave(), lib/session.js:1299),
\* whatever handlers of earlier connections are still at an await.
THEOREM Borrows == Spec => []BorrowedOnly
<1>1. Carried => BorrowedOnly
  BY DEF Carried, Borrowed, BorrowedOnly
<1>2. QED
  BY Invariance, CarriedFirst, CarriedStep, <1>1, PTL DEF Spec

\* When nothing is under way, a character carries the definition the catalogue
\* lists or none, unless the synchronisation of the card has failed since the
\* catalogue came (#onCardIndex, #onCardDefinition, refreshCharacters): a held
\* definition of another revision is there only while the handler of the
\* catalogue has yet to look at it, and is carried only when a catalogue is still
\* to come.
THEOREM NoObsolete == Spec => []ObsoleteNeverStays
<1>1. ASSUME TypeOK, Carried PROVE ObsoleteNeverStays
  <2>1. SUFFICES ASSUME AtRest, ~behind PROVE live \in {0, index}
    BY DEF ObsoleteNeverStays
  <2>2. ~Announced
    BY <2>1 DEF AtRest, Announced, Asked1, Sent1
  <2>3. QED
    BY <1>1, <2>1, <2>2 DEF Carried, Fresh, LiveFresh
<1>2. IInv => TypeOK
  BY DEF IInv
<1>3. QED
  BY Invariance, CarriedFirst, CarriedStep, <1>1, <1>2, PTL DEF Spec
=============================================================================
