------------------------------ MODULE CardStore ------------------------------
(* SharedCardStore of lib/card-store.js for one shared card: how browser tabs  *)
(* write, update, adopt and illustrate the local copy of it while the user and *)
(* other tabs change the same files. sharedWrite keeps the jobs of one card    *)
(* apart, and cards have different identities and file names, so one card      *)
(* stands for all. A job is one action per stretch between two awaits, and a   *)
(* request to SillyTavern takes effect at some moment before it is answered.   *)
EXTENDS Integers

CONSTANTS
  Rev,      \* revisions the host can share: definition and portrait together
  Actor,    \* what can have one job each: message handlers, the panel, a tab
  Tab,      \* the actor that is another tab; the others are in this window
  Det,      \* the deterministic file name of the card
  Other,    \* file names an older build or the user gave
  None,
  Locks,    \* the browser has Web Locks
  MaxEvents \* requests that fail, and whatever else interferes, a bound

ASSUME CardStoreAssumption ==
  /\ Rev \subseteq Nat \ {0} /\ Rev # {}
  /\ Tab \in Actor
  /\ Det \notin Other /\ None \notin Other \cup {Det} \cup Rev
  /\ Locks \in BOOLEAN /\ MaxEvents \in Nat

File == Other \cup {Det}
Window == {"this", "tab"}
WindowOf(a) == IF a = Tab THEN "tab" ELSE "this"

\* What a character file is, by its marker: none at all, the user's own card,
\* a stub an older build wrote, or the stub of the card's owner and source.
Kind == {"none", "own", "legacy", "stub"}
Card == [kind : Kind, rev : Rev \cup {0}, installed : Rev \cup {0}, picture : Rev \cup {0}]
NoCard == [kind |-> "none", rev |-> 0, installed |-> 0, picture |-> 0]

VARIABLES
  disk,     \* the character files
  list,     \* per window: the kind of each file in its `characters`
  records,  \* per window: state.remoteCards[key].avatar, or None
  current,  \* per actor: what isCurrent() says of the connection it acts for
  job,      \* per actor: its call of sync, avatar or adopt
  events    \* failed requests and interferences so far

fileVars == <<disk, list, records>>
storeVars == <<fileVars, current, job, events>>

\* A call: where it is, its revision, the files left to read, the file it has
\* found and what it read there, and whether it asked for a write.
Job == [what : {"sync", "avatar", "adopt"},
        pc : {"idle", "waiting", "reading", "legacy", "found", "writing", "checking",
              "done", "failed", "aborted"},
        rev : Rev \cup {0}, todo : SUBSET File, file : File \cup {None}, read : Card,
        changed : BOOLEAN]

NoJob == [what |-> "sync", pc |-> "idle", rev |-> 0, todo |-> {}, file |-> None,
          read |-> NoCard, changed |-> FALSE]

StoreTypeOK ==
  /\ disk \in [File -> Card]
  /\ list \in [Window -> [File -> Kind]]
  /\ records \in [Window -> File \cup {None}]
  /\ current \in [Actor -> BOOLEAN]
  /\ job \in [Actor -> Job]
  /\ events \in 0..MaxEvents

\* The user may have cards of their own under any name but the deterministic
\* one, stubs of an older build, and records whose files changed meanwhile.
StoreInit ==
  /\ disk \in {d \in [File -> {NoCard,
                               [NoCard EXCEPT !.kind = "own"],
                               [NoCard EXCEPT !.kind = "legacy"]}] : d[Det].kind # "legacy"}
  /\ list = [w \in Window |-> [f \in File |-> disk[f].kind]]
  /\ \E f \in File \cup {None} : records = [w \in Window |-> f]
  /\ events = 0
  /\ current = [a \in Actor |-> FALSE]
  /\ job = [a \in Actor |-> NoJob]

-------------------------------------------------------------------------------
(* sharedWrite *)

Calls(a, what, rev, file) ==
  job' = [job EXCEPT ![a] = [NoJob EXCEPT !.what = what, !.pc = "waiting", !.rev = rev,
                                          !.file = file]]

Running(a) == job[a].pc \in {"reading", "legacy", "found", "writing", "checking"}

\* Mutant: avatar() queues under a key of its own.
FreeByKind(a) ==
  \A b \in Actor \ {a} :
    Running(b) => job[b].what # job[a].what \/ (WindowOf(a) # WindowOf(b) /\ ~Locks)

\* The queue of the window, and the lock of the browser when it has them.
Free(a) ==
  \A b \in Actor \ {a} : Running(b) => (WindowOf(a) # WindowOf(b) /\ ~Locks)

Moves(a, j) == job' = [job EXCEPT ![a] = j] /\ UNCHANGED events
Ends(a, how) == Moves(a, [job[a] EXCEPT !.pc = how])

\* A request goes wrong: the call throws, and sharedWrite lets the next one in.
Happens == events < MaxEvents /\ events' = events + 1
Fails(a) == Happens /\ job' = [job EXCEPT ![a].pc = "failed"]

-------------------------------------------------------------------------------
(* sync, avatar and adopt up to the write *)

\* The files sync looks at: the one on record, those that seem to carry the
\* marker, the deterministic name.
Names(w) == ({records[w]} \ {None}) \cup {f \in File : list[w][f] = "stub"} \cup {Det}

\* It looks at them in this order, and at those with the marker in the order of
\* their names.
Due(a) ==
  LET w == WindowOf(a)
      marked == {f \in job[a].todo : list[w][f] = "stub"}
  IN  IF records[w] \in job[a].todo THEN {records[w]}
      ELSE IF marked # {} THEN marked
      ELSE job[a].todo

Begins(a) ==
  /\ job[a].pc = "waiting" /\ Free(a)
  /\ LET w == WindowOf(a)
         Reading(names) == Moves(a, [job[a] EXCEPT !.pc = "reading", !.todo = names])
     IN  \/ ~current[a] /\ Ends(a, "aborted")
         \/ current[a] /\ job[a].what = "sync" /\ Reading(Names(w))
         \/ current[a] /\ job[a].what = "avatar" /\ records[w] # None /\ Reading({records[w]})
         \/ current[a] /\ job[a].what = "avatar" /\ records[w] = None /\ Ends(a, "failed")
         \/ current[a] /\ job[a].what = "adopt" /\ Reading({job[a].file})
  /\ UNCHANGED fileVars

\* Whether what a file holds is what the call may write over.
\* Mutant: the list is believed, the file itself is not looked at.
ExpectedByList(a, f) ==
  \/ list[WindowOf(a)][f] = "stub"
  \/ job[a].what = "adopt" /\ list[WindowOf(a)][f] = "legacy"

Expected(a, f) ==
  \/ disk[f].kind = "stub"
  \/ job[a].what = "adopt" /\ disk[f].kind = "legacy"

Found(a, f) ==
  Moves(a, [job[a] EXCEPT !.pc = "found", !.file = f, !.read = disk[f], !.todo = {}])

\* read(avatar), and what the caller makes of it. Something else under the
\* deterministic name is a conflict; avatar and adopt insist on their file.
Reads(a) ==
  /\ job[a].pc = "reading"
  /\ \E f \in Due(a) :
     LET strict == job[a].what # "sync" \/ (f = Det /\ disk[f].kind # "none")
         looks == job[a].what # "sync" \/ current[a]
     IN  \/ ~looks /\ Ends(a, "aborted")
         \/ looks /\ Fails(a)
         \/ looks /\ Expected(a, f) /\ Found(a, f)
         \/ looks /\ ~Expected(a, f) /\ strict /\ Ends(a, "failed")
         \/ looks /\ ~Expected(a, f) /\ ~strict /\ Moves(a, [job[a] EXCEPT !.todo = @ \ {f}])
  /\ UNCHANGED fileVars

\* No file carries the marker: stubs of older builds come next.
TurnsToLegacy(a) ==
  /\ job[a].pc = "reading" /\ job[a].todo = {}
  /\ Moves(a, [job[a] EXCEPT !.pc = "legacy",
                             !.todo = {f \in File : list[WindowOf(a)][f] = "legacy"}])
  /\ UNCHANGED fileVars

ReadsLegacy(a) ==
  /\ job[a].pc = "legacy"
  /\ \E f \in job[a].todo :
       \/ Fails(a)
       \/ disk[f].kind = "legacy" /\ Found(a, f)
       \/ disk[f].kind # "legacy" /\ Moves(a, [job[a] EXCEPT !.todo = @ \ {f}])
  /\ UNCHANGED fileVars

FindsNothing(a) ==
  /\ job[a].pc = "legacy" /\ job[a].todo = {}
  /\ Moves(a, [job[a] EXCEPT !.pc = "found", !.file = None])
  /\ UNCHANGED fileVars

\* The last look at the connection. A file that is up to date is left alone.
UpToDate(a) ==
  \/ job[a].what = "sync" /\ job[a].read.kind = "stub" /\ job[a].read.rev = job[a].rev
  \/ job[a].what = "avatar" /\ job[a].read.installed = job[a].rev

\* sync and adopt put the file that carries the marker on record.
Recorded(a, file) ==
  IF job[a].what = "avatar" THEN records ELSE [records EXCEPT ![WindowOf(a)] = file]

\* The caller is told.
Succeeds(a, file) ==
  /\ Moves(a, [job[a] EXCEPT !.pc = "done", !.file = file])
  /\ records' = Recorded(a, file)
  /\ UNCHANGED <<disk, list>>

Decides(a) ==
  /\ job[a].pc = "found"
  /\ \/ ~current[a] /\ ~(job[a].what = "avatar" /\ UpToDate(a)) /\ Ends(a, "aborted")
        /\ UNCHANGED fileVars
     \/ current[a] /\ ~UpToDate(a)
        /\ Moves(a, [job[a] EXCEPT !.pc = "writing", !.changed = TRUE])
        /\ UNCHANGED fileVars
     \/ (current[a] \/ job[a].what = "avatar") /\ UpToDate(a)
        /\ Succeeds(a, job[a].file)

-------------------------------------------------------------------------------
(* The write *)

\* What importCard or editCard asks for. The body comes from the caller and the
\* portrait stays where it is; sync carries over what is known of it, adopt does
\* not, and only avatar brings a new one.
SyncWrites(a, f) ==
  [kind |-> "stub", rev |-> job[a].rev, installed |-> job[a].read.installed,
   picture |-> disk[f].picture]

AdoptWrites(a, f) ==
  [kind |-> "stub", rev |-> job[a].rev, installed |-> 0, picture |-> disk[f].picture]

AvatarWrites(a) ==
  [job[a].read EXCEPT !.installed = job[a].rev, !.picture = job[a].rev]

Written(a, f) ==
  CASE job[a].what = "sync"   -> SyncWrites(a, f)
    [] job[a].what = "adopt"  -> AdoptWrites(a, f)
    [] job[a].what = "avatar" -> AvatarWrites(a)

\* SillyTavern carries a request out, or does not, and says so, or does not.
Requests(a, f, new) ==
  /\ \/ disk' = [disk EXCEPT ![f] = new] /\ Moves(a, [job[a] EXCEPT !.pc = "checking", !.file = f])
     \/ disk' = [disk EXCEPT ![f] = new] /\ Fails(a)
     \/ Fails(a) /\ UNCHANGED disk
  /\ UNCHANGED <<list, records>>

\* importCard: under the deterministic name, over whatever is there.
Imports(a) ==
  /\ job[a].pc = "writing" /\ job[a].file = None
  /\ Requests(a, Det, [Written(a, Det) EXCEPT !.picture = 0])

\* editCard: a file that is gone cannot be edited.
Edits(a) ==
  /\ job[a].pc = "writing" /\ job[a].file # None
  /\ LET f == job[a].file
     IN  \/ disk[f].kind # "none" /\ Requests(a, f, Written(a, f))
         \/ disk[f].kind = "none" /\ Ends(a, "failed") /\ UNCHANGED fileVars

\* What the file must say for the call to have succeeded.
Kept(a, saved) ==
  /\ saved.kind = "stub"
  /\ IF job[a].what = "avatar" THEN saved.installed = job[a].rev ELSE saved.rev = job[a].rev

\* The file is read again, whatever has become of the connection.
Checks(a) ==
  /\ job[a].pc = "checking"
  /\ LET saved == disk[job[a].file]
     IN  \/ Kept(a, saved) /\ Succeeds(a, job[a].file)
         \/ ~Kept(a, saved) /\ Ends(a, "failed") /\ UNCHANGED fileVars
         \/ Fails(a) /\ UNCHANGED fileVars

-------------------------------------------------------------------------------
StoreStep(a) ==
  /\ \/ Begins(a) \/ Reads(a) \/ TurnsToLegacy(a) \/ ReadsLegacy(a) \/ FindsNothing(a)
     \/ Decides(a) \/ Imports(a) \/ Edits(a) \/ Checks(a)
  /\ UNCHANGED current

\* getCharacters: a window's list becomes what is on disk.
Lists(w) == list' = [list EXCEPT ![w] = [f \in File |-> disk[f].kind]]

\* The user deletes a copy, or deletes it and gives its name to a card of their
\* own. It takes them longer than a call takes.
UserReplaces(f, kind) ==
  /\ Happens
  /\ \A a \in Actor : job[a].pc = "idle"
  /\ disk[f].kind \in {"stub", "legacy"}
  /\ disk' = [disk EXCEPT ![f] = [NoCard EXCEPT !.kind = kind]]
  /\ UNCHANGED <<list, records, current, job>>

-------------------------------------------------------------------------------
(* Properties *)

\* "An unrelated file ... is a conflict, not permission to overwrite the user's
\* character" (lib/card-store.js:76-77): no call ever touches a file that is the
\* user's own, however old its list and its records are.
OwnCardsSafe ==
  [][\A f \in File : disk[f].kind = "own" => disk'[f] = disk[f]]_disk

\* The portrait a marker says is installed is the one the file shows: a card
\* that needs the host's portrait is never taken for one that has it.
PortraitTrue ==
  \A f \in File : disk[f].installed # 0 => disk[f].picture = disk[f].installed
=============================================================================
