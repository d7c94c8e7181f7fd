---------------------------- MODULE HostingProofs ----------------------------
(* Theorems about Hosting, for every set of requests and ports, every router  *)
(* and every lease.                                                           *)
EXTENDS Hosting, TLAPS

\* What the assumptions on the constants come to in the proofs.
LEMMA Constants ==
  /\ Caller = Req \cup {Exit} /\ Exit \notin Req
  /\ Port # {}
  /\ MaxPerTick \in Nat
  /\ None \notin Int
  BY HostingAssumption, PortMapAssumption DEF HostingAssumption, PortMapAssumption

LEMMA Leases ==
  /\ 0 \in 0..Lease /\ Lease \in 0..Lease /\ Lease - Margin \in 0..Lease
  /\ \A n \in 0..Lease : n # 0 => n - 1 \in 0..Lease
  BY PortMapAssumption DEF PortMapAssumption

-------------------------------------------------------------------------------
(* The inductive invariant *)

\* A mapping, and a discovery about to start, have a port; one that is awaited
\* has a slot.
Ported ==
  /\ mapping # None => port # None
  /\ \A r \in Req : pc[r] \in {"reopen", "open"} => port # None
  /\ \A r \in Req : pc[r] = "open" => open[r] # None

Active(r) == pc[r] \notin {"idle", "queued"}

\* The mutex: who waits or runs is in the queue, and who runs is at its head.
Queued ==
  \A r \in Req :
    /\ pc[r] # "idle" => \E i \in 1..Len(queue) : queue[i] = r
    /\ Active(r) => queue[1] = r

Silent == listening = {}

\* What the request that runs has left behind by where it is. The exit hook
\* ends the process, and until then it has no part in this.
Alone ==
  pc[Exit] = "idle" =>
    /\ listening \subseteq {server}
    /\ ~running /\ (\A r \in Req : ~Active(r)) => Silent
    /\ \A r \in Req : pc[r] \in {"start", "close", "listen"} => Silent

IInv == TypeOK /\ Ported /\ Queued /\ Alone

LEMMA JobToStart == AnyJob \in Job
  BY Constants DEF AnyJob, Job

LEMMA Initially == Init => IInv
<1> SUFFICES ASSUME Init PROVE IInv
  OBVIOUS
<1> USE DEF Init, MapperInit
<1>1. PortMapTypeOK
  BY Leases DEF PortMapTypeOK
<1>2. TypeOK
  <2>1. recent \in 0..MaxPerTick
    BY Constants
  <2>2. job \in [Req -> Job]
    BY JobToStart
  <2>3. alive \in BOOLEAN /\ running \in BOOLEAN /\ offered \in BOOLEAN
    OBVIOUS
  <2>4. /\ pc \in [Caller -> {"idle", "queued", "start", "listen", "reopen", "open", "unmap", "close"}]
        /\ queue \in Seq(Req) /\ server \in Port \cup {None}
        /\ listening \in SUBSET Port /\ open \in [Req -> Slot \cup {None}]
    OBVIOUS
  <2>5. QED
    BY <1>1, <2>1, <2>2, <2>3, <2>4 DEF TypeOK
<1>3. Ported /\ Queued /\ Alone
  BY Constants DEF Ported, Queued, Active, Alone, Silent
<1>4. QED
  BY <1>2, <1>3 DEF IInv

-------------------------------------------------------------------------------
(* Types *)

\* What the mapper asks the router for is a mapping the router can hold.
LEMMA AskedFor ==
  ASSUME TypeOK, Ported
  PROVE  /\ RenewalOf \in Hole \cup {None}
         /\ \A p \in Port : RemovalOf(p) \in Hole \cup {None}
         /\ RemovalOf(port) \in Hole \cup {None}
  BY DEF TypeOK, PortMapTypeOK, Ported, RenewalOf, RemovalOf, Hole, Method

LEMMA FoundHole ==
  ASSUME TypeOK, NEW a \in Slot, Settled(a)
  PROVE  Found(a) \in Hole \cup {None}
  BY DEF TypeOK, PortMapTypeOK, Settled, Found, Hole, Method, Try

\* The router's table keeps its type whatever becomes of a request.
LEMMA TableKept ==
  ASSUME TypeOK, NEW x \in Hole
  PROVE  /\ Confirmed(Mapped(x)) \/ Unanswered(Mapped(x)) => left' \in [Hole -> 0..Lease]
         /\ Confirmed(Unmapped(x)) \/ Unanswered(Unmapped(x)) => left' \in [Hole -> 0..Lease]
<1>1. Mapped(x) \in [Hole -> 0..Lease] /\ Unmapped(x) \in [Hole -> 0..Lease]
  BY Leases DEF TypeOK, PortMapTypeOK, Mapped, Unmapped
<1>2. left \in [Hole -> 0..Lease]
  BY DEF TypeOK, PortMapTypeOK
<1>3. QED
  BY <1>1, <1>2 DEF Confirmed, Unanswered

\* A discovery moves on over one protocol.
LEMMA TryKept ==
  ASSUME TypeOK, NEW a \in Slot, tries[a] # None
  PROVE  /\ tries[a] \in Try
         /\ \A v \in {"asked", "mapping", "mapped", "none"} :
              tries' = [tries EXCEPT ![a].natpmp = v] => tries' \in [Slot -> Try \cup {None}]
         /\ \A v \in {"searching", "adding", "added", "mapped", "none"} :
              tries' = [tries EXCEPT ![a].upnp = v] => tries' \in [Slot -> Try \cup {None}]
<1>1. tries \in [Slot -> Try \cup {None}] /\ tries[a] \in Try
  BY DEF TypeOK, PortMapTypeOK
<1>2. /\ \A v \in {"asked", "mapping", "mapped", "none"} : [tries[a] EXCEPT !.natpmp = v] \in Try
      /\ \A v \in {"searching", "adding", "added", "mapped", "none"} :
           [tries[a] EXCEPT !.upnp = v] \in Try
  BY <1>1 DEF Try
<1>3. QED
  BY <1>1, <1>2

\* An answered request leaves the queue.
LEMMA Leaves ==
  ASSUME TypeOK, Queued, NEW r \in Req, Answered(r), pc[r] # "idle"
  PROVE  /\ pc' \in [Caller -> {"idle", "queued", "start", "listen", "reopen", "open", "unmap", "close"}]
         /\ job' \in [Req -> Job]
         /\ queue' \in Seq(Req)
<1>1. queue # <<>>
  BY DEF Queued, TypeOK
<1>2. Tail(queue) \in Seq(Req)
  BY <1>1 DEF TypeOK
<1>3. r \in Caller
  BY Constants
<1>4. QED
  BY <1>2, <1>3, JobToStart DEF TypeOK, Answered

\* So does a process that ends.
LEMMA EndsTyped ==
  ASSUME TypeOK, Gone
  PROVE  TypeOK'
<1>1. PortMapTypeOK'
  BY DEF TypeOK, PortMapTypeOK, Gone, Fresh
<1>2. job' \in [Req -> Job]
  BY JobToStart DEF Gone
<1>3. alive' \in BOOLEAN /\ running' \in BOOLEAN /\ offered' \in BOOLEAN
  BY DEF Gone
<1>4. /\ pc' \in [Caller -> {"idle", "queued", "start", "listen", "reopen", "open", "unmap", "close"}]
      /\ queue' \in Seq(Req) /\ server' \in Port \cup {None}
      /\ listening' \in SUBSET Port /\ open' \in [Req -> Slot \cup {None}]
      /\ recent' \in 0..MaxPerTick
  BY DEF TypeOK, Gone
<1>5. QED
  BY <1>1, <1>2, <1>3, <1>4 DEF TypeOK

LEMMA MapperTyped ==
  ASSUME TypeOK, Ported, MapperNext, UNCHANGED hostVars
  PROVE  TypeOK'
<1> USE DEF TypeOK, PortMapTypeOK, hostVars
<1>1. ASSUME NEW a \in Slot, NatpmpAddress(a) \/ UpnpSearch(a) \/ UpnpAddress(a) PROVE TypeOK'
  <2>1. /\ tries[a] # None
        /\ \/ \E v \in {"mapping", "none"} : tries' = [tries EXCEPT ![a].natpmp = v]
           \/ \E v \in {"adding", "mapped", "none"} : tries' = [tries EXCEPT ![a].upnp = v]
    BY <1>1 DEF NatpmpAddress, UpnpSearch, UpnpAddress
  <2>2. tries' \in [Slot -> Try \cup {None}]
    BY <2>1, TryKept
  <2>3. QED
    BY <1>1, <2>2 DEF NatpmpAddress, UpnpSearch, UpnpAddress
<1>2. ASSUME NEW a \in Slot, NatpmpMap(a) PROVE TypeOK'
  <2>1. <<"NAT-PMP", tries[a].port>> \in Hole
    BY <1>2, TryKept DEF NatpmpMap, Hole, Method, Try
  <2>2. left' \in [Hole -> 0..Lease]
    BY <1>2, <2>1, TableKept DEF NatpmpMap
  <2>3. tries' \in [Slot -> Try \cup {None}]
    <3>1. tries[a] # None /\ \E v \in {"mapped", "none"} : tries' = [tries EXCEPT ![a].natpmp = v]
      BY <1>2 DEF NatpmpMap
    <3>2. QED
      BY <3>1, TryKept
  <2>4. QED
    BY <1>2, <2>2, <2>3 DEF NatpmpMap
<1>3. ASSUME NEW a \in Slot, UpnpAdd(a) PROVE TypeOK'
  <2>1. <<"UPnP", tries[a].port>> \in Hole
    BY <1>3, TryKept DEF UpnpAdd, Hole, Method, Try
  <2>2. left' \in [Hole -> 0..Lease]
    BY <1>3, <2>1, TableKept DEF UpnpAdd
  <2>3. tries' \in [Slot -> Try \cup {None}]
    <3>1. tries[a] # None /\ \E v \in {"added", "none"} : tries' = [tries EXCEPT ![a].upnp = v]
      BY <1>3 DEF UpnpAdd
    <3>2. QED
      BY <3>1, TryKept
  <2>4. QED
    BY <1>3, <2>2, <2>3 DEF UpnpAdd
<1>4. CASE RenewFires
  BY <1>4, AskedFor, Leases DEF RenewFires, Schedule
<1>5. CASE RenewEnds
  <2>1. left' \in [Hole -> 0..Lease]
    BY <1>5, TableKept DEF RenewEnds
  <2>2. QED
    BY <1>5, <2>1, Leases DEF RenewEnds, Schedule
<1>6. ASSUME NEW t \in Caller, Removed(t) PROVE TypeOK'
  <2>1. left' \in [Hole -> 0..Lease]
    BY <1>6, TableKept DEF Removed
  <2>2. QED
    BY <1>6, <2>1 DEF Removed
<1>7. QED
  BY <1>1, <1>2, <1>3, <1>4, <1>5, <1>6 DEF MapperNext

LEMMA TaskTyped ==
  ASSUME TypeOK, Ported, Queued, NEW r \in Req, TaskBegins(r)
  PROVE  TypeOK'
<1>1. pc[r] = "queued"
  BY DEF TaskBegins, Turn
<1>2. CASE running
  BY <1>2, AskedFor DEF TaskBegins, StopBegins, CloseBegins, TypeOK, PortMapTypeOK
<1>3. CASE ~running /\ job[r].what = "start"
  BY <1>3 DEF TaskBegins, TypeOK, PortMapTypeOK
<1>4. CASE ~running /\ job[r].what = "stop"
  BY <1>1, <1>4, Leaves DEF TaskBegins, TypeOK, PortMapTypeOK
<1>5. QED
  BY <1>2, <1>3, <1>4 DEF TaskBegins

LEMMA StartTyped ==
  ASSUME TypeOK, Ported, Queued, NEW r \in Req,
         Listen(r) \/ ListenFails(r) \/ Listens(r) \/ StopEnds(r)
  PROVE  TypeOK'
<1> USE DEF TypeOK, PortMapTypeOK
<1>1. CASE Listen(r)
  BY <1>1 DEF Listen, mapperVars
<1>2. CASE ListenFails(r)
  BY <1>2, Leaves DEF ListenFails, mapperVars
<1>3. CASE Listens(r)
  <2>1. job[r].port \in Port
    BY DEF Job
  <2>2. CASE job[r].map
    BY <1>3, <2>1, <2>2, AskedFor DEF Listens, CloseBegins
  <2>3. CASE ~job[r].map
    BY <1>3, <2>1, <2>3, Leaves DEF Listens
  <2>4. QED
    BY <2>2, <2>3
<1>4. CASE StopEnds(r)
  <2>1. CASE job[r].what = "start"
    BY <1>4, <2>1 DEF StopEnds, mapperVars
  <2>2. CASE job[r].what # "start"
    BY <1>4, <2>2, Leaves DEF StopEnds, mapperVars
  <2>3. QED
    BY <2>1, <2>2
<1>5. QED
  BY <1>1, <1>2, <1>3, <1>4

LEMMA OpenTyped ==
  ASSUME TypeOK, Ported, Queued, NEW r \in Req, OpenTries(r) \/ OpenAnswered(r) \/ BudgetEnds(r)
  PROVE  TypeOK'
<1> USE DEF TypeOK, PortMapTypeOK
<1>1. CASE OpenTries(r)
  <2>1. port \in Port
    BY <1>1 DEF OpenTries, Ported
  <2>2. PICK a \in Slot : StartTry(a) /\ open' = [open EXCEPT ![r] = a]
    BY <1>1 DEF OpenTries
  <2>3. tries' \in [Slot -> Try \cup {None}]
    BY <2>1, <2>2 DEF StartTry, Try
  <2>4. QED
    BY <1>1, <2>2, <2>3 DEF OpenTries
<1>2. CASE OpenAnswered(r)
  <2>1. open[r] \in Slot
    BY <1>2 DEF OpenAnswered, Ported
  <2>2. PICK ok \in BOOLEAN : Started(r, ok)
    BY <1>2 DEF OpenAnswered
  <2>3. Answered(r) /\ pc[r] # "idle"
    BY <1>2, <2>2 DEF OpenAnswered, Started
  <2>4. tries' \in [Slot -> Try \cup {None}] /\ open' \in [Req -> Slot \cup {None}]
    BY <1>2, <2>1, <2>2 DEF OpenAnswered, Started
  <2>5. mapping' \in Hole \cup {None} /\ service' \in BOOLEAN /\ missed' \in BOOLEAN
        /\ timer' \in (0..Lease) \cup {None}
    BY <1>2, <2>1, FoundHole, Leases DEF OpenAnswered, Schedule
  <2>6. QED
    BY <1>2, <2>2, <2>3, <2>4, <2>5, Leaves DEF OpenAnswered, Started
<1>3. CASE BudgetEnds(r)
  BY <1>3, Leaves DEF BudgetEnds, Started, mapperVars
<1>4. QED
  BY <1>1, <1>2, <1>3

LEMMA TypeStep == ASSUME IInv, Next PROVE TypeOK'
<1> USE DEF IInv
<1>1. CASE MapperNext /\ UNCHANGED hostVars
  BY <1>1, MapperTyped
<1>2. ASSUME NEW r \in Req, Arrives(r) PROVE TypeOK'
  BY <1>2, Constants DEF Arrives, mapperVars, TypeOK, PortMapTypeOK
<1>3. ASSUME NEW r \in Req, Request(r) PROVE TypeOK'
  BY <1>3, TaskTyped, StartTyped, OpenTyped DEF Request
<1>4. ASSUME NEW t \in Caller, CloseServer(t) PROVE TypeOK'
  BY <1>4 DEF CloseServer, mapperVars, TypeOK, PortMapTypeOK
<1>5. ASSUME NEW a \in Slot, TryForgotten(a) PROVE TypeOK'
  BY <1>5 DEF TryForgotten, hostVars, TypeOK, PortMapTypeOK
<1>6. CASE ExitBegins
  BY <1>6, EndsTyped, AskedFor DEF ExitBegins, StopBegins, CloseBegins, TypeOK, PortMapTypeOK
<1>7. CASE ExitEnds \/ Killed
  BY <1>7, EndsTyped DEF ExitEnds, Killed
<1>8. CASE Restarts
  BY <1>8, Constants DEF Restarts, mapperVars, TypeOK, PortMapTypeOK
<1>9. CASE Tick
  BY <1>9, Constants, Leases DEF Tick, LeasesRun, TypeOK, PortMapTypeOK
<1>10. QED
  BY <1>1, <1>2, <1>3, <1>4, <1>5, <1>6, <1>7, <1>8, <1>9 DEF Next

-------------------------------------------------------------------------------
(* The rest of the invariant *)

\* The mapper itself never changes its port, and makes no mapping its own.
LEMMA MapperLeaves ==
  ASSUME MapperNext
  PROVE  mapping' = mapping /\ port' = port
  BY DEF MapperNext, NatpmpAddress, NatpmpMap, UpnpSearch, UpnpAdd, UpnpAddress, RenewFires,
         RenewEnds, Removed

LEMMA PortedStep == ASSUME IInv, Next PROVE Ported'
<1> USE DEF IInv, Ported
<1>1. CASE MapperNext /\ UNCHANGED hostVars
  BY <1>1, MapperLeaves DEF hostVars
<1>2. ASSUME NEW r \in Req, Arrives(r) PROVE Ported'
  BY <1>2 DEF Arrives, mapperVars, TypeOK
<1>3. ASSUME NEW r \in Req, TaskBegins(r) PROVE Ported'
  BY <1>3, Constants DEF TaskBegins, StopBegins, CloseBegins, Answered, TypeOK
<1>4. ASSUME NEW r \in Req, Listen(r) \/ ListenFails(r) \/ StopEnds(r) PROVE Ported'
  BY <1>4, Constants DEF Listen, ListenFails, StopEnds, Answered, mapperVars, TypeOK
<1>5. ASSUME NEW r \in Req, Listens(r) PROVE Ported'
  <2>1. job[r].port # None
    BY PortMapAssumption DEF PortMapAssumption, TypeOK, Job
  <2>2. QED
    BY <1>5, <2>1, Constants DEF Listens, CloseBegins, Answered, TypeOK
<1>6. ASSUME NEW r \in Req, OpenTries(r) PROVE Ported'
  <2>1. \A a \in Slot : a # None
    BY PortMapAssumption DEF PortMapAssumption, Slot
  <2>2. QED
    BY <1>6, <2>1 DEF OpenTries, TypeOK
<1>7. ASSUME NEW r \in Req, OpenAnswered(r) PROVE Ported'
  <2>1. pc[r] = "open" /\ port' = port /\ (\E ok \in BOOLEAN : Started(r, ok))
    BY <1>7 DEF OpenAnswered
  <2>2. QED
    BY <2>1, Constants DEF Started, Answered, TypeOK
<1>8. ASSUME NEW r \in Req, BudgetEnds(r) PROVE Ported'
  BY <1>8, Constants DEF BudgetEnds, Started, Answered, mapperVars, TypeOK
<1>9. ASSUME NEW t \in Caller, CloseServer(t) PROVE Ported'
  BY <1>9 DEF CloseServer, mapperVars, TypeOK
<1>10. ASSUME NEW a \in Slot, TryForgotten(a) PROVE Ported'
  BY <1>10 DEF TryForgotten, hostVars
<1>11. CASE ExitBegins
  BY <1>11, Constants DEF ExitBegins, StopBegins, CloseBegins, Gone, Fresh, TypeOK
<1>12. CASE ExitEnds \/ Killed
  BY <1>12, Constants DEF ExitEnds, Killed, Gone, Fresh
<1>13. CASE Restarts \/ Tick
  BY <1>13 DEF Restarts, Tick, mapperVars
<1>14. QED
  BY <1>1, <1>2, <1>3, <1>4, <1>5, <1>6, <1>7, <1>8, <1>9, <1>10, <1>11, <1>12, <1>13
     DEF Next, Request

\* Whoever runs is the head of the queue, and everyone else waits.
LEMMA OnlyOne ==
  ASSUME Queued, NEW r \in Req, Active(r) \/ Turn(r)
  PROVE  queue[1] = r /\ \A q \in Req \ {r} : ~Active(q)
  BY DEF Queued, Active, Turn

\* The head of the queue goes; those behind it are still there.
LEMMA QueuedAfter ==
  ASSUME TypeOK, Queued, NEW r \in Req, pc[r] # "idle", Active(r) \/ Turn(r), Answered(r)
  PROVE  Queued'
<1>1. queue[1] = r /\ \A q \in Req \ {r} : ~Active(q)
  BY OnlyOne
<1>2. queue # <<>> /\ Len(queue) \in Nat /\ Len(queue) > 0
  BY DEF Queued, TypeOK
<1>3. Len(Tail(queue)) = Len(queue) - 1 /\ \A i \in 1..(Len(queue) - 1) : Tail(queue)[i] = queue[i + 1]
  BY <1>2 DEF TypeOK
<1>4. ASSUME NEW q \in Req, pc'[q] # "idle"
      PROVE  (\E i \in 1..Len(queue') : queue'[i] = q) /\ ~(pc'[q] \notin {"idle", "queued"})
  <2>1. q # r /\ pc'[q] = pc[q]
    BY <1>4, Constants DEF Answered, TypeOK
  <2>2. PICK i \in 1..Len(queue) : queue[i] = q
    BY <1>4, <2>1 DEF Queued
  <2>3. i # 1 /\ i - 1 \in 1..(Len(queue) - 1)
    BY <1>1, <1>2, <2>1, <2>2
  <2>4. Tail(queue)[i - 1] = q
    BY <1>3, <2>2, <2>3
  <2>5. QED
    BY <1>1, <1>3, <1>4, <2>1, <2>3, <2>4 DEF Answered, Active
<1>5. QED
  BY <1>4 DEF Queued, Active

\* As long as the queue stays what it is, only who has it may come to run.
LEMMA QueuedKept ==
  ASSUME TypeOK, Queued, NEW r \in Req, Active(r) \/ Turn(r), queue' = queue,
         NEW place, pc' = [pc EXCEPT ![r] = place]
  PROVE  Queued'
<1>1. queue[1] = r /\ pc[r] # "idle"
  BY OnlyOne DEF Turn, Active
<1>2. \A q \in Req \ {r} : pc'[q] = pc[q]
  BY Constants DEF TypeOK
<1>3. QED
  BY <1>1, <1>2 DEF Queued, Active

LEMMA QueuedStep == ASSUME IInv, Next PROVE Queued'
<1> USE DEF IInv
<1>1. CASE UNCHANGED <<pc, queue>>
  BY <1>1 DEF Queued, Active
<1>2. ASSUME NEW r \in Req, Arrives(r) PROVE Queued'
  <2>1. /\ Len(queue') = Len(queue) + 1 /\ queue'[Len(queue) + 1] = r /\ Len(queue) \in Nat
        /\ \A i \in 1..Len(queue) : queue'[i] = queue[i]
    BY <1>2 DEF Arrives, TypeOK
  <2>2. pc'[r] = "queued" /\ \A q \in Req \ {r} : pc'[q] = pc[q]
    BY <1>2, Constants DEF Arrives, TypeOK
  <2>3. ASSUME NEW q \in Req \ {r} PROVE
          /\ pc'[q] # "idle" => \E i \in 1..Len(queue') : queue'[i] = q
          /\ pc'[q] \notin {"idle", "queued"} => queue'[1] = q
    <3>1. CASE pc[q] = "idle"
      BY <3>1, <2>2
    <3>2. CASE pc[q] # "idle"
      <4>1. PICK i \in 1..Len(queue) : queue[i] = q
        BY <3>2 DEF Queued
      <4>2. i \in 1..Len(queue') /\ 1 \in 1..Len(queue) /\ queue'[i] = q
        BY <2>1, <4>1
      <4>3. QED
        BY <2>1, <2>2, <4>2 DEF Queued, Active
    <3>3. QED
      BY <3>1, <3>2
  <2>4. Len(queue) + 1 \in 1..Len(queue')
    BY <2>1
  <2>5. QED
    BY <2>1, <2>2, <2>3, <2>4 DEF Queued, Active
<1>3. ASSUME NEW r \in Req, TaskBegins(r) PROVE Queued'
  <2>1. Turn(r) /\ pc[r] = "queued"
    BY <1>3 DEF TaskBegins, Turn
  <2>2. CASE Answered(r)
    BY <2>1, <2>2, QueuedAfter
  <2>3. CASE queue' = queue /\ \E place \in {"unmap", "start"} : pc' = [pc EXCEPT ![r] = place]
    BY <2>1, <2>3, QueuedKept
  <2>4. QED
    BY <1>3, <2>2, <2>3 DEF TaskBegins, StopBegins
<1>4. ASSUME NEW r \in Req, Request(r), ~TaskBegins(r) PROVE Queued'
  <2>1. Active(r) /\ pc[r] # "idle"
    BY <1>4 DEF Request, Listen, ListenFails, Listens, OpenTries, OpenAnswered, BudgetEnds, StopEnds,
                Active
  <2>2. CASE Answered(r)
    BY <2>1, <2>2, QueuedAfter
  <2>3. CASE queue' = queue /\ \E place \in {"listen", "reopen", "open", "start"} : pc' = [pc EXCEPT ![r] = place]
    BY <2>1, <2>3, QueuedKept
  <2>4. QED
    BY <1>4, <2>2, <2>3
       DEF Request, Listen, ListenFails, Listens, OpenTries, OpenAnswered, BudgetEnds, StopEnds, Started
<1>5. ASSUME NEW t \in Caller, CloseServer(t) PROVE Queued'
  <2>1. CASE t \in Req
    <3>1. Active(t)
      BY <1>5 DEF CloseServer, Active
    <3>2. QED
      BY <1>5, <2>1, <3>1, QueuedKept DEF CloseServer
  <2>2. CASE t = Exit
    BY <1>5, <2>2, Constants DEF CloseServer, Queued, Active, TypeOK
  <2>3. QED
    BY <2>1, <2>2, Constants
<1>6. CASE ExitBegins
  <2>1. CASE running
    BY <1>6, <2>1, Constants DEF ExitBegins, StopBegins, Queued, Active, TypeOK
  <2>2. CASE ~running
    BY <1>6, <2>2, Constants DEF ExitBegins, Gone, Queued, Active
  <2>3. QED
    BY <2>1, <2>2
<1>7. CASE ExitEnds \/ Killed
  BY <1>7, Constants DEF ExitEnds, Killed, Gone, Queued, Active
<1>8. QED
  BY <1>1, <1>2, <1>3, <1>4, <1>5, <1>6, <1>7
     DEF Next, hostVars, TryForgotten, Restarts, Tick

LEMMA AloneStep == ASSUME IInv, Next PROVE Alone'
<1> USE DEF IInv
<1> SUFFICES ASSUME pc'[Exit] = "idle" PROVE Alone'
  BY DEF Alone
<1>1. CASE UNCHANGED <<pc, running, server, listening>>
  BY <1>1 DEF Alone, Silent, Active
<1>2. ASSUME NEW r \in Req, Arrives(r) PROVE Alone'
  BY <1>2, Constants DEF Arrives, Alone, Silent, Active, TypeOK
<1>3. ASSUME NEW r \in Req, TaskBegins(r) PROVE Alone'
  <2>1. \A q \in Req \ {r} : ~Active(q)
    BY <1>3, OnlyOne DEF TaskBegins
  <2>2. ~Active(r) /\ pc[Exit] = "idle" /\ UNCHANGED <<server, listening>>
    BY <1>3, Constants DEF TaskBegins, Turn, Active, StopBegins, Answered, TypeOK
  <2>3. CASE running
    BY <1>3, <2>1, <2>2, <2>3, Constants DEF TaskBegins, StopBegins, Alone, Silent, Active, TypeOK
  <2>4. CASE ~running
    BY <1>3, <2>1, <2>2, <2>4, Constants DEF TaskBegins, Answered, Alone, Silent, Active, TypeOK
  <2>5. QED
    BY <2>3, <2>4
<1>4. ASSUME NEW r \in Req, Request(r), ~TaskBegins(r) PROVE Alone'
  <2>1. Active(r)
    BY <1>4 DEF Request, Listen, ListenFails, Listens, OpenTries, OpenAnswered, BudgetEnds, StopEnds,
                Active
  <2>2. \A q \in Req \ {r} : ~Active(q)
    BY <2>1, OnlyOne
  <2>3. pc[Exit] = "idle" /\ pc'[r] # pc[r] /\ \A q \in Req \ {r} : pc'[q] = pc[q]
    BY <1>4, Constants
       DEF Request, Listen, ListenFails, Listens, OpenTries, OpenAnswered, BudgetEnds, StopEnds,
           Started, Answered, TypeOK
  <2>4. CASE Listen(r)
    BY <2>2, <2>3, <2>4, Constants DEF Listen, Alone, Silent, Active, TypeOK
  <2>5. CASE ListenFails(r)
    BY <2>2, <2>3, <2>5, Constants DEF ListenFails, Answered, Alone, Silent, Active, TypeOK
  <2>6. CASE Listens(r)
    BY <2>2, <2>3, <2>6, Constants DEF Listens, Answered, Alone, Silent, Active, TypeOK
  <2>7. CASE OpenTries(r)
    BY <2>2, <2>3, <2>7, Constants DEF OpenTries, Alone, Silent, Active, TypeOK
  <2>8. CASE OpenAnswered(r) \/ BudgetEnds(r)
    <3>1. running' = TRUE /\ Answered(r) /\ UNCHANGED <<server, listening>>
      BY <2>8 DEF OpenAnswered, BudgetEnds, Started
    <3>2. QED
      BY <2>2, <2>3, <3>1, Constants DEF Answered, Alone, Silent, Active, TypeOK
  <2>9. CASE StopEnds(r)
    BY <2>2, <2>3, <2>9, Constants DEF StopEnds, Answered, Alone, Silent, Active, TypeOK
  <2>10. QED
    BY <1>4, <2>4, <2>5, <2>6, <2>7, <2>8, <2>9 DEF Request
<1>5. ASSUME NEW t \in Caller, CloseServer(t) PROVE Alone'
  <2>1. t \in Req
    BY <1>5, Constants DEF CloseServer, TypeOK
  <2>2. pc[Exit] = "idle" /\ Active(t)
    BY <1>5, <2>1, Constants DEF CloseServer, Active, TypeOK
  <2>3. \A q \in Req \ {t} : ~Active(q)
    BY <2>1, <2>2, OnlyOne
  <2>4. listening' = {}
    BY <1>5, <2>2 DEF CloseServer, Alone, TypeOK
  <2>5. QED
    BY <1>5, <2>1, <2>3, <2>4, Constants DEF CloseServer, Alone, Silent, Active, TypeOK
<1>6. CASE ExitBegins
  <2>1. ~running
    BY <1>6, Constants DEF ExitBegins, StopBegins, TypeOK
  <2>2. QED
    BY <1>6, <2>1, Constants DEF ExitBegins, Gone, Alone, Silent, Active
<1>7. CASE ExitEnds \/ Killed
  BY <1>7, Constants DEF ExitEnds, Killed, Gone, Alone, Silent, Active
<1>8. QED
  BY <1>1, <1>2, <1>3, <1>4, <1>5, <1>6, <1>7
     DEF Next, hostVars, TryForgotten, Restarts, Tick

-------------------------------------------------------------------------------
(* The address the relay offers *)

\* What the router maps for the process belongs to a running relay, and a request
\* that runs has stopped it or has not started it yet.
Stopped ==
  /\ mapping # None => running
  /\ \A r \in Req : Active(r) => ~running

Opening(r) == pc[r] \in {"reopen", "open"}
Needed == mapping # None \/ \E r \in Req : Opening(r)

\* What is mapped, or about to be, is the port that relay.httpServer listens on.
AtPort ==
  /\ mapping # None => mapping[2] = port
  /\ pc[Exit] \in {"idle", "unmap"} /\ Needed => server = port /\ port \in listening
  /\ \A r \in Req : pc[r] = "open" => tries[open[r]] # None /\ tries[open[r]].port = port

\* A removal that is awaited is for a port that is not being mapped again: a
\* request waits for its own, and the exit hook's is still listened on.
Pending ==
  /\ \A r \in Req : removing[r] # None => pc[r] \in {"unmap", "reopen"}
  /\ removing[Exit] # None =>
       /\ pc[Exit] = "unmap" /\ removing[Exit][2] \in listening
       /\ running \/ (\E r \in Req : Active(r) /\ pc[r] # "start") => server # removing[Exit][2]

\* What the discovery open() waits for has reported is in the router, fresh.
Reported ==
  \A r \in Req : pc[r] = "open" =>
    /\ tries[open[r]].natpmp = "mapped" => left[<<"NAT-PMP", port>>] = Lease
    /\ tries[open[r]].upnp \in {"added", "mapped"} => left[<<"UPnP", port>>] = Lease

\* An address that is offered has a mapping, which is being renewed or will be
\* before its lease ends; a renewal that an earlier mapping left behind is
\* answered while the mapping is new.
Offers ==
  running /\ offered =>
    /\ mapping # None
    /\ timer # None \/ renewing # None
    /\ renewing \notin {None, mapping} => left[mapping] = Lease
    /\ ~missed => IF timer = None THEN left[mapping] > 0 ELSE left[mapping] >= timer + Margin
    /\ pc[Exit] = "idle" /\ mapping[1] = "UPnP" => service

\* No lease is renewed any more while the exit hook is at work.
Leaving == pc[Exit] # "idle" => timer # 0

Offering == Stopped /\ AtPort /\ Pending /\ Reported /\ Offers /\ Leaving

LEMMA Margins ==
  /\ Lease \in Nat /\ Margin \in Nat /\ Margin > 0 /\ Lease - Margin > 0 /\ Lease - Margin \in Nat
  /\ None \notin Nat /\ None \notin Hole /\ None \notin Port /\ None \notin Slot /\ None \notin Try
  BY PortMapAssumption DEF PortMapAssumption, Slot

LEMMA OfferingFirst == Init => Offering
  BY Constants DEF Init, MapperInit, Offering, Stopped, Active, AtPort, Opening, Needed, Pending,
     Reported, Offers, Leaving

\* A step of a request is the only one: no other request runs.
LEMMA RunsAlone ==
  ASSUME TypeOK, Queued, NEW r \in Req, Request(r)
  PROVE  /\ \A q \in Req \ {r} : ~Active(q) /\ pc'[q] = pc[q] /\ ~Active(q)'
         /\ pc'[Exit] = pc[Exit]
         /\ TaskBegins(r) \/ Active(r)
<1>1. Active(r) \/ Turn(r)
  BY DEF Request, TaskBegins, Listen, ListenFails, Listens, OpenTries, OpenAnswered, BudgetEnds,
         StopEnds, Active
<1>2. \E place : pc' = [pc EXCEPT ![r] = place]
  BY DEF Request, TaskBegins, StopBegins, Listen, ListenFails, Listens, OpenTries, OpenAnswered,
         BudgetEnds, StopEnds, Started, Answered
<1>3. \A q \in Caller \ {r} : pc'[q] = pc[q]
  BY <1>2 DEF TypeOK
<1>4. TaskBegins(r) \/ Active(r)
  BY DEF Request, Listen, ListenFails, Listens, OpenTries, OpenAnswered, BudgetEnds, StopEnds, Active
<1>5. QED
  BY <1>1, <1>3, <1>4, OnlyOne, Constants DEF Active

LEMMA Answers ==
  ASSUME TypeOK, NEW r \in Req, Answered(r)
  PROVE  pc'[r] = "idle" /\ ~Active(r)'
  BY Constants DEF TypeOK, Answered, Active

\* Places that a request goes to.
LEMMA Places ==
  ASSUME TypeOK, NEW t \in Caller, NEW place, pc' = [pc EXCEPT ![t] = place]
  PROVE  pc'[t] = place /\ \A u \in Caller \ {t} : pc'[u] = pc[u]
  BY DEF TypeOK

LEMMA StoppedStep ==
  ASSUME IInv, Stopped, Next
  PROVE  Stopped'
<1>1. TypeOK /\ Queued /\ Req \subseteq Caller /\ Exit \in Caller
  BY Constants DEF IInv
<1>2. CASE UNCHANGED <<mapping, running>> /\ \A r \in Req : Active(r)' => Active(r)
  BY <1>2 DEF Stopped
<1>3. CASE MapperNext /\ UNCHANGED hostVars
  BY <1>2, <1>3, MapperLeaves DEF hostVars, Active
<1>4. ASSUME NEW r \in Req, Arrives(r) PROVE Stopped'
  BY <1>1, <1>2, <1>4 DEF Arrives, mapperVars, Active, TypeOK
<1>5. ASSUME NEW r \in Req, Request(r) PROVE Stopped'
  <2>1. \A q \in Req \ {r} : ~Active(q)'
    BY <1>1, <1>5, RunsAlone
  <2>2. CASE TaskBegins(r)
    <3>1. CASE running
      BY <2>2, <3>1 DEF TaskBegins, StopBegins, CloseBegins, Stopped
    <3>2. CASE ~running
      BY <2>2, <3>2 DEF TaskBegins, Stopped
    <3>3. QED
      BY <3>1, <3>2
  <2>3. CASE Listen(r) \/ ListenFails(r) \/ StopEnds(r) \/ OpenTries(r)
    <3>1. Active(r)
      BY <2>3 DEF Listen, ListenFails, StopEnds, OpenTries, Active
    <3>2. QED
      BY <1>2, <2>1, <2>3, <3>1 DEF Listen, ListenFails, StopEnds, OpenTries, mapperVars
  <2>4. CASE Listens(r)
    <3>1. Active(r)
      BY <2>4 DEF Listens, Active
    <3>2. CASE job[r].map
      BY <2>4, <3>1, <3>2 DEF Listens, CloseBegins, Stopped
    <3>3. CASE ~job[r].map
      <4>1. ~Active(r)' /\ running' /\ mapping' = mapping
        BY <1>1, <2>4, <3>3, Answers DEF Listens
      <4>2. QED
        BY <2>1, <4>1 DEF Stopped
    <3>4. QED
      BY <3>2, <3>3
  <2>5. CASE OpenAnswered(r) \/ BudgetEnds(r)
    <3>1. Answered(r) /\ running'
      BY <2>5 DEF OpenAnswered, BudgetEnds, Started
    <3>2. QED
      BY <1>1, <2>1, <3>1, Answers DEF Stopped
  <2>6. QED
    BY <1>5, <2>2, <2>3, <2>4, <2>5 DEF Request
<1>6. ASSUME NEW t \in Caller, CloseServer(t) PROVE Stopped'
  <2>1. pc'[t] = "close" /\ pc[t] = "unmap" /\ \A u \in Caller \ {t} : pc'[u] = pc[u]
    BY <1>1, <1>6, Places DEF CloseServer
  <2>2. \A r \in Req : Active(r)' => Active(r)
    BY <1>1, <2>1 DEF Active
  <2>3. QED
    BY <1>2, <1>6, <2>2 DEF CloseServer, mapperVars
<1>7. ASSUME NEW a \in Slot, TryForgotten(a) PROVE Stopped'
  BY <1>2, <1>7 DEF TryForgotten, hostVars, Active
<1>8. CASE ExitBegins
  <2>1. CASE running
    BY <1>8, <2>1 DEF ExitBegins, StopBegins, CloseBegins, Stopped
  <2>2. CASE ~running
    BY <1>8, <2>2 DEF ExitBegins, Gone, Fresh, Stopped
  <2>3. QED
    BY <2>1, <2>2
<1>9. CASE ExitEnds \/ Killed
  BY <1>9 DEF ExitEnds, Killed, Gone, Fresh, Stopped
<1>10. CASE Restarts \/ Tick
  BY <1>2, <1>10 DEF Restarts, Tick, mapperVars, Active
<1>11. QED
  BY <1>3, <1>4, <1>5, <1>6, <1>7, <1>8, <1>9, <1>10 DEF Next

\* A discovery that is not the one that goes on stays as it is, and one that goes
\* on keeps its port.
LEMMA TriesKeep ==
  ASSUME TypeOK, MapperNext, NEW b \in Slot, tries[b] # None
  PROVE  tries'[b] # None /\ tries'[b].port = tries[b].port
<1>1. tries \in [Slot -> Try \cup {None}] /\ tries[b] \in Try
  BY DEF TypeOK, PortMapTypeOK
<1>2. CASE UNCHANGED tries
  BY <1>2
<1>3. ASSUME NEW a \in Slot,
             NatpmpAddress(a) \/ NatpmpMap(a) \/ UpnpSearch(a) \/ UpnpAdd(a) \/ UpnpAddress(a)
      PROVE  tries'[b] # None /\ tries'[b].port = tries[b].port
  <2>1. /\ tries[a] # None
        /\ \/ \E v \in {"asked", "mapping", "mapped", "none"} : tries' = [tries EXCEPT ![a].natpmp = v]
           \/ \E v \in {"searching", "adding", "added", "mapped", "none"} : tries' = [tries EXCEPT ![a].upnp = v]
    BY <1>3 DEF NatpmpAddress, NatpmpMap, UpnpSearch, UpnpAdd, UpnpAddress
  <2>2. tries[a] \in Try
    BY <1>1, <2>1
  <2>3. CASE a = b
    <3>1. \/ \E v \in {"asked", "mapping", "mapped", "none"} : tries'[b] = [tries[b] EXCEPT !.natpmp = v]
          \/ \E v \in {"searching", "adding", "added", "mapped", "none"} : tries'[b] = [tries[b] EXCEPT !.upnp = v]
      BY <1>1, <2>1, <2>3
    <3>2. tries'[b].port = tries[b].port
      BY <1>1, <3>1 DEF Try
    <3>3. tries' \in [Slot -> Try \cup {None}] /\ tries'[b] \in Try
      <4>1. \/ \E v \in {"asked", "mapping", "mapped", "none"} : [tries[b] EXCEPT !.natpmp = v] \in Try /\ tries'[b] = [tries[b] EXCEPT !.natpmp = v]
            \/ \E v \in {"searching", "adding", "added", "mapped", "none"} : [tries[b] EXCEPT !.upnp = v] \in Try /\ tries'[b] = [tries[b] EXCEPT !.upnp = v]
        BY <1>1, <3>1 DEF Try
      <4>2. QED
        BY <2>1, <4>1, TryKept
    <3>4. QED
      BY <3>2, <3>3, Margins
  <2>4. CASE a # b
    BY <1>1, <2>1, <2>4
  <2>5. QED
    BY <2>3, <2>4
<1>4. QED
  BY <1>2, <1>3 DEF MapperNext, RenewFires, RenewEnds, Removed

LEMMA AtPortStep ==
  ASSUME IInv, Stopped, AtPort, Next
  PROVE  AtPort'
<1>1. TypeOK /\ Queued /\ Ported /\ Req \subseteq Caller /\ Exit \in Caller
  BY Constants DEF IInv
<1> DEFINE Quiet1 == \A r \in Req : Opening(r)' => Opening(r) /\ pc'[r] = pc[r]
<1>2. CASE /\ UNCHANGED <<mapping, port, server, open, tries>> /\ Quiet1
           /\ port \in listening => port \in listening'
           /\ pc'[Exit] \in {"idle", "unmap"} => pc[Exit] \in {"idle", "unmap"}
  BY <1>2 DEF AtPort, Needed, Opening
<1>3. CASE MapperNext /\ UNCHANGED hostVars
  <2>1. UNCHANGED <<mapping, port, pc, server, listening, open>>
    BY <1>3, MapperLeaves DEF hostVars
  <2>2. ASSUME NEW r \in Req, pc[r] = "open"
        PROVE  tries'[open[r]] # None /\ tries'[open[r]].port = port
    <3>1. open[r] \in Slot
      BY <1>1, <2>2 DEF TypeOK, Ported
    <3>2. QED
      BY <1>1, <1>3, <2>2, <3>1, TriesKeep DEF AtPort
  <2>3. QED
    BY <2>1, <2>2 DEF AtPort, Needed, Opening
<1>4. ASSUME NEW r \in Req, Arrives(r) PROVE AtPort'
  <2>1. pc'[r] = "queued" /\ \A u \in Caller \ {r} : pc'[u] = pc[u]
    BY <1>1, <1>4, Places DEF Arrives
  <2>2. Quiet1 /\ pc'[Exit] = pc[Exit]
    BY <1>1, <2>1, Constants DEF Opening
  <2>3. QED
    BY <1>2, <1>4, <2>2 DEF Arrives, mapperVars
<1>5. ASSUME NEW r \in Req, Request(r) PROVE AtPort'
  <2>1. /\ \A q \in Req \ {r} : ~Opening(q)' /\ pc'[q] # "open" /\ pc'[q] = pc[q]
        /\ pc'[Exit] = pc[Exit]
    BY <1>1, <1>5, RunsAlone DEF Opening, Active
  <2>2. ASSUME mapping' = None, ~Opening(r)' PROVE AtPort'
    BY <2>1, <2>2 DEF AtPort, Needed, Opening
  <2>3. CASE TaskBegins(r)
    <3>1. CASE running
      <4>1. mapping' = None /\ pc'[r] = "unmap"
        BY <1>1, <2>3, <3>1, Places DEF TaskBegins, StopBegins, CloseBegins
      <4>2. QED
        BY <2>2, <4>1 DEF Opening
    <3>2. CASE ~running
      <4>1. mapping' = None
        BY <2>3, <3>2 DEF TaskBegins, Stopped
      <4>2. pc'[r] \in {"idle", "start"}
        BY <1>1, <2>3, <3>2, Places DEF TaskBegins, Answered
      <4>3. QED
        BY <2>2, <4>1, <4>2 DEF Opening
    <3>3. QED
      BY <3>1, <3>2
  <2>4. CASE Listen(r) \/ ListenFails(r) \/ StopEnds(r)
    <3>1. mapping' = None
      BY <2>4 DEF Listen, ListenFails, StopEnds, mapperVars, Stopped, Active
    <3>2. pc'[r] \in {"listen", "idle", "start"}
      BY <1>1, <2>4, Places DEF Listen, ListenFails, StopEnds, Answered
    <3>3. QED
      BY <2>2, <3>1, <3>2 DEF Opening
  <2>5. CASE Listens(r)
    <3>1. CASE job[r].map
      <4>1. /\ mapping' = None /\ port' = job[r].port /\ server' = job[r].port
            /\ port' \in listening' /\ pc'[r] = "reopen"
        BY <1>1, <2>5, <3>1, Places DEF Listens, CloseBegins
      <4>2. QED
        BY <2>1, <4>1 DEF AtPort
    <3>2. CASE ~job[r].map
      <4>1. mapping' = None /\ pc'[r] = "idle"
        BY <1>1, <2>5, <3>2, Answers DEF Listens, Stopped, Active
      <4>2. QED
        BY <2>2, <4>1 DEF Opening
    <3>3. QED
      BY <3>1, <3>2
  <2>6. CASE OpenTries(r)
    <3>1. UNCHANGED <<mapping, port, server, listening>> /\ pc[r] = "reopen" /\ pc'[r] = "open"
      BY <1>1, <2>6, Places DEF OpenTries
    <3>2. PICK a \in Slot : StartTry(a) /\ open' = [open EXCEPT ![r] = a]
      BY <2>6 DEF OpenTries
    <3>3. open'[r] = a /\ tries'[a] # None /\ tries'[a].port = port
      <4>1. open'[r] = a /\ tries'[a] = [port |-> port, natpmp |-> "asked", upnp |-> "searching"]
        BY <1>1, <3>2 DEF StartTry, TypeOK, PortMapTypeOK
      <4>2. port \in Port
        BY <1>1, <2>6 DEF OpenTries, Ported, TypeOK, PortMapTypeOK
      <4>3. tries'[a] \in Try
        BY <4>1, <4>2 DEF Try
      <4>4. QED
        BY <4>1, <4>3, Margins
    <3>4. QED
      BY <2>1, <3>1, <3>3 DEF AtPort, Needed, Opening
  <2>7. CASE OpenAnswered(r) \/ BudgetEnds(r)
    <3>1. /\ pc[r] = "open" /\ pc'[r] = "idle" /\ UNCHANGED <<port, server, listening>>
      BY <1>1, <2>7, Answers DEF OpenAnswered, BudgetEnds, Started, mapperVars
    <3>2. mapping = None
      BY <3>1 DEF Stopped, Active
    <3>3. mapping' # None => mapping'[2] = port
      <4>1. CASE mapping' = mapping
        BY <3>2, <4>1
      <4>2. CASE mapping' # mapping
        <5>1. mapping' = Found(open[r]) /\ Found(open[r]) # None
          BY <2>7, <4>2 DEF OpenAnswered, BudgetEnds, mapperVars
        <5>2. tries[open[r]].port = port
          BY <3>1 DEF AtPort
        <5>3. Found(open[r])[2] = port
          BY <5>1, <5>2 DEF Found
        <5>4. QED
          BY <5>1, <5>3
      <4>3. QED
        BY <4>1, <4>2
    <3>4. QED
      BY <2>1, <3>1, <3>3 DEF AtPort, Needed, Opening
  <2>8. QED
    BY <1>5, <2>3, <2>4, <2>5, <2>6, <2>7 DEF Request
<1>6. ASSUME NEW t \in Caller, CloseServer(t) PROVE AtPort'
  <2>1. pc'[t] = "close" /\ pc[t] = "unmap" /\ \A u \in Caller \ {t} : pc'[u] = pc[u]
    BY <1>1, <1>6, Places DEF CloseServer
  <2>2. Quiet1 /\ UNCHANGED <<mapping, port, server, open, tries>>
    BY <1>1, <1>6, <2>1 DEF Opening, CloseServer, mapperVars
  <2>3. CASE t = Exit
    BY <2>1, <2>2, <2>3 DEF AtPort, Needed, Opening
  <2>4. CASE t \in Req
    <3>1. \A q \in Req \ {t} : ~Active(q)
      BY <1>1, <2>1, <2>4, OnlyOne DEF Active
    <3>2. ~Needed
      BY <2>1, <2>4, <3>1 DEF Needed, Opening, Active, Stopped
    <3>3. QED
      BY <2>2, <3>2 DEF AtPort, Needed, Opening
  <2>5. QED
    BY <2>3, <2>4, Constants
<1>7. ASSUME NEW a \in Slot, TryForgotten(a) PROVE AtPort'
  <2>1. \A r \in Req : tries'[open[r]] = tries[open[r]]
    BY <1>1, <1>7 DEF TryForgotten, TypeOK, PortMapTypeOK
  <2>2. QED
    BY <1>7, <2>1 DEF TryForgotten, hostVars, AtPort, Needed, Opening
<1>8. CASE ExitBegins
  <2>1. CASE running
    <3>1. mapping' = None /\ \A u \in Req : pc'[u] = pc[u] /\ ~Active(u)
      BY <1>1, <1>8, <2>1, Places, Constants DEF ExitBegins, StopBegins, CloseBegins, Stopped
    <3>2. QED
      BY <3>1 DEF AtPort, Needed, Opening, Active
  <2>2. CASE ~running
    BY <1>1, <1>8, <2>2 DEF ExitBegins, Gone, Fresh, AtPort, Needed, Opening
  <2>3. QED
    BY <2>1, <2>2
<1>9. CASE ExitEnds \/ Killed
  BY <1>1, <1>9 DEF ExitEnds, Killed, Gone, Fresh, AtPort, Needed, Opening
<1>10. CASE Restarts \/ Tick
  BY <1>2, <1>10 DEF Restarts, Tick, mapperVars, Opening
<1>11. QED
  BY <1>3, <1>4, <1>5, <1>6, <1>7, <1>8, <1>9, <1>10 DEF Next

LEMMA PendingStep ==
  ASSUME IInv, Stopped, AtPort, Pending, Next
  PROVE  Pending'
<1>1. /\ TypeOK /\ Queued /\ Ported /\ Req \subseteq Caller /\ Exit \in Caller /\ Exit \notin Req
      /\ removing \in [Caller -> Hole \cup {None}]
  BY Constants DEF IInv, TypeOK, PortMapTypeOK
<1> DEFINE Busy(r) == Active(r) /\ pc[r] # "start"
\* What holds of the hook's removal is kept by whoever keeps the listeners and
\* starts nothing that counts.
<1>2. ASSUME \A t \in Caller : removing'[t] # None => removing'[t] = removing[t],
             UNCHANGED <<server, pc, running>>, listening \subseteq listening'
      PROVE  Pending'
  BY <1>1, <1>2 DEF Pending, Active
<1>3. CASE MapperNext /\ UNCHANGED hostVars
  <2>1. \A t \in Caller : removing'[t] # None => removing'[t] = removing[t]
    BY <1>1, <1>3 DEF MapperNext, NatpmpAddress, NatpmpMap, UpnpSearch, UpnpAdd, UpnpAddress, RenewFires,
         RenewEnds, Removed
  <2>2. QED
    BY <1>2, <1>3, <2>1 DEF hostVars
<1>4. ASSUME NEW r \in Req, Arrives(r) PROVE Pending'
  <2>1. pc[r] = "idle" /\ pc'[r] = "queued" /\ \A u \in Caller \ {r} : pc'[u] = pc[u]
    BY <1>1, <1>4, Places DEF Arrives
  <2>2. \A q \in Req : Busy(q)' => Busy(q)
    BY <1>1, <2>1 DEF Active
  <2>3. UNCHANGED <<removing, running, server, listening>> /\ pc'[Exit] = pc[Exit]
    BY <1>1, <1>4, <2>1 DEF Arrives, mapperVars
  <2>4. \A q \in Req : pc[q] \in {"unmap", "reopen"} => pc'[q] = pc[q]
    BY <1>1, <2>1
  <2>5. QED
    BY <2>2, <2>3, <2>4 DEF Pending
<1>5. ASSUME NEW r \in Req, Request(r) PROVE Pending'
  <2>1. /\ \A q \in Req \ {r} : ~Active(q) /\ pc'[q] = pc[q] /\ ~Active(q)'
        /\ pc'[Exit] = pc[Exit]
        /\ TaskBegins(r) \/ Active(r)
    BY <1>1, <1>5, RunsAlone
  <2>2. \A q \in Req \ {r} : removing[q] = None
    BY <2>1 DEF Pending, Active
  <2>3. ASSUME UNCHANGED <<removing, listening>>,
               removing[r] # None => pc'[r] \in {"unmap", "reopen"},
               removing[Exit] # None /\ (running' \/ Busy(r)') => server' # removing[Exit][2]
        PROVE  Pending'
    <3>1. \A q \in Req : removing'[q] # None => pc'[q] \in {"unmap", "reopen"}
      BY <2>2, <2>3
    <3>2. \A q \in Req : Active(q)' => q = r
      BY <2>1
    <3>3. removing[Exit] # None =>
            /\ pc'[Exit] = "unmap" /\ removing[Exit][2] \in listening'
            /\ running' \/ (\E q \in Req : Active(q)' /\ pc'[q] # "start") => server' # removing[Exit][2]
      BY <2>1, <2>3, <3>2 DEF Pending
    <3>4. QED
      BY <2>3, <3>1, <3>3 DEF Pending
  <2>4. CASE TaskBegins(r)
    <3>0. removing[r] = None
      BY <2>4 DEF TaskBegins, Turn, Pending
    <3>1. CASE running
      <4>1. /\ removing' = [removing EXCEPT ![r] = RemovalOf(port)] /\ pc'[r] = "unmap"
            /\ UNCHANGED <<listening, server>>
        BY <1>1, <2>4, <3>1, Places DEF TaskBegins, StopBegins, CloseBegins
      <4>2. removing'[Exit] = removing[Exit] /\ \A q \in Req \ {r} : removing'[q] = removing[q]
        BY <1>1, <4>1
      <4>3. \A q \in Req : removing'[q] # None => pc'[q] \in {"unmap", "reopen"}
        BY <2>2, <4>1, <4>2
      <4>4. removing'[Exit] # None =>
              pc'[Exit] = "unmap" /\ removing'[Exit][2] \in listening' /\ server' # removing'[Exit][2]
        BY <2>1, <3>1, <4>1, <4>2 DEF Pending
      <4>5. QED
        BY <4>3, <4>4 DEF Pending
    <3>2. CASE ~running
      <4>1. /\ UNCHANGED <<removing, listening, server, running>> /\ pc'[r] \in {"idle", "start"}
        BY <1>1, <2>4, <3>2, Places DEF TaskBegins, Answered
      <4>2. QED
        BY <2>3, <3>0, <3>2, <4>1 DEF Active
    <3>3. QED
      BY <3>1, <3>2
  <2>5. CASE Listen(r)
    <3>1. pc[r] = "start" /\ server' = None /\ ~running
      BY <2>5 DEF Listen, Stopped, Active
    <3>2. removing[r] = None /\ UNCHANGED <<removing, listening>>
      BY <3>1, <2>5 DEF Listen, mapperVars, Pending
    <3>3. removing[Exit] # None => removing[Exit][2] # None
      BY <1>1, Margins DEF Hole
    <3>4. QED
      BY <2>3, <3>1, <3>2, <3>3
  <2>6. CASE ListenFails(r) \/ BudgetEnds(r) \/ OpenAnswered(r)
    <3>1. pc[r] \in {"listen", "open"} /\ UNCHANGED <<removing, listening, server>> /\ Busy(r)
      BY <2>6 DEF ListenFails, BudgetEnds, OpenAnswered, mapperVars, Active
    <3>2. removing[r] = None
      BY <3>1 DEF Pending
    <3>3. QED
      BY <2>3, <3>1, <3>2 DEF Pending
  <2>7. CASE Listens(r)
    <3>1. /\ pc[r] = "listen" /\ job[r].port \notin listening /\ server' = job[r].port
          /\ listening \subseteq listening' /\ removing[r] = None
      BY <2>7 DEF Listens, Pending
    <3>2. removing'[Exit] = removing[Exit] /\ \A q \in Req \ {r} : removing'[q] = removing[q]
      BY <1>1, <2>7 DEF Listens, CloseBegins
    <3>3. removing'[r] # None => pc'[r] \in {"unmap", "reopen"}
      BY <1>1, <2>7, <3>1, Places DEF Listens
    <3>4. \A q \in Req : removing'[q] # None => pc'[q] \in {"unmap", "reopen"}
      BY <2>2, <3>2, <3>3
    <3>5. removing'[Exit] # None =>
            pc'[Exit] = "unmap" /\ removing'[Exit][2] \in listening' /\ server' # removing'[Exit][2]
      BY <2>1, <3>1, <3>2 DEF Pending
    <3>6. QED
      BY <3>4, <3>5 DEF Pending
  <2>8. CASE OpenTries(r)
    <3>1. removing[r] = None /\ UNCHANGED <<removing, listening, server, running>> /\ Busy(r)
      BY <2>8 DEF OpenTries, Active
    <3>2. QED
      BY <2>3, <3>1 DEF Pending
  <2>9. CASE StopEnds(r)
    <3>1. pc[r] = "close" /\ server' = None /\ UNCHANGED <<removing, listening>>
      BY <2>9 DEF StopEnds, mapperVars
    <3>2. removing[r] = None
      BY <3>1 DEF Pending
    <3>3. removing[Exit] # None => removing[Exit][2] # None
      BY <1>1, Margins DEF Hole
    <3>4. QED
      BY <2>3, <3>1, <3>2, <3>3
  <2>10. QED
    BY <1>5, <2>4, <2>5, <2>6, <2>7, <2>8, <2>9 DEF Request
<1>6. ASSUME NEW t \in Caller, CloseServer(t) PROVE Pending'
  <2>1. /\ pc'[t] = "close" /\ pc[t] = "unmap" /\ \A u \in Caller \ {t} : pc'[u] = pc[u]
        /\ removing[t] = None /\ UNCHANGED <<removing, server, running>>
        /\ listening' = listening \ {server}
    BY <1>1, <1>6, Places DEF CloseServer, mapperVars
  <2>2. \A q \in Req : removing'[q] # None => pc'[q] \in {"unmap", "reopen"}
    BY <1>1, <2>1 DEF Pending
  <2>3. CASE t = Exit
    BY <2>1, <2>2, <2>3 DEF Pending
  <2>4. CASE t \in Req
    <3>1. Busy(t) /\ pc'[Exit] = pc[Exit]
      BY <1>1, <2>1, <2>4 DEF Active
    <3>2. QED
      BY <2>1, <2>2, <2>4, <3>1 DEF Pending
  <2>5. QED
    BY <2>3, <2>4, Constants
<1>7. ASSUME NEW a \in Slot, TryForgotten(a) PROVE Pending'
  BY <1>2, <1>7 DEF TryForgotten, hostVars
<1>8. CASE ExitBegins
  <2>1. CASE running
    <3>1. \A q \in Req : ~Active(q) /\ removing[q] = None
      BY <2>1 DEF Stopped, Pending, Active
    <3>2. /\ pc'[Exit] = "unmap" /\ \A q \in Req : pc'[q] = pc[q]
          /\ removing' = [removing EXCEPT ![Exit] = RemovalOf(port)]
          /\ ~running' /\ UNCHANGED <<listening, server>> /\ pc[Exit] = "idle"
      BY <1>1, <1>8, <2>1, Places DEF ExitBegins, StopBegins, CloseBegins
    <3>3. removing'[Exit] = RemovalOf(port) /\ \A q \in Req : removing'[q] = removing[q]
      BY <1>1, <3>2
    <3>4. RemovalOf(port) # None => RemovalOf(port)[2] \in listening
      BY <3>2 DEF RemovalOf, AtPort, Needed
    <3>5. QED
      BY <3>1, <3>2, <3>3, <3>4 DEF Pending, Active
  <2>2. CASE ~running
    BY <1>1, <1>8, <2>2 DEF ExitBegins, Gone, Fresh, Pending
  <2>3. QED
    BY <2>1, <2>2
<1>9. CASE ExitEnds \/ Killed
  BY <1>1, <1>9 DEF ExitEnds, Killed, Gone, Fresh, Pending
<1>10. CASE Restarts \/ Tick
  BY <1>2, <1>10 DEF Restarts, Tick, mapperVars
<1>11. QED
  BY <1>3, <1>4, <1>5, <1>6, <1>7, <1>8, <1>9, <1>10 DEF Next

\* The router forgets nothing for a step of the mapper that is not a removal.
LEMMA TableGrows ==
  ASSUME TypeOK, MapperNext, NEW x \in Hole
  PROVE  \/ left'[x] = left[x] \/ left'[x] = Lease
         \/ \E t \in Caller : Removed(t) /\ removing[t] = x
<1>1. left \in [Hole -> 0..Lease] /\ tries \in [Slot -> Try \cup {None}]
      /\ renewing \in Hole \cup {None} /\ removing \in [Caller -> Hole \cup {None}]
  BY DEF TypeOK, PortMapTypeOK
<1>2. ASSUME NEW y, left' = left \/ left' = Mapped(y) PROVE left'[x] = left[x] \/ left'[x] = Lease
  BY <1>1, <1>2 DEF Mapped
<1>3. ASSUME NEW a \in Slot,
             NatpmpAddress(a) \/ NatpmpMap(a) \/ UpnpSearch(a) \/ UpnpAdd(a) \/ UpnpAddress(a)
      PROVE  left'[x] = left[x] \/ left'[x] = Lease
  <2>1. left' = left \/ left' = Mapped(<<"NAT-PMP", tries[a].port>>) \/ left' = Mapped(<<"UPnP", tries[a].port>>)
    BY <1>3 DEF NatpmpAddress, NatpmpMap, UpnpSearch, UpnpAdd, UpnpAddress, Confirmed, Unanswered
  <2>2. QED
    BY <1>2, <2>1
<1>4. CASE RenewFires \/ RenewEnds
  <2>1. left' = left \/ left' = Mapped(renewing)
    BY <1>4 DEF RenewFires, RenewEnds, Confirmed, Unanswered
  <2>2. QED
    BY <1>2, <2>1
<1>5. ASSUME NEW t \in Caller, Removed(t)
      PROVE  left'[x] = left[x] \/ removing[t] = x
  BY <1>1, <1>5 DEF Removed, Confirmed, Unanswered, Unmapped
<1>6. QED
  BY <1>3, <1>4, <1>5 DEF MapperNext

\* No removal takes away what is offered, or what a discovery waits for.
LEMMA NotRemoved ==
  ASSUME TypeOK, Queued, AtPort, Stopped, Pending, NEW t \in Caller, Removed(t),
         (running /\ mapping # None) \/ (\E r \in Req : pc[r] = "open")
  PROVE  removing[t][2] # port
<1>1. removing[t] # None
  BY DEF Removed
<1>2. CASE t \in Req
  <2>1. Active(t) /\ pc[t] # "open"
    BY <1>1, <1>2 DEF Pending, Active
  <2>2. ~running /\ \A r \in Req : pc[r] # "open"
    BY <1>2, <2>1, OnlyOne DEF Stopped, Active
  <2>3. QED
    BY <2>2
<1>3. CASE t = Exit
  <2>1. pc[Exit] = "unmap" /\ removing[Exit] # None
    BY <1>1, <1>3 DEF Pending
  <2>2. Needed
    BY DEF Needed, Opening
  <2>3. server = port
    BY <2>1, <2>2 DEF AtPort
  <2>4. running \/ \E r \in Req : Active(r) /\ pc[r] # "start"
    BY DEF Active
  <2>5. QED
    BY <1>3, <2>1, <2>3, <2>4 DEF Pending
<1>4. QED
  BY <1>2, <1>3, Constants

LEMMA ReportedStep ==
  ASSUME IInv, Stopped, AtPort, Pending, Reported, Next
  PROVE  Reported'
<1>1. /\ TypeOK /\ Queued /\ Ported /\ Req \subseteq Caller /\ Exit \in Caller /\ Exit \notin Req
      /\ tries \in [Slot -> Try \cup {None}] /\ left \in [Hole -> 0..Lease]
  BY Constants DEF IInv, TypeOK, PortMapTypeOK
<1>2. CASE /\ UNCHANGED <<port, tries, left, open>>
           /\ \A r \in Req : pc'[r] = "open" => pc[r] = "open"
  BY <1>2 DEF Reported
<1>3. CASE MapperNext /\ UNCHANGED hostVars
  <2>1. UNCHANGED <<port, pc, open>>
    BY <1>3, MapperLeaves DEF hostVars
  <2> SUFFICES ASSUME NEW r \in Req, pc[r] = "open"
               PROVE  /\ tries'[open[r]].natpmp = "mapped" => left'[<<"NAT-PMP", port>>] = Lease
                      /\ tries'[open[r]].upnp \in {"added", "mapped"} => left'[<<"UPnP", port>>] = Lease
    BY <2>1 DEF Reported
  <2> DEFINE b == open[r]
             N == <<"NAT-PMP", port>>
             U == <<"UPnP", port>>
  <2>2. /\ b \in Slot /\ tries[b] \in Try /\ tries[b].port = port
        /\ N \in Hole /\ U \in Hole
    BY <1>1 DEF TypeOK, PortMapTypeOK, Ported, AtPort, Hole, Method
  <2>3. /\ tries[b].natpmp = "mapped" => left[N] = Lease
        /\ tries[b].upnp \in {"added", "mapped"} => left[U] = Lease
    BY DEF Reported
  <2>4. /\ left'[N] = left[N] \/ left'[N] = Lease
        /\ left'[U] = left[U] \/ left'[U] = Lease
    <3>1. ASSUME NEW t \in Caller, Removed(t) PROVE removing[t] # N /\ removing[t] # U
      BY <1>1, <3>1, NotRemoved
    <3>2. QED
      BY <1>1, <1>3, <2>2, <3>1, TableGrows
  <2>5. CASE tries'[b] = tries[b]
    BY <2>3, <2>4, <2>5
  <2>6. CASE tries'[b] # tries[b]
    <3>1. NatpmpAddress(b) \/ NatpmpMap(b) \/ UpnpSearch(b) \/ UpnpAdd(b) \/ UpnpAddress(b)
      <4>1. PICK a \in Slot :
              NatpmpAddress(a) \/ NatpmpMap(a) \/ UpnpSearch(a) \/ UpnpAdd(a) \/ UpnpAddress(a)
        BY <1>3, <2>6 DEF MapperNext, RenewFires, RenewEnds, Removed
      <4>2. \E try : tries' = [tries EXCEPT ![a] = try]
        BY <4>1 DEF NatpmpAddress, NatpmpMap, UpnpSearch, UpnpAdd, UpnpAddress
      <4>3. a = b
        BY <1>1, <2>2, <2>6, <4>2
      <4>4. QED
        BY <4>1, <4>3
    <3>2. CASE NatpmpAddress(b)
      <4>1. tries'[b].natpmp # "mapped" /\ tries'[b].upnp = tries[b].upnp
        BY <1>1, <2>2, <3>2 DEF NatpmpAddress, Try
      <4>2. QED
        BY <2>3, <2>4, <4>1
    <3>3. CASE NatpmpMap(b)
      <4>1. /\ tries'[b].upnp = tries[b].upnp
            /\ left' = Mapped(N) \/ tries'[b].natpmp = "none"
        BY <1>1, <2>2, <3>3 DEF NatpmpMap, Confirmed, Try
      <4>2. left' = Mapped(N) => left'[N] = Lease
        BY <1>1, <2>2 DEF Mapped
      <4>3. QED
        BY <2>3, <2>4, <4>1, <4>2
    <3>4. CASE UpnpSearch(b)
      <4>1. tries'[b].natpmp = tries[b].natpmp /\ tries'[b].upnp \in {"adding", "none"}
        BY <1>1, <2>2, <3>4 DEF UpnpSearch, Try
      <4>2. QED
        BY <2>3, <2>4, <4>1
    <3>5. CASE UpnpAdd(b)
      <4>1. /\ tries'[b].natpmp = tries[b].natpmp
            /\ left' = Mapped(U) \/ tries'[b].upnp = "none"
        BY <1>1, <2>2, <3>5 DEF UpnpAdd, Confirmed, Try
      <4>2. left' = Mapped(U) => left'[U] = Lease
        BY <1>1, <2>2 DEF Mapped
      <4>3. QED
        BY <2>3, <2>4, <4>1, <4>2
    <3>6. CASE UpnpAddress(b)
      <4>1. tries'[b].natpmp = tries[b].natpmp /\ tries[b].upnp = "added"
        BY <1>1, <2>2, <3>6 DEF UpnpAddress, Try
      <4>2. QED
        BY <2>3, <2>4, <4>1
    <3>7. QED
      BY <3>1, <3>2, <3>3, <3>4, <3>5, <3>6
  <2>7. QED
    BY <2>5, <2>6
<1>4. ASSUME NEW r \in Req, Arrives(r) PROVE Reported'
  <2>1. pc'[r] = "queued" /\ \A u \in Caller \ {r} : pc'[u] = pc[u]
    BY <1>1, <1>4, Places DEF Arrives
  <2>2. QED
    BY <1>1, <1>2, <1>4, <2>1 DEF Arrives, mapperVars
<1>5. ASSUME NEW r \in Req, Request(r) PROVE Reported'
  <2>1. \A q \in Req \ {r} : pc'[q] # "open"
    BY <1>1, <1>5, RunsAlone DEF Active
  <2>2. CASE OpenTries(r)
    <3>1. pc[r] = "reopen" /\ UNCHANGED port
      BY <2>2 DEF OpenTries
    <3>2. PICK a \in Slot : StartTry(a) /\ open' = [open EXCEPT ![r] = a]
      BY <2>2 DEF OpenTries
    <3>3. tries'[open'[r]] = [port |-> port, natpmp |-> "asked", upnp |-> "searching"]
      BY <1>1, <3>2 DEF StartTry, TypeOK
    <3>4. QED
      BY <2>1, <3>3 DEF Reported
  <2>3. CASE ~OpenTries(r)
    <3>1. pc'[r] # "open"
      <4>1. \E place \in {"unmap", "start", "idle", "listen", "reopen"} : pc' = [pc EXCEPT ![r] = place]
        BY <1>5, <2>3 DEF Request, TaskBegins, StopBegins, Listen, ListenFails, Listens, OpenAnswered,
             BudgetEnds, StopEnds, Started, Answered
      <4>2. QED
        BY <1>1, <4>1, Places
    <3>2. QED
      BY <2>1, <3>1 DEF Reported
  <2>4. QED
    BY <2>2, <2>3
<1>6. ASSUME NEW t \in Caller, CloseServer(t) PROVE Reported'
  <2>1. pc'[t] = "close" /\ \A u \in Caller \ {t} : pc'[u] = pc[u]
    BY <1>1, <1>6, Places DEF CloseServer
  <2>2. QED
    BY <1>1, <1>2, <1>6, <2>1 DEF CloseServer, mapperVars
<1>7. ASSUME NEW a \in Slot, TryForgotten(a) PROVE Reported'
  <2>1. \A r \in Req : tries'[open[r]] = tries[open[r]]
    BY <1>1, <1>7 DEF TryForgotten
  <2>2. QED
    BY <1>7, <2>1 DEF TryForgotten, hostVars, Reported
<1>8. CASE ExitBegins
  <2>1. CASE running
    <3>1. \A u \in Req : pc'[u] = pc[u] /\ ~Active(u)
      BY <1>1, <1>8, <2>1, Places DEF ExitBegins, StopBegins, Stopped
    <3>2. QED
      BY <3>1 DEF Reported, Active
  <2>2. CASE ~running
    BY <1>1, <1>8, <2>2 DEF ExitBegins, Gone, Reported
  <2>3. QED
    BY <2>1, <2>2
<1>9. CASE ExitEnds \/ Killed
  BY <1>1, <1>9 DEF ExitEnds, Killed, Gone, Reported
<1>10. CASE Restarts
  BY <1>2, <1>10 DEF Restarts, mapperVars
<1>11. CASE Tick
  BY <1>1, <1>11 DEF Tick, Reported
<1>12. QED
  BY <1>3, <1>4, <1>5, <1>6, <1>7, <1>8, <1>9, <1>10, <1>11 DEF Next

LEMMA LeavingStep ==
  ASSUME IInv, Leaving, Next
  PROVE  Leaving'
<1>1. /\ TypeOK /\ Queued /\ Req \subseteq Caller /\ Exit \in Caller /\ Exit \notin Req
      /\ None # 0 /\ Lease - Margin # 0
  BY Constants, Margins DEF IInv
<1>2. CASE timer' \in {timer, None, Lease - Margin} /\ pc'[Exit] = pc[Exit]
  <2>1. timer' = 0 => timer = 0
    BY <1>1, <1>2
  <2>2. QED
    BY <1>2, <2>1 DEF Leaving
<1>3. CASE MapperNext /\ UNCHANGED hostVars
  <2>1. timer' \in {timer, None, Lease - Margin}
    BY <1>3 DEF MapperNext, NatpmpAddress, NatpmpMap, UpnpSearch, UpnpAdd, UpnpAddress, RenewFires,
         RenewEnds, Removed, Schedule
  <2>2. QED
    BY <1>2, <1>3, <2>1 DEF hostVars
<1>4. ASSUME NEW r \in Req, Arrives(r) PROVE Leaving'
  <2>1. pc'[Exit] = pc[Exit]
    BY <1>1, <1>4, Places DEF Arrives
  <2>2. QED
    BY <1>2, <1>4, <2>1 DEF Arrives, mapperVars
<1>5. ASSUME NEW r \in Req, Request(r) PROVE Leaving'
  <2>1. pc'[Exit] = pc[Exit]
    BY <1>1, <1>5, RunsAlone
  <2>2. timer' \in {timer, None, Lease - Margin}
    BY <1>5 DEF Request, TaskBegins, StopBegins, CloseBegins, Listen, ListenFails, Listens, OpenTries,
         OpenAnswered, BudgetEnds, StopEnds, Schedule, mapperVars
  <2>3. QED
    BY <1>2, <2>1, <2>2
<1>6. ASSUME NEW t \in Caller, CloseServer(t) PROVE Leaving'
  <2>1. pc[t] = "unmap" /\ UNCHANGED timer /\ \A u \in Caller \ {t} : pc'[u] = pc[u]
    BY <1>1, <1>6, Places DEF CloseServer, mapperVars
  <2>2. pc'[Exit] # "idle" => pc[Exit] # "idle"
    BY <1>1, <2>1
  <2>3. QED
    BY <2>1, <2>2 DEF Leaving
<1>7. ASSUME NEW a \in Slot, TryForgotten(a) PROVE Leaving'
  BY <1>2, <1>7 DEF TryForgotten, hostVars
<1>8. CASE ExitBegins
  <2>1. timer' = None
    BY <1>8 DEF ExitBegins, StopBegins, CloseBegins, Gone, Fresh
  <2>2. QED
    BY <1>1, <2>1 DEF Leaving
<1>9. CASE ExitEnds \/ Killed
  BY <1>1, <1>9 DEF ExitEnds, Killed, Gone, Fresh, Leaving
<1>10. CASE Restarts
  BY <1>2, <1>10 DEF Restarts, mapperVars
<1>11. CASE Tick
  BY <1>1, <1>11 DEF Tick, Leaving
<1>12. QED
  BY <1>3, <1>4, <1>5, <1>6, <1>7, <1>8, <1>9, <1>10, <1>11 DEF Next

LEMMA OffersStep ==
  ASSUME IInv, Offering, Next
  PROVE  Offers'
<1>1. /\ TypeOK /\ Queued /\ Ported /\ Req \subseteq Caller /\ Exit \in Caller /\ Exit \notin Req
      /\ left \in [Hole -> 0..Lease] /\ mapping \in Hole \cup {None} /\ renewing \in Hole \cup {None}
      /\ timer \in (0..Lease) \cup {None} /\ None \notin Hole
      /\ Stopped /\ AtPort /\ Pending /\ Reported /\ Offers /\ Leaving
  BY Constants, Margins DEF IInv, TypeOK, PortMapTypeOK, Offering
<1>2. CASE /\ UNCHANGED <<running, offered, mapping, timer, renewing, missed, service, left>>
           /\ pc'[Exit] = "idle" => pc[Exit] = "idle"
  BY <1>1, <1>2 DEF Offers
<1>3. CASE ~(running' /\ offered')
  BY <1>3 DEF Offers
<1>4. CASE MapperNext /\ UNCHANGED hostVars
  <2>1. UNCHANGED <<mapping, port, pc, running, offered>>
    BY <1>4, MapperLeaves DEF hostVars
  <2> SUFFICES ASSUME running /\ offered PROVE Offers'
    BY <2>1 DEF Offers
  <2>2. /\ mapping \in Hole /\ mapping[2] = port
        /\ timer # None \/ renewing # None
        /\ renewing \notin {None, mapping} => left[mapping] = Lease
        /\ ~missed => IF timer = None THEN left[mapping] > 0 ELSE left[mapping] >= timer + Margin
        /\ pc[Exit] = "idle" /\ mapping[1] = "UPnP" => service
    BY <1>1 DEF Offers, AtPort
  <2>3. left'[mapping] = left[mapping] \/ left'[mapping] = Lease
    <3>1. ASSUME NEW t \in Caller, Removed(t) PROVE removing[t] # mapping
      BY <1>1, <2>2, <3>1, NotRemoved
    <3>2. QED
      BY <1>1, <1>4, <2>2, <3>1, TableGrows
  <2>4. CASE RenewFires
    <3>1. timer = 0
      BY <2>4 DEF RenewFires
    <3>2. pc[Exit] = "idle"
      BY <1>1, <3>1 DEF Leaving
    <3>3. mapping = <<mapping[1], mapping[2]>> /\ mapping[1] \in Method
      BY <2>2 DEF Hole
    <3>4. RenewalOf = mapping
      BY <1>1, <2>2, <3>2, <3>3 DEF RenewalOf, Method
    <3>5. renewing' = mapping /\ timer' = None /\ UNCHANGED <<left, missed, service>>
      BY <1>1, <2>2, <2>4, <3>4 DEF RenewFires
    <3>6. ~missed => left[mapping] > 0
      BY <1>1, <2>2, <3>1, Margins
    <3>7. QED
      BY <1>1, <2>1, <2>2, <3>5, <3>6 DEF Offers
  <2>5. CASE RenewEnds
    <3>1. renewing' = None /\ timer' = Lease - Margin /\ UNCHANGED service /\ renewing \in Hole
      BY <1>1, <2>5 DEF RenewEnds, Schedule
    <3>2. ~missed' => left'[mapping] = Lease
      <4>1. ~missed' => left' = Mapped(renewing)
        BY <2>5 DEF RenewEnds, Confirmed
      <4>2. ASSUME left' = Mapped(renewing) PROVE left'[mapping] = Lease
        <5>1. CASE renewing = mapping
          BY <1>1, <2>2, <4>2, <5>1 DEF Mapped
        <5>2. CASE renewing # mapping
          BY <1>1, <2>2, <3>1, <4>2, <5>2 DEF Mapped
        <5>3. QED
          BY <5>1, <5>2
      <4>3. QED
        BY <4>1, <4>2
    <3>3. timer' # None /\ Lease >= timer' + Margin
      BY <3>1, Margins
    <3>4. QED
      BY <1>1, <2>1, <2>2, <3>1, <3>2, <3>3 DEF Offers
  <2>6. CASE ~RenewFires /\ ~RenewEnds
    <3>1. UNCHANGED <<timer, renewing, missed>> /\ (service' = service \/ \E t \in Caller : Removed(t))
      BY <1>4, <2>6 DEF MapperNext, NatpmpAddress, NatpmpMap, UpnpSearch, UpnpAdd, UpnpAddress, Removed
    <3>2. ASSUME NEW t \in Caller, Removed(t) PROVE pc[Exit] # "idle"
      <4>1. removing[t] # None
        BY <3>2 DEF Removed
      <4>2. t \notin Req
        BY <1>1, <4>1 DEF Pending, Stopped, Active
      <4>3. QED
        BY <1>1, <4>1, <4>2, Constants DEF Pending
    <3>3. left'[mapping] \in Nat /\ left[mapping] \in 0..Lease
      BY <1>1, <2>2, <2>3, Margins
    <3>4. ~missed => IF timer = None THEN left'[mapping] > 0 ELSE left'[mapping] >= timer + Margin
      BY <1>1, <2>2, <2>3, <3>3, Margins
    <3>5. pc[Exit] = "idle" /\ mapping[1] = "UPnP" => service'
      BY <2>2, <3>1, <3>2
    <3>6. renewing \notin {None, mapping} => left'[mapping] = Lease
      BY <2>2, <2>3
    <3>7. QED
      BY <1>1, <2>1, <2>2, <3>1, <3>4, <3>5, <3>6 DEF Offers
  <2>7. QED
    BY <2>4, <2>5, <2>6
<1>5. ASSUME NEW r \in Req, Arrives(r) PROVE Offers'
  <2>1. pc'[Exit] = pc[Exit]
    BY <1>1, <1>5, Places DEF Arrives
  <2>2. QED
    BY <1>2, <1>5, <2>1 DEF Arrives, mapperVars
<1>6. ASSUME NEW r \in Req, Request(r) PROVE Offers'
  <2>1. CASE TaskBegins(r)
    BY <1>3, <2>1 DEF TaskBegins, StopBegins
  <2>2. CASE ~TaskBegins(r)
    <3>1. ~running
      BY <1>1, <1>6, <2>2, RunsAlone DEF Stopped
    <3>2. CASE OpenAnswered(r) /\ offered'
      <4>1. /\ pc[r] = "open" /\ Found(open[r]) # None /\ mapping' = Found(open[r])
            /\ service' = (Found(open[r])[1] = "UPnP") /\ missed' = FALSE
            /\ Settled(open[r]) /\ timer' = Lease - Margin /\ UNCHANGED <<port, renewing, left>>
        BY <3>2 DEF OpenAnswered, Started, Schedule
      <4>2. open[r] \in Slot /\ tries[open[r]] # None /\ tries[open[r]].port = port
        BY <1>1, <4>1 DEF TypeOK, Ported, AtPort
      <4>3. mapping' \in Hole /\ left[mapping'] = Lease
        <5>1. mapping' \in {<<"NAT-PMP", port>>, <<"UPnP", port>>} /\ left[mapping'] = Lease
          BY <1>1, <4>1, <4>2 DEF Found, Settled, Reported
        <5>2. port \in Port
          BY <1>1, <4>1 DEF Ported, TypeOK, PortMapTypeOK
        <5>3. QED
          BY <5>1, <5>2 DEF Hole, Method
      <4>4. timer' # None /\ Lease >= timer' + Margin
        BY <4>1, Margins
      <4>5. QED
        BY <1>1, <4>1, <4>3, <4>4 DEF Offers
    <3>3. CASE ~(OpenAnswered(r) /\ offered')
      <4>1. ~(running' /\ offered')
        BY <1>6, <2>2, <3>1, <3>3
           DEF Request, Listen, ListenFails, Listens, OpenTries, BudgetEnds, StopEnds, Started
      <4>2. QED
        BY <1>3, <4>1
    <3>4. QED
      BY <3>2, <3>3
  <2>3. QED
    BY <2>1, <2>2
<1>7. ASSUME NEW t \in Caller, CloseServer(t) PROVE Offers'
  BY <1>3, <1>7 DEF CloseServer
<1>8. ASSUME NEW a \in Slot, TryForgotten(a) PROVE Offers'
  BY <1>2, <1>8 DEF TryForgotten, hostVars
<1>9. CASE ExitBegins \/ ExitEnds \/ Killed
  BY <1>3, <1>9 DEF ExitBegins, ExitEnds, Killed, StopBegins, Gone
<1>10. CASE Restarts
  BY <1>2, <1>10 DEF Restarts, mapperVars
<1>11. CASE Tick
  <2>1. /\ UNCHANGED <<running, offered, mapping, renewing, missed, service, pc>>
        /\ renewing = None /\ timer # 0
        /\ timer' = (IF timer = None THEN None ELSE timer - 1)
        /\ left' = [x \in Hole |-> IF left[x] = 0 THEN 0 ELSE left[x] - 1]
    BY <1>11 DEF Tick, Quiet, LeasesRun
  <2> SUFFICES ASSUME running /\ offered PROVE Offers'
    BY <2>1 DEF Offers
  <2>2. /\ mapping \in Hole /\ timer \in 1..Lease /\ left[mapping] \in 0..Lease
        /\ ~missed => left[mapping] >= timer + Margin
        /\ pc[Exit] = "idle" /\ mapping[1] = "UPnP" => service
    BY <1>1, <2>1, Margins DEF Offers
  <2>3. timer' = timer - 1 /\ timer' # None
    BY <1>1, <2>1, <2>2, Margins
  <2>4. left'[mapping] = IF left[mapping] = 0 THEN 0 ELSE left[mapping] - 1
    BY <2>1, <2>2
  <2>5. ~missed => left'[mapping] >= timer' + Margin
    BY <2>2, <2>3, <2>4, Margins
  <2>6. QED
    BY <1>1, <2>1, <2>2, <2>3, <2>5 DEF Offers
<1>12. QED
  BY <1>4, <1>5, <1>6, <1>7, <1>8, <1>9, <1>10, <1>11 DEF Next

-------------------------------------------------------------------------------
(* Theorems *)

\* The invariant holds in every reachable state.
THEOREM Invariance == Spec => []IInv
<1>1. IInv /\ UNCHANGED vars => IInv'
  BY DEF IInv, TypeOK, PortMapTypeOK, Ported, Queued, Active, Alone, Silent, vars, mapperVars,
         hostVars
<1>2. IInv /\ [Next]_vars => IInv'
  BY <1>1, TypeStep, PortedStep, QueuedStep, AloneStep DEF IInv
<1>3. QED
  BY Initially, <1>2, PTL DEF Spec

\* Every variable of the plugin, the relay's listener, the mapper and the router
\* keeps its type: no renewal and no removal is ever asked for without a port.
THEOREM TypeCorrect == Spec => []TypeOK
<1>1. IInv => TypeOK
  BY DEF IInv
<1>2. QED
  BY Invariance, <1>1, PTL

\* No listener is orphaned, whatever requests overlap and whichever of them fail:
\* the mutex of server/index.js.
THEOREM NoOrphans == Spec => []OneListener
<1>1. IInv => OneListener
  BY DEF IInv, Alone, OneListener
<1>2. QED
  BY Invariance, <1>1, PTL

\* The address the host is told to share is one the router maps for it, as long as
\* renewals are answered: no overlap of requests, exit hook, late discoveries and
\* renewals left over from an earlier mapping lets the lease run out (PortMapper of
\* server/lib/portmap.js and Relay.start/stop of server/lib/relay.js).
THEOREM Offered == Spec => []OfferedIsMapped
<1>1. IInv /\ Offering /\ [Next]_vars => Offering'
  <2>1. IInv /\ Offering /\ Next => Offering'
    BY StoppedStep, AtPortStep, PendingStep, ReportedStep, OffersStep, LeavingStep DEF Offering
  <2>2. Offering /\ UNCHANGED vars => Offering'
    BY DEF Offering, Stopped, AtPort, Needed, Opening, Pending, Reported, Offers, Leaving, Active, vars,
           mapperVars, hostVars
  <2>3. QED
    BY <2>1, <2>2
<1>2. IInv /\ Offering => OfferedIsMapped
  <2> SUFFICES ASSUME IInv, Offering, running, offered, ~missed
               PROVE  mapping # None /\ left[mapping] > 0
    BY DEF OfferedIsMapped
  <2>1. /\ mapping # None /\ mapping \in Hole /\ left[mapping] \in 0..Lease
        /\ timer \in (0..Lease) \cup {None}
        /\ IF timer = None THEN left[mapping] > 0 ELSE left[mapping] >= timer + Margin
    BY DEF Offering, Offers, IInv, TypeOK, PortMapTypeOK
  <2>2. QED
    BY <2>1, Margins
<1>3. QED
  BY Invariance, OfferingFirst, <1>1, <1>2, PTL DEF Spec
===============================================================================
