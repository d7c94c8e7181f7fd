------------------------------- MODULE Hosting -------------------------------
(* The host plugin, server/index.js, with what its routes do to the relay's    *)
(* listener and to the router: start(), stop() and the router mapping of       *)
(* server/lib/relay.js, one action per stretch between two awaits. A request   *)
(* waits for its turn in the mutex; the exit hook does not. The process may    *)
(* end at any time and be started again, while the router keeps its table.     *)
EXTENDS PortMap, Sequences, FiniteSets

CONSTANTS
  Req,        \* requests the plugin may be handling at once
  Exit,       \* the exit hook, as a caller of stop()
  MaxPerTick  \* requests and process starts between two ticks, a bound

ASSUME HostingAssumption ==
  /\ Caller = Req \cup {Exit} /\ Exit \notin Req
  /\ IsFiniteSet(Req) /\ None \notin Req
  /\ MaxPerTick \in Nat

VARIABLES
  alive,      \* the process runs
  pc,         \* per caller: where it is
  job,        \* per request: what it was asked to do
  queue,      \* the mutex: requests in the order they will run
  running,    \* relay.running
  server,     \* the port relay.httpServer listens on, None when it does not or there is none
  listening,  \* the ports servers of this process listen on
  open,       \* per request: the discovery its open() waits for, or None
  offered,    \* relay.portMapping.ok
  recent      \* requests and starts since the last tick

hostVars == <<alive, pc, job, queue, running, server, listening, open, offered, recent>>
vars == <<mapperVars, hostVars>>

Job == [what : {"start", "stop"}, port : Port, map : BOOLEAN]

TypeOK ==
  /\ PortMapTypeOK
  /\ alive \in BOOLEAN /\ running \in BOOLEAN /\ offered \in BOOLEAN
  /\ pc \in [Caller -> {"idle", "queued", "start", "listen", "reopen", "open", "unmap", "close"}]
  /\ job \in [Req -> Job]
  /\ queue \in Seq(Req)
  /\ server \in Port \cup {None}
  /\ listening \in SUBSET Port
  /\ open \in [Req -> Slot \cup {None}]
  /\ recent \in 0..MaxPerTick

AnyJob == [what |-> "stop", port |-> CHOOSE p \in Port : TRUE, map |-> FALSE]

Init ==
  /\ MapperInit
  /\ alive = TRUE /\ running = FALSE /\ server = None /\ offered = FALSE /\ recent = 0
  /\ pc = [t \in Caller |-> "idle"] /\ job = [r \in Req |-> AnyJob] /\ queue = <<>>
  /\ listening = {} /\ open = [r \in Req |-> None]

-------------------------------------------------------------------------------
(* Routes and the mutex *)

\* A request reaches exclusive(): it will run behind those that came before.
Arrives(r) ==
  /\ alive /\ pc[r] = "idle" /\ recent < MaxPerTick
  /\ recent' = recent + 1
  /\ \E j \in Job :
       /\ j.what = "stop" => j = [AnyJob EXCEPT !.what = "stop"]
       /\ job' = [job EXCEPT ![r] = j]
  /\ pc' = [pc EXCEPT ![r] = "queued"]
  /\ queue' = Append(queue, r)
  /\ UNCHANGED <<mapperVars, alive, running, server, listening, open, offered>>

\* Mutant: the routes call the relay without the mutex.
TurnAtOnce(r) == pc[r] = "queued"

\* mutex.then(task, task): the task runs when the ones before it are over.
Turn(r) == pc[r] = "queued" /\ Head(queue) = r

\* Mutant: mutex = run, and then(task) alone: once a task has failed, nothing
\* behind it runs. The request that failed stays at the head.
AnsweredInTurn(r) ==
  /\ pc' = [pc EXCEPT ![r] = "idle"]
  /\ job' = [job EXCEPT ![r] = AnyJob]
  /\ queue' = IF pc[r] = "listen" /\ server' = None THEN queue ELSE Tail(queue)

\* The request is answered, whether its task succeeded or not, and the next runs.
Answered(r) ==
  /\ pc' = [pc EXCEPT ![r] = "idle"]
  /\ job' = [job EXCEPT ![r] = AnyJob]
  /\ queue' = Tail(queue)

\* stop() up to its first await: the flag falls, the mapper is closed.
StopBegins(t) ==
  /\ running' = FALSE
  /\ CloseBegins(t, port)
  /\ pc' = [pc EXCEPT ![t] = "unmap"]

\* The first stretch of a task: start stops a running relay first, and stop has
\* nothing to do without one.
TaskBegins(r) ==
  /\ Turn(r)
  /\ \/ /\ running
        /\ StopBegins(r)
        /\ UNCHANGED <<job, queue>>
     \/ /\ ~running /\ job[r].what = "start"
        /\ pc' = [pc EXCEPT ![r] = "start"]
        /\ UNCHANGED <<running, timer, mapping, removing, job, queue>>
     \/ /\ ~running /\ job[r].what = "stop"
        /\ Answered(r)
        /\ UNCHANGED <<running, timer, mapping, removing>>
  /\ UNCHANGED <<port, service, renewing, tries, left, missed,
                 alive, server, listening, open, offered, recent>>

-------------------------------------------------------------------------------
(* Relay.start *)

\* A new listener is created and asked to listen.
Listen(r) ==
  /\ pc[r] = "start"
  /\ server' = None
  /\ pc' = [pc EXCEPT ![r] = "listen"]
  /\ UNCHANGED <<mapperVars, alive, job, queue, running, listening, open, offered, recent>>

\* The port is taken, by a server of this process or by another program: start
\* fails, and so does the request.
ListenFails(r) ==
  /\ pc[r] = "listen"
  /\ job[r].port \in listening \/ "inuse" \in Faults
  /\ UNCHANGED <<mapperVars, alive, running, server, listening, open, offered, recent>>
  /\ Answered(r)

\* It listens. Only now is the router asked: open() first closes the mapper.
Listens(r) ==
  /\ pc[r] = "listen" /\ job[r].port \notin listening
  /\ listening' = listening \cup {job[r].port}
  /\ server' = job[r].port
  /\ IF job[r].map
     THEN /\ port' = job[r].port
          /\ CloseBegins(r, job[r].port)
          /\ pc' = [pc EXCEPT ![r] = "reopen"]
          /\ UNCHANGED <<job, queue, running, offered>>
     ELSE /\ running' = TRUE /\ offered' = FALSE
          /\ Answered(r)
          /\ UNCHANGED <<port, timer, mapping, removing>>
  /\ UNCHANGED <<service, renewing, tries, left, missed, alive, open, recent>>

\* close() is over and discovery starts.
OpenTries(r) ==
  /\ pc[r] = "reopen" /\ removing[r] = None
  /\ \E a \in Slot :
       /\ tries[a] = None
       /\ StartTry(a)
       /\ open' = [open EXCEPT ![r] = a]
  /\ pc' = [pc EXCEPT ![r] = "open"]
  /\ UNCHANGED <<port, mapping, service, timer, renewing, removing, left, missed,
                 alive, job, queue, running, server, listening, offered, recent>>

\* start() after its last await.
Started(r, ok) ==
  /\ running' = TRUE /\ offered' = ok
  /\ open' = [open EXCEPT ![r] = None]
  /\ Answered(r)

\* Discovery came within its budget. Behind a carrier's NAT the mapping is kept
\* and not renewed, and the attempt counts as failed.
OpenAnswered(r) ==
  /\ pc[r] = "open" /\ Settled(open[r])
  /\ tries' = [tries EXCEPT ![open[r]] = None]
  /\ IF Found(open[r]) = None
     THEN /\ Started(r, FALSE)
          /\ UNCHANGED <<mapping, service, timer, missed>>
     ELSE /\ mapping' = Found(open[r])
          /\ service' = (Found(open[r])[1] = "UPnP")
          /\ missed' = FALSE
          /\ \/ Started(r, TRUE) /\ Schedule
             \/ "cgnat" \in Faults /\ Started(r, FALSE) /\ UNCHANGED timer
  /\ UNCHANGED <<port, renewing, removing, left, alive, server, listening, recent>>

\* The budget ends first: open() gives up, the discovery goes on.
BudgetEnds(r) ==
  /\ pc[r] = "open" /\ ~Settled(open[r])
  /\ Started(r, FALSE)
  /\ UNCHANGED <<mapperVars, alive, server, listening, recent>>

\* A discovery that nobody waits for comes to its end.
TryForgotten(a) ==
  /\ Settled(a) /\ \A r \in Req : open[r] # a
  /\ tries' = [tries EXCEPT ![a] = None]
  /\ UNCHANGED <<port, mapping, service, timer, renewing, removing, left, missed, hostVars>>

-------------------------------------------------------------------------------
(* Relay.stop after its first await *)

\* The mapper is closed: the listener and its sockets are closed next.
CloseServer(t) ==
  /\ pc[t] = "unmap" /\ removing[t] = None
  /\ offered' = FALSE
  /\ listening' = listening \ {server}
  /\ pc' = [pc EXCEPT ![t] = "close"]
  /\ UNCHANGED <<mapperVars, alive, job, queue, running, server, open, recent>>

\* The listener has released the port, or the three seconds are over.
StopEnds(r) ==
  /\ r \in Req /\ pc[r] = "close"
  /\ server' = None
  /\ IF job[r].what = "start"
     THEN pc' = [pc EXCEPT ![r] = "start"] /\ UNCHANGED <<job, queue>>
     ELSE Answered(r)
  /\ UNCHANGED <<mapperVars, alive, running, listening, open, offered, recent>>

-------------------------------------------------------------------------------
(* The process *)

\* The process is gone: its sockets are closed and its memory with it.
Gone ==
  /\ alive' = FALSE /\ running' = FALSE /\ server' = None /\ offered' = FALSE
  /\ pc' = [t \in Caller |-> "idle"] /\ job' = [r \in Req |-> AnyJob] /\ queue' = <<>>
  /\ listening' = {} /\ open' = [r \in Req |-> None]
  /\ Fresh
  /\ UNCHANGED <<left, recent>>

\* SillyTavern calls the exit hook, which does not wait for its turn.
ExitBegins ==
  /\ alive /\ pc[Exit] = "idle"
  /\ IF running
     THEN /\ StopBegins(Exit)
          /\ UNCHANGED <<port, service, renewing, tries, left, missed,
                         alive, job, queue, server, listening, open, offered, recent>>
     ELSE Gone

\* The hook's stop() is over and the process ends.
ExitEnds == pc[Exit] = "close" /\ Gone

\* The process dies without its hook.
Killed == alive /\ "killed" \in Faults /\ Gone

Restarts ==
  /\ ~alive /\ recent < MaxPerTick
  /\ alive' = TRUE /\ recent' = recent + 1
  /\ UNCHANGED <<mapperVars, pc, job, queue, running, server, listening, open, offered>>

\* Minutes pass. Everything that takes seconds is over by then.
Tick ==
  /\ Quiet /\ timer # 0 /\ \A t \in Caller : pc[t] = "idle"
  /\ recent' = 0
  /\ LeasesRun
  /\ timer' = IF timer = None THEN None ELSE timer - 1
  /\ UNCHANGED <<port, mapping, service, renewing, removing, tries, missed,
                 alive, pc, job, queue, running, server, listening, open, offered>>

-------------------------------------------------------------------------------
Request(r) ==
  \/ TaskBegins(r)
  \/ Listen(r) \/ ListenFails(r) \/ Listens(r)
  \/ OpenTries(r) \/ OpenAnswered(r) \/ BudgetEnds(r)
  \/ StopEnds(r)

Next ==
  \/ MapperNext /\ UNCHANGED hostVars
  \/ \E r \in Req : Arrives(r) \/ Request(r)
  \/ \E t \in Caller : CloseServer(t)
  \/ \E a \in Slot : TryForgotten(a)
  \/ ExitBegins \/ ExitEnds \/ Killed \/ Restarts \/ Tick

Spec == Init /\ [][Next]_vars

\* Requests to the router end by an answer or a timeout, timers fire, tasks go
\* on after their awaits, time passes.
Fairness ==
  /\ WF_vars(MapperNext /\ UNCHANGED hostVars)
  /\ \A r \in Req : WF_vars(Request(r))
  /\ \A t \in Caller : WF_vars(CloseServer(t))
  /\ \A a \in Slot : WF_vars(TryForgotten(a))
  /\ WF_vars(ExitEnds)
  /\ WF_vars(Tick)

FairSpec == Spec /\ Fairness

-------------------------------------------------------------------------------
(* Properties *)

\* "A stray request cannot leave orphaned listeners behind" (server/index.js:22-23):
\* while the process is not on its way out, every listening server is the one
\* the relay would close.
OneListener == pc[Exit] = "idle" => listening \subseteq {server}

\* The address the host is told its friends can use is one the router maps, as
\* long as the renewals are answered: the lease never runs out in between.
OfferedIsMapped ==
  (running /\ offered /\ ~missed) => mapping # None /\ left[mapping] > 0

\* What the router holds for a port nobody listens on goes away by itself,
\* whether the removal failed, the router answered too late, a renewal crossed
\* the removal, or the process was killed (server/lib/portmap.js:417-419).
HolesClose ==
  \A x \in Hole : (left[x] > 0 /\ x[2] \notin listening) ~> (left[x] = 0 \/ x[2] \in listening)

\* A request to stop is carried out, whatever was asked before it and failed.
StopStops == \A r \in Req : (pc[r] = "queued" /\ job[r].what = "stop") ~> ~running

\* "Close the hole in the router before releasing the port" (server/lib/relay.js:274):
\* when the process stops listening on a port, the router does not map it any more.
ClosedBeforeReleased ==
  [][\A x \in Hole : x[2] \in listening \ listening' /\ alive' => left'[x] = 0]_vars
=============================================================================
