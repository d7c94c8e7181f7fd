------------------------------- MODULE PortMap -------------------------------
(* PortMapper of server/lib/portmap.js and the router it talks to. The mapper  *)
(* asks over NAT-PMP and UPnP at once, gives both together a budget, keeps the *)
(* lease of what it got alive, and takes it back when it is closed. Time is    *)
(* counted in ticks of some minutes: requests, budgets and retries take        *)
(* seconds, so a tick never falls into one of them (see Hosting!Tick).         *)
EXTENDS Integers

CONSTANTS
  Port,       \* ports a relay may be hosted on
  Caller,     \* activities of the process that may be inside close()
  None,
  Lease,      \* LEASE_SECONDS in ticks
  Margin,     \* RENEW_MARGIN_MS in ticks
  MaxTries,   \* discoveries in progress at once, a bound of the model
  Speaks,     \* protocols the router speaks
  Faults      \* what may go wrong: "lost", "refused", "cgnat", "inuse", "killed"

Method == {"NAT-PMP", "UPnP"}

\* What a router can hold: a mapping made over one protocol for one port.
Hole == Method \X Port

\* A discovery in progress: its port and where it is over either protocol.
Slot == 1..MaxTries

Try == [port : Port,
        natpmp : {"asked", "mapping", "mapped", "none"},
        upnp : {"searching", "adding", "added", "mapped", "none"}]

ASSUME PortMapAssumption ==
  /\ Port # {}
  /\ Lease \in Nat /\ Margin \in 1..(Lease - 1)
  /\ MaxTries \in Nat \ {0}
  /\ Speaks \subseteq Method
  /\ None \notin Hole \cup Try \cup Caller \cup Port \cup Int

VARIABLES
  port,       \* this.port
  mapping,    \* this.mapping, as the hole it stands for
  service,    \* this._service is set
  timer,      \* ticks until _renewTimer fires, or None
  renewing,   \* the renewal request in flight, or None
  removing,   \* per caller: the removal its close() awaits, or None
  tries,      \* discoveries in progress, the ones open() gave up on included
  left,       \* the router: ticks left of each mapping, 0 when there is none
  missed      \* the last renewal was not answered

mapperVars == <<port, mapping, service, timer, renewing, removing, tries, left, missed>>

PortMapTypeOK ==
  /\ port \in Port \cup {None}
  /\ mapping \in Hole \cup {None}
  /\ service \in BOOLEAN
  /\ timer \in (0..Lease) \cup {None}
  /\ renewing \in Hole \cup {None}
  /\ removing \in [Caller -> Hole \cup {None}]
  /\ tries \in [Slot -> Try \cup {None}]
  /\ left \in [Hole -> 0..Lease]
  /\ missed \in BOOLEAN

\* The mapper of a process that has just started.
Fresh ==
  /\ port' = None /\ mapping' = None /\ service' = FALSE /\ timer' = None
  /\ renewing' = None /\ missed' = FALSE
  /\ removing' = [t \in Caller |-> None]
  /\ tries' = [a \in Slot |-> None]

MapperInit ==
  /\ port = None /\ mapping = None /\ service = FALSE /\ timer = None
  /\ renewing = None /\ missed = FALSE
  /\ removing = [t \in Caller |-> None]
  /\ tries = [a \in Slot |-> None]
  /\ left = [x \in Hole |-> 0]

-------------------------------------------------------------------------------
\* A request that has the router do something, and what becomes of it: done and
\* confirmed, done with the answer lost, or not done. `done` is the router's
\* table if it was.
Confirmed(done)  == left' = done
Unanswered(done) ==
  \/ "lost" \in Faults /\ left' = done
  \/ {"lost", "refused"} \cap Faults # {} /\ left' = left

Mapped(x)   == [left EXCEPT ![x] = Lease]
Unmapped(x) == [left EXCEPT ![x] = 0]

-------------------------------------------------------------------------------
(* Discovery *)

\* One attempt starts both protocols for the port.
StartTry(a) ==
  tries' = [tries EXCEPT ![a] = [port |-> port, natpmp |-> "asked", upnp |-> "searching"]]

\* natpmpExternalAddress answers, or every candidate gateway fails or times out.
NatpmpAddress(a) ==
  /\ tries[a] # None /\ tries[a].natpmp = "asked"
  /\ \/ /\ "NAT-PMP" \in Speaks
        /\ tries' = [tries EXCEPT ![a].natpmp = "mapping"]
     \/ /\ "NAT-PMP" \notin Speaks \/ {"lost", "refused"} \cap Faults # {}
        /\ tries' = [tries EXCEPT ![a].natpmp = "none"]
  /\ UNCHANGED <<port, mapping, service, timer, renewing, removing, left, missed>>

\* natpmpMap
NatpmpMap(a) ==
  /\ tries[a] # None /\ tries[a].natpmp = "mapping"
  /\ LET done == Mapped(<<"NAT-PMP", tries[a].port>>)
     IN  \/ Confirmed(done) /\ tries' = [tries EXCEPT ![a].natpmp = "mapped"]
         \/ Unanswered(done) /\ tries' = [tries EXCEPT ![a].natpmp = "none"]
  /\ UNCHANGED <<port, mapping, service, timer, renewing, removing, missed>>

\* ssdpDiscover and the device description find a gateway, or none does.
UpnpSearch(a) ==
  /\ tries[a] # None /\ tries[a].upnp = "searching"
  /\ \/ /\ "UPnP" \in Speaks
        /\ tries' = [tries EXCEPT ![a].upnp = "adding"]
     \/ /\ "UPnP" \notin Speaks \/ {"lost", "refused"} \cap Faults # {}
        /\ tries' = [tries EXCEPT ![a].upnp = "none"]
  /\ UNCHANGED <<port, mapping, service, timer, renewing, removing, left, missed>>

\* AddPortMapping
UpnpAdd(a) ==
  /\ tries[a] # None /\ tries[a].upnp = "adding"
  /\ LET done == Mapped(<<"UPnP", tries[a].port>>)
     IN  \/ Confirmed(done) /\ tries' = [tries EXCEPT ![a].upnp = "added"]
         \/ Unanswered(done) /\ tries' = [tries EXCEPT ![a].upnp = "none"]
  /\ UNCHANGED <<port, mapping, service, timer, renewing, removing, missed>>

\* GetExternalIPAddress; its failure does not matter.
UpnpAddress(a) ==
  /\ tries[a] # None /\ tries[a].upnp = "added"
  /\ tries' = [tries EXCEPT ![a].upnp = "mapped"]
  /\ UNCHANGED <<port, mapping, service, timer, renewing, removing, left, missed>>

\* Promise.all of the two protocols has its result.
Settled(a) ==
  tries[a] # None /\ {tries[a].natpmp, tries[a].upnp} \subseteq {"mapped", "none"}

\* natpmp ?? upnp, as the hole it made.
Found(a) ==
  IF tries[a].natpmp = "mapped" THEN <<"NAT-PMP", tries[a].port>>
  ELSE IF tries[a].upnp = "mapped" THEN <<"UPnP", tries[a].port>>
  ELSE None

-------------------------------------------------------------------------------
(* The lease *)

\* Mutant: the timer is set to the lease itself, with no margin.
ScheduleAtExpiry == timer' = Lease

\* scheduleRenewal
Schedule == timer' = Lease - Margin

\* Mutant: the timer renews what it was set up for, without looking at
\* this.mapping again.
RenewalOfPort == <<IF service THEN "UPnP" ELSE "NAT-PMP", port>>

\* What a renewal asks for: this.mapping, if there is one and it can be renewed.
RenewalOf ==
  IF mapping = None \/ (mapping[1] = "UPnP" /\ ~service) THEN None
  ELSE IF mapping[1] = "NAT-PMP" THEN <<"NAT-PMP", port>>
  ELSE mapping

\* The timer fires. A mapper that was closed meanwhile lets it lapse; one that
\* has nothing to ask for sets it again.
RenewFires ==
  LET x == RenewalOf
  IN  /\ timer = 0
      /\ renewing' = x
      /\ IF x = None /\ mapping # None THEN Schedule ELSE timer' = None
      /\ UNCHANGED <<port, mapping, service, removing, tries, left, missed>>

\* The request is answered or fails, and the timer is set again either way, by
\* a handler that does not look whether the mapper was closed.
RenewEnds ==
  /\ renewing # None
  /\ \/ Confirmed(Mapped(renewing)) /\ missed' = FALSE
     \/ Unanswered(Mapped(renewing)) /\ missed' = TRUE
  /\ renewing' = None
  /\ Schedule
  /\ UNCHANGED <<port, mapping, service, removing, tries>>

-------------------------------------------------------------------------------
(* close() *)

\* The removal close() sends, made from this.port as `p`, which open() has
\* replaced before it calls close().
RemovalOf(p) ==
  IF mapping = None \/ (mapping[1] = "UPnP" /\ ~service) THEN None
  ELSE IF mapping[1] = "NAT-PMP" THEN <<"NAT-PMP", p>>
  ELSE mapping

\* The part of close() before its await.
CloseBegins(t, p) ==
  /\ timer' = None /\ mapping' = None
  /\ removing' = [removing EXCEPT ![t] = RemovalOf(p)]

\* The removal is confirmed or given up on.
Removed(t) ==
  /\ removing[t] # None
  /\ Confirmed(Unmapped(removing[t])) \/ Unanswered(Unmapped(removing[t]))
  /\ removing' = [removing EXCEPT ![t] = None]
  /\ service' = FALSE
  /\ UNCHANGED <<port, mapping, timer, renewing, tries, missed>>

-------------------------------------------------------------------------------
\* Nothing the mapper or one of its discoveries asked for is in flight.
Quiet ==
  /\ renewing = None
  /\ \A t \in Caller : removing[t] = None
  /\ \A a \in Slot : tries[a] = None

\* Leases run down.
LeasesRun == left' = [x \in Hole |-> IF left[x] = 0 THEN 0 ELSE left[x] - 1]

MapperNext ==
  \/ \E a \in Slot : NatpmpAddress(a) \/ NatpmpMap(a) \/ UpnpSearch(a) \/ UpnpAdd(a) \/ UpnpAddress(a)
  \/ RenewFires \/ RenewEnds
  \/ \E t \in Caller : Removed(t)
=============================================================================
