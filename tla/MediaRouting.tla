---------------------------- MODULE MediaRouting ----------------------------
(***************************************************************************)
(* The processor registry (src/media/processor.go) and the packet router   *)
(* (src/media/router.go) of a session.  The router's index is written under *)
(* a read lock that all bus workers hold at once: reading it, writing it   *)
(* and using it are steps of their own.                                    *)
(***************************************************************************)
EXTENDS Integers, Sequences, FiniteSets, SequencesExt, FiniteSetsExt

CONSTANTS ProcessorNames, ProcessorPriorities, MaxRegistrations, OutputIDs, MaxRoutes, BusRouters

ASSUME RoutingAssumption ==
  /\ ProcessorPriorities \subseteq Int
  /\ IsFiniteSet(OutputIDs) /\ IsFiniteSet(BusRouters)
  /\ MaxRegistrations \in Nat /\ MaxRoutes \in Nat

VARIABLES
  processors,       \* ProcessorRegistry.processors
  registrations,    \* history: how many there have been
  roundRobinIndex,
  active,           \* the outputs that are active, in the order of the session
  strategy,         \* what the rules, or the default, choose for packets
  routes,           \* where each bus worker is in routing its packet
  begun,            \* history: the routes of this period
  routed,           \* history: packets each output got in this period
  upset,            \* history: how far lost updates may have upset this period
  period            \* history: what disturbed this period, see Periods

registryVars == <<processors, registrations>>
routingVars == <<roundRobinIndex, active, strategy, routes, begun, routed, upset, period>>

Strategies == {"broadcast", "roundRobin", "firstAvailable"}

\* A period lasts while the active outputs and the strategy stay as they are.
\* It is calm while no two round robin routes overlap, and mixed when a route
\* of an earlier period was still under way.
Periods == {"calm", "overlapping", "mixed"}

Idle == [at |-> "idle", outputs |-> <<>>, index |-> 0]

RegistryInit == processors = <<>> /\ registrations = 0

RoutingInit ==
  /\ roundRobinIndex = 0
  /\ active = <<>> /\ strategy \in Strategies
  /\ routes = [w \in BusRouters |-> Idle]
  /\ begun = 0 /\ routed = [o \in OutputIDs |-> 0]
  /\ upset = 0 /\ period = "calm"

-----------------------------------------------------------------------------
\* Fault for PacketsGoRight: a processor goes before those of its own priority.
PlaceBeforeEqual(ps, p) ==
  {i \in 1 .. Len(ps) : p.priority >= ps[i].priority}

\* The places of processors that come after a new one.
PlaceBefore(ps, p) ==
  {i \in 1 .. Len(ps) : p.priority > ps[i].priority}

Register(name, priority) ==
  /\ registrations < MaxRegistrations
  /\ registrations' = registrations + 1
  /\ LET p == [name |-> name, priority |-> priority, nth |-> registrations + 1]
         later == PlaceBefore(processors, p) IN
     processors' = IF later = {} THEN Append(processors, p)
                   ELSE InsertAt(processors, Min(later), p)

\* The first processor of that name goes.
Unregister(name) ==
  /\ LET named == {i \in 1 .. Len(processors) : processors[i].name = name} IN
     /\ named # {}
     /\ processors' = RemoveAt(processors, Min(named))
  /\ UNCHANGED registrations

RegistryNext ==
  \E name \in ProcessorNames : \/ Unregister(name)
                              \/ \E p \in ProcessorPriorities : Register(name, p)

RegistrySpec == RegistryInit /\ [][RegistryNext]_registryVars

-----------------------------------------------------------------------------
Routing == {w \in BusRouters : routes[w].at # "idle"}
TakingTurns == {w \in BusRouters : routes[w].at \in {"read", "wrote"}}

NewPeriod ==
  /\ begun' = 0 /\ routed' = [o \in OutputIDs |-> 0] /\ upset' = 0
  /\ period' = IF Routing = {} THEN "calm" ELSE "mixed"
  /\ UNCHANGED <<roundRobinIndex, routes>>

\* SetActive on some connectors, while bus workers route.  A worker looks at
\* them one by one: a list that it collects between two calls of SetActive is
\* the list after some other calls.
Activation(outputs) ==
  /\ outputs # active
  /\ active' = outputs
  /\ NewPeriod
  /\ UNCHANGED strategy

\* A rule's condition on the packet may choose another strategy than the
\* default; the targets of a rule are not looked at.
ChooseStrategy(s) ==
  /\ s # strategy
  /\ strategy' = s
  /\ NewPeriod
  /\ UNCHANGED active

\* A bus worker in the output router; without outputs Route gives none.
CollectOutputs(w) ==
  /\ routes[w].at = "idle" /\ active # <<>> /\ begun < MaxRoutes
  /\ routes' = [routes EXCEPT ![w] = [at |-> "collected", outputs |-> active, index |-> 0]]
  /\ begun' = begun + 1
  /\ UNCHANGED <<roundRobinIndex, active, strategy, routed, upset, period>>

Targets(outputs) ==
  CASE strategy = "broadcast" -> ToSet(outputs)
    [] strategy = "firstAvailable" -> {outputs[1]}

Sent(outputs) == [o \in OutputIDs |-> routed[o] + (IF o \in outputs THEN 1 ELSE 0)]

\* applyStrategy for the strategies that keep nothing.
RouteAtOnce(w) ==
  /\ routes[w].at = "collected" /\ strategy # "roundRobin"
  /\ routed' = Sent(Targets(routes[w].outputs))
  /\ routes' = [routes EXCEPT ![w] = Idle]
  /\ UNCHANGED <<roundRobinIndex, active, strategy, begun, upset, period>>

-----------------------------------------------------------------------------
\* Round robin: the index is read, ...
ReadIndex(w) ==
  /\ routes[w].at = "collected" /\ strategy = "roundRobin"
  /\ routes' = [routes EXCEPT ![w] = [at |-> "read", outputs |-> @.outputs, index |-> roundRobinIndex]]
  /\ period' = IF period = "calm" /\ TakingTurns # {} THEN "overlapping" ELSE period
  /\ UNCHANGED <<roundRobinIndex, active, strategy, begun, routed, upset>>

\* Fault for PacketsGoRight: the index is not advanced.
NextIndexSame(index, n) == index % n

NextIndex(index, n) == (index + 1) % n

\* ... the next one is written, over what others have written since, ...
WriteIndex(w) ==
  /\ routes[w].at = "read"
  /\ LET next == NextIndex(routes[w].index, Len(routes[w].outputs)) IN
     /\ roundRobinIndex' = next
     /\ routes' = [routes EXCEPT ![w] = [at |-> "wrote", outputs |-> @.outputs, index |-> next]]
  /\ upset' = upset + (IF roundRobinIndex = routes[w].index THEN 0 ELSE 1)
  /\ UNCHANGED <<active, strategy, begun, routed, period>>

\* ... and what is used is the value written or, read again, that of another
\* worker; beyond the outputs it panics, and the packet goes nowhere.
UseIndex(w) ==
  /\ routes[w].at = "wrote"
  /\ \E index \in {routes[w].index, roundRobinIndex} :
       LET outputs == routes[w].outputs IN
       /\ routed' = IF index < Len(outputs) THEN Sent({outputs[index + 1]}) ELSE routed
       /\ upset' = upset + (IF index = routes[w].index THEN 0 ELSE 2)
  /\ routes' = [routes EXCEPT ![w] = Idle]
  /\ UNCHANGED <<roundRobinIndex, active, strategy, begun, period>>

RoutingNext ==
  \/ \E outputs \in UNION {SetToSeqs(os) : os \in SUBSET OutputIDs} : Activation(outputs)
  \/ \E s \in Strategies : ChooseStrategy(s)
  \/ \E w \in BusRouters : \/ CollectOutputs(w) \/ RouteAtOnce(w)
                           \/ ReadIndex(w) \/ WriteIndex(w) \/ UseIndex(w)

RoutingSpec == RoutingInit /\ [][RoutingNext]_routingVars

-----------------------------------------------------------------------------
RegistryTypeOK ==
  /\ registrations \in 0 .. MaxRegistrations
  /\ \A i \in 1 .. Len(processors) : processors[i].name \in ProcessorNames

RoutingTypeOK ==
  /\ roundRobinIndex \in 0 .. Cardinality(OutputIDs)
  /\ begun \in 0 .. MaxRoutes /\ period \in Periods
  /\ \A w \in BusRouters : routes[w].at \in {"idle", "collected", "read", "wrote"}

(***************************************************************************)
(* HigherFirst (Register, Unregister): processors are in the order of their *)
(* priorities, and those of one priority in the order of registration,     *)
(* which is what puts the output router behind all others.                 *)
(***************************************************************************)
HigherFirst == \A i, j \in 1 .. Len(processors) : i < j =>
  \/ processors[i].priority > processors[j].priority
  \/ processors[i].priority = processors[j].priority /\ processors[i].nth < processors[j].nth

\* Those who have taken the turn of output o and not sent their packet yet.
TurnsOf(o) == {w \in BusRouters : /\ routes[w].at = "wrote"
                                  /\ routes[w].outputs[routes[w].index + 1] = o}

(***************************************************************************)
(* RoutesAreEven (applyStrategy, called by all bus workers under one read  *)
(* lock): while the active outputs and the strategy stay as they are,      *)
(* broadcast gives all outputs the same number of packets, and round robin *)
(* gives one output more than another by one, by the packets still on      *)
(* their way to the other one, and by what the lost updates of the index   *)
(* have cost: one for each index written over another worker's, two for    *)
(* each that was another worker's when it was used.  Nothing is upset      *)
(* while no two routes overlap, and no worker can index beyond its outputs. *)
(***************************************************************************)
RoutesAreEven == period # "mixed" =>
  /\ \A i, j \in 1 .. Len(active) :
       CASE strategy = "broadcast" -> routed[active[i]] = routed[active[j]]
         [] strategy = "roundRobin" ->
              routed[active[i]] <= routed[active[j]] + 1 + Cardinality(TurnsOf(active[j])) + upset
         [] OTHER -> TRUE
  /\ period = "calm" => upset = 0
  /\ \A w \in BusRouters :
       routes[w].at = "wrote" => roundRobinIndex < Len(routes[w].outputs)
=============================================================================
