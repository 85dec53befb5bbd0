------------------------- MODULE MediaSessionProofs -------------------------
(***************************************************************************)
(* Proofs about a session, for any transports, packets, queues and bus     *)
(* workers, and any set of transports that hang: which loops are certainly *)
(* gone when Serve is over, and that no packet is doubled on its way.      *)
(***************************************************************************)
EXTENDS MediaSession, SequenceFacts

LoopStates == {"none", "spawned", "check", "select", "next", "filter", "send",
               "sending", "exited"}
ServeStates == {"idle", "begin", "running", "inputs", "outputs", "await", "drop",
                "bus", "done"}

\* Serve has seen the end of the context.
Ending == {"inputs", "outputs", "await", "drop", "bus", "done"}
\* An input loop at one of these will not read or publish once the context is done.
Quiet == {"none", "spawned", "check", "exited"}

EndTypes ==
  /\ loop \in [Transports -> LoopStates]
  /\ transport \in [Transports -> {"open", "closed", "nil"}]
  /\ busPc \in [BusWorkers -> {"select", "dispatch", "route", "exited"}]
  /\ serve \in ServeStates /\ cleaning \in Transports \union {Nothing}

\* How far Serve has come says what has been cleaned.
Progress ==
  /\ serve \in Ending => ctxDone
  /\ busClosed => serve \in {"bus", "done"}
  /\ serve \in {"await", "drop"} <=> cleaning # Nothing
  /\ \A i \in Inputs : transport[i] = "nil" => serve \in Ending
  /\ serve \in {"outputs", "bus", "done"} \/ cleaning \in Outputs
       => \A i \in Inputs : transport[i] = "nil"

\* An input whose loop has been awaited, or had not started, stays quiet.
CleanedInputs == \A i \in Inputs \ stuck :
  transport[i] = "nil" \/ (cleaning = i /\ serve = "drop") => loop[i] \in Quiet

EndInv == EndTypes /\ Progress /\ CleanedInputs /\ InputsQuiet

LEMMA EndStarts == Init => EndInv
<1> SUFFICES ASSUME Init PROVE EndInv
  OBVIOUS
<1> USE DEF Init, BusInit
<1>1. EndTypes
  BY DEF EndTypes, LoopStates, ServeStates
<1>2. Progress
  BY SessionAssumption DEF Progress, Ending, Transports
<1>3. CleanedInputs
  BY DEF CleanedInputs, Quiet, Transports
<1>4. InputsQuiet
  BY DEF InputsQuiet
<1> QED
  BY <1>1, <1>2, <1>3, <1>4 DEF EndInv

(***************************************************************************)
(* A transport goroutine.                                                  *)
(***************************************************************************)
LEMMA LoopMoves ==
  ASSUME NEW x \in Transports, Loop(x)
  PROVE  /\ UNCHANGED <<busClosed, busPc, serve, cleaning, transport, ctxDone, stuck>>
         /\ \E to \in LoopStates :
              /\ loop' = [loop EXCEPT ![x] = to]
              /\ x \in Inputs /\ ctxDone /\ loop[x] \in Quiet => to \in Quiet
         /\ lateLoops' # lateLoops =>
              /\ busClosed /\ lateLoops' = lateLoops \union {x}
              /\ x \in Inputs => loop[x] \notin Quiet
<1> USE DEF Goes, Quiet, LoopStates
<1>1. UNCHANGED <<serve, cleaning, transport, ctxDone, stuck>>
  BY DEF Loop, serveVars, restVars
<1>2. CASE OpenLoop(x)
  BY <1>1, <1>2 DEF OpenLoop, busVars
<1>3. CASE x \in Inputs /\ InputLoop(x)
  <2>1. CASE CheckContext(x)
    BY <1>1, <2>1 DEF CheckContext, busVars
  <2>2. CASE \E p \in Packets : NextReturns(x, p)
    BY <1>1, <2>2 DEF NextReturns, busVars
  <2>3. CASE NextFails(x)
    BY <1>1, <2>3 DEF NextFails, Emit
  <2>4. CASE FilterInput(x)
    BY <1>1, <2>4 DEF FilterInput, Emit, busVars
  <2> QED
    BY <1>3, <2>1, <2>2, <2>3, <2>4 DEF InputLoop
<1>4. CASE x \in Outputs /\ OutputLoop(x)
  <2>1. x \notin Inputs
    BY <1>4, SessionAssumption
  <2>2. CASE SelectDone(x) \/ TakeTx(x) \/ StartSend(x) \/ EndSend(x)
    BY <1>1, <2>1, <2>2 DEF SelectDone, TakeTx, StartSend, EndSend, busVars
  <2>3. CASE FilterOutput(x)
    BY <1>1, <2>1, <2>3 DEF FilterOutput, Emit, busVars
  <2> QED
    BY <1>4, <2>2, <2>3 DEF OutputLoop
<1> QED
  BY <1>2, <1>3, <1>4 DEF Loop

LEMMA LoopKeeps ==
  ASSUME EndInv, NEW x \in Transports, Loop(x)
  PROVE  EndInv'
<1> USE DEF EndInv
<1>1. /\ UNCHANGED <<busClosed, busPc, serve, cleaning, transport, ctxDone, stuck>>
      /\ lateLoops' # lateLoops =>
              /\ busClosed /\ lateLoops' = lateLoops \union {x}
              /\ x \in Inputs => loop[x] \notin Quiet
  BY LoopMoves
<1>2. PICK to \in LoopStates :
        /\ loop' = [loop EXCEPT ![x] = to]
        /\ x \in Inputs /\ ctxDone /\ loop[x] \in Quiet => to \in Quiet
  BY LoopMoves
<1>3. EndTypes'
  BY <1>1, <1>2 DEF EndTypes
<1>4. Progress'
  BY <1>1 DEF Progress
<1>5. CleanedInputs'
  <2> SUFFICES ASSUME NEW i \in Inputs \ stuck,
                      transport[i] = "nil" \/ (cleaning = i /\ serve = "drop")
               PROVE  loop'[i] \in Quiet
    BY <1>1 DEF CleanedInputs
  <2>1. loop[i] \in Quiet /\ ctxDone
    BY DEF CleanedInputs, Progress, Ending
  <2> QED
    BY <1>2, <2>1 DEF EndTypes, Transports
<1>6. InputsQuiet'
  <2>1. CASE lateLoops' = lateLoops
    BY <1>1, <2>1 DEF InputsQuiet
  <2>2. CASE lateLoops' # lateLoops
    <3>1. x \in Inputs => transport[x] = "nil"
      BY <1>1, <2>2 DEF Progress
    <3>2. x \in Inputs => x \in stuck
      BY <1>1, <2>2, <3>1 DEF CleanedInputs
    <3> QED
      BY <1>1, <2>2, <3>2 DEF InputsQuiet
  <2> QED
    BY <2>1, <2>2
<1> QED
  BY <1>3, <1>4, <1>5, <1>6

(***************************************************************************)
(* The bus's workers, the application and the timer.                       *)
(***************************************************************************)
LEMMA BusWorkerKeeps ==
  ASSUME EndInv, NEW b \in BusWorkers, BusWorker(b)
  PROVE  EndInv'
<1> USE DEF EndInv
<1>1. UNCHANGED <<loop, lateLoops, serve, cleaning, transport, ctxDone, stuck>>
  BY DEF BusWorker, loopVars, serveVars
<1>2. /\ busClosed' = busClosed
      /\ \/ busPc' = busPc
         \/ \E to \in {"select", "dispatch", "route", "exited"} : busPc' = [busPc EXCEPT ![b] = to]
  <2>1. CASE TakeEvent(b) \/ LeaveBus(b)
    BY <2>1 DEF TakeEvent, LeaveBus
  <2>2. CASE Process(b) \/ Routed(b) \/ Handle(b)
    BY <2>2 DEF Process, Routed, Handle, Dispatched
  <2>3. CASE \E o \in Outputs : RouteTo(b, o)
    BY <2>3 DEF RouteTo, busVars
  <2> QED
    BY <2>1, <2>2, <2>3 DEF BusWorker
<1>3. EndTypes'
  BY <1>1, <1>2 DEF EndTypes
<1>4. Progress' /\ CleanedInputs' /\ InputsQuiet'
  BY <1>1, <1>2 DEF Progress, CleanedInputs, InputsQuiet
<1> QED
  BY <1>3, <1>4

LEMMA CallersKeep ==
  ASSUME EndInv,
         \/ \E p \in AppPackets : SendToOutput(p) \/ \E o \in Outputs : AppTrySend(p, o)
         \/ Close \/ TimerFires \/ TimerCloses \/ Notify \/ UNCHANGED vars
  PROVE  EndInv'
<1>1. /\ UNCHANGED <<loop, lateLoops, serve, cleaning, transport, stuck, busPc, busClosed>>
      /\ ctxDone => ctxDone'
  <2> USE DEF busVars, loopVars, serveVars, restVars
  <2>1. CASE \E p \in AppPackets : SendToOutput(p)
    BY <2>1 DEF SendToOutput
  <2>2. CASE \E p \in AppPackets, o \in Outputs : AppTrySend(p, o)
    BY <2>2 DEF AppTrySend
  <2>3. CASE Close \/ TimerCloses
    BY <2>3 DEF Close, TimerCloses, Cancel
  <2>4. CASE TimerFires
    BY <2>4 DEF TimerFires
  <2>5. CASE Notify
    BY <2>5 DEF Notify, NotifyServeStarting
  <2>6. CASE UNCHANGED vars
    BY <2>6 DEF vars
  <2> QED
    BY <2>1, <2>2, <2>3, <2>4, <2>5, <2>6
<1> QED
  BY <1>1 DEF EndInv, EndTypes, Progress, CleanedInputs, InputsQuiet

(***************************************************************************)
(* Serve.                                                                  *)
(***************************************************************************)
LEMMA ServeKeeps ==
  ASSUME EndInv, ServeStep
  PROVE  EndInv'
<1> USE DEF EndInv, At
<1>1. UNCHANGED <<ctxDone, stuck>>
  BY DEF ServeStep
<1>2. CASE ServeStarts
  <2>1. /\ serve = "idle" /\ serve' = "begin" /\ loop' = [x \in Transports |-> "spawned"]
        /\ UNCHANGED <<busPc, busClosed, cleaning, transport, lateLoops>>
    BY <1>2 DEF ServeStarts, busVars
  <2> QED
    BY <1>1, <2>1 DEF EndTypes, Progress, CleanedInputs, InputsQuiet,
                      LoopStates, ServeStates, Ending, Quiet, Transports
<1>3. CASE EmitBegin \/ EmitEnd
  <2>1. /\ \/ serve = "begin" /\ serve' = "running"
           \/ serve = "running" /\ serve' = "inputs" /\ ctxDone
        /\ UNCHANGED <<loop, busPc, busClosed, cleaning, transport, lateLoops>>
    BY <1>3 DEF EmitBegin, EmitEnd, loopVars
  <2> QED
    BY <1>1, <2>1 DEF EndTypes, Progress, CleanedInputs, InputsQuiet,
                      ServeStates, Ending
<1>4. ASSUME NEW x \in Transports, CleanupCloses(x)
      PROVE  EndInv'
  <2>1. /\ cleaning = Nothing /\ transport[x] = "open" /\ cleaning' = x /\ x # Nothing
        /\ serve = IF x \in Inputs THEN "inputs" ELSE "outputs"
        /\ serve' = IF Started(x) THEN "await" ELSE "drop"
        /\ transport' = [transport EXCEPT ![x] = "closed"]
        /\ UNCHANGED <<loop, busPc, busClosed, lateLoops>>
    BY <1>4, SessionAssumption DEF CleanupCloses, busVars, loopVars
  <2>2. EndTypes' /\ InputsQuiet'
    BY <1>1, <2>1 DEF EndTypes, ServeStates, InputsQuiet
  <2>3. Progress'
    BY <1>1, <2>1, SessionAssumption DEF Progress, Ending, EndTypes, Transports
  <2>4. CleanedInputs'
    BY <1>1, <2>1 DEF CleanedInputs, EndTypes, Started, Quiet, Transports
  <2> QED
    BY <2>2, <2>3, <2>4
<1>5. ASSUME NEW x \in Transports, AwaitLoop(x)
      PROVE  EndInv'
  <2>1. /\ cleaning = x /\ serve = "await" /\ serve' = "drop"
        /\ loop[x] = "exited" \/ x \in stuck
        /\ UNCHANGED <<loop, busPc, busClosed, lateLoops, cleaning, transport>>
    BY <1>5 DEF AwaitLoop, busVars, loopVars
  <2> QED
    BY <1>1, <2>1 DEF EndTypes, Progress, CleanedInputs, InputsQuiet,
                      ServeStates, Ending, Quiet
<1>6. ASSUME NEW x \in Transports, CleanupDrops(x)
      PROVE  EndInv'
  <2>1. /\ cleaning = x /\ serve = "drop" /\ cleaning' = Nothing /\ x # Nothing
        /\ serve' = IF x \in Inputs THEN "inputs" ELSE "outputs"
        /\ transport' = [transport EXCEPT ![x] = "nil"]
        /\ UNCHANGED <<loop, busPc, busClosed, lateLoops>>
    BY <1>6, SessionAssumption DEF CleanupDrops, busVars, loopVars
  <2>2. EndTypes' /\ InputsQuiet'
    BY <1>1, <2>1 DEF EndTypes, ServeStates, InputsQuiet
  <2>3. Progress'
    BY <1>1, <2>1, SessionAssumption DEF Progress, Ending, EndTypes, Transports
  <2>4. CleanedInputs'
    BY <1>1, <2>1 DEF CleanedInputs, EndTypes, Transports
  <2> QED
    BY <2>2, <2>3, <2>4
<1>7. CASE InputsCleaned
  <2>1. /\ serve = "inputs" /\ serve' = "outputs" /\ cleaning = Nothing
        /\ \A i \in Inputs : transport[i] = "nil"
        /\ UNCHANGED <<loop, busPc, busClosed, lateLoops, cleaning, transport>>
    BY <1>7 DEF InputsCleaned, busVars, loopVars
  <2> QED
    BY <1>1, <2>1 DEF EndTypes, Progress, CleanedInputs, InputsQuiet,
                      ServeStates, Ending
<1>8. CASE CloseBus
  <2>1. /\ serve = "outputs" /\ serve' = "bus" /\ cleaning = Nothing
        /\ UNCHANGED <<loop, busPc, lateLoops, cleaning, transport>>
    BY <1>8 DEF CloseBus, CloseQueue, loopVars
  <2> QED
    BY <1>1, <2>1 DEF EndTypes, Progress, CleanedInputs, InputsQuiet,
                      ServeStates, Ending
<1>9. CASE ServeReturns
  <2>1. /\ serve = "bus" /\ serve' = "done" /\ \A b \in BusWorkers : busPc[b] = "exited"
        /\ UNCHANGED <<loop, busPc, busClosed, lateLoops, cleaning, transport>>
    BY <1>9 DEF ServeReturns, WorkersGone, busVars, loopVars
  <2> QED
    BY <1>1, <2>1 DEF EndTypes, Progress, CleanedInputs, InputsQuiet,
                      ServeStates, Ending
<1> QED
  BY <1>2, <1>3, <1>4, <1>5, <1>6, <1>7, <1>8, <1>9 DEF ServeStep

LEMMA EndInvariant == Spec => []EndInv
<1>1. EndInv /\ [Next]_vars => EndInv'
  BY LoopKeeps, BusWorkerKeeps, CallersKeep, ServeKeeps DEF Next
<1> QED
  BY <1>1, EndStarts, PTL DEF Spec

-----------------------------------------------------------------------------
(***************************************************************************)
(* NoInputAfterBus: the loop of an input that honours its Close publishes  *)
(* nothing after cleanup has closed the bus.                               *)
(***************************************************************************)
THEOREM NoInputAfterBus == Spec => []InputsQuiet
BY EndInvariant, PTL DEF EndInv

(***************************************************************************)
(* SocketIsFree: after WaitServeShutdown, an input transport that honours  *)
(* its Close has no reader any more, even if its goroutine was so late     *)
(* that cleanup did not wait for it.                                       *)
(***************************************************************************)
THEOREM SocketIsFree == Spec => []ReadersReleased
<1>1. EndInv => ReadersReleased
  BY DEF EndInv, Progress, CleanedInputs, Quiet, ReadersReleased, WaitServeShutdown
<1> QED
  BY <1>1, EndInvariant, PTL
-----------------------------------------------------------------------------
(***************************************************************************)
(* The way of a packet.  What the queues, the loops, the workers and the   *)
(* application may hold; a step never brings more copies of a packet than  *)
(* there were, unless it is the first one to bring the packet in.          *)
(***************************************************************************)
AllPackets == Packets \union AppPackets
Carriable == AllPackets \union {Nothing}
PacketEvents == {PacketEvent(p) : p \in Carriable}
BusEvents == PacketEvents \union {StateEvent("begin"), StateEvent("end"), StateEvent("hangup"), ErrorEvent}

FlowTyped ==
  /\ MediaTypeOK
  /\ busQueue \in Seq(BusEvents)
  /\ busEvent \in [BusWorkers -> BusEvents \union {NoEvent}]
  /\ \A b \in BusWorkers : /\ busPc[b] = "dispatch" => busEvent[b] \in BusEvents
                           /\ busPc[b] = "route" => busEvent[b] \in PacketEvents
  /\ txqueue \in [Outputs -> Seq(Carriable)]
  /\ sent \in [Outputs -> SUBSET Carriable]
  /\ appToSend \subseteq AppPackets \X Outputs
  /\ received \subseteq Packets /\ appSent \subseteq AppPackets

\* A packet that has not come in yet is nowhere.
Unseen == \A o \in Outputs :
  /\ \A p \in Packets \ received : Copies(o, p) = 0
  /\ \A p \in AppPackets \ appSent : Copies(o, p) = 0

PacketsInv == FlowTyped /\ OneCopy /\ Unseen

One(holds) == IF holds THEN 1 ELSE 0
Carriers(o, p) == {x \in Inputs \union {o} : carried[x] = p}
Holds(b, o, p) == busEvent[b] = PacketEvent(p) /\ (busPc[b] = "route" => o \in toSend[b])
Holders(o, p) == {b \in BusWorkers : Holds(b, o, p)}

InBus(p) == Cardinality(Standing(busQueue, PacketEvent(p)))
InTx(o, p) == Cardinality(Standing(txqueue[o], p))

LEMMA CopiesCounted ==
  ASSUME NEW o, NEW p
  PROVE  Copies(o, p) = InBus(p) + InTx(o, p) + Cardinality(Carriers(o, p)) + Cardinality(Holders(o, p))
                        + One(p \in sent[o]) + One(<<p, o>> \in appToSend)
BY DEF Copies, InBus, InTx, Carriers, Holders, Holds, One, Positions, Standing

LEMMA CopiesCountedNext ==
  ASSUME NEW o, NEW p
  PROVE  Copies(o, p)' = InBus(p)' + InTx(o, p)' + Cardinality(Carriers(o, p)') + Cardinality(Holders(o, p)')
                         + One(p \in sent'[o]) + One(<<p, o>> \in appToSend')
BY DEF Copies, InBus, InTx, Carriers, Holders, Holds, One, Positions, Standing

-----------------------------------------------------------------------------
\* The counts are numbers.
LEMMA CountsAreNumbers ==
  ASSUME FlowTyped, NEW o \in Outputs, NEW p
  PROVE  /\ InBus(p) \in Nat /\ InTx(o, p) \in Nat
         /\ IsFiniteSet(Carriers(o, p)) /\ Cardinality(Carriers(o, p)) \in Nat
         /\ IsFiniteSet(Holders(o, p)) /\ Cardinality(Holders(o, p)) \in Nat
<1>1. InBus(p) \in Nat /\ InTx(o, p) \in Nat
  BY StandingIsFinite DEF FlowTyped, InBus, InTx
<1>2. Carriers(o, p) \subseteq Transports /\ IsFiniteSet(Transports)
  BY SessionAssumption DEF Carriers, Transports
<1>3. Holders(o, p) \subseteq BusWorkers /\ IsFiniteSet(BusWorkers)
  BY BusAssumption DEF Holders
<1> QED
  BY <1>1, <1>2, <1>3, FS_Subset, FS_CardinalityType

\* A goroutine takes or gives a packet.
LEMMA CarrierChanges ==
  ASSUME FlowTyped, NEW x \in Transports,
         \A y \in Transports \ {x} : carried'[y] = carried[y],
         NEW o \in Outputs, NEW p
  PROVE  /\ Cardinality(Carriers(o, p)') \in Nat
         /\ Cardinality(Carriers(o, p)') + One(x \in Inputs \union {o} /\ carried[x] = p)
              = Cardinality(Carriers(o, p)) + One(x \in Inputs \union {o} /\ carried'[x] = p)
<1>1. \A y : y # x => (y \in Carriers(o, p)' <=> y \in Carriers(o, p))
  BY DEF Carriers, Transports
<1>2. x \in Carriers(o, p)' <=> x \in Inputs \union {o} /\ carried'[x] = p
  BY DEF Carriers
<1>3. x \in Carriers(o, p) <=> x \in Inputs \union {o} /\ carried[x] = p
  BY DEF Carriers
<1>4. IsFiniteSet(Carriers(o, p))
  BY CountsAreNumbers
<1>5. /\ Cardinality(Carriers(o, p)') \in Nat
      /\ Cardinality(Carriers(o, p)') + (IF x \in Carriers(o, p) THEN 1 ELSE 0)
           = Cardinality(Carriers(o, p)) + (IF x \in Carriers(o, p)' THEN 1 ELSE 0)
  BY <1>1, <1>4, CountChanges
<1> QED
  BY <1>2, <1>3, <1>5 DEF One

\* A worker takes an event, routes it or is through with it.
LEMMA HolderChanges ==
  ASSUME FlowTyped, NEW b \in BusWorkers,
         \A c \in BusWorkers \ {b} : /\ busEvent'[c] = busEvent[c] /\ busPc'[c] = busPc[c]
                                     /\ toSend'[c] = toSend[c],
         NEW o \in Outputs, NEW p
  PROVE  /\ Cardinality(Holders(o, p)') \in Nat
         /\ Cardinality(Holders(o, p)') + One(Holds(b, o, p))
              = Cardinality(Holders(o, p)) + One(Holds(b, o, p)')
<1>1. \A c : c # b => (c \in Holders(o, p)' <=> c \in Holders(o, p))
  BY DEF Holders, Holds
<1>2. (b \in Holders(o, p)' <=> Holds(b, o, p)') /\ (b \in Holders(o, p) <=> Holds(b, o, p))
  BY DEF Holders
<1>3. IsFiniteSet(Holders(o, p))
  BY CountsAreNumbers
<1>4. /\ Cardinality(Holders(o, p)') \in Nat
      /\ Cardinality(Holders(o, p)') + (IF b \in Holders(o, p) THEN 1 ELSE 0)
           = Cardinality(Holders(o, p)) + (IF b \in Holders(o, p)' THEN 1 ELSE 0)
  BY <1>1, <1>3, CountChanges
<1> QED
  BY <1>2, <1>4 DEF One

\* An event comes onto the bus, unless the bus is full or closed.
LEMMA Published ==
  ASSUME FlowTyped, NEW e \in BusEvents, Publish(e), NEW p
  PROVE  /\ busQueue' \in Seq(BusEvents) /\ Len(busQueue') <= BusSize
         /\ InBus(p)' \in Nat /\ InBus(p)' <= InBus(p) + One(e = PacketEvent(p))
<1>1. busQueue \in Seq(BusEvents) /\ Len(busQueue) \in Nat /\ Len(busQueue) <= BusSize /\ BusSize \in Nat
  BY BusAssumption, LenProperties DEF FlowTyped, MediaTypeOK
<1>2. InBus(p) \in Nat
  BY <1>1, StandingIsFinite DEF InBus
<1>3. CASE busQueue' = busQueue
  BY <1>1, <1>2, <1>3 DEF InBus, One
<1>4. CASE busQueue' = Append(busQueue, e) /\ ~(Len(busQueue) >= BusSize)
  <2>1. busQueue' \in Seq(BusEvents) /\ Len(busQueue') = Len(busQueue) + 1
    BY <1>1, <1>4, AppendProperties
  <2>2. InBus(p)' = InBus(p) + (IF e = PacketEvent(p) THEN 1 ELSE 0)
    BY <1>1, <1>4, StandingAppended DEF InBus
  <2> QED
    BY <1>1, <1>2, <1>4, <2>1, <2>2 DEF One
<1> QED
  BY <1>3, <1>4 DEF Publish

\* What is reported is no packet.
LEMMA ReportsAreNoPackets ==
  ASSUME NEW p
  PROVE  /\ ErrorEvent \in BusEvents /\ ErrorEvent # PacketEvent(p)
         /\ \A s \in {"begin", "end", "hangup"} : StateEvent(s) \in BusEvents /\ StateEvent(s) # PacketEvent(p)
         /\ \A q \in Carriable : PacketEvent(q) \in BusEvents /\ (PacketEvent(q) = PacketEvent(p) <=> q = p)
         /\ p \in AllPackets => NoEvent # PacketEvent(p) /\ p # Nothing
<1>1. ErrorEvent # PacketEvent(p) /\ \A s : StateEvent(s) # PacketEvent(p)
  BY DEF ErrorEvent, StateEvent, PacketEvent
<1>2. \A q : PacketEvent(q) = PacketEvent(p) <=> q = p
  BY DEF PacketEvent
<1>3. p \in AllPackets => NoEvent # PacketEvent(p) /\ p # Nothing
  BY NoEventAssumption, SessionAssumption DEF AllPackets
<1> QED
  BY <1>1, <1>2, <1>3 DEF BusEvents, PacketEvents
-----------------------------------------------------------------------------
(***************************************************************************)
(* What a step does to the copies of a packet.                             *)
(***************************************************************************)
NoMore == \A o \in Outputs, p \in AllPackets : Copies(o, p)' \in Nat /\ Copies(o, p)' <= Copies(o, p)

\* A step that touches what is carried and, perhaps, the bus: what comes onto
\* the bus is what was carried, or no packet.
LEMMA CarriedGoes ==
  ASSUME FlowTyped, NEW x \in Transports, NEW q \in Carriable, carried' = [carried EXCEPT ![x] = q],
         q = carried[x] \/ q = Nothing,
         \/ UNCHANGED busQueue
         \/ \E e \in {ErrorEvent, StateEvent("hangup")} : Publish(e)
         \/ x \in Inputs /\ q = Nothing /\ Publish(PacketEvent(carried[x])),
         UNCHANGED <<busPc, busEvent, toSend, txqueue, sent, appToSend>>
  PROVE  NoMore /\ busQueue' \in Seq(BusEvents) /\ Len(busQueue') <= BusSize
<1>1. carried[x] \in Carriable
  BY DEF FlowTyped, MediaTypeOK, Carriable, AllPackets
<1>2. busQueue' \in Seq(BusEvents) /\ Len(busQueue') <= BusSize
  <2>1. CASE UNCHANGED busQueue
    BY <2>1 DEF FlowTyped, MediaTypeOK
  <2>2. CASE \E e \in {ErrorEvent, StateEvent("hangup")} : Publish(e)
    BY <2>2, Published, ReportsAreNoPackets
  <2>3. CASE Publish(PacketEvent(carried[x]))
    BY <1>1, <2>3, Published, ReportsAreNoPackets
  <2> QED
    BY <2>1, <2>2, <2>3
<1>3. ASSUME NEW o \in Outputs, NEW p \in AllPackets
      PROVE  Copies(o, p)' \in Nat /\ Copies(o, p)' <= Copies(o, p)
  <2> DEFINE c == Cardinality(Carriers(o, p))  d == Cardinality(Carriers(o, p)')
             h == Cardinality(Holders(o, p))
             t == InTx(o, p)  m == InBus(p)  k == InBus(p)'
             rest == One(p \in sent[o]) + One(<<p, o>> \in appToSend)
  <2>1. /\ m \in Nat /\ t \in Nat /\ c \in Nat /\ h \in Nat
        /\ Copies(o, p) = m + t + c + h + rest /\ rest \in Nat
    <3>1. Copies(o, p) = m + t + c + h + One(p \in sent[o]) + One(<<p, o>> \in appToSend)
      BY CopiesCounted
    <3>2. One(p \in sent[o]) \in Nat /\ One(<<p, o>> \in appToSend) \in Nat
      BY DEF One
    <3>3. m \in Nat /\ t \in Nat /\ c \in Nat /\ h \in Nat
      BY CountsAreNumbers
    <3> HIDE DEF c, h, t, m
    <3> QED
      BY <3>1, <3>2, <3>3
  <2>2. /\ d \in Nat
        /\ d + One(x \in Inputs \union {o} /\ carried[x] = p) = c + One(x \in Inputs \union {o} /\ q = p)
    <3>1. \A y \in Transports \ {x} : carried'[y] = carried[y]
      OBVIOUS
    <3>2. /\ d \in Nat
          /\ d + One(x \in Inputs \union {o} /\ carried[x] = p)
               = c + One(x \in Inputs \union {o} /\ carried'[x] = p)
      BY <3>1, CarrierChanges
    <3>3. carried'[x] = q
      BY DEF FlowTyped, MediaTypeOK
    <3> QED
      BY <3>2, <3>3
  <2>3. Copies(o, p)' = k + t + d + h + rest
    <3>1. Holders(o, p)' = Holders(o, p) /\ InTx(o, p)' = InTx(o, p)
      BY DEF Holders, Holds, InTx
    <3>2. One(p \in sent[o]) \in Nat /\ One(<<p, o>> \in appToSend) \in Nat
      BY DEF One
    <3>3. Copies(o, p)' = k + t + d + h + One(p \in sent[o]) + One(<<p, o>> \in appToSend)
      BY <3>1, CopiesCountedNext
    <3>4. k \in Int /\ d \in Nat
      BY <1>2, <2>2, StandingIsFinite DEF InBus
    <3> HIDE DEF c, h, t, m, k, d
    <3> QED
      BY <2>1, <3>2, <3>3, <3>4
  <2>4. /\ k \in Nat
        /\ k <= m \/ (x \in Inputs /\ carried[x] = p /\ q = Nothing /\ k <= m + 1)
    <3>1. CASE UNCHANGED busQueue
      BY <2>1, <3>1 DEF InBus
    <3>2. CASE \E e \in {ErrorEvent, StateEvent("hangup")} : Publish(e)
      BY <2>1, <3>2, Published, ReportsAreNoPackets DEF One
    <3>3. CASE x \in Inputs /\ q = Nothing /\ Publish(PacketEvent(carried[x]))
      BY <1>1, <2>1, <3>3, Published, ReportsAreNoPackets DEF One
    <3> QED
      BY <3>1, <3>2, <3>3
  <2>5. p # Nothing
    BY ReportsAreNoPackets
  <2> HIDE DEF c, d, h, t, m, k, rest
  <2>6. k + d \in Nat /\ k + d <= m + c
    BY <2>1, <2>2, <2>4, <2>5 DEF One
  <2> QED
    BY <2>1, <2>2, <2>3, <2>4, <2>6
<1> QED
  BY <1>2, <1>3 DEF NoMore
\* An output loop takes the first packet of its queue.
LEMMA TakeTxFlows ==
  ASSUME FlowTyped, NEW x \in Outputs, TakeTx(x), UNCHANGED <<busPc, busEvent, toSend, appToSend>>
  PROVE  NoMore
<1> SUFFICES ASSUME NEW o \in Outputs, NEW p \in AllPackets
             PROVE  Copies(o, p)' \in Nat /\ Copies(o, p)' <= Copies(o, p)
  BY DEF NoMore
<1> DEFINE q == Head(txqueue[x])
           c == Cardinality(Carriers(o, p))  d == Cardinality(Carriers(o, p)')
           h == Cardinality(Holders(o, p))   m == InBus(p)
           t == InTx(o, p)                   u == InTx(o, p)'
           rest == One(p \in sent[o]) + One(<<p, o>> \in appToSend)
<1>1. /\ txqueue[x] # <<>> /\ txqueue' = [txqueue EXCEPT ![x] = Tail(@)]
      /\ carried' = [carried EXCEPT ![x] = q] /\ UNCHANGED <<busQueue, sent>>
      /\ x \in Transports /\ x \notin Inputs
  BY SessionAssumption DEF TakeTx, Transports, busVars
<1>2. rest \in Nat
  BY DEF One
<1>3. m \in Nat /\ t \in Nat /\ c \in Nat /\ h \in Nat
  BY CountsAreNumbers
<1>4. Copies(o, p) = m + t + c + h + One(p \in sent[o]) + One(<<p, o>> \in appToSend)
  BY CopiesCounted
<1>5. /\ d \in Nat
      /\ d + One(x \in Inputs \union {o} /\ carried[x] = p) = c + One(x \in Inputs \union {o} /\ carried'[x] = p)
  <2>1. \A y \in Transports \ {x} : carried'[y] = carried[y]
    BY <1>1
  <2> QED
    BY <1>1, <2>1, CarrierChanges
<1>6. carried'[x] = q
  BY <1>1 DEF FlowTyped, MediaTypeOK
<1>7. u \in Nat /\ t = u + One(x = o /\ q = p)
  <2>1. CASE x = o
    <3>1. txqueue[x] \in Seq(Carriable) /\ txqueue'[x] = Tail(txqueue[x])
      BY <1>1 DEF FlowTyped
    <3>2. /\ Cardinality(Standing(Tail(txqueue[x]), p)) \in Nat
          /\ Cardinality(Standing(txqueue[x], p))
               = Cardinality(Standing(Tail(txqueue[x]), p)) + (IF q = p THEN 1 ELSE 0)
      BY <1>1, <3>1, StandingTaken
    <3> QED
      BY <2>1, <3>1, <3>2 DEF InTx, One
  <2>2. CASE x # o
    <3>1. txqueue'[o] = txqueue[o]
      BY <1>1, <2>2
    <3> QED
      BY <1>3, <2>2, <3>1 DEF InTx, One
  <2> QED
    BY <2>1, <2>2
<1>8. Copies(o, p)' = m + u + d + h + One(p \in sent[o]) + One(<<p, o>> \in appToSend)
  <2>1. Holders(o, p)' = Holders(o, p) /\ InBus(p)' = InBus(p) /\ sent' = sent /\ appToSend' = appToSend
    BY <1>1 DEF Holders, Holds, InBus
  <2> QED
    BY <2>1, CopiesCountedNext
<1>9. d <= c + One(x = o /\ q = p)
  BY <1>1, <1>3, <1>5, <1>6 DEF One
<1> HIDE DEF c, d, h, m, t, u, q
<1>10. One(p \in sent[o]) \in Nat /\ One(<<p, o>> \in appToSend) \in Nat /\ One(x = o /\ q = p) \in Nat
  BY DEF One
<1> HIDE DEF rest
<1> QED
  BY <1>3, <1>4, <1>5, <1>7, <1>8, <1>9, <1>10

\* An output's Send comes back.
LEMMA EndSendFlows ==
  ASSUME FlowTyped, NEW x \in Outputs, EndSend(x), UNCHANGED <<busPc, busEvent, toSend, appToSend>>
  PROVE  NoMore
<1> SUFFICES ASSUME NEW o \in Outputs, NEW p \in AllPackets
             PROVE  Copies(o, p)' \in Nat /\ Copies(o, p)' <= Copies(o, p)
  BY DEF NoMore
<1> DEFINE c == Cardinality(Carriers(o, p))  d == Cardinality(Carriers(o, p)')
           h == Cardinality(Holders(o, p))   m == InBus(p)  t == InTx(o, p)
           s == One(p \in sent[o])           r == One(p \in sent'[o])
           a == One(<<p, o>> \in appToSend)  k == One(x = o /\ carried[x] = p)
<1>1. /\ carried' = [carried EXCEPT ![x] = Nothing] /\ UNCHANGED <<busQueue, txqueue>>
      /\ sent' = [sent EXCEPT ![x] = @ \union {carried[x]}]
      /\ x \in Transports /\ x \notin Inputs
  BY SessionAssumption DEF EndSend, Transports, busVars
<1>2. m \in Nat /\ t \in Nat /\ c \in Nat /\ h \in Nat
  BY CountsAreNumbers
<1>3. Copies(o, p) = m + t + c + h + s + a
  BY CopiesCounted
<1>4. /\ d \in Nat
      /\ d + One(x \in Inputs \union {o} /\ carried[x] = p) = c + One(x \in Inputs \union {o} /\ carried'[x] = p)
  <2>1. \A y \in Transports \ {x} : carried'[y] = carried[y]
    BY <1>1
  <2> QED
    BY <1>1, <2>1, CarrierChanges
<1>5. carried'[x] = Nothing /\ p # Nothing
  BY <1>1, ReportsAreNoPackets DEF FlowTyped, MediaTypeOK
<1>6. s \in Nat /\ r \in Nat /\ a \in Nat /\ k \in Nat /\ r <= s + k
  <2>1. p \in sent'[o] => p \in sent[o] \/ (x = o /\ carried[x] = p)
    BY <1>1 DEF FlowTyped
  <2> QED
    BY <2>1 DEF One
<1>7. d + k = c
  BY <1>1, <1>2, <1>4, <1>5 DEF One
<1>8. Copies(o, p)' = m + t + d + h + r + a
  <2>1. /\ Holders(o, p)' = Holders(o, p) /\ InBus(p)' = InBus(p) /\ InTx(o, p)' = InTx(o, p)
        /\ appToSend' = appToSend
    BY <1>1 DEF Holders, Holds, InBus, InTx
  <2> QED
    BY <2>1, CopiesCountedNext
<1> HIDE DEF c, d, h, m, t, s, r, a, k
<1> QED
  BY <1>2, <1>3, <1>4, <1>6, <1>7, <1>8

\* A packet comes in for the first time.
LEMMA NextFlows ==
  ASSUME FlowTyped, NEW x \in Inputs, NEW n \in Packets, carried' = [carried EXCEPT ![x] = n],
         UNCHANGED <<busQueue, busPc, busEvent, toSend, txqueue, sent, appToSend>>
  PROVE  \A o \in Outputs, p \in AllPackets : Copies(o, p)' \in Nat /\ Copies(o, p)' <= Copies(o, p) + One(p = n)
<1> SUFFICES ASSUME NEW o \in Outputs, NEW p \in AllPackets
             PROVE  Copies(o, p)' \in Nat /\ Copies(o, p)' <= Copies(o, p) + One(p = n)
  OBVIOUS
<1> DEFINE c == Cardinality(Carriers(o, p))  d == Cardinality(Carriers(o, p)')
           h == Cardinality(Holders(o, p))   m == InBus(p)  t == InTx(o, p)
           s == One(p \in sent[o])           a == One(<<p, o>> \in appToSend)
<1>1. m \in Nat /\ t \in Nat /\ c \in Nat /\ h \in Nat
  BY CountsAreNumbers
<1>2. Copies(o, p) = m + t + c + h + s + a
  BY CopiesCounted
<1>3. /\ d \in Nat
      /\ d + One(x \in Inputs \union {o} /\ carried[x] = p) = c + One(x \in Inputs \union {o} /\ carried'[x] = p)
  <2>1. x \in Transports /\ \A y \in Transports \ {x} : carried'[y] = carried[y]
    BY DEF Transports
  <2> QED
    BY <2>1, CarrierChanges
<1>4. carried'[x] = n
  BY DEF FlowTyped, MediaTypeOK, Transports
<1>5. s \in Nat /\ a \in Nat /\ One(p = n) \in Nat
  BY DEF One
<1>6. d <= c + One(p = n)
  BY <1>1, <1>3, <1>4 DEF One
<1>7. Copies(o, p)' = m + t + d + h + s + a
  <2>1. /\ Holders(o, p)' = Holders(o, p) /\ InBus(p)' = InBus(p) /\ InTx(o, p)' = InTx(o, p)
        /\ appToSend' = appToSend /\ sent' = sent
    BY DEF Holders, Holds, InBus, InTx
  <2> QED
    BY <2>1, CopiesCountedNext
<1> HIDE DEF c, d, h, m, t, s, a
<1> QED
  BY <1>1, <1>2, <1>3, <1>5, <1>6, <1>7
-----------------------------------------------------------------------------
(***************************************************************************)
(* The steps.                                                              *)
(***************************************************************************)
Fresh(p) == p \in received' \ received \/ p \in appSent' \ appSent

Flows ==
  /\ FlowTyped' /\ received \subseteq received' /\ appSent \subseteq appSent'
  /\ \A o \in Outputs, p \in AllPackets :
       /\ Copies(o, p)' \in Nat
       /\ Copies(o, p)' <= Copies(o, p) \/ (Fresh(p) /\ Copies(o, p)' <= Copies(o, p) + 1)

LEMMA CopiesAreNumbers ==
  ASSUME FlowTyped, NEW o \in Outputs, NEW p
  PROVE  Copies(o, p) \in Nat
<1>1. /\ InBus(p) \in Nat /\ InTx(o, p) \in Nat
      /\ Cardinality(Carriers(o, p)) \in Nat /\ Cardinality(Holders(o, p)) \in Nat
  BY CountsAreNumbers
<1>2. One(p \in sent[o]) \in Nat /\ One(<<p, o>> \in appToSend) \in Nat
  BY DEF One
<1> QED
  BY <1>1, <1>2, CopiesCounted

LEMMA NothingFlows ==
  ASSUME FlowTyped, UNCHANGED <<busQueue, busPc, busEvent, toSend, carried, txqueue, sent, appToSend>>
  PROVE  NoMore
<1> SUFFICES ASSUME NEW o \in Outputs, NEW p \in AllPackets
             PROVE  Copies(o, p)' \in Nat /\ Copies(o, p)' <= Copies(o, p)
  BY DEF NoMore
<1>1. Copies(o, p)' = Copies(o, p)
  BY DEF Copies, Positions
<1>2. Copies(o, p) \in Nat
  BY CopiesAreNumbers
<1> QED
  BY <1>1, <1>2

LEMMA LoopTypes ==
  ASSUME FlowTyped, NEW x \in Transports, Loop(x),
         busQueue' \in Seq(BusEvents), Len(busQueue') <= BusSize,
         carried' \in [Transports -> Carriable],
         txqueue' \in [Outputs -> Seq(Carriable)], \A o \in Outputs : Len(txqueue'[o]) <= TxSize,
         sent' \in [Outputs -> SUBSET Carriable], received' \subseteq Packets
  PROVE  FlowTyped'
<1>1. UNCHANGED <<busPc, busEvent, busDone, toSend, transport, serve, timer, ctxDone, appToSend, appSent>>
  <2>1. UNCHANGED <<toSend, transport, serve, timer, ctxDone, appToSend, appSent>>
    BY DEF Loop, sendVars, serveVars, restVars
  <2>2. UNCHANGED <<busPc, busEvent, busDone>>
    <3>1. CASE OpenLoop(x) \/ InputLoop(x)
      BY <3>1 DEF OpenLoop, InputLoop, CheckContext, NextReturns, NextFails, FilterInput, Emit, busVars
    <3>2. CASE OutputLoop(x)
      BY <3>2 DEF OutputLoop, SelectDone, TakeTx, FilterOutput, StartSend, EndSend, Emit, busVars
    <3> QED
      BY <3>1, <3>2 DEF Loop
  <2> QED
    BY <2>1, <2>2
<1>2. PICK to \in LoopStates : loop' = [loop EXCEPT ![x] = to]
  BY LoopMoves
<1>3. loop' \in [Transports -> LoopStates]
  BY <1>2 DEF FlowTyped, MediaTypeOK, LoopStates
<1> QED
  BY <1>1, <1>3 DEF FlowTyped, MediaTypeOK, LoopStates, Carriable, AllPackets

LEMMA LoopFlows ==
  ASSUME FlowTyped, NEW x \in Transports, Loop(x)
  PROVE  Flows
<1> USE DEF Goes
<1>1. /\ UNCHANGED <<busPc, busEvent, toSend, appToSend, appSent>>
      /\ x \in Inputs => x \notin Outputs
  <2>1. UNCHANGED <<toSend, appToSend, appSent>>
    BY DEF Loop, sendVars
  <2>2. UNCHANGED <<busPc, busEvent>>
    <3>1. CASE OpenLoop(x) \/ InputLoop(x)
      BY <3>1 DEF OpenLoop, InputLoop, CheckContext, NextReturns, NextFails, FilterInput, Emit, busVars
    <3>2. CASE OutputLoop(x)
      BY <3>2 DEF OutputLoop, SelectDone, TakeTx, FilterOutput, StartSend, EndSend, Emit, busVars
    <3> QED
      BY <3>1, <3>2 DEF Loop
  <2> QED
    BY <2>1, <2>2, SessionAssumption
<1>2. /\ busQueue \in Seq(BusEvents) /\ Len(busQueue) <= BusSize
      /\ carried \in [Transports -> Carriable]
      /\ txqueue \in [Outputs -> Seq(Carriable)] /\ \A o \in Outputs : Len(txqueue[o]) <= TxSize
      /\ sent \in [Outputs -> SUBSET Carriable] /\ received \subseteq Packets
  BY DEF FlowTyped, MediaTypeOK, Carriable, AllPackets
<1>3. Nothing \in Carriable /\ Packets \subseteq Carriable
  BY DEF Carriable, AllPackets
<1>4. ASSUME NEW q \in Carriable, carried' = [carried EXCEPT ![x] = q], q = carried[x] \/ q = Nothing,
             \/ UNCHANGED busQueue
             \/ \E e \in {ErrorEvent, StateEvent("hangup")} : Publish(e)
             \/ x \in Inputs /\ q = Nothing /\ Publish(PacketEvent(carried[x])),
             UNCHANGED <<txqueue, sent, received>>
      PROVE  Flows
  <2>1. NoMore /\ busQueue' \in Seq(BusEvents) /\ Len(busQueue') <= BusSize
    BY <1>1, <1>4, CarriedGoes
  <2>2. FlowTyped'
    BY <1>2, <1>4, <2>1, LoopTypes
  <2> QED
    BY <1>1, <1>4, <2>1, <2>2 DEF Flows, NoMore
<1>5. carried[x] \in Carriable /\ carried = [carried EXCEPT ![x] = carried[x]]
  BY <1>2
<1>6. CASE OpenLoop(x) /\ UNCHANGED outVars
  BY <1>4, <1>5, <1>6 DEF OpenLoop, busVars, outVars
<1>7. CASE x \in Inputs /\ InputLoop(x)
  <2>1. UNCHANGED <<txqueue, sent>>
    BY <1>7 DEF InputLoop, outVars
  <2>2. CASE CheckContext(x)
    BY <1>4, <1>5, <2>1, <2>2 DEF CheckContext, busVars
  <2>3. ASSUME NEW n \in Packets, NextReturns(x, n) PROVE Flows
    <3>1. CASE UNCHANGED <<carried, received>>
      BY <1>4, <1>5, <2>1, <2>3, <3>1 DEF NextReturns, busVars
    <3>2. CASE n \notin received /\ carried' = [carried EXCEPT ![x] = n] /\ received' = received \union {n}
      <4>1. UNCHANGED busQueue
        BY <2>3 DEF NextReturns, busVars
      <4>2. \A o \in Outputs, p \in AllPackets : Copies(o, p)' \in Nat /\ Copies(o, p)' <= Copies(o, p) + One(p = n)
        BY <1>1, <1>7, <2>1, <3>2, <4>1, NextFlows
      <4>3. FlowTyped'
        BY <1>2, <1>3, <2>1, <3>2, <4>1, LoopTypes
      <4>4. ASSUME NEW o \in Outputs, NEW p \in AllPackets
            PROVE  /\ Copies(o, p)' \in Nat
                   /\ Copies(o, p)' <= Copies(o, p) \/ (Fresh(p) /\ Copies(o, p)' <= Copies(o, p) + 1)
        <5>1. CASE p = n
          BY <3>2, <4>2, <5>1 DEF Fresh, One
        <5>2. CASE p # n
          <6>1. Copies(o, p)' \in Nat /\ Copies(o, p)' <= Copies(o, p) + 0
            BY <4>2, <5>2 DEF One
          <6>2. Copies(o, p) \in Nat
            BY CopiesAreNumbers
          <6> QED
            BY <6>1, <6>2
        <5> QED
          BY <5>1, <5>2
      <4> QED
        BY <1>1, <3>2, <4>3, <4>4 DEF Flows
    <3> QED
      BY <2>3, <3>1, <3>2 DEF NextReturns
  <2>4. CASE NextFails(x)
    <3>1. \E e \in {ErrorEvent, StateEvent("hangup")} : Publish(e)
      BY <2>4 DEF NextFails, Emit
    <3>2. UNCHANGED <<carried, received>>
      BY <2>4 DEF NextFails
    <3> QED
      BY <1>4, <1>5, <2>1, <3>1, <3>2
  <2>5. CASE FilterInput(x)
    <3>1. carried' = [carried EXCEPT ![x] = Nothing] /\ UNCHANGED received
      BY <2>5 DEF FilterInput
    <3>2. UNCHANGED busQueue \/ Publish(ErrorEvent) \/ Publish(PacketEvent(carried[x]))
      BY <2>5 DEF FilterInput, Emit, busVars
    <3> QED
      BY <1>3, <1>4, <1>7, <2>1, <3>1, <3>2
  <2> QED
    BY <1>7, <2>2, <2>3, <2>4, <2>5 DEF InputLoop
<1>8. CASE x \in Outputs /\ OutputLoop(x)
  <2>1. CASE SelectDone(x)
    BY <1>4, <1>5, <2>1 DEF SelectDone, busVars, outVars
  <2>2. CASE TakeTx(x)
    <3>1. NoMore
      BY <1>1, <1>8, <2>2, TakeTxFlows
    <3>2. /\ txqueue[x] # <<>> /\ txqueue' = [txqueue EXCEPT ![x] = Tail(@)]
          /\ carried' = [carried EXCEPT ![x] = Head(txqueue[x])] /\ UNCHANGED <<busQueue, sent, received>>
      BY <2>2 DEF TakeTx, busVars
    <3>3. /\ Head(txqueue[x]) \in Carriable /\ Tail(txqueue[x]) \in Seq(Carriable)
          /\ Len(Tail(txqueue[x])) <= TxSize
      <4>1. txqueue[x] \in Seq(Carriable) /\ Len(txqueue[x]) \in Nat /\ Len(txqueue[x]) <= TxSize /\ TxSize \in Nat
        BY <1>2, <1>8, SessionAssumption, LenProperties
      <4>2. Len(Tail(txqueue[x])) = Len(txqueue[x]) - 1 /\ Tail(txqueue[x]) \in Seq(Carriable)
            /\ Head(txqueue[x]) \in Carriable
        BY <3>2, <4>1, HeadTailProperties
      <4> QED
        BY <4>1, <4>2
    <3>4. carried' \in [Transports -> Carriable] /\ txqueue' \in [Outputs -> Seq(Carriable)]
          /\ \A o \in Outputs : Len(txqueue'[o]) <= TxSize
      BY <1>2, <1>8, <3>2, <3>3
    <3>5. FlowTyped'
      BY <1>2, <3>2, <3>4, LoopTypes
    <3> QED
      BY <1>1, <3>1, <3>2, <3>5 DEF Flows, NoMore
  <2>3. CASE FilterOutput(x)
    <3>1. UNCHANGED <<received, txqueue, sent>>
      BY <2>3 DEF FilterOutput, outVars
    <3>2. \/ UNCHANGED <<busQueue, carried>>
          \/ (UNCHANGED busQueue \/ Publish(ErrorEvent)) /\ carried' = [carried EXCEPT ![x] = Nothing]
      BY <2>3 DEF FilterOutput, Emit, busVars
    <3> QED
      BY <1>3, <1>4, <1>5, <3>1, <3>2
  <2>4. CASE StartSend(x)
    <3>1. UNCHANGED <<busQueue, received, txqueue, sent>>
      BY <2>4 DEF StartSend, busVars, outVars
    <3>2. UNCHANGED carried \/ carried' = [carried EXCEPT ![x] = Nothing]
      BY <2>4 DEF StartSend
    <3> QED
      BY <1>3, <1>4, <1>5, <3>1, <3>2
  <2>5. CASE EndSend(x)
    <3>1. NoMore
      BY <1>1, <1>8, <2>5, EndSendFlows
    <3>2. /\ sent' = [sent EXCEPT ![x] = @ \union {carried[x]}]
          /\ carried' = [carried EXCEPT ![x] = Nothing] /\ UNCHANGED <<busQueue, txqueue, received>>
      BY <2>5 DEF EndSend, busVars
    <3>3. carried' \in [Transports -> Carriable] /\ sent' \in [Outputs -> SUBSET Carriable]
      BY <1>2, <1>3, <1>5, <1>8, <3>2
    <3>4. FlowTyped'
      BY <1>2, <3>2, <3>3, LoopTypes
    <3> QED
      BY <1>1, <3>1, <3>2, <3>4 DEF Flows, NoMore
  <2> QED
    BY <1>8, <2>1, <2>2, <2>3, <2>4, <2>5 DEF OutputLoop
<1> QED
  BY <1>6, <1>7, <1>8 DEF Loop
-----------------------------------------------------------------------------
\* Somebody reports an error or a state, and no packet moves.
LEMMA ReportFlows ==
  ASSUME FlowTyped, UNCHANGED <<busPc, busEvent, toSend, carried, txqueue, sent, appToSend>>,
         \/ UNCHANGED busQueue
         \/ \E s \in {"begin", "end", "hangup"} : Publish(StateEvent(s))
  PROVE  NoMore /\ busQueue' \in Seq(BusEvents) /\ Len(busQueue') <= BusSize
<1>1. CASE UNCHANGED busQueue
  BY <1>1, NothingFlows DEF FlowTyped, MediaTypeOK
<1>2. ASSUME NEW s \in {"begin", "end", "hangup"}, Publish(StateEvent(s))
      PROVE  NoMore /\ busQueue' \in Seq(BusEvents) /\ Len(busQueue') <= BusSize
  <2> DEFINE e == StateEvent(s)
  <2>1. e \in BusEvents /\ \A p : e # PacketEvent(p)
    BY ReportsAreNoPackets
  <2>2. Publish(e)
    BY <1>2
  <2> HIDE DEF e
  <2>3. busQueue' \in Seq(BusEvents) /\ Len(busQueue') <= BusSize
    BY <2>1, <2>2, Published
  <2>4. ASSUME NEW o \in Outputs, NEW p \in AllPackets
        PROVE  Copies(o, p)' \in Nat /\ Copies(o, p)' <= Copies(o, p)
    <3> DEFINE k == InBus(p)'  m == InBus(p)  t == InTx(o, p)
               c == Cardinality(Carriers(o, p))  h == Cardinality(Holders(o, p))
               r == One(p \in sent[o])  a == One(<<p, o>> \in appToSend)
    <3>1. k \in Nat /\ k <= m + One(e = PacketEvent(p))
      BY <2>1, <2>2, Published
    <3>2. One(e = PacketEvent(p)) = 0 /\ r \in Nat /\ a \in Nat
      BY <2>1 DEF One
    <3>3. m \in Nat /\ t \in Nat /\ c \in Nat /\ h \in Nat
      BY CountsAreNumbers
    <3>4. Copies(o, p) = m + t + c + h + r + a
      BY CopiesCounted
    <3>5. Copies(o, p)' = k + t + c + h + r + a
      <4>1. /\ InTx(o, p)' = InTx(o, p) /\ Carriers(o, p)' = Carriers(o, p)
            /\ Holders(o, p)' = Holders(o, p) /\ sent' = sent /\ appToSend' = appToSend
        BY DEF InTx, Carriers, Holders, Holds
      <4> QED
        BY <4>1, CopiesCountedNext
    <3> HIDE DEF k, m, t, c, h, r, a
    <3> QED
      BY <3>1, <3>2, <3>3, <3>4, <3>5
  <2> QED
    BY <2>3, <2>4 DEF NoMore
<1> QED
  BY <1>1, <1>2

\* A packet is offered to an output, which may drop it.
LEMMA Tried ==
  ASSUME FlowTyped, NEW x \in Outputs, NEW q \in Carriable, TrySend(x, q)
  PROVE  /\ txqueue' \in [Outputs -> Seq(Carriable)] /\ \A o \in Outputs : Len(txqueue'[o]) <= TxSize
         /\ \A o \in Outputs, p \in AllPackets :
              InTx(o, p)' \in Nat /\ InTx(o, p)' <= InTx(o, p) + One(o = x /\ q = p)
<1> DEFINE s == txqueue[x]
<1>1. /\ s \in Seq(Carriable) /\ Len(s) \in Nat /\ TxSize \in Nat
      /\ txqueue \in [Outputs -> Seq(Carriable)] /\ \A o \in Outputs : Len(txqueue[o]) <= TxSize
  BY SessionAssumption, LenProperties DEF FlowTyped, MediaTypeOK
<1>2. ASSUME NEW o \in Outputs, NEW p \in AllPackets
      PROVE  InTx(o, p) \in Nat /\ InTx(o, p) <= InTx(o, p) + One(o = x /\ q = p)
  <2>1. InTx(o, p) \in Nat
    BY CountsAreNumbers
  <2> QED
    BY <2>1 DEF One
<1>3. CASE txqueue' = txqueue
  BY <1>1, <1>2, <1>3 DEF InTx
<1>4. CASE Len(s) < TxSize /\ txqueue' = [txqueue EXCEPT ![x] = Append(s, q)]
  <2>1. Append(s, q) \in Seq(Carriable) /\ Len(Append(s, q)) = Len(s) + 1
    BY <1>1, AppendProperties
  <2>2. txqueue' \in [Outputs -> Seq(Carriable)] /\ \A o \in Outputs : Len(txqueue'[o]) <= TxSize
    BY <1>1, <1>4, <2>1
  <2>3. ASSUME NEW o \in Outputs, NEW p \in AllPackets
        PROVE  InTx(o, p)' \in Nat /\ InTx(o, p)' <= InTx(o, p) + One(o = x /\ q = p)
    <3>1. CASE o = x
      <4>1. txqueue'[x] = Append(s, q)
        BY <1>1, <1>4
      <4>2. /\ Cardinality(Standing(s, p)) \in Nat
            /\ Cardinality(Standing(Append(s, q), p)) = Cardinality(Standing(s, p)) + (IF q = p THEN 1 ELSE 0)
        BY <1>1, StandingAppended
      <4> QED
        BY <3>1, <4>1, <4>2 DEF InTx, One
    <3>2. CASE o # x
      <4>1. txqueue'[o] = txqueue[o]
        BY <1>4, <3>2
      <4> QED
        BY <1>2, <4>1 DEF InTx
    <3> QED
      BY <3>1, <3>2
  <2> QED
    BY <2>2, <2>3
<1> QED
  BY <1>3, <1>4 DEF TrySend
-----------------------------------------------------------------------------
(***************************************************************************)
(* A bus worker.  What it takes from a queue it holds, and what it gives   *)
(* to an output it no longer has to give.                                  *)
(***************************************************************************)
OnlyWorker(b) == \A c \in BusWorkers \ {b} :
  busEvent'[c] = busEvent[c] /\ busPc'[c] = busPc[c] /\ toSend'[c] = toSend[c]

LEMMA WorkerMoves ==
  ASSUME FlowTyped, NEW b \in BusWorkers, OnlyWorker(b), UNCHANGED <<carried, sent, appToSend>>,
         \A o \in Outputs, p \in AllPackets :
           /\ InBus(p)' \in Nat /\ InTx(o, p)' \in Nat
           /\ InBus(p)' + InTx(o, p)' + One(Holds(b, o, p)') <= InBus(p) + InTx(o, p) + One(Holds(b, o, p))
  PROVE  NoMore
<1> SUFFICES ASSUME NEW o \in Outputs, NEW p \in AllPackets
             PROVE  Copies(o, p)' \in Nat /\ Copies(o, p)' <= Copies(o, p)
  BY DEF NoMore
<1> DEFINE c == Cardinality(Carriers(o, p))  m == InBus(p)  t == InTx(o, p)  k == InBus(p)'  u == InTx(o, p)'
           h == Cardinality(Holders(o, p))  g == Cardinality(Holders(o, p)')
           v == One(Holds(b, o, p))  w == One(Holds(b, o, p)')
           r == One(p \in sent[o])  a == One(<<p, o>> \in appToSend)
<1>1. k \in Nat /\ u \in Nat /\ k + u + w <= m + t + v
  OBVIOUS
<1>2. g \in Nat /\ g + v = h + w
  BY HolderChanges DEF OnlyWorker
<1>3. m \in Nat /\ t \in Nat /\ c \in Nat /\ h \in Nat
  BY CountsAreNumbers
<1>4. v \in Nat /\ w \in Nat /\ r \in Nat /\ a \in Nat
  BY DEF One
<1>5. Copies(o, p) = m + t + c + h + r + a
  BY CopiesCounted
<1>6. Copies(o, p)' = k + u + c + g + r + a
  <2>1. Carriers(o, p)' = Carriers(o, p) /\ sent' = sent /\ appToSend' = appToSend
    BY DEF Carriers
  <2> QED
    BY <2>1, CopiesCountedNext
<1> HIDE DEF c, m, t, k, u, h, g, v, w, r, a
<1> QED
  BY <1>1, <1>2, <1>3, <1>4, <1>5, <1>6

LEMMA WorkerTypes ==
  ASSUME FlowTyped, NEW b \in BusWorkers,
         NEW to \in {"select", "dispatch", "route", "exited"}, busPc' = [busPc EXCEPT ![b] = to],
         NEW e \in BusEvents \union {NoEvent}, busEvent' = [busEvent EXCEPT ![b] = e],
         to = "dispatch" => e \in BusEvents, to = "route" => e \in PacketEvents,
         toSend' \in [BusWorkers -> SUBSET Outputs],
         busQueue' \in Seq(BusEvents), Len(busQueue') <= BusSize,
         txqueue' \in [Outputs -> Seq(Carriable)], \A o \in Outputs : Len(txqueue'[o]) <= TxSize,
         UNCHANGED <<busDone, loopVars, sent, serveVars, appToSend, appSent, ctxDone, timer>>
  PROVE  FlowTyped'
<1>1. /\ busPc' \in [BusWorkers -> {"select", "dispatch", "route", "exited"}]
      /\ busEvent' \in [BusWorkers -> BusEvents \union {NoEvent}]
  BY DEF FlowTyped, MediaTypeOK
<1>2. \A c \in BusWorkers : /\ busPc'[c] = "dispatch" => busEvent'[c] \in BusEvents
                            /\ busPc'[c] = "route" => busEvent'[c] \in PacketEvents
  BY DEF FlowTyped, MediaTypeOK
<1>3. MediaTypeOK'
  BY <1>1 DEF FlowTyped, MediaTypeOK, loopVars, serveVars
<1> QED
  BY <1>1, <1>2, <1>3 DEF FlowTyped, loopVars

LEMMA WorkerFlows ==
  ASSUME FlowTyped, NEW b \in BusWorkers, BusWorker(b)
  PROVE  Flows
<1>1. UNCHANGED <<loopVars, serveVars, appToSend, appSent, ctxDone, timer>>
  BY DEF BusWorker
<1>2. /\ busQueue \in Seq(BusEvents) /\ Len(busQueue) \in Nat /\ Len(busQueue) <= BusSize /\ BusSize \in Nat
      /\ txqueue \in [Outputs -> Seq(Carriable)] /\ \A o \in Outputs : Len(txqueue[o]) <= TxSize
      /\ toSend \in [BusWorkers -> SUBSET Outputs]
      /\ busPc \in [BusWorkers -> {"select", "dispatch", "route", "exited"}]
      /\ busEvent \in [BusWorkers -> BusEvents \union {NoEvent}]
      /\ busPc[b] = "dispatch" => busEvent[b] \in BusEvents
      /\ busPc[b] = "route" => busEvent[b] \in PacketEvents
  BY BusAssumption, LenProperties DEF FlowTyped, MediaTypeOK
<1>3. \A o \in Outputs, p \in AllPackets : InBus(p) \in Nat /\ InTx(o, p) \in Nat
  BY CountsAreNumbers
<1>4. ASSUME FlowTyped', NoMore PROVE Flows
  BY <1>1, <1>4 DEF Flows, NoMore, loopVars
<1>5. CASE TakeEvent(b)
  <2> DEFINE e == Head(busQueue)
  <2>1. /\ busQueue # <<>> /\ busQueue' = Tail(busQueue) /\ busEvent' = [busEvent EXCEPT ![b] = e]
        /\ busPc' = [busPc EXCEPT ![b] = "dispatch"] /\ UNCHANGED <<busDone, toSend, txqueue, sent>>
    BY <1>5 DEF BusWorker, TakeEvent, outVars, Process, Routed, Handle, RouteTo, Dispatched
  <2>2. e \in BusEvents /\ busQueue' \in Seq(BusEvents) /\ Len(busQueue') <= BusSize
    <3>1. Len(Tail(busQueue)) = Len(busQueue) - 1 /\ Tail(busQueue) \in Seq(BusEvents) /\ e \in BusEvents
      BY <1>2, <2>1, HeadTailProperties
    <3> QED
      BY <1>2, <2>1, <3>1
  <2> HIDE DEF e
  <2>3. FlowTyped'
    BY <1>1, <1>2, <2>1, <2>2, WorkerTypes
  <2>4. OnlyWorker(b)
    BY <1>2, <2>1 DEF OnlyWorker
  <2>5. ASSUME NEW o \in Outputs, NEW p \in AllPackets
        PROVE  /\ InBus(p)' \in Nat /\ InTx(o, p)' \in Nat
               /\ InBus(p)' + InTx(o, p)' + One(Holds(b, o, p)') <= InBus(p) + InTx(o, p) + One(Holds(b, o, p))
    <3>1. InBus(p)' \in Nat /\ InBus(p) = InBus(p)' + One(e = PacketEvent(p))
      <4>1. /\ Cardinality(Standing(Tail(busQueue), PacketEvent(p))) \in Nat
            /\ Cardinality(Standing(busQueue, PacketEvent(p)))
                 = Cardinality(Standing(Tail(busQueue), PacketEvent(p))) + (IF e = PacketEvent(p) THEN 1 ELSE 0)
        BY <1>2, <2>1, StandingTaken DEF e
      <4> QED
        BY <2>1, <4>1 DEF InBus, One
    <3>2. InTx(o, p)' = InTx(o, p)
      BY <2>1 DEF InTx
    <3>3. Holds(b, o, p)' <=> e = PacketEvent(p)
      BY <1>2, <2>1 DEF Holds
    <3> QED
      BY <1>3, <3>1, <3>2, <3>3 DEF One
  <2> QED
    BY <1>1, <1>4, <2>1, <2>3, <2>4, <2>5, WorkerMoves DEF loopVars
<1>6. CASE LeaveBus(b)
  <2>1. /\ busPc' = [busPc EXCEPT ![b] = "exited"] /\ UNCHANGED <<busQueue, busDone, busEvent, toSend, txqueue, sent>>
        /\ busPc[b] = "select"
    BY <1>6 DEF BusWorker, LeaveBus, outVars, TakeEvent, Process, Routed, Handle, RouteTo
  <2>2. busEvent' = [busEvent EXCEPT ![b] = busEvent[b]] /\ busEvent[b] \in BusEvents \union {NoEvent}
    BY <1>2, <2>1
  <2>3. FlowTyped'
    BY <1>1, <1>2, <2>1, <2>2, WorkerTypes
  <2>4. OnlyWorker(b)
    BY <1>2, <2>1 DEF OnlyWorker
  <2>5. ASSUME NEW o \in Outputs, NEW p \in AllPackets
        PROVE  /\ InBus(p)' = InBus(p) /\ InTx(o, p)' = InTx(o, p)
               /\ One(Holds(b, o, p)') = One(Holds(b, o, p))
    BY <1>2, <2>1 DEF InBus, InTx, Holds, One
  <2>6. ASSUME NEW o \in Outputs, NEW p \in AllPackets
        PROVE  /\ InBus(p)' \in Nat /\ InTx(o, p)' \in Nat
               /\ InBus(p)' + InTx(o, p)' + One(Holds(b, o, p)') <= InBus(p) + InTx(o, p) + One(Holds(b, o, p))
    BY <1>3, <2>5 DEF One
  <2> QED
    BY <1>1, <1>4, <2>1, <2>3, <2>4, <2>6, WorkerMoves DEF loopVars
<1>7. CASE Process(b)
  <2>1. /\ busPc[b] = "dispatch" /\ busEvent[b][1] = "packet" /\ busPc' = [busPc EXCEPT ![b] = "route"]
        /\ Publish(ErrorEvent) \/ UNCHANGED busQueue
        /\ UNCHANGED <<busDone, busEvent, txqueue, sent>>
    BY <1>7 DEF Process, outVars
  <2>2. PICK targets \in SUBSET Outputs : toSend' = [toSend EXCEPT ![b] = targets]
    BY <1>7 DEF Process
  <2>3. busEvent' = [busEvent EXCEPT ![b] = busEvent[b]] /\ busEvent[b] \in PacketEvents /\ PacketEvents \subseteq BusEvents
    BY <1>2, <2>1 DEF BusEvents, StateEvent, ErrorEvent
  <2>4. busQueue' \in Seq(BusEvents) /\ Len(busQueue') <= BusSize
    BY <1>2, <2>1, Published, ReportsAreNoPackets
  <2>5. FlowTyped'
    <3>1. toSend' \in [BusWorkers -> SUBSET Outputs]
      BY <1>2, <2>2
    <3> QED
      BY <1>1, <1>2, <2>1, <2>3, <2>4, <3>1, WorkerTypes
  <2>6. OnlyWorker(b)
    BY <1>2, <2>1, <2>2 DEF OnlyWorker
  <2>7. ASSUME NEW o \in Outputs, NEW p \in AllPackets
        PROVE  /\ InBus(p)' \in Nat /\ InTx(o, p)' \in Nat
               /\ InBus(p)' + InTx(o, p)' + One(Holds(b, o, p)') <= InBus(p) + InTx(o, p) + One(Holds(b, o, p))
    <3>1. InBus(p)' \in Nat /\ InBus(p)' <= InBus(p)
      <4>1. CASE UNCHANGED busQueue
        BY <1>3, <4>1 DEF InBus
      <4>2. CASE Publish(ErrorEvent)
        <5>1. InBus(p)' \in Nat /\ InBus(p)' <= InBus(p) + One(ErrorEvent = PacketEvent(p))
          BY <4>2, Published, ReportsAreNoPackets
        <5>2. One(ErrorEvent = PacketEvent(p)) = 0
          BY ReportsAreNoPackets DEF One
        <5> QED
          BY <1>3, <5>1, <5>2
      <4> QED
        BY <2>1, <4>1, <4>2
    <3>2. InTx(o, p)' = InTx(o, p)
      BY <2>1 DEF InTx
    <3>3. Holds(b, o, p)' => Holds(b, o, p)
      BY <2>1 DEF Holds
    <3> QED
      BY <1>3, <3>1, <3>2, <3>3 DEF One
  <2> QED
    BY <1>1, <1>4, <2>1, <2>5, <2>6, <2>7, WorkerMoves DEF loopVars
<1>8. CASE Routed(b) \/ Handle(b)
  <2>1. /\ busPc' = [busPc EXCEPT ![b] = "select"] /\ busEvent' = [busEvent EXCEPT ![b] = NoEvent]
        /\ UNCHANGED <<busQueue, busDone, toSend, txqueue, sent>>
    BY <1>8 DEF Routed, Handle, Dispatched, outVars
  <2>2. FlowTyped'
    BY <1>1, <1>2, <2>1, WorkerTypes
  <2>3. OnlyWorker(b)
    BY <1>2, <2>1 DEF OnlyWorker
  <2>4. ASSUME NEW o \in Outputs, NEW p \in AllPackets
        PROVE  /\ InBus(p)' = InBus(p) /\ InTx(o, p)' = InTx(o, p) /\ ~Holds(b, o, p)'
    BY <1>2, <2>1, ReportsAreNoPackets DEF InBus, InTx, Holds
  <2>5. ASSUME NEW o \in Outputs, NEW p \in AllPackets
        PROVE  /\ InBus(p)' \in Nat /\ InTx(o, p)' \in Nat
               /\ InBus(p)' + InTx(o, p)' + One(Holds(b, o, p)') <= InBus(p) + InTx(o, p) + One(Holds(b, o, p))
    BY <1>3, <2>4 DEF One
  <2> QED
    BY <1>1, <1>4, <2>1, <2>2, <2>3, <2>5, WorkerMoves DEF loopVars
<1>9. ASSUME NEW x \in Outputs, RouteTo(b, x) PROVE Flows
  <2> DEFINE q == busEvent[b][2]
  <2>1. /\ busPc[b] = "route" /\ x \in toSend[b] /\ TrySend(x, q)
        /\ toSend' = [toSend EXCEPT ![b] = @ \ {x}] /\ UNCHANGED <<busQueue, busDone, busPc, busEvent, sent>>
    BY <1>9 DEF RouteTo, busVars
  <2>2. q \in Carriable /\ busEvent[b] = PacketEvent(q)
    BY <1>2, <2>1 DEF PacketEvents, PacketEvent
  <2>3. /\ busPc' = [busPc EXCEPT ![b] = "route"] /\ busEvent' = [busEvent EXCEPT ![b] = busEvent[b]]
        /\ toSend' \in [BusWorkers -> SUBSET Outputs] /\ busEvent[b] \in PacketEvents /\ busEvent[b] \in BusEvents
    BY <1>2, <2>1 DEF BusEvents
  <2> HIDE DEF q
  <2>4. /\ txqueue' \in [Outputs -> Seq(Carriable)] /\ \A o \in Outputs : Len(txqueue'[o]) <= TxSize
        /\ \A o \in Outputs, p \in AllPackets :
             InTx(o, p)' \in Nat /\ InTx(o, p)' <= InTx(o, p) + One(o = x /\ q = p)
    BY <2>1, <2>2, Tried
  <2>5. FlowTyped'
    BY <1>1, <1>2, <2>1, <2>3, <2>4, WorkerTypes
  <2>6. OnlyWorker(b)
    BY <1>2, <2>1 DEF OnlyWorker
  <2>7. ASSUME NEW o \in Outputs, NEW p \in AllPackets
        PROVE  /\ InBus(p)' \in Nat /\ InTx(o, p)' \in Nat
               /\ InBus(p)' + InTx(o, p)' + One(Holds(b, o, p)') <= InBus(p) + InTx(o, p) + One(Holds(b, o, p))
    <3>1. InBus(p)' = InBus(p)
      BY <2>1 DEF InBus
    <3>2. /\ Holds(b, o, p)' => Holds(b, o, p) /\ o # x
          /\ o = x /\ q = p => Holds(b, o, p)
      BY <1>2, <2>1, <2>2 DEF Holds
    <3>3. InTx(o, p)' \in Nat /\ InTx(o, p)' <= InTx(o, p) + One(o = x /\ q = p)
      BY <2>4
    <3> QED
      BY <1>3, <3>1, <3>2, <3>3 DEF One
  <2> QED
    BY <1>1, <1>4, <2>1, <2>5, <2>6, <2>7, WorkerMoves DEF loopVars
<1> QED
  BY <1>5, <1>6, <1>7, <1>8, <1>9 DEF BusWorker
-----------------------------------------------------------------------------
(***************************************************************************)
(* The application, the timer and Serve.                                   *)
(***************************************************************************)
\* The application asks for a packet to be sent, for the first time.
LEMMA SendToOutputFlows ==
  ASSUME FlowTyped, NEW n \in AppPackets, SendToOutput(n)
  PROVE  Flows
<1>1. /\ appSent' = appSent \union {n} /\ n \notin appSent
      /\ appToSend' = appToSend \union ({n} \X Outputs)
      /\ UNCHANGED <<busVars, loopVars, outVars, toSend, serveVars, restVars>>
  BY DEF SendToOutput
<1>2. FlowTyped'
  BY <1>1 DEF FlowTyped, MediaTypeOK, busVars, loopVars, outVars, serveVars, restVars
<1>3. ASSUME NEW o \in Outputs, NEW p \in AllPackets
      PROVE  /\ Copies(o, p)' \in Nat
             /\ Copies(o, p)' <= Copies(o, p) \/ (Fresh(p) /\ Copies(o, p)' <= Copies(o, p) + 1)
  <2> DEFINE m == InBus(p)  t == InTx(o, p)
             c == Cardinality(Carriers(o, p))  h == Cardinality(Holders(o, p))
             r == One(p \in sent[o])  a == One(<<p, o>> \in appToSend)  w == One(<<p, o>> \in appToSend')
  <2>1. m \in Nat /\ t \in Nat /\ c \in Nat /\ h \in Nat
    BY CountsAreNumbers
  <2>2. Copies(o, p) = m + t + c + h + r + a
    BY CopiesCounted
  <2>3. Copies(o, p)' = m + t + c + h + r + w
    <3>1. /\ InBus(p)' = InBus(p) /\ InTx(o, p)' = InTx(o, p) /\ Carriers(o, p)' = Carriers(o, p)
          /\ Holders(o, p)' = Holders(o, p) /\ sent' = sent
      BY <1>1 DEF InBus, InTx, Carriers, Holders, Holds, busVars, loopVars, outVars
    <3> QED
      BY <3>1, CopiesCountedNext
  <2>4. r \in Nat /\ a \in Nat /\ w \in Nat /\ w <= a + 1 /\ (p = n \/ w = a)
    BY <1>1 DEF One
  <2>5. p = n => Fresh(p)
    BY <1>1 DEF Fresh
  <2> HIDE DEF m, t, c, h, r, a, w
  <2> QED
    BY <2>1, <2>2, <2>3, <2>4, <2>5
<1> QED
  BY <1>1, <1>2, <1>3 DEF Flows, loopVars

\* The application offers its packet to an output.
LEMMA AppTrySendFlows ==
  ASSUME FlowTyped, NEW q \in AppPackets, NEW x \in Outputs, AppTrySend(q, x)
  PROVE  Flows
<1>1. /\ <<q, x>> \in appToSend /\ TrySend(x, q) /\ appToSend' = appToSend \ {<<q, x>>}
      /\ UNCHANGED <<busVars, loopVars, sent, toSend, appSent, serveVars, restVars>>
  BY DEF AppTrySend
<1>2. q \in Carriable
  BY DEF Carriable, AllPackets
<1>3. /\ txqueue' \in [Outputs -> Seq(Carriable)] /\ \A o \in Outputs : Len(txqueue'[o]) <= TxSize
      /\ \A o \in Outputs, p \in AllPackets :
           InTx(o, p)' \in Nat /\ InTx(o, p)' <= InTx(o, p) + One(o = x /\ q = p)
  BY <1>1, <1>2, Tried
<1>4. FlowTyped'
  BY <1>1, <1>3 DEF FlowTyped, MediaTypeOK, busVars, loopVars, serveVars, restVars
<1>5. ASSUME NEW o \in Outputs, NEW p \in AllPackets
      PROVE  Copies(o, p)' \in Nat /\ Copies(o, p)' <= Copies(o, p)
  <2> DEFINE m == InBus(p)  t == InTx(o, p)  u == InTx(o, p)'
             c == Cardinality(Carriers(o, p))  h == Cardinality(Holders(o, p))
             r == One(p \in sent[o])  a == One(<<p, o>> \in appToSend)  w == One(<<p, o>> \in appToSend')
  <2>1. m \in Nat /\ t \in Nat /\ c \in Nat /\ h \in Nat
    BY CountsAreNumbers
  <2>2. Copies(o, p) = m + t + c + h + r + a
    BY CopiesCounted
  <2>3. Copies(o, p)' = m + u + c + h + r + w
    <3>1. /\ InBus(p)' = InBus(p) /\ Carriers(o, p)' = Carriers(o, p)
          /\ Holders(o, p)' = Holders(o, p) /\ sent' = sent
      BY <1>1 DEF InBus, Carriers, Holders, Holds, busVars, loopVars
    <3> QED
      BY <3>1, CopiesCountedNext
  <2>4. r \in Nat /\ a \in Nat /\ w \in Nat /\ w + One(o = x /\ q = p) <= a
    BY <1>1 DEF One
  <2>5. u \in Nat /\ u <= t + One(o = x /\ q = p) /\ One(o = x /\ q = p) \in Nat
    BY <1>3 DEF One
  <2> HIDE DEF m, t, u, c, h, r, a, w
  <2> QED
    BY <2>1, <2>2, <2>3, <2>4, <2>5
<1> QED
  BY <1>1, <1>4, <1>5 DEF Flows, loopVars

\* Close, the timer and Serve move no packet.
LEMMA OthersFlow ==
  ASSUME FlowTyped, Close \/ TimerFires \/ TimerCloses \/ Notify \/ ServeStep \/ UNCHANGED vars
  PROVE  Flows
<1>1. UNCHANGED <<busPc, busEvent, toSend, carried, txqueue, sent, appToSend, received, appSent>>
  <2> USE DEF busVars, loopVars, outVars, sendVars
  <2>1. CASE Close \/ TimerFires \/ TimerCloses \/ UNCHANGED vars
    BY <2>1 DEF Close, TimerFires, TimerCloses, Cancel, vars
  <2>2. CASE Notify
    BY <2>2 DEF Notify, NotifyServeStarting
  <2>3. CASE ServeStep
    <3>1. CASE ServeStarts \/ EmitBegin \/ EmitEnd
      BY <2>3, <3>1 DEF ServeStep, ServeStarts, EmitBegin, EmitEnd
    <3>2. CASE \E x \in Transports : CleanupCloses(x) \/ AwaitLoop(x) \/ CleanupDrops(x)
      BY <2>3, <3>2 DEF ServeStep, CleanupCloses, AwaitLoop, CleanupDrops
    <3>3. CASE InputsCleaned \/ CloseBus \/ ServeReturns
      BY <2>3, <3>3 DEF ServeStep, InputsCleaned, CloseBus, CloseQueue, ServeReturns
    <3> QED
      BY <2>3, <3>1, <3>2, <3>3 DEF ServeStep
  <2> QED
    BY <2>1, <2>2, <2>3
<1>2. UNCHANGED busQueue \/ \E s \in {"begin", "end", "hangup"} : Publish(StateEvent(s))
  <2> USE DEF busVars
  <2>1. CASE Close \/ TimerFires \/ TimerCloses \/ UNCHANGED vars
    BY <2>1 DEF Close, TimerFires, TimerCloses, Cancel, vars
  <2>2. CASE Notify
    BY <2>2 DEF Notify, NotifyServeStarting
  <2>3. CASE ServeStep
    BY <2>3 DEF ServeStep, ServeStarts, EmitBegin, EmitEnd, CleanupCloses, AwaitLoop, CleanupDrops,
                InputsCleaned, CloseBus, CloseQueue, ServeReturns
  <2> QED
    BY <2>1, <2>2, <2>3
<1>3. NoMore /\ busQueue' \in Seq(BusEvents) /\ Len(busQueue') <= BusSize
  BY <1>1, <1>2, ReportFlows
<1>4. /\ transport' \in [Transports -> {"open", "closed", "nil"}]
      /\ serve' \in ServeStates /\ timer' \in {"off", "armed", "fired", "over"}
      /\ loop' \in [Transports -> LoopStates] /\ (ctxDone' => busDone')
  <2>1. /\ transport \in [Transports -> {"open", "closed", "nil"}]
        /\ serve \in ServeStates /\ timer \in {"off", "armed", "fired", "over"}
        /\ loop \in [Transports -> LoopStates] /\ (ctxDone => busDone)
    BY DEF FlowTyped, MediaTypeOK, LoopStates, ServeStates
  <2> USE DEF busVars, loopVars, serveVars
  <2>2. CASE Close \/ TimerFires \/ TimerCloses \/ UNCHANGED vars
    BY <2>1, <2>2 DEF Close, TimerFires, TimerCloses, Cancel, restVars, vars
  <2>3. CASE Notify
    BY <2>1, <2>3 DEF Notify, NotifyServeStarting
  <2>4. CASE ServeStep
    <3>1. ctxDone' = ctxDone
      BY <2>4 DEF ServeStep
    <3> USE DEF At, ServeStates
    <3>2. CASE ServeStarts
      BY <2>1, <3>1, <3>2 DEF ServeStarts, LoopStates
    <3>3. CASE EmitBegin \/ EmitEnd
      BY <2>1, <3>1, <3>3 DEF EmitBegin, EmitEnd
    <3>4. CASE \E x \in Transports : CleanupCloses(x) \/ AwaitLoop(x) \/ CleanupDrops(x)
      BY <2>1, <3>1, <3>4 DEF CleanupCloses, AwaitLoop, CleanupDrops
    <3>5. CASE InputsCleaned \/ ServeReturns
      BY <2>1, <3>1, <3>5 DEF InputsCleaned, ServeReturns
    <3>6. CASE CloseBus
      BY <2>1, <3>1, <3>6 DEF CloseBus, CloseQueue
    <3> QED
      BY <2>4, <3>2, <3>3, <3>4, <3>5, <3>6 DEF ServeStep
  <2> QED
    BY <2>2, <2>3, <2>4
<1>5. MediaTypeOK'
  BY <1>1, <1>3, <1>4 DEF FlowTyped, MediaTypeOK, LoopStates, ServeStates
<1>6. FlowTyped'
  BY <1>1, <1>3, <1>5 DEF FlowTyped
<1> QED
  BY <1>1, <1>3, <1>6 DEF Flows, NoMore

(***************************************************************************)
(* The invariant: at most one copy, and none of what has not come in.      *)
(***************************************************************************)
LEMMA PacketsStart == Init => PacketsInv
<1> SUFFICES ASSUME Init PROVE PacketsInv
  OBVIOUS
<1>1. busQueue = <<>> /\ busPc = [b \in BusWorkers |-> "select"] /\ busEvent = [b \in BusWorkers |-> NoEvent]
  BY DEF Init, BusInit
<1>2. /\ carried = [x \in Transports |-> Nothing] /\ txqueue = [o \in Outputs |-> <<>>]
      /\ sent = [o \in Outputs |-> {}] /\ toSend = [b \in BusWorkers |-> {}]
      /\ appToSend = {} /\ appSent = {} /\ received = {}
      /\ loop = [x \in Transports |-> "none"] /\ transport = [x \in Transports |-> "open"]
      /\ serve = "idle" /\ timer = "off" /\ ctxDone = FALSE
  BY DEF Init
<1>3. MediaTypeOK
  BY <1>1, <1>2, BusAssumption, SessionAssumption DEF MediaTypeOK
<1>4. FlowTyped
  BY <1>1, <1>2, <1>3 DEF FlowTyped, Carriable
<1>5. ASSUME NEW o \in Outputs, NEW p \in AllPackets
      PROVE  Copies(o, p) = 0
  <2>1. Standing(busQueue, PacketEvent(p)) = {} /\ Standing(txqueue[o], p) = {}
    BY <1>1, <1>2 DEF Standing
  <2>2. Carriers(o, p) = {}
    BY <1>2, ReportsAreNoPackets DEF Carriers, Transports
  <2>3. Holders(o, p) = {}
    BY <1>1, ReportsAreNoPackets DEF Holders, Holds
  <2>4. One(p \in sent[o]) = 0 /\ One(<<p, o>> \in appToSend) = 0
    BY <1>2 DEF One
  <2>5. Cardinality({}) = 0
    BY FS_EmptySet
  <2>6. InBus(p) = 0 /\ InTx(o, p) = 0
    BY <2>1, <2>5 DEF InBus, InTx
  <2> QED
    BY <2>2, <2>3, <2>4, <2>5, <2>6, CopiesCounted
<1>6. OneCopy /\ Unseen
  BY <1>5 DEF OneCopy, Unseen, AllPackets
<1> QED
  BY <1>4, <1>6 DEF PacketsInv

LEMMA PacketsKept ==
  ASSUME PacketsInv, [Next]_vars
  PROVE  PacketsInv'
<1>1. Flows
  BY LoopFlows, WorkerFlows, SendToOutputFlows, AppTrySendFlows, OthersFlow DEF Next, PacketsInv
<1>2. FlowTyped' /\ received' \subseteq Packets /\ appSent' \subseteq AppPackets
  BY <1>1 DEF Flows, FlowTyped
<1>3. ASSUME NEW o \in Outputs, NEW p \in AllPackets
      PROVE  Copies(o, p)' \in Nat /\ Copies(o, p)' <= 1 /\
             (p \in Packets \ received' \/ p \in AppPackets \ appSent' => Copies(o, p)' = 0)
  <2> DEFINE was == Copies(o, p)  is == Copies(o, p)'
  <2>1. /\ is \in Nat /\ received \subseteq received' /\ appSent \subseteq appSent'
        /\ is <= was \/ (Fresh(p) /\ is <= was + 1)
    BY <1>1 DEF Flows
  <2>2. was \in Nat /\ was <= 1
    BY CopiesAreNumbers DEF PacketsInv, OneCopy, AllPackets
  <2>3. p \in Packets \ received \/ p \in AppPackets \ appSent => was = 0
    BY DEF PacketsInv, Unseen
  <2>4. Fresh(p) => p \in Packets \ received \/ p \in AppPackets \ appSent
    BY <1>2 DEF Fresh
  <2>5. p \in Packets \ received' \/ p \in AppPackets \ appSent'
          => ~Fresh(p) /\ (p \in Packets \ received \/ p \in AppPackets \ appSent)
    BY <1>2, <2>1, SessionAssumption DEF Fresh
  <2> HIDE DEF was, is
  <2> QED
    BY <2>1, <2>2, <2>3, <2>4, <2>5 DEF was, is
<1>4. OneCopy'
  BY <1>3 DEF OneCopy, AllPackets
<1>5. Unseen'
  BY <1>3 DEF Unseen, AllPackets
<1> QED
  BY <1>2, <1>4, <1>5 DEF PacketsInv

LEMMA PacketsInvariant == Spec => []PacketsInv
<1>1. PacketsInv /\ [Next]_vars => PacketsInv'
  BY PacketsKept
<1> QED
  BY <1>1, PacketsStart, PTL DEF Spec

(***************************************************************************)
(* MediaTypes: the queues stay within their capacity, and every goroutine  *)
(* is at one of its places, for any transports and any number of packets.  *)
(***************************************************************************)
THEOREM MediaTypes == Spec => []MediaTypeOK
BY PacketsInvariant, PTL DEF PacketsInv, FlowTyped

(***************************************************************************)
(* PacketsNotDoubled: through the bus, the routing, the txqueues and the   *)
(* loops, no output ever has two copies of a packet to send, whatever is   *)
(* dropped on the way and however the goroutines interleave.               *)
(***************************************************************************)
THEOREM PacketsNotDoubled == Spec => []OneCopy
BY PacketsInvariant, PTL DEF PacketsInv
=============================================================================
