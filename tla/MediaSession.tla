---------------------------- MODULE MediaSession ----------------------------
(***************************************************************************)
(* A media session (src/media/session.go) on its event bus: one goroutine  *)
(* per transport, Serve with its deferred cleanup, the session timer, the  *)
(* callers of SendToOutput, Close and WaitServeShutdown.  An input loop    *)
(* reads its transport, filters and publishes; a bus worker runs the       *)
(* processors and, last, the output router, which queues the packet on     *)
(* every output; an output loop filters, encodes and sends.  Decoders and  *)
(* encoders are part of the filters: a verdict of "pass", "skip" or        *)
(* "fail", one packet in and one out.  Each loop creates the channel that  *)
(* cleanup waits on as its own first step (session.go 40, 108), without    *)
(* synchronisation: cleanup sees it or not, depending on who came first.   *)
(***************************************************************************)
EXTENDS EventBus

CONSTANTS Inputs,    \* input transports, read by processIncoming
          Outputs,   \* output transports, written by processOutgoing
          Packets,   \* packets an input may receive
          AppPackets,\* packets the application sends on its own
          TxSize,    \* capacity of a txqueue (QueueSize in the code)
          Nothing    \* no packet, no transport

Transports == Inputs \union Outputs

ASSUME SessionAssumption ==
  /\ IsFiniteSet(Transports) /\ Inputs \intersect Outputs = {} /\ Outputs # {}
  /\ IsFiniteSet(Packets \union AppPackets)
  /\ Packets \intersect AppPackets = {}
  /\ Nothing \notin Packets \union AppPackets \union Transports
  /\ TxSize \in Nat \ {0}

VARIABLES
  stuck,      \* transports whose Next or Send may outlast the five-second wait
  ctxDone,    \* the session context is done
  serve,      \* where Serve is
  cleaning,   \* the transport whose lock cleanup holds
  transport,  \* "open", "closed" or "nil"
  loop,       \* where the goroutine of each transport is
  carried,    \* the packet that goroutine holds
  received,   \* packets that have come in
  txqueue,    \* queue of each output
  sent,       \* packets handed to each output's Send
  toSend,     \* outputs a bus worker has yet to offer its packet to
  appToSend,  \* packets and outputs SendToOutput has yet to offer them to
  appSent,    \* packets the application has called SendToOutput with
  timer,      \* the MaxSessionDuration timer
  scheduled,  \* serveScheduled
  lateLoops,  \* transports whose goroutine published on the closed queue
  endHandled  \* the handlers of End have been called

loopVars == <<loop, carried, received, lateLoops>>
outVars == <<txqueue, sent>>
sendVars == <<toSend, appToSend, appSent>>
serveVars == <<serve, cleaning, transport, scheduled>>
restVars == <<ctxDone, timer, endHandled>>
vars == <<busVars, loopVars, outVars, sendVars, serveVars, restVars, stuck>>

PacketEvent(p) == <<"packet", p>>
StateEvent(s) == <<"state", s>>
ErrorEvent == <<"error", Nothing>>

ASSUME NoEventAssumption == \A p \in Packets \union AppPackets : NoEvent # PacketEvent(p)

Init ==
  /\ BusInit
  /\ stuck \in SUBSET Transports
  /\ ctxDone = FALSE /\ serve = "idle" /\ cleaning = Nothing
  /\ transport = [x \in Transports |-> "open"]
  /\ loop = [x \in Transports |-> "none"]
  /\ carried = [x \in Transports |-> Nothing]
  /\ received = {} /\ lateLoops = {} /\ endHandled = FALSE
  /\ txqueue = [o \in Outputs |-> <<>>]
  /\ sent = [o \in Outputs |-> {}]
  /\ toSend = [b \in BusWorkers |-> {}]
  /\ appToSend = {} /\ appSent = {}
  /\ timer = "off" /\ scheduled = FALSE

-----------------------------------------------------------------------------
(***************************************************************************)
(* The transport goroutines.  Emit is EmitPacket, EmitState or CauseError  *)
(* called by the goroutine of x.                                           *)
(***************************************************************************)
Goes(x, from, to) == loop[x] = from /\ loop' = [loop EXCEPT ![x] = to]

Emit(x, e) ==
  /\ Publish(e)
  /\ lateLoops' = IF busClosed THEN lateLoops \union {x} ELSE lateLoops
  /\ UNCHANGED <<busClosed, busDone, busPc, busEvent>>

\* The goroutine runs for the first time and creates its closed channel.
OpenLoop(x) ==
  /\ Goes(x, "spawned", IF x \in Inputs THEN "check" ELSE "select")
  /\ UNCHANGED <<busVars, carried, received, lateLoops>>

\* Fault for InputsQuiet: the loop does not look at the context.
CheckNothing(i) ==
  /\ Goes(i, "check", "next")
  /\ UNCHANGED <<busVars, carried, received, lateLoops>>

CheckContext(i) ==
  /\ Goes(i, "check", IF ctxDone THEN "exited" ELSE "next")
  /\ UNCHANGED <<busVars, carried, received, lateLoops>>

\* Next returns a packet, or none (which asks again).
NextReturns(i, p) ==
  /\ transport[i] = "open"
  /\ \/ /\ p \notin received /\ Goes(i, "next", "filter")
        /\ carried' = [carried EXCEPT ![i] = p]
        /\ received' = received \union {p}
     \/ Goes(i, "next", "check") /\ UNCHANGED <<carried, received>>
  /\ UNCHANGED <<busVars, lateLoops>>

\* io.EOF emits Hangup, any other error goes to CauseError; the loop ends.
NextFails(i) ==
  /\ Goes(i, "next", "exited")
  /\ \E e \in {StateEvent("hangup"), ErrorEvent} : Emit(i, e)
  /\ UNCHANGED <<carried, received>>

FilterInput(i) ==
  /\ carried' = [carried EXCEPT ![i] = Nothing]
  /\ \/ Goes(i, "filter", "check") /\ Emit(i, PacketEvent(carried[i]))
     \/ Goes(i, "filter", "check") /\ UNCHANGED <<busVars, lateLoops>>
     \/ Goes(i, "filter", "exited") /\ Emit(i, ErrorEvent)
  /\ UNCHANGED received

InputLoop(i) ==
  /\ CheckContext(i) \/ (\E p \in Packets : NextReturns(i, p)) \/ NextFails(i)
       \/ FilterInput(i)
  /\ UNCHANGED outVars

SelectDone(o) ==
  /\ ctxDone /\ Goes(o, "select", "exited")
  /\ UNCHANGED <<busVars, carried, received, lateLoops, outVars>>

\* Fault for OneCopy: the packet stays in the txqueue.
PeekTx(o) ==
  /\ txqueue[o] # <<>> /\ Goes(o, "select", "filter")
  /\ carried' = [carried EXCEPT ![o] = Head(txqueue[o])]
  /\ UNCHANGED <<busVars, received, lateLoops, outVars>>

TakeTx(o) ==
  /\ txqueue[o] # <<>> /\ Goes(o, "select", "filter")
  /\ carried' = [carried EXCEPT ![o] = Head(txqueue[o])]
  /\ txqueue' = [txqueue EXCEPT ![o] = Tail(@)]
  /\ UNCHANGED <<busVars, received, lateLoops, sent>>

FilterOutput(o) ==
  /\ \/ Goes(o, "filter", "send") /\ UNCHANGED <<busVars, carried, lateLoops>>
     \/ /\ Goes(o, "filter", "select") /\ UNCHANGED <<busVars, lateLoops>>
        /\ carried' = [carried EXCEPT ![o] = Nothing]
     \/ /\ Goes(o, "filter", "exited") /\ Emit(o, ErrorEvent)
        /\ carried' = [carried EXCEPT ![o] = Nothing]
  /\ UNCHANGED <<received, outVars>>

\* tl.transport is read without the lock; nil panics, which ends the loop.
StartSend(o) ==
  /\ Goes(o, "send", IF transport[o] = "nil" THEN "exited" ELSE "sending")
  /\ carried' = IF transport[o] = "nil" THEN [carried EXCEPT ![o] = Nothing]
                                        ELSE carried
  /\ UNCHANGED <<busVars, received, lateLoops, outVars>>

EndSend(o) ==
  /\ Goes(o, "sending", "select")
  /\ sent' = [sent EXCEPT ![o] = @ \union {carried[o]}]
  /\ carried' = [carried EXCEPT ![o] = Nothing]
  /\ UNCHANGED <<busVars, received, lateLoops, txqueue>>

OutputLoop(o) ==
  SelectDone(o) \/ TakeTx(o) \/ FilterOutput(o) \/ StartSend(o) \/ EndSend(o)

Loop(x) ==
  /\ \/ OpenLoop(x) /\ UNCHANGED outVars
     \/ x \in Inputs /\ InputLoop(x)
     \/ x \in Outputs /\ OutputLoop(x)
  /\ UNCHANGED <<sendVars, serveVars, restVars, stuck>>

-----------------------------------------------------------------------------
(***************************************************************************)
(* trySendPacket needs the lock that cleanup holds for as long as it waits *)
(* for the loop; a full queue or a cleaned transport drops the packet.     *)
(***************************************************************************)
TrySend(o, p) ==
  /\ cleaning # o
  /\ txqueue' = IF transport[o] # "nil" /\ Len(txqueue[o]) < TxSize
                  THEN [txqueue EXCEPT ![o] = Append(@, p)] ELSE txqueue

\* The processors run; one that fails goes to CauseError.  The output router
\* runs after them, on all outputs, unless one panics (dispatch recovers) or
\* the session suppresses the echo of its own input.
Process(b) ==
  /\ busPc[b] = "dispatch" /\ busEvent[b][1] = "packet"
  /\ busPc' = [busPc EXCEPT ![b] = "route"]
  /\ \E targets \in {{}, IF serve = "idle" THEN {} ELSE Outputs} :
        toSend' = [toSend EXCEPT ![b] = targets]
  /\ Publish(ErrorEvent) \/ UNCHANGED busQueue
  /\ UNCHANGED <<busClosed, busDone, busEvent, outVars, endHandled>>

RouteTo(b, o) ==
  /\ busPc[b] = "route" /\ o \in toSend[b]
  /\ TrySend(o, busEvent[b][2])
  /\ toSend' = [toSend EXCEPT ![b] = @ \ {o}]
  /\ UNCHANGED <<busVars, sent, endHandled>>

Routed(b) ==
  /\ busPc[b] = "route" /\ toSend[b] = {}
  /\ Dispatched(b)
  /\ UNCHANGED <<busQueue, busClosed, busDone, toSend, outVars, endHandled>>

\* State and error handlers, wildcard handlers included.
Handle(b) ==
  /\ busPc[b] = "dispatch" /\ busEvent[b][1] # "packet"
  /\ endHandled' = (endHandled \/ busEvent[b] = StateEvent("end"))
  /\ Dispatched(b)
  /\ UNCHANGED <<busQueue, busClosed, busDone, toSend, outVars>>

BusWorker(b) ==
  /\ \/ /\ TakeEvent(b) \/ LeaveBus(b)
        /\ UNCHANGED <<toSend, outVars, endHandled>>
     \/ Process(b) \/ Routed(b) \/ Handle(b) \/ \E o \in Outputs : RouteTo(b, o)
  /\ UNCHANGED <<loopVars, serveVars, appToSend, appSent, ctxDone, timer, stuck>>

-----------------------------------------------------------------------------
(***************************************************************************)
(* The application: SendToOutput offers its packet to the outputs one      *)
(* after the other; Close cancels the session context and with it the      *)
(* bus's.  A handler that calls Close is one of its callers.               *)
(***************************************************************************)
SendToOutput(p) ==
  /\ p \notin appSent /\ appSent' = appSent \union {p}
  /\ appToSend' = appToSend \union ({p} \X Outputs)
  /\ UNCHANGED <<busVars, loopVars, outVars, toSend, serveVars, restVars, stuck>>

AppTrySend(p, o) ==
  /\ <<p, o>> \in appToSend /\ TrySend(o, p)
  /\ appToSend' = appToSend \ {<<p, o>>}
  /\ UNCHANGED <<busVars, loopVars, sent, toSend, appSent, serveVars,
                 restVars, stuck>>

Cancel ==
  /\ ctxDone' = TRUE /\ busDone' = TRUE
  /\ UNCHANGED <<busQueue, busClosed, busPc, busEvent>>

Close ==
  /\ ~ctxDone /\ Cancel
  /\ UNCHANGED <<loopVars, outVars, sendVars, serveVars, timer, endHandled,
                 stuck>>

\* The timer is never stopped: it may fire long after the session has ended.
TimerFires ==
  /\ timer = "armed" /\ timer' = "fired"
  /\ Publish(StateEvent("hangup"))
  /\ UNCHANGED <<busClosed, busDone, busPc, busEvent, loopVars, outVars,
                 sendVars, serveVars, ctxDone, endHandled, stuck>>

\* Fault for SessionEnds: the timer only reports the hangup.
TimerReports ==
  /\ timer = "fired" /\ timer' = "over"
  /\ UNCHANGED <<busVars, loopVars, outVars, sendVars, serveVars, ctxDone,
                 endHandled, stuck>>

TimerCloses ==
  /\ timer = "fired" /\ timer' = "over"
  /\ Cancel
  /\ UNCHANGED <<loopVars, outVars, sendVars, serveVars, endHandled, stuck>>

\* WaitServeShutdown answers nil: nothing was announced, or Serve is over.
WaitServeShutdown == ~scheduled \/ serve = "done"

-----------------------------------------------------------------------------
(***************************************************************************)
(* Serve: announced, it spawns the loops, emits Begin, waits for the       *)
(* context, emits End and cleans up: inputs, outputs, bus, post hooks; the *)
(* last deferred call closes shutdownCh.                                   *)
(***************************************************************************)
At(from, to) == serve = from /\ serve' = to

NotifyServeStarting ==
  /\ serve = "idle" /\ ~scheduled /\ scheduled' = TRUE
  /\ UNCHANGED <<busVars, loopVars, sendVars, serve, cleaning, transport, timer>>

ServeStarts ==
  /\ scheduled /\ At("idle", "begin")
  /\ loop' = [x \in Transports |-> "spawned"]
  /\ timer' = "armed"
  /\ UNCHANGED <<busVars, carried, received, lateLoops, sendVars, cleaning,
                 transport, scheduled>>

EmitBegin ==
  /\ At("begin", "running") /\ Publish(StateEvent("begin"))
  /\ UNCHANGED <<busClosed, busDone, busPc, busEvent, loopVars, sendVars,
                 cleaning, transport, scheduled, timer>>

EmitEnd ==
  /\ ctxDone /\ At("running", "inputs") /\ Publish(StateEvent("end"))
  /\ UNCHANGED <<busClosed, busDone, busPc, busEvent, loopVars, sendVars,
                 cleaning, transport, scheduled, timer>>

Started(x) == loop[x] \notin {"none", "spawned"}

\* cleanup takes the lock of x and closes its transport.
CleanupCloses(x) ==
  /\ cleaning = Nothing /\ transport[x] = "open"
  /\ serve = IF x \in Inputs THEN "inputs" ELSE "outputs"
  /\ serve' = IF Started(x) THEN "await" ELSE "drop"
  /\ cleaning' = x
  /\ transport' = [transport EXCEPT ![x] = "closed"]
  /\ UNCHANGED <<busVars, loopVars, sendVars, scheduled, timer>>

\* Fault for ReadersReleased: the loop is not awaited.
AwaitNothing(x) ==
  /\ cleaning = x /\ At("await", "drop")
  /\ UNCHANGED <<busVars, loopVars, sendVars, cleaning, transport, scheduled,
                 timer>>

\* The loop has signalled, or five seconds have passed.
AwaitLoop(x) ==
  /\ cleaning = x /\ At("await", "drop")
  /\ loop[x] = "exited" \/ x \in stuck
  /\ UNCHANGED <<busVars, loopVars, sendVars, cleaning, transport, scheduled,
                 timer>>

\* The transport is forgotten, the filters see the close, the lock is free.
CleanupDrops(x) ==
  /\ cleaning = x
  /\ At("drop", IF x \in Inputs THEN "inputs" ELSE "outputs")
  /\ transport' = [transport EXCEPT ![x] = "nil"]
  /\ cleaning' = Nothing
  /\ UNCHANGED <<busVars, loopVars, sendVars, scheduled, timer>>

InputsCleaned ==
  /\ At("inputs", "outputs") /\ cleaning = Nothing
  /\ \A i \in Inputs : transport[i] = "nil"
  /\ UNCHANGED <<busVars, loopVars, sendVars, cleaning, transport, scheduled,
                 timer>>

CloseBus ==
  /\ At("outputs", "bus") /\ cleaning = Nothing
  /\ \A o \in Outputs : transport[o] = "nil"
  /\ CloseQueue
  /\ UNCHANGED <<loopVars, sendVars, cleaning, transport, scheduled, timer>>

ServeReturns ==
  /\ At("bus", "done") /\ WorkersGone
  /\ UNCHANGED <<busVars, loopVars, sendVars, cleaning, transport, scheduled,
                 timer>>

ServeStep ==
  /\ \/ ServeStarts \/ EmitBegin \/ EmitEnd
     \/ \E x \in Transports : CleanupCloses(x) \/ AwaitLoop(x) \/ CleanupDrops(x)
     \/ InputsCleaned \/ CloseBus \/ ServeReturns
  /\ UNCHANGED <<outVars, ctxDone, endHandled, stuck>>

Notify == NotifyServeStarting /\ UNCHANGED <<outVars, ctxDone, endHandled,
                                             stuck>>

-----------------------------------------------------------------------------
Next ==
  \/ \E x \in Transports : Loop(x)
  \/ \E b \in BusWorkers : BusWorker(b)
  \/ \E p \in AppPackets : SendToOutput(p) \/ \E o \in Outputs : AppTrySend(p, o)
  \/ Close \/ TimerFires \/ TimerCloses
  \/ Notify \/ ServeStep

Spec == Init /\ [][Next]_vars

(***************************************************************************)
(* Goroutines run.  A loop inside Next or Send comes back by itself only   *)
(* when its transport is closed and honours that; filters and handlers     *)
(* return.  Nobody has to call Close: the timer does.                      *)
(***************************************************************************)
Returns(x) == loop[x] \in {"next", "sending"} =>
                transport[x] # "open" /\ x \notin stuck

Fairness ==
  /\ WF_vars(ServeStep) /\ WF_vars(TimerFires) /\ WF_vars(TimerCloses)
  /\ \A x \in Transports : WF_vars(Returns(x) /\ Loop(x))
  /\ \A b \in BusWorkers : WF_vars(BusWorker(b))
  /\ \A p \in AppPackets, o \in Outputs : WF_vars(AppTrySend(p, o))

FairSpec == Spec /\ Fairness

-----------------------------------------------------------------------------
MediaTypeOK ==
  /\ Len(busQueue) <= BusSize
  /\ \A o \in Outputs : Len(txqueue[o]) <= TxSize
  /\ busPc \in [BusWorkers -> {"select", "dispatch", "route", "exited"}]
  /\ toSend \in [BusWorkers -> SUBSET Outputs]
  /\ loop \in [Transports -> {"none", "spawned", "check", "select", "next",
                              "filter", "send", "sending", "exited"}]
  /\ carried \in [Transports -> Packets \union AppPackets \union {Nothing}]
  /\ transport \in [Transports -> {"open", "closed", "nil"}]
  /\ serve \in {"idle", "begin", "running", "inputs", "outputs", "await",
                "drop", "bus", "done"}
  /\ timer \in {"off", "armed", "fired", "over"}
  /\ ctxDone => busDone

\* The places, on its way to output o, where packet p is.
Positions(s, e) == {n \in 1 .. Len(s) : s[n] = e}
Copies(o, p) ==
  Cardinality(Positions(busQueue, PacketEvent(p)))
  + Cardinality(Positions(txqueue[o], p))
  + Cardinality({x \in Inputs \union {o} : carried[x] = p})
  + Cardinality({b \in BusWorkers : /\ busEvent[b] = PacketEvent(p)
                                    /\ busPc[b] = "route" => o \in toSend[b]})
  + (IF p \in sent[o] THEN 1 ELSE 0)
  + (IF <<p, o>> \in appToSend THEN 1 ELSE 0)

(***************************************************************************)
(* OneCopy: from the transport it came in on to the transport it leaves    *)
(* by, through two queues and three goroutines, a packet is never          *)
(* duplicated: no output sends it twice.                                   *)
(***************************************************************************)
OneCopy == \A o \in Outputs, p \in Packets \union AppPackets : Copies(o, p) <= 1

(***************************************************************************)
(* ReadersReleased (session.go 281-283): when WaitServeShutdown has        *)
(* returned nil for a session whose Serve was announced, nobody is still   *)
(* reading an input transport, so another reader can own the socket.  Only *)
(* a transport that ignores its Close for five seconds can break this.     *)
(***************************************************************************)
ReadersReleased ==
  scheduled /\ WaitServeShutdown => \A i \in Inputs \ stuck : loop[i] # "next"

(***************************************************************************)
(* InputsQuiet (session.go 753): no input loop of a transport that honours *)
(* its Close emits to the event bus after cleanup has closed it.           *)
(***************************************************************************)
InputsQuiet == lateLoops \intersect Inputs \subseteq stuck

(***************************************************************************)
(* SessionEnds (session.go 686-736): every Serve ends, within its maximum  *)
(* duration plus a bounded cleanup: transports that hang, full queues and  *)
(* bus workers that wait for the lock cleanup holds do not stop it.        *)
(***************************************************************************)
SessionEnds == serve = "begin" ~> serve = "done"

(***************************************************************************)
(* What the comment in Serve (session.go 699) is there for: End goes out   *)
(* before the cleanup, so its handlers have run when Serve is over.        *)
(***************************************************************************)
EndIsHandled == serve = "done" => endHandled
=============================================================================
