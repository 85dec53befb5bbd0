--------------------------- MODULE PipelineStage ---------------------------
(***************************************************************************)
(* A pipeline of stages (src/media/stage.go): each has a queue and, once   *)
(* started, a goroutine; the last one, without a middleware, hands packets *)
(* to the outputs.  A stage without a goroutine processes a packet in the  *)
(* caller, and refuses one that the stage before it forwards.  Nothing is  *)
(* locked: a stage may be stopped while another goroutine forwards to it.  *)
(***************************************************************************)
EXTENDS Naturals, Sequences, FiniteSets, SequencesExt

CONSTANTS StageCount, MaxEmits, StageQueueSize

ASSUME StageAssumption ==
  StageCount \in Nat \ {0} /\ MaxEmits \in Nat /\ StageQueueSize \in Nat

VARIABLES
  workerRunning,  \* per stage, the field
  stageDone,      \* the stage's context is done
  eventQueue,     \* packets in the stage's queue
  queueClosed,
  stageLoop,      \* the stage's goroutine: "none", "select", "work", "gone"
  processing,     \* the packet the stage's goroutine processes, 0 for none
  inline,         \* the packet the caller of EmitPacket processes itself
  emitted,        \* history: packets given to the first stage; numbered
  delivered,      \* history: what reached the outputs, in order
  crashed         \* somebody has sent on a closed queue: the process is dead

stageVars == <<workerRunning, stageDone, eventQueue, queueClosed, stageLoop, processing,
               inline, emitted, delivered, crashed>>

Stage == 1 .. StageCount

StageInit ==
  /\ workerRunning = [s \in Stage |-> FALSE] /\ stageDone = [s \in Stage |-> FALSE]
  /\ eventQueue = [s \in Stage |-> <<>>] /\ queueClosed = [s \in Stage |-> FALSE]
  /\ stageLoop = [s \in Stage |-> "none"]
  /\ processing = [s \in Stage |-> 0]
  /\ inline = 0 /\ emitted = 0 /\ delivered = <<>> /\ crashed = FALSE

\* Bound: a stage is started once.
startWorker(s) ==
  /\ ~workerRunning[s] /\ stageLoop[s] = "none"
  /\ workerRunning' = [workerRunning EXCEPT ![s] = TRUE]
  /\ stageLoop' = [stageLoop EXCEPT ![s] = "select"]
  /\ UNCHANGED <<stageDone, eventQueue, queueClosed, processing, inline, emitted, delivered,
                 crashed>>

\* stopWorker cancels and closes, waits for the goroutine, and only then
\* clears the field.
stopWorker(s) ==
  /\ workerRunning[s] /\ ~queueClosed[s]
  /\ stageDone' = [stageDone EXCEPT ![s] = TRUE]
  /\ queueClosed' = [queueClosed EXCEPT ![s] = TRUE]
  /\ UNCHANGED <<workerRunning, eventQueue, stageLoop, processing, inline, emitted, delivered,
                 crashed>>

WorkerStopped(s) ==
  /\ workerRunning[s] /\ queueClosed[s] /\ stageLoop[s] = "gone"
  /\ workerRunning' = [workerRunning EXCEPT ![s] = FALSE]
  /\ UNCHANGED <<stageDone, eventQueue, queueClosed, stageLoop, processing, inline, emitted,
                 delivered, crashed>>

-----------------------------------------------------------------------------
\* Fault for PacketsGoRight: a new packet goes to the front of the queue.
enqueueFirst(s, p) ==
  IF ~workerRunning[s] THEN UNCHANGED <<eventQueue, crashed>>
  ELSE IF queueClosed[s] THEN crashed' = TRUE /\ UNCHANGED eventQueue
  ELSE /\ eventQueue' = IF Len(eventQueue[s]) < StageQueueSize
                        THEN [eventQueue EXCEPT ![s] = <<p>> \o @] ELSE eventQueue
       /\ UNCHANGED crashed

\* A full queue drops the packet; a closed one makes the sender panic.
enqueueEvent(s, p) ==
  IF ~workerRunning[s] THEN UNCHANGED <<eventQueue, crashed>>
  ELSE IF queueClosed[s] THEN crashed' = TRUE /\ UNCHANGED eventQueue
  ELSE /\ eventQueue' = IF Len(eventQueue[s]) < StageQueueSize
                        THEN [eventQueue EXCEPT ![s] = Append(@, p)] ELSE eventQueue
       /\ UNCHANGED crashed

\* One goroutine emits; without a goroutine in the stage it also processes.
EmitToStage ==
  /\ inline = 0 /\ emitted < MaxEmits
  /\ emitted' = emitted + 1
  /\ IF workerRunning[1]
     THEN enqueueEvent(1, emitted + 1) /\ UNCHANGED inline
     ELSE inline' = emitted + 1 /\ UNCHANGED <<eventQueue, crashed>>
  /\ UNCHANGED <<workerRunning, stageDone, queueClosed, stageLoop, processing, delivered>>

\* eventLoop's select.
TakePacket(s) ==
  /\ stageLoop[s] = "select" /\ eventQueue[s] # <<>>
  /\ processing' = [processing EXCEPT ![s] = Head(eventQueue[s])]
  /\ eventQueue' = [eventQueue EXCEPT ![s] = Tail(@)]
  /\ stageLoop' = [stageLoop EXCEPT ![s] = "work"]
  /\ UNCHANGED <<workerRunning, stageDone, queueClosed, inline, emitted, delivered, crashed>>

EventLoopEnds(s) ==
  /\ stageLoop[s] = "select"
  /\ stageDone[s] \/ (queueClosed[s] /\ eventQueue[s] = <<>>)
  /\ stageLoop' = [stageLoop EXCEPT ![s] = "gone"]
  /\ UNCHANGED <<workerRunning, stageDone, eventQueue, queueClosed, processing, inline,
                 emitted, delivered, crashed>>

\* The filters may fail or drop the packet; the last stage delivers it, every
\* other one forwards it.
processPacketAsync(s, p) ==
  \/ UNCHANGED <<eventQueue, delivered, crashed>>
  \/ /\ s = StageCount
     /\ delivered' = Append(delivered, p)
     /\ UNCHANGED <<eventQueue, crashed>>
  \/ /\ s < StageCount
     /\ enqueueEvent(s + 1, p)
     /\ UNCHANGED delivered

StageWorks(s) ==
  /\ stageLoop[s] = "work"
  /\ processPacketAsync(s, processing[s])
  /\ processing' = [processing EXCEPT ![s] = 0]
  /\ stageLoop' = [stageLoop EXCEPT ![s] = "select"]
  /\ UNCHANGED <<workerRunning, stageDone, queueClosed, inline, emitted>>

CallerWorks ==
  /\ inline # 0
  /\ processPacketAsync(1, inline)
  /\ inline' = 0
  /\ UNCHANGED <<workerRunning, stageDone, queueClosed, stageLoop, processing, emitted>>

StageNext ==
  /\ ~crashed
  /\ \/ EmitToStage \/ CallerWorks
     \/ \E s \in Stage : \/ startWorker(s) \/ stopWorker(s) \/ WorkerStopped(s)
                         \/ TakePacket(s) \/ EventLoopEnds(s) \/ StageWorks(s)

StageSpec == StageInit /\ [][StageNext]_stageVars

-----------------------------------------------------------------------------
StageTypeOK ==
  /\ workerRunning \in [Stage -> BOOLEAN] /\ queueClosed \in [Stage -> BOOLEAN]
  /\ stageLoop \in [Stage -> {"none", "select", "work", "gone"}]
  /\ crashed \in BOOLEAN
  /\ processing \in [Stage -> 0 .. MaxEmits] /\ inline \in 0 .. MaxEmits
  /\ \A s \in Stage : eventQueue[s] \in Seq(1 .. MaxEmits) /\ Len(eventQueue[s]) <= StageQueueSize

(***************************************************************************)
(* StagesKeepOrder (processPacketAsync, enqueueEvent): packets may be lost *)
(* on the way, but those that reach the outputs do so once and in the      *)
(* order in which they were emitted, also when stages are started and      *)
(* stopped while packets are in them.                                      *)
(***************************************************************************)
StagesKeepOrder == \A i, j \in 1 .. Len(delivered) : i < j => delivered[i] < delivered[j]
=============================================================================
