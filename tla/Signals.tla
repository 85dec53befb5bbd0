------------------------------ MODULE Signals ------------------------------
(***************************************************************************)
(* The signal registry of src/utils/signals.go, for one signal name.       *)
(* Handlers may connect, disconnect, clear and emit; connects and          *)
(* disconnects made inside an Emit wait until it ends.  The list of        *)
(* handlers is a Go slice: removing an element moves the others inside the *)
(* array that a running Emit is still reading.                             *)
(***************************************************************************)
EXTENDS Naturals, Sequences, SequencesExt

CONSTANTS MaxHandlers, MaxDepth

ASSUME SignalsAssumption == MaxHandlers \in Nat /\ MaxDepth \in Nat

VARIABLES
  lastID,
  arrays,    \* the backing arrays there have been; the last one is in use
  length,    \* how much of the last array the registry's slice covers
  inLoop,
  events,    \* connects and disconnects that wait
  emits      \* the stack of running Emits, the innermost last

signalVars == <<lastID, arrays, length, inLoop, events, emits>>

Add(h) == [type |-> "add", handler |-> h]
Del(h) == [type |-> "del", handler |-> h]

SignalsInit ==
  /\ lastID = 0
  /\ arrays = <<<<>>>> /\ length = 0
  /\ inLoop = FALSE /\ events = <<>> /\ emits = <<>>

-----------------------------------------------------------------------------
(***************************************************************************)
(* Slices.  append writes behind the slice while the array has room and    *)
(* moves to an array of twice the size otherwise.                          *)
(***************************************************************************)
NoHandler == 0
Slice(all, n) == [arrays |-> all, length |-> n]

AppendHandler(s, h) ==
  LET array == Last(s.arrays) n == s.length IN
  IF n < Len(array)
  THEN Slice(Front(s.arrays) \o <<[array EXCEPT ![n + 1] = h]>>, n + 1)
  ELSE Slice(s.arrays \o <<[i \in 1 .. (IF n = 0 THEN 1 ELSE 2 * n) |->
                              IF i <= n THEN array[i] ELSE IF i = n + 1 THEN h ELSE NoHandler]>>,
             n + 1)

RemoveHandler(s, h) ==
  LET array == Last(s.arrays)
      places == {i \in 1 .. s.length : array[i] = h}
      place == CHOOSE i \in places : \A j \in places : i <= j
  IN IF places = {} THEN s
     ELSE Slice(Front(s.arrays) \o <<[i \in DOMAIN array |->
                  IF i >= place /\ i < s.length THEN array[i + 1] ELSE array[i]]>>,
                s.length - 1)

Apply(s, event) == IF event.type = "add" THEN AppendHandler(s, event.handler)
                   ELSE RemoveHandler(s, event.handler)

\* The events that waited, one after the other.
Applied(s, waiting) ==
  LET after[n \in 0 .. Len(waiting)] == IF n = 0 THEN s ELSE Apply(after[n - 1], waiting[n])
  IN after[Len(waiting)]

processEvents(waiting, loop) ==
  IF loop
  THEN events' = waiting /\ UNCHANGED <<arrays, length>>
  ELSE LET s == Applied(Slice(arrays, length), waiting) IN
       /\ arrays' = s.arrays /\ length' = s.length
       /\ events' = <<>>

-----------------------------------------------------------------------------
\* Code that uses the registry: the program, or the handler that an Emit has
\* called last.
SomeoneRuns == IF emits = <<>> THEN TRUE ELSE Last(emits).called # <<>>

\* Fault for EmitCallsEach: a disconnect never waits.
DisconnectNow(h) ==
  /\ SomeoneRuns
  /\ processEvents(Append(events, Del(h)), FALSE)
  /\ UNCHANGED <<lastID, inLoop, emits>>

Connect ==
  /\ SomeoneRuns /\ lastID < MaxHandlers
  /\ lastID' = lastID + 1
  /\ processEvents(Append(events, Add(lastID + 1)), inLoop)
  /\ UNCHANGED <<inLoop, emits>>

Disconnect(h) ==
  /\ SomeoneRuns /\ h <= lastID
  /\ ~\E i \in 1 .. Len(events) : events[i] = Del(h)      \* bound: once per Emit
  /\ processEvents(Append(events, Del(h)), inLoop)
  /\ UNCHANGED <<lastID, inLoop, emits>>

\* Clear forgets the slice at once; what waits still happens.
Clear ==
  /\ SomeoneRuns
  /\ arrays' = Append(arrays, <<>>) /\ length' = 0
  /\ arrays[Len(arrays)] # <<>> /\ Len(arrays) < 2 * MaxHandlers       \* bound
  /\ UNCHANGED <<lastID, inLoop, events, emits>>

Emit ==
  /\ SomeoneRuns /\ Len(emits) < MaxDepth
  /\ inLoop' = TRUE
  /\ emits' = Append(emits, [array |-> Len(arrays), length |-> length,
                             began |-> SubSeq(Last(arrays), 1, length),
                             called |-> <<>>, inner |-> FALSE])
  /\ UNCHANGED <<lastID, arrays, length, events>>

CallNext ==
  /\ emits # <<>>
  /\ LET e == Last(emits) next == Len(e.called) + 1 IN
     /\ next <= e.length
     /\ emits' = [emits EXCEPT ![Len(emits)].called = Append(@, arrays[e.array][next])]
  /\ UNCHANGED <<lastID, arrays, length, inLoop, events>>

EndEmit ==
  /\ emits # <<>> /\ Len(Last(emits).called) = Last(emits).length
  /\ inLoop' = FALSE
  /\ emits' = [i \in 1 .. Len(emits) - 1 |-> [emits[i] EXCEPT !.inner = TRUE]]
  /\ processEvents(events, FALSE)
  /\ UNCHANGED lastID

SignalsNext ==
  \/ Connect \/ Clear \/ Emit \/ CallNext \/ EndEmit
  \/ \E h \in 1 .. MaxHandlers : Disconnect(h)

SignalsSpec == SignalsInit /\ [][SignalsNext]_signalVars

-----------------------------------------------------------------------------
SignalsTypeOK ==
  /\ lastID \in 0 .. MaxHandlers /\ inLoop \in BOOLEAN
  /\ length \in 0 .. MaxHandlers
  /\ events \in Seq([type : {"add", "del"}, handler : 1 .. MaxHandlers])

(***************************************************************************)
(* EmitCallsEach (Emit, processEvents): an Emit whose handlers do not emit *)
(* themselves calls the handlers that were connected when it began, each   *)
(* once and in order, whatever they connect, disconnect and clear; when    *)
(* no Emit is running, nothing waits.                                      *)
(***************************************************************************)
EmitCallsEach ==
  /\ \A i \in 1 .. Len(emits) : ~emits[i].inner => IsPrefix(emits[i].called, emits[i].began)
  /\ emits = <<>> => events = <<>> /\ ~inLoop
=============================================================================
