SPECIFICATION Spec
CONSTANTS
  in1 = in1  out1 = out1  p1 = p1  p2 = p2  b1 = b1  b2 = b2  a1 = a1
  Inputs = {in1}
  Outputs = {out1}
  Packets = {p1}
  AppPackets = {}
  BusWorkers = {b1}
  BusSize = 1
  TxSize = 1
  NoEvent = noEvent
  Nothing = nothing
INVARIANTS EndIsHandled
CHECK_DEADLOCK FALSE
