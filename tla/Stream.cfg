SPECIFICATION MCSpec
CONSTANTS
  c1 = c1
  c2 = c2
  Readers = {"forwarder", "reader"}
  Routes = {"lazy", "direct", "proxy"}
  Modes = {"loop", "complete"}
  Calls = {c1, c2}
  MaxDeltas = 3
  MaxBlocks = 2
  MaxWire = 2
INVARIANTS EventsInOrder BlocksExact Whole
PROPERTIES AbortHonoured Settles
CHECK_DEADLOCK FALSE
