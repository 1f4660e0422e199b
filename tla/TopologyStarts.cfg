\* The API and a worker start, publish, consume and restart, with the broker.
CONSTANTS
  api = api
  w1 = w1
  lane = lane
  other = other
  Process = {api, w1}
  Msg = {m1, m2}
  Queue = {lane, other, Dead}
  Dead = Dead
  Order <- DeclareOrder
  Reads <- Consumes
  None = None
  MaxFaults = 3
SPECIFICATION FairSpec
INVARIANTS
  Inductive
  ConfirmedIsKept
  OwnLaneOnly
PROPERTIES
  ComesUp
CHECK_DEADLOCK FALSE
