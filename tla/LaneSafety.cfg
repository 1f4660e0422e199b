\* Two workers compete for one notification, without a prefetch limit, and two
\* faults happen.
CONSTANTS
  m1 = m1
  m2 = m2
  w1 = w1
  w2 = w2
  lane = lane
  other = other
  Msg = {m1}
  Lane = {lane}
  Dead = Dead
  Worker = {w1, w2}
  LaneOf <- OneLaneOf
  Serves <- OneLaneFor
  Undeliverable = {}
  MaxRetries = 1
  Prefetch = 0
  MaxFaults = 2
SPECIFICATION Spec
SYMMETRY WorkerSymmetry
INVARIANTS
  Inductive
  ExactlyOnceUnlessFault
  NeverLost
  DeadLettersPaidFor
  DuplicatesBounded
  Accounted
CHECK_DEADLOCK FALSE
