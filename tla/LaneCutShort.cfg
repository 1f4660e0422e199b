\* A stop signal while a delivery waits for the rate limiter.
CONSTANTS
  m1 = m1
  m2 = m2
  w1 = w1
  w2 = w2
  lane = lane
  other = other
  Msg = {m1}
  Lane = {lane}
  Dead = Dead
  Worker = {w1}
  LaneOf <- OneLaneOf
  Serves <- OneLaneFor
  Undeliverable = {}
  MaxRetries = 1
  Prefetch = 2
  MaxFaults = 1
SPECIFICATION Spec
INVARIANTS
  DeadMeansTried
CHECK_DEADLOCK FALSE
