\* A worker whose publisher connection is lost goes on consuming.
CONSTANTS
  m1 = m1
  m2 = m2
  w1 = w1
  w2 = w2
  lane = lane
  other = other
  Msg = {m1}
  Lane = {lane}
  Dead = Dead
  Worker = {w1}
  LaneOf <- OneLaneOf
  Serves <- OneLaneFor
  Undeliverable = {}
  MaxRetries = 1
  Prefetch = 2
  MaxFaults = 1
SPECIFICATION FairSpec
PROPERTIES
  NeverLoopsForever
CHECK_DEADLOCK FALSE
