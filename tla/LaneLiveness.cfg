\* One worker, a deliverable and an undeliverable notification, two faults.
CONSTANTS
  m1 = m1
  m2 = m2
  w1 = w1
  w2 = w2
  lane = lane
  other = other
  Msg = {m1, m2}
  Lane = {lane}
  Dead = Dead
  Worker = {w1}
  LaneOf <- OneLaneOf
  Serves <- OneLaneFor
  Undeliverable = {m2}
  MaxRetries = 1
  Prefetch = 2
  MaxFaults = 2
SPECIFICATION FairSpec
PROPERTIES
  KeepsPromise
  Settles
  Drains
  ConsumerRecovers
CHECK_DEADLOCK FALSE
