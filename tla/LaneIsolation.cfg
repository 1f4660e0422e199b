\* Two lanes, each with a worker; only the first worker makes progress.
CONSTANTS
  m1 = m1
  m2 = m2
  w1 = w1
  w2 = w2
  lane = lane
  other = other
  Msg = {m1, m2}
  Lane = {lane, other}
  Dead = Dead
  Worker = {w1, w2}
  LaneOf <- TwoLanesOf
  Serves <- TwoLanesFor
  Undeliverable = {}
  MaxRetries = 1
  Prefetch = 1
  MaxFaults = 1
SPECIFICATION FirstLaneSpec
PROPERTIES
  FirstLaneIsolated
  LanesStayApart
  FailuresStayLocal
CHECK_DEADLOCK FALSE
