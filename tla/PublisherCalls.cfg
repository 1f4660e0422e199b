\* Three concurrent calls, and a broker that may never answer.
CONSTANTS
  Call = {c1, c2, c3}
  None = None
SPECIFICATION FairSpec
INVARIANTS
  Inductive
PROPERTIES
  KeepsContract
  CallsReturn
CHECK_DEADLOCK FALSE
