\* Two calls, one waiting for the mutex when its budget passes.
CONSTANTS
  Call = {c1, c2}
  None = None
SPECIFICATION Spec
PROPERTIES
  QueuedFailFast
CHECK_DEADLOCK FALSE
