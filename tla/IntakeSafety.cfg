\* A single notification and a batch with items to reject.
CONSTANTS
  default = default
  welcome = welcome
  single = single
  many = many
  TemplateId = {default, welcome}
  Default = default
  Templates <- TemplatesOf
  Unset = Unset
  Request = {single, many}
  Items <- Mixed
  Batches = {many}
  Budget = 1
  HeaderTimeout = 1
  ReadTimeout = 2
  WriteTimeout = 3
  Grace = 2
SPECIFICATION FairSpec
INVARIANTS
  Inductive
  AnswersTrue
  CutOnlyIfLong
  ShutdownWaits
  ClientErrorStoresNothing
  RoutedAsAsked
PROPERTIES
  Ends
CHECK_DEADLOCK FALSE
