\* A batch of seven slow publishes, whose body comes at once.
CONSTANTS
  default = default
  welcome = welcome
  single = single
  many = many
  TemplateId = {default, welcome}
  Default = default
  Templates <- TemplatesOf
  Unset = Unset
  Request = {many}
  Items <- Long
  Batches = {many}
  Budget = 1
  HeaderTimeout = 0
  ReadTimeout = 0
  WriteTimeout = 6
  Grace = 2
SPECIFICATION Spec
INVARIANTS
  SlowPublishAnswered
CHECK_DEADLOCK FALSE
