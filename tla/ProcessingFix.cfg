\* A worker that was started before the templates were fixed.
CONSTANTS
  api = api
  w1 = w1
  w2 = w2
  m1 = m1
  m2 = m2
  default = default
  welcome = welcome
  TemplateId = {default, welcome}
  Default = default
  Unset = Unset
  MinPhoneDigits = 2
  MaxPhoneDigits = 3
  MinDeviceTokenLength = 2
  PhoneTexts = {}
  EmailTexts = {}
  FrontMatters = {}
  Bodies = {}
  Msg = {m1}
  Asks <- WelcomeOnly
  Api = api
  Worker = {w1}
  Env <- OneEnv
  Releases <- ThreeReleases
  Garbled = Garbled
  None = None
  MaxStarts <- OneStart
SPECIFICATION Spec
PROPERTIES
  FixAppliesInFlight
CHECK_DEADLOCK FALSE
