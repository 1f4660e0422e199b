\* Two workers of different lanes and the API, through a release that does not
\* load and two that do.
CONSTANTS
  api = api
  w1 = w1
  w2 = w2
  m1 = m1
  m2 = m2
  default = default
  welcome = welcome
  TemplateId = {default, welcome}
  Default = default
  Unset = Unset
  MinPhoneDigits = 2
  MaxPhoneDigits = 3
  MinDeviceTokenLength = 2
  PhoneTexts <- ShortNumbers
  EmailTexts <- ShortEmails
  FrontMatters <- ShortBlocks
  Bodies <- ShortBodies
  Msg = {m1, m2}
  Asks <- AsksOf
  Api = api
  Worker = {w1, w2}
  Env <- TwoEnvs
  Releases <- FixedRollout
  Garbled = Garbled
  None = None
  MaxStarts <- StartsOf
SPECIFICATION FairSpec
INVARIANTS
  Inductive
  DropsExplained
  RateBounded
  CatalogIsUsable
  FrontMatterComesBack
  PhoneNumbersAreE164
  EmailsAreAddresses
PROPERTIES
  EndsWhileServed
CHECK_DEADLOCK FALSE
