SPECIFICATION Spec
CONSTANTS
  c1 = c1
  c10 = c10
  c1x = c1x
  Containers <- MCContainers
  Prefixed <- MCPrefixed
  Dashed <- MCDashed
  Dotted = {c1}
  Supported = {3, 11}
  CheckSince = 4
  GCSince = 11
  Junk = Junk
  Versions <- MCVersions
  Confs <- MCConfs
  MaxInt = 127
  Multipliers = {1, 10, 12}
  BitsPerByte = 2
  Milli = 4
  DefaultRatio <- MCRatio
  MinBurst = 4
  DefaultHH = 16
  MinHH = 3
  TimeConst = 2
INVARIANTS
  TypeOK
  AnswersByTheProtocol
  LimitIsTheOneGiven
  LimitsAreUsable
PROPERTIES
  LimitsPersist
