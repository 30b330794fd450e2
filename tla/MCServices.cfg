SPECIFICATION MCSpec
CONSTANTS
  Editors = {e1}
  Job = job
  Stopper = stopper
  Configs = {c1, c2}
  Absent = Absent
  Off = Off
  Records = {r1, r2, r3}
  Nothing = Nothing
  MaxEdits = 2
  MaxFaults = 1
  Ids = {i1, i2}
  Workers = {w1, w2}
  BusSize = 2
  QueueSize = 1
  MaxPublish = 3
  Conns = {k1, k2}
  OpsSize = 2
  CastSize = 1
  SendSize = 1
  Attempts = 2
  MaxCasts = 2
  Homes = {h1, h2}
  Period = 2
  Allowance = 1
  Quota = 1
  Terms <- mcTerms
  MaxTime = 4
  MaxDeeds = 1
INVARIANTS
  TunnelTracked
  FingerprintTells
  InPublicationOrder
  QuietAfterStop
  NoGaps
  NoLeakedClient
  CopiesAgree
  RenewalsPaid
PROPERTIES
  TunnelConverges
  BusStopReturns
  StopClosesAll
  ExhaustedIsCutOff
  RenewalArrives
CHECK_DEADLOCK FALSE
