CONSTANTS
  MaxInterfaces = 1
  MaxAlerts = 4
  Hysteresis = 2
  ErrThreshold = 10
  PingWarn = 100
  PingCrit = 500
  Ignored = {}
  ErrRates = {10, 11}
  Latencies = {100, 501}
  GatewayAnswers = {TRUE, FALSE}
  DnsAnswers = {TRUE}
SPECIFICATION Spec
INVARIANTS LogIndicesAgree RaisedOnPersistence BadgeZeroIffNoneActive
