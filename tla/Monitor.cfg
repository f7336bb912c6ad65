CONSTANTS
  MaxInterfaces = 1
  MaxAlerts = 4
  Hysteresis = 3
  ErrThreshold = 10
  PingWarn = 100
  PingCrit = 500
  Ignored = {}
  ErrRates = {0}
  Latencies = {20}
  MediumPeriod = 2
  SlowPeriod = 7
  MediumBlocks = 1
  SlowBlocks = 3
  TickMod = 15
  MaxSettings = 1
  Faults = {"down", "gone"}
  GatewayAnswers = {TRUE}
  DnsAnswers = {TRUE}
SPECIFICATION MonSpec
INVARIANTS DownIsReported NoLateAlarm
