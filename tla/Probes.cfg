CONSTANTS
  Path <- MCPath
  Gateway = "gw"
  Device = "dev"
  SeqMod = 3
  Timeout = 2
  MaxHops = 4
  Attempts = 2
  MaxShort = 2
  MaxAir = 2
SPECIFICATION Spec
INVARIANTS SuccessIsAnswer PingIsBounded HopsAreThePath HealthyIsMeasured
PROPERTY TicksEnd
