CONSTANTS
  BootOrder <- EthThenWlan
  BootAddressed = {"wlan0"}
  MayGainAddress = {}
  Removable = {}
  Aliased = {}
  MaxInterfaces = 2
  CounterMod = 3
  BootCounters = {2}
  MaxDelta <- WlanBusy
  Second = 1
  Gaps = {1}
  ShortLen = 2
  MinuteLen = 2
SPECIFICATION Spec
INVARIANT TodayIsTraffic
