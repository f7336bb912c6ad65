CONSTANTS
  BootOrder <- EthThenWlan
  BootAddressed = {"eth0"}
  MayGainAddress = {"wlan0"}
  Removable = {"wlan0"}
  Aliased = {"wlan0"}
  MaxInterfaces = 2
  CounterMod = 3
  BootCounters = {2}
  MaxDelta <- WlanBusy
  Second = 1
  Gaps = {1, 2}
  ShortLen = 2
  MinuteLen = 2
SPECIFICATION Spec
INVARIANTS TableIsAnIndex TodayIsTraffic PeakBoundsHistory
PROPERTY MinutesKeepPace
