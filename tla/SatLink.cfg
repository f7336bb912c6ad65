CONSTANTS
  Statuses = {{}, {2}}
  Interval = 1
  Timeout = 3
  MaxFetch = 4
  MaxFailures = 6
  HeartbeatEvery = 3
SPECIFICATION Spec
INVARIANTS LabelTellsLink PictureIsCoherent GivesUpInTime HeartbeatsAreSent
PROPERTIES SilenceIsShown DeadMonitorStopsFeeder
