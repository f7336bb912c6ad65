CONSTANTS
  Networks = {"lan", "cafe"}
  MaxNetworks = 2
  MaxLines = 4
SPECIFICATION WifiSpec
INVARIANTS WifiTypeOK ScanIsExact
PROPERTY LostLinkIsNoticed
