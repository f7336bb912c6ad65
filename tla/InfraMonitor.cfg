CONSTANTS
  MaxInfra = 3
  Below = 2
  MaxFails = 1
SPECIFICATION Spec
INVARIANTS TypeOK FairShare
PROPERTY EveryDeviceIsPinged
