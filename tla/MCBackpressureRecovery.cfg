SPECIFICATION FairSpec
CONSTANTS
  Workers = 4
  BpL1 = 4
  BpL2 = 8
  BpL3 = 12
  ErrLimit = 5
  MaxErrors = 7
PROPERTIES
  LevelRecovers
