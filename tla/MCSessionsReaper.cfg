SPECIFICATION FairSpec
CONSTANTS
  s1 = s1
  s2 = s2
  d1 = d1
  o1 = o1
  Sids <- MCSids
  Clients <- MCClients
  Reaper = reaper
  Observers <- MCObservers
  None = none
PROPERTIES
  ReaperSparesTheLive
CHECK_DEADLOCK FALSE
