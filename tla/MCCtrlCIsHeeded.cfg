SPECIFICATION ServerSpec
CONSTANTS
  c1 = c1
  c2 = c2
  c3 = c3
  Clients = {c1, c2, c3}
  None = None
  Nothing = Nothing
  Failure = Failure
  Missing = Missing
  Unreadable = Unreadable
  Lower <- MCLower
  Inodes = {1, 2}
  Scenes <- FullScenes
PROPERTY CtrlCIsHeeded
CHECK_DEADLOCK FALSE
