SPECIFICATION TwoSpec
CONSTANTS
  Inodes1 = {1}
  Inodes2 = {2}
PROPERTY LiveSocketIsKept
CHECK_DEADLOCK FALSE
