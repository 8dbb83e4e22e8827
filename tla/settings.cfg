SPECIFICATION FairSpec
CONSTANTS
  a = a
  b = b
  Default = Default
  Values <- MCValues
  Absent = Absent
  Torn = Torn
  MaxFaults = 2
INVARIANTS AtMostOneLost NoReset DiskFollowsMemory
PROPERTIES Atomic BootsAgain
