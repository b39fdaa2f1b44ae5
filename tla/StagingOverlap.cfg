SPECIFICATION Spec
CONSTANTS
  l1 = l1
  l2 = l2
  l3 = l3
  l4 = l4
  idA = idA
  idB = idB
  idC = idC
  Launches <- MCLaunches
  Ids = {idA, idB, idC}
  Ranks = {r1, r2}
  Earlier = Earlier
  None = None
  EngineId <- MCEngineId
  Bytes <- MCBytes
  ShmTotal = 4
  RamTotal = 5
  Reserve = 2
  Unsafe = {l2}
  CheckOnly = {l4}
  CleanStart = {l3}
  WipeFirst = {l3}
  Overlap = TRUE
PROPERTY LiveFileRefusesLaunch
CHECK_DEADLOCK FALSE
