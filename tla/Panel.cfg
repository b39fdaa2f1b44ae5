SPECIFICATION Spec
CONSTANTS
  back = back
  front = front
  Panels <- MCPanels
  Background = {back}
  Stops = {s1, s2}
  ParentPolls = 1
  StopPolls = 2
  Overlap = FALSE
  NoFile = NoFile
  Empty = Empty
INVARIANTS
  StrangersNotSignalled
  ServingIsStoppable
PROPERTIES
  KeepsSlot
  AskedPanelEnds
CHECK_DEADLOCK FALSE
