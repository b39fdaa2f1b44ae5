SPECIFICATION Spec
CONSTANTS
  leader = leader
  engine = engine
  late = late
  other = other
  again = again
  shell = shell
  tail = tail
  self = self
  init = init
  Leader = leader
  Core <- MCCore
  Late = {}
  Others = {other}
  Replacement = {}
  Bystanders = {}
  Self = self
  Tree <- MCTree
  MayShareGroup = {other}
  Patterned <- MCPatterned
  Marked <- MCMarked
  OnDefaultPort = {other}
  InitPid = init
  GraceSeconds = 2
  KillSeconds = 1
  Timeouts = {1, 2}
CHECK_DEADLOCK FALSE
INVARIANT OtherInstancesUntouched
