SPECIFICATION Spec
CONSTANTS
  leader = leader
  engine = engine
  late = late
  other = other
  again = again
  shell = shell
  tail = tail
  self = self
  init = init
  Leader = leader
  Core <- MCCore
  Late = {late}
  Others = {other}
  Replacement = {again}
  Bystanders = {shell, tail}
  Self = self
  Tree <- MCTree
  MayShareGroup = {shell, tail}
  Patterned <- MCPatterned
  Marked <- MCMarked
  OnDefaultPort = {other}
  InitPid = init
  GraceSeconds = 2
  KillSeconds = 1
  Timeouts = {1, 2}
CHECK_DEADLOCK FALSE
INVARIANTS
  OnlyTargetGroupSignalled
  StoppedMeansListedGone
  LeftBehindWasKilled
PROPERTIES
  StagingOutlivesInstance
  ScriptEnds
