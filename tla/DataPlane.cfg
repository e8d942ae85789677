SPECIFICATION DataPlaneSpec
CONSTANTS
  TextContains = {}
  TextStarts = {}
  TextEnds <- MCTextEnds
  RegexFinds = {}
  Hash <- MCHash
  Nodes <- DataPlaneNodes
  Tree <- DataPlaneTree
  Keys = {"A", "B", "C"}
  SegmentTrees <- MCSegmentTrees
  Variations <- MCVariations
  RuleSets <- MCRuleSets
  Settings <- MCSettings
  Named = {"u1@x"}
  Contexts <- MCContexts
  HashedKey <- MCHashedKey
  MaxRules = 2
  t1 = t1
  t2 = t2
  e1 = e1
  e2 = e2
  e3 = e3
  s1 = s1
  s2 = s2
  s3 = s3
  Threads = {t1, t2}
  Worker = Worker
  Closer = Closer
  Events = {e1, e2, e3}
  MaxBuffer = 2
  MaxFaults = 1
  Evaluators = {t1, t2}
  Evaluated = {s1, s2, s3}
  batch_size = 2
  MaxEvaluations = 4
  Apis = {t1, t2}
  Minute = 2
  Limit = 2
  MaxClock = 3
  MaxErrors = 1
  ItemKeys = {"host", "port"}
  Edits <- MCEdits
  MaxRequests = 3
CHECK_DEADLOCK FALSE
INVARIANTS
  DataTypesOK
  AcceptedEvaluates
  SdkAgrees
  SimulationAgrees
  ImpactPredicts
  FollowsRules
  SharesRespected
  NothingForgotten
  SentOnce
  BufferBounded
  EvaluationsKept
  FullSetFlushed
  LimitPerMinute
  CurrentIsLatest
  OnlyOverlappingMerge
PROPERTIES
  LeavesBuffer
  KeepsLog
  EveryRequestEnds
