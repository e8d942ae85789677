SPECIFICATION FlagServingSpec
CONSTANTS
  TextContains = {}
  TextStarts = {}
  TextEnds <- MCTextEnds
  RegexFinds = {}
  Hash <- MCHash
  Nodes <- MCNodes
  Tree <- MCTree
  Keys = {"A", "B", "C"}
  SegmentTrees <- MCSegmentTrees
  Variations <- MCVariations
  RuleSets <- MCRuleSets
  Settings <- MCSettings
  Named = {"u1@x"}
  Contexts <- MCContexts
  HashedKey <- MCHashedKey
  MaxRules = 2
PROPERTY RolloutMonotone
CHECK_DEADLOCK FALSE
