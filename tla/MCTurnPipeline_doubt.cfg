SPECIFICATION Spec
CHECK_DEADLOCK FALSE
CONSTANTS
  SeedAtoms = {"freedom"}
  NewTopics = {"n1"}
  ShortTopics = {}
  SelfTopics = {}
  World = "world"
  Derived = "derived"
  SeedEdges = 1
  Packs = {"p"}
  NoPack = "none"
  Modes = {"Define"}
  MaxAtoms = 4
  MaxEdges = 8
  HistoryCap = 2
  WitnessCap = 2
  ClaimCap = 2
  OpinionCap = 1
  DoubtAngst = 1
  CommitAngst = 2
  CollapseAngst = 3
  ContradictionLevel = 2
  FieldStart = 2
  FieldMax = 4
  MaxTurns = 2
  Renderers = {"legacy"}
  Rollouts = {"Disabled"}
PROPERTIES UnknownTopicRaisesDoubt
