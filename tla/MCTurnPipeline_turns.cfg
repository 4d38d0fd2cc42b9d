SPECIFICATION Spec
CHECK_DEADLOCK FALSE
CONSTANTS
  SeedAtoms = {"freedom", "sense"}
  NewTopics = {"system", "n1"}
  ShortTopics = {"ya"}
  SelfTopics = {"system", "ya"}
  World = "world"
  Derived = "derived"
  SeedEdges = 1
  Packs = {"p", "q"}
  NoPack = "none"
  Modes = {"Define", "Reflect"}
  MaxAtoms = 5
  MaxEdges = 8
  HistoryCap = 2
  WitnessCap = 2
  ClaimCap = 2
  OpinionCap = 1
  DoubtAngst = 1
  CommitAngst = 2
  CollapseAngst = 3
  ContradictionLevel = 2
  FieldStart = 2
  FieldMax = 3
  MaxTurns = 3
  Renderers = {"audited", "v2"}
  Rollouts = {"Disabled", "Enabled"}
INVARIANTS ValidBetweenTurns RefusedTurnsTeachNothing LogTellsTheHistory CacheHitIsFresh
PROPERTIES CommitmentEndsInCollapse ImplementsOutcomes
