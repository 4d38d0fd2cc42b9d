\* Registry: one of two scopes is presented; four versions in two turns.
SPECIFICATION LedgersSpec
CHECK_DEADLOCK FALSE
CONSTANTS
  Scopes = {1, 2}
  MaxActive = 1
  MaxRevisions = 3
  MaxInactive = 2
  MaxVersions = 4
  MaxTurn = 2
  Principals = {"user", "system", "policy"}
  Permissions = {"write"}
  Texts <- MCTexts
  Topics = {"it", "other", "line"}
  TopicOf <- MCTopicOf
  UnfitTopics = {"line"}
  Capacity = 1
  Defects = {"none", "signature"}
  Times = {0, 1, 2}
  Confidences = {25, 26}
  MaxUnsaved = 1
  MaxTurns = 3
  MaxIssued = 1
  Claims <- MCClaims
  MaxCommitments = 2
  MaxClaims = 3
  MaxEvents = 2
  Concepts = {"c1", "c2", "c3"}
  Facts <- MCFacts
  SubjectOf <- MCSubjectOf
  Counters <- MCCounters
  FollowsFrom <- MCFollowsFrom
  Plans <- MCPlans
  NoPolarity = "none"
  MaxOpinions = 2
  MaxEpisodes = 6
  MaxEvidenceTurns = 4
INVARIANTS ActiveIsSole LedgerIsWhole
  AlwaysLoadable ReplayIsIdempotent OnlyWholePlans
  HonouredOnceWhereIssued ReversalIsNoticed ShadowForetells
  NobodyEmpowersThemselves
PROPERTIES WithdrawnStaysOut PromotionShows ClaimsKeepTheirHistory
