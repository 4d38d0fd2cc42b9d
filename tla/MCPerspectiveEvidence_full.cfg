SPECIFICATION EvidenceSpec
CHECK_DEADLOCK FALSE
CONSTANTS
  Concepts = {c1, c2, c3}
  Facts <- MCFacts
  SubjectOf <- MCSubjectOf
  Counters <- MCCounters
  FollowsFrom <- MCFollowsFrom
  Plans <- ArguedPlans
  NoPolarity = none
  MaxOpinions = 3
  MaxEpisodes = 6
  MaxEvidenceTurns = 4
INVARIANT AlwaysLoadable
