SPECIFICATION LibrarySpec
CHECK_DEADLOCK FALSE
CONSTANTS
  None = None
  Topics <- MCTopics
  Allowlist = {"freedom", "choice", "time"}
  Limits <- MCLimits
  MaxReleases = 1
  Nothing = None
  Inputs <- MCInputs
  TopicWords <- MCTopicWords
  Renderings <- MCRenderings
  Lower <- MCLower
  RefusalText = "refused"
  HistoryLimit = 6
  Form <- MCForm
  Registry <- MCRegistry
  Qualifiers = {}
  Drafts <- MCDrafts
  LowerWord <- MCLowerWord
  Embedded <- Canonical
  Overrides <- MCOverrides
  FrameRows <- MCFrameRows
  Allomorphs <- MCAllomorphs
  Claims <- MCClaims
  Absent = None
  Missing = None
  ProfileSize = 2
  Recognised = {"freedom", "truth", "power"}
  Profiles <- Tables
  Turns <- MCTurns
  Normalised <- MCNormalised
  PackPool <- MCPackPool
  Atoms = {"atom"}
  Relations = {"is", "opposes"}
  Fold <- MCFold
  LemmaOf <- MCLemmaOf
  Phrases <- MCPhrases
  MaxActive = 3
INVARIANTS LoadIsOrderFree OnlyCuratedIsAsserted V2SpeaksCertified ThesisReadsBack ReplyKeepsTheProfile ReceiptsReadBack AnswersFollowTheTypes SearchFindsTheBest StuckIsNoticed
PROPERTIES AliasesAreNotTakenOver ReplayTellsTheTurn
