CONSTANTS
  Processes = {p1, p2}
  Sessions = {s1}
  Commands = {"turn", "shadow", "chat", "selfplay", "delete"}
  Outcomes = {"answered", "grounded", "blocked", "recovered"}
  MaxTurns = 2
  Nobody = Nobody
SPECIFICATION StoreSpec
SYMMETRY ProcessSymmetry
INVARIANTS TablesAgree ReplyAfterCommit NoSessionBricked WholeWhenAlone AnswersKeptWhenAlone
PROPERTIES ImplementsLogWhenAlone
CHECK_DEADLOCK FALSE
