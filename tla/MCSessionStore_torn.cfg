CONSTANTS
  Processes = {p1, p2}
  Sessions = {s1}
  Commands = {"turn"}
  Outcomes = {"answered"}
  MaxTurns = 2
  Nobody = Nobody
SPECIFICATION Spec
SYMMETRY ProcessSymmetry
INVARIANTS NeverHalfPersisted
CHECK_DEADLOCK FALSE
