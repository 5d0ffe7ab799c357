CONSTANTS
  Windows = {w1, w2}
  Funcs = {f1}
  Nil = Nil
  Conds = {"i", "c"}
  MAX_FUNCTION_DEPTH = 3
  MAX_READ_DEPTH = 1
  MaxItems = 1
  MaxLines = 2
  MaxBreak = 2
  MaxWaits = 1
SPECIFICATION Spec
INVARIANTS TypeOK GrabsBalanced ContextsLive BreakExact
CHECK_DEADLOCK FALSE
SYMMETRY Symmetry
