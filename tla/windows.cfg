CONSTANTS
  Windows = {w1, w2, w3}
  Nil = Nil
  Root = Root
  MaxLayer = 1
  Styles <- MCStyles
  MayRetarget = TRUE
  MayLoop = FALSE
  MaySkipQuery = FALSE
  Parts = {"stacking", "desks"}
  parent1 = parent1
  transient1 = transient1
  StrayIcons = FALSE
SPECIFICATION MCSpec
CONSTRAINT FewLayers
INVARIANTS MCTypeOK ServerAgrees LayersSorted ShownRight
PROPERTY PagerFollows
CHECK_DEADLOCK FALSE
SYMMETRY Symmetry
