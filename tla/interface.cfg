CONSTANTS
  Parts = {"menus", "frames"}
  Ids = {m1, m2, m3}
  A = A
  B = B
  Names = {A, B}
  ListName = ListName
  Slots = {"i1", "i2"}
  Layout <- MCLayout
  Nil = Nil
  MAX_MENU_COPIES = 2
  MaxStack = 4
  Missing = TRUE
  MenuHabits = {}
  HintSets <- ClientHints
  Widths <- ClientWidths
  Places <- Here
  Pages <- TwoPages
  ShadeDirs <- ThreeDirs
  Borders <- OneBorder
  TitleThickness = 2
  Limits <- OneLimit
  Methods = {"auto", "grav"}
  MaxQueue = 2
  MaxPlace = 1
SPECIFICATION MCSpec
INVARIANTS MCTypeOK MenusKept FramesKept 
CONSTRAINTS FewActions FewRequests FewTroubles
SYMMETRY Symmetry
CHECK_DEADLOCK FALSE
