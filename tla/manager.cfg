CONSTANTS
  Windows = {w1, w2}
  Nil = Nil
  Desks = {d1, d2}
  Policies <- MCPolicies
  Parents <- MCParents
  Parts = {"focus", "styles", "viewport"}
  grab = grab
  lenient = lenient
  star = star
  name = name
  client = client
  DefaultsOften = FALSE
SPECIFICATION MCSpec
CONSTRAINTS FewTroubles FewStates
INVARIANTS MCTypeOK FocusedGetsClicks StylesKept
PROPERTIES PlacesKept PointersKept RestoredOnDesk
CHECK_DEADLOCK FALSE
SYMMETRY Symmetry
