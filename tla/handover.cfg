CONSTANTS
  Managers = {m1, m2, m3}
  Clients = {c1}
  Nil = Nil
  Calm = {TRUE, FALSE}
SPECIFICATION FairSpec
INVARIANTS TypeOK WindowsKept NeverRefused
PROPERTY TakesOver
CHECK_DEADLOCK FALSE
