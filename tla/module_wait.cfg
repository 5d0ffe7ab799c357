CONSTANTS
  Modules = {m1, m2}
  Nil = Nil
  CmdLine = {}
  Types = {t}
  Extended = {}
  Masks = {}
  Texts = {"other"}
  Units = 1
  PipeSize = 1
  MaxPackets = 1
  MaxInputs = 2
  MaxWaits = 1
  MaxGrabs = 0
  MayExit = FALSE
  MayTerminate = FALSE
SPECIFICATION Spec
INVARIANTS CommandsKept SafeIteration
SYMMETRY MCSymmetry
CHECK_DEADLOCK FALSE
