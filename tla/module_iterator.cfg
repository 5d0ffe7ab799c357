CONSTANTS
  Modules = {m1, m2}
  Nil = Nil
  CmdLine = {}
  Types = {t}
  Extended = {}
  Masks = {"sync"}
  Texts = {"other"}
  Units = 1
  PipeSize = 1
  MaxPackets = 1
  MaxInputs = 2
  MaxWaits = 0
  MaxGrabs = 1
  MayExit = TRUE
  MayTerminate = FALSE
SPECIFICATION Spec
INVARIANT SafeIteration
SYMMETRY MCSymmetry
CHECK_DEADLOCK FALSE
