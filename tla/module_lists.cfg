CONSTANTS
  Modules = {m1, m2}
  Nil = Nil
  CmdLine = {}
  Types = {t}
  Extended = {}
  Masks = {"sync"}
  Texts = {"unlock", "other"}
  Units = 1
  PipeSize = 1
  MaxPackets = 1
  MaxInputs = 2
  MaxWaits = 0
  MaxGrabs = 0
  MayExit = TRUE
  MayTerminate = FALSE
SPECIFICATION Spec
INVARIANTS ModulesOwned
SYMMETRY MCSymmetry
VIEW MCView
CHECK_DEADLOCK FALSE
