CONSTANTS
  Modules = {m1}
  Nil = Nil
  CmdLine = {}
  Types = {t}
  Extended = {}
  Masks = {"sync", "pipe", "nograb"}
  Texts = {"unlock", "finished", "other"}
  Units = 2
  PipeSize = 3
  MaxPackets = 2
  MaxInputs = 2
  MaxWaits = 0
  MaxGrabs = 1
  MayExit = TRUE
  MayTerminate = FALSE
SPECIFICATION Spec
INVARIANTS TypeOK StreamWhole NoMutualWait
PROPERTY DeliversPackets
CHECK_DEADLOCK FALSE
