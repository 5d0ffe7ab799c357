CONSTANTS
  Modules = {m1}
  Nil = Nil
  CmdLine = {}
  Types = {t}
  Extended = {}
  Masks = {"sync"}
  Texts = {"unlock", "finished", "other"}
  Units = 1
  PipeSize = 1
  MaxPackets = 2
  MaxInputs = 1
  MaxWaits = 0
  MaxGrabs = 1
  MayExit = TRUE
  MayTerminate = TRUE
SPECIFICATION FairSpec
PROPERTIES TerminationUnwinds QueuesDrain
CHECK_DEADLOCK FALSE
