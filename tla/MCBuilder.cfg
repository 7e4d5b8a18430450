SPECIFICATION Spec
CONSTANTS
  Values = {"v"}
  Lucks = {"ok", "no_memory", "refused"}
  MaxObjects = 5
INVARIANTS
  TypeOK
  FramesMatchContainers
  OpenContainersFormPath
  KeyReady
  NoSharing
  UsedIsLive
PROPERTIES
  ImplementsAssembly
  OnlyInnermostGrows
CHECK_DEADLOCK FALSE
