SPECIFICATION FairSpec
CONSTANTS
  Callers = {"query"}
  Docs = 1
  StdinCap = 1
  StdoutCap = 1
  MaxNoise = 1
PROPERTIES
  SendsReturn
  ExitFreesUsers
  ShutdownReaps
  NothingLeft
CHECK_DEADLOCK FALSE
