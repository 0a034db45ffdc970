SPECIFICATION Spec
CONSTANTS
  Conversation = {c1, c2}
  Past = {c2}
  None = None
  ToolUsers = {c1}
  MaxReads = 1
  MaxTurns = 1
  MaxText = 1
  MaxQueue = 1
  MaxDisturbances = 1
PROPERTIES
  DisconnectEndsRun
CHECK_DEADLOCK FALSE
