\* max_sessions is 1, as by default.
SPECIFICATION SSpec
CONSTANTS
  None = None
  MaxIds = 2
  Closer = {c1}
  Helper = {}
  Port = {}
  MaxSessions = 1
  MaxStops = 0
  Troubles <- OnOneNode
INVARIANT OneActiveSession
CHECK_DEADLOCK FALSE
