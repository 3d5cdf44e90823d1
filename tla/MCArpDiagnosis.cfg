SPECIFICATION ProbeSpec
CONSTANTS
  ServerAfter = 0
  AutoAfter = 1
  WordSize = 2
  MaxRuns = 1
  MaximumTcpAttempts = 3
  TcpErrors = {"ECONNREFUSED"}
  SavedTargets <- MCSavedTargets
  CompiledTarget <- MCCompiledTarget
  Station <- MCStation
INVARIANT NoReplyWasAwaited
