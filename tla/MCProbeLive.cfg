SPECIFICATION FairSpec
CONSTANTS
  BaudCount = 2
  MaxCaptureBytes = 1
  CaptureChunk = 1
  StreamChunk = 1
  RxRing = 1
  DefaultSeconds = 1
  MaxSeconds = 1
  SecondsArgs <- MCSecondsArgs
  StreamBauds = {0}
  MsPerSecond = 1
  WordSize = 4
  LoopDelays = {1}
  ScanDelays = {1}
  ByteCap = 1
  MaxSweeps = 1
  MaxWaiting = 2
INVARIANTS
  SerialPortHasOneUser
  AnalyzerFollowsItsUser
PROPERTIES
  LoopKeepsServing
  DeadClientIsReplaced
  ImplementsService
