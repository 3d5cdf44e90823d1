SPECIFICATION Spec
CONSTANTS
  BaudCount = 2
  MaxCaptureBytes = 1
  CaptureChunk = 1
  StreamChunk = 1
  RxRing = 1
  DefaultSeconds = 1
  MaxSeconds = 2
  SecondsArgs <- MCSecondsArgs
  StreamBauds = {1}
  MsPerSecond = 1
  WordSize = 5
  LoopDelays = {1}
  ScanDelays = {1}
  ByteCap = 1
  MaxSweeps = 1
  MaxWaiting = 0
INVARIANT StreamCountersAreTheStreams
