SPECIFICATION Spec
CONSTANTS
  BaudCount = 2
  MaxCaptureBytes = 1
  CaptureChunk = 2
  StreamChunk = 2
  RxRing = 3
  DefaultSeconds = 1
  MaxSeconds = 1
  SecondsArgs <- MCSecondsArgs
  StreamBauds = {0, 1}
  MsPerSecond = 1
  WordSize = 4
  LoopDelays = {1}
  ScanDelays = {1}
  ByteCap = 4
  MaxSweeps = 0
  MaxWaiting = 2
INVARIANT ClientSeesNoGap
