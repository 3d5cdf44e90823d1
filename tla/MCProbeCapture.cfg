SPECIFICATION Spec
CONSTANTS
  BaudCount = 2
  MaxCaptureBytes = 2
  CaptureChunk = 2
  StreamChunk = 2
  RxRing = 3
  DefaultSeconds = 1
  MaxSeconds = 2
  SecondsArgs <- MCSecondsArgs
  StreamBauds = {}
  MsPerSecond = 2
  WordSize = 7
  LoopDelays = {1}
  ScanDelays = {1}
  ByteCap = 3
  MaxSweeps = 2
  MaxWaiting = 0
INVARIANTS
  TypeOK
  StoredIsAPrefix
  SummaryDescribesFlash
  SummaryMirrorsCapture
  NoStaleEvidence
  SampleKeepsTime
PROPERTIES
  NoSampleCutShort
  FinishedResultsAreFrozen
