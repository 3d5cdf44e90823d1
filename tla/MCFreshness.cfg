SPECIFICATION Spec
CONSTANTS
  ServerAfter = 0
  AutoAfter = 1
  WordSize = 2
  MaxRuns = 2
INVARIANT AcceptedIsTheRunsOwn
