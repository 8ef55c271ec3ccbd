\* A workload that does not convert ends the process.
SPECIFICATION Spec
CONSTANTS
  Calls <- CrashingCalls
  MaxCalls = 1
INVARIANT BadResourcesReported
\* The client may stop calling, and a panic ends the process.
CHECK_DEADLOCK FALSE
