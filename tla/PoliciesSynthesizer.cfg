\* Two calls on one synthesizer, with and without WithStopOnError.
SPECIFICATION Spec
CONSTANTS
  Calls <- MCCalls
  MaxCalls = 2
INVARIANTS TypeOK EverythingAnalysed ErrorsAccounted NoSilentLoss
PROPERTIES StopsAtSevere CallsReturn
\* The client may stop calling, and a panic ends the process.
CHECK_DEADLOCK FALSE
