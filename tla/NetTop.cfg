\* One run of the command, with every combination of flags.
SPECIFICATION NetSpec
CONSTANTS
  CommandLines <- MCCommandLines
  Calls <- MCNetCalls
  MaxCalls = 1
INVARIANTS LogIsErrors ExitTellsResult SilenceMeansComplete
PROPERTIES TruncatedLast NetTermination
