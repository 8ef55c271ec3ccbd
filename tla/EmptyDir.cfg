\* A directory without manifests after one with some is not told.
SPECIFICATION Spec
CONSTANTS
  Calls <- EmptyDirCalls
  MaxCalls = 1
INVARIANT EmptyDirsReported
\* The client may stop calling, and a panic ends the process.
CHECK_DEADLOCK FALSE
