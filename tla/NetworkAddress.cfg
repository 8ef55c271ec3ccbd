\* All values that grow from the seeds by up to four tokens.
SPECIFICATION Spec
CONSTANTS
  Seeds <- MCSeeds
  Tested <- MCTested
  MaxGrowth = 4
INVARIANTS AsTested PatternFound SuffixFound CleanAddress
\* The bound on growth ends a behaviour.
CHECK_DEADLOCK FALSE
