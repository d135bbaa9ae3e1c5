CONSTANTS
  OptString <- MCOptString
  LongOpts <- MCLongOpts
  Argvs <- MCArgvs
  Letters = {"a", "b", "o", "x"}
  Names = {"f", "r", "p", "u"}
  Values <- MCValues
  Silent = TRUE
  None = None
SPECIFICATION Spec
INVARIANT ClusterOptionsInOrder
