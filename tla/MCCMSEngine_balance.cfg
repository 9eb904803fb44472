CONSTANTS
  Certs = {c1}
  Digests = {d1, d2}
  Algos <- MCSha1
  Inputs <- MCInputs
  CTs <- MCCTs
  MaxSigners = 1
  MaxAlgos = 1
  Uses = {"build"}
  Disciplined = TRUE
  NoCert = NoCert
  NoDigest = NoDigest
SPECIFICATION Spec
INVARIANT BalancedOutput
CHECK_DEADLOCK FALSE
