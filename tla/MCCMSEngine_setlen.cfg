CONSTANTS
  Certs = {c1}
  Digests = {d1, d2}
  Algos <- MCAlgos
  Inputs <- MCInputs
  CTs <- MCCTs
  MaxSigners = 1
  MaxAlgos = 2
  Uses = {"build"}
  Disciplined = TRUE
  NoCert = NoCert
  NoDigest = NoDigest
SPECIFICATION Spec
INVARIANT DigestSetLengthMatches
CHECK_DEADLOCK FALSE
