CONSTANTS
  Certs = {c1}
  Digests = {d1, d2}
  Algos <- MCSha1
  Inputs <- MCInputs
  CTs <- MCCTs
  MaxSigners = 1
  MaxAlgos = 1
  Uses = {"parse"}
  Disciplined = TRUE
  NoCert = NoCert
  NoDigest = NoDigest
SPECIFICATION AccSpec
INVARIANT IssuerSerialIndexChecked
CHECK_DEADLOCK FALSE
