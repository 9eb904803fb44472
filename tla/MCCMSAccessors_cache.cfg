CONSTANTS
  Certs = {c1}
  Digests = {d1}
  Algos <- MCSha1
  Inputs <- MCSignedInputs
  CTs <- MCSignedCTs
  MaxSigners = 1
  MaxAlgos = 1
  Uses = {"parse", "build"}
  Disciplined = FALSE
  NoCert = NoCert
  NoDigest = NoDigest
SPECIFICATION AccSpec
INVARIANT AccTypeOK CacheCoherent
VIEW CacheView
CHECK_DEADLOCK FALSE
