CONSTANTS
  Certs = {c1}
  Digests = {d1, d2}
  Algos <- MCSha1
  Inputs <- MCInputs
  CTs <- MCCTs
  MaxSigners = 2
  MaxAlgos = 1
  Uses = {"build"}
  Disciplined = TRUE
  NoCert = NoCert
  NoDigest = NoDigest
SPECIFICATION Spec
PROPERTY SignerIndexIsAdditionOrder
CHECK_DEADLOCK FALSE
