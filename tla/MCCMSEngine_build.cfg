CONSTANTS
  Certs = {c1}
  Digests = {d1, d2}
  Algos <- MCAlgos
  Inputs <- MCInputs
  CTs <- MCCTs
  MaxSigners = 2
  MaxAlgos = 2
  Uses = {"build"}
  Disciplined = TRUE
  NoCert = NoCert
  NoDigest = NoDigest
SPECIFICATION Spec
INVARIANT TypeOK HandlerAgreesWithOid HashedAttrsEmbedded SignerAlgoAnnounced
PROPERTY ProtocolRefined
CHECK_DEADLOCK FALSE
