--------------------------- MODULE MCCMSAccessors ---------------------------
(***************************************************************************)
(* Small instances of CMSAccessors for TLC, with the constants of          *)
(* MCCMSEngine.                                                            *)
(***************************************************************************)
EXTENDS MCCMSEngine, CMSAccessors

\* The cache run: only attached or detached signed data on the reader, and
\* signed data the only type a build may set, so that a container driven
\* both ways by a careless caller stays small enough to explore.
MCSignedInputs ==
  [oid : {"1.2.840.113549.1.7.2"}, detached : BOOLEAN,
   encap : {"1.2.840.113549.1.7.1"}, md : Digests, algo : Algos]

MCSignedCTs == {"SIGNED_DATA"}

\* No guard reads answer, so states that differ only in the last answer
\* have the same futures; the cache run identifies them.
CacheView == <<vars, digest_algo_cache>>
=============================================================================
