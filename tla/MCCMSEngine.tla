---------------------------- MODULE MCCMSEngine ----------------------------
(***************************************************************************)
(* Small instances of CMSEngine for TLC.                                   *)
(***************************************************************************)
EXTENDS CMSEngine

\* SHA-1 (1.3.14.3.2.26) and SHA-256 (2.16.840.1.101.3.4.2.1).
MCAlgos == { <<1, 3, 14, 3, 2, 26>>, <<2, 16, 840, 1, 101, 3, 4, 2, 1>> }
MCSha1 == { <<1, 3, 14, 3, 2, 26>> }

\* Messages on the reader: signed data, attached or detached, with inner
\* type data; a data message (stub handler); auth-data (no handler); and
\* an OID the table does not know.
MCInputs ==
  [oid : {"1.2.840.113549.1.7.2", "1.2.840.113549.1.7.1",
          "1.2.840.113549.1.9.16.1.2", "1.2.3.4"},
   detached : BOOLEAN, encap : {"1.2.840.113549.1.7.1"}, md : Digests,
   algo : Algos]

MCCTs == {"SIGNED_DATA", "DATA", "AUTH_DATA", "NONE"}
=============================================================================
