---------------------------- MODULE CMSAccessors ----------------------------
(***************************************************************************)
(* The read accessors of the CMS container (src/src/cms.c) composed with   *)
(* the engine of CMSEngine: the caller may query the container between any *)
(* two engine calls.  The accessors change nothing in the container except *)
(* ksba_cms_get_digest_algo, which memoises the OID it finds in            *)
(* signer_info.cache.digest_algo.                                          *)
(*                                                                         *)
(* What each accessor returns is an operator of the state (ContentTypeOf, *)
(* ...); answer records what the last accessor call returned: the call,    *)
(* its index argument and the value.                                       *)
(***************************************************************************)
EXTENDS CMSEngine, Integers

VARIABLES
  digest_algo_cache,  \* cms->signer_info.cache.digest_algo (NULL: empty)
  answer              \* the last accessor's call, index and result

accVars == <<digest_algo_cache, answer>>
allVars == <<vars, accVars>>

NoAnswer == [call |-> "none", idx |-> 0, ret |-> NULL]

\* A SignerInfos read by _ksba_cms_parse_signed_data_part_2 always has its
\* sid and digestAlgorithm; the partial one build_signed_data_attributes
\* makes holds only the signedAttrs.  signer_algo tells the two apart.
SignerInfoParsed == signer_algo # NULL

(***************************************************************************)
(* What each accessor returns in the current state.                        *)
(***************************************************************************)

\* Mutant: the inner type is looked up as the row's OID, not its type.
content_type_of_oid(what) ==
  IF what = 0 THEN content_ct
  ELSE IF what = 1 /\ encap_cont_type # NULL /\ KnownOid(encap_cont_type)
       THEN RowOfOid(encap_cont_type).oid
       ELSE "NONE"

\* ksba_cms_get_content_type: what = 0 is content.ct; what = 1 looks
\* encap_cont_type up in the table; anything else, or an unknown OID, is 0.
ContentTypeOf(what) ==
  IF what = 0 THEN content_ct
  ELSE IF what = 1 /\ encap_cont_type # NULL /\ KnownOid(encap_cont_type)
       THEN RowOfOid(encap_cont_type).ct
       ELSE "NONE"

\* ksba_cms_get_content_oid.
ContentOidOf(what) ==
  IF what = 0 THEN content_oid
  ELSE IF what = 1 THEN encap_cont_type
  ELSE NULL

\* ksba_cms_get_digest_algo_list: the walk stops at the end or when idx
\* reaches 0; a negative idx never reaches 0 and runs off the end.
DigestAlgoListOf(idx) ==
  IF idx \in 0 .. Len(digest_algos) - 1 THEN digest_algos[idx + 1] ELSE NULL

\* ksba_cms_get_issuer_serial: idx is never looked at.  On the partial
\* SignerInfos of a build the sid is empty: the issuer node has no value
\* (No_Value) or no offset (General_Error), depending on the ASN.1 tree.
IssuerSerialOf(idx) ==
  IF signer_info = NoDigest THEN {"No_Data"}
  ELSE IF ~SignerInfoParsed THEN {"No_Value", "General_Error"}
  ELSE {"OK"}

\* ksba_cms_get_digest_algo: only signer 0; a filled cache is returned as
\* it is; otherwise the digestAlgorithm of signer_info, NULL if it has none.
DigestAlgoOf(idx) ==
  IF signer_info = NoDigest \/ idx # 0 THEN NULL
  ELSE IF digest_algo_cache # NULL THEN digest_algo_cache
  ELSE signer_algo

\* ksba_cms_get_message_digest: the messageDigest attribute of signer_info's
\* signedAttrs (present in both a parsed and a built SignerInfos; the
\* malformed-attribute errors need a malformed message, which the reader
\* never delivers).
MessageDigestOf(idx) ==
  IF signer_info = NoDigest THEN "No_Data"
  ELSE IF idx # 0 THEN "Not_Implemented"
  ELSE signer_info

\* ksba_cms_get_sig_val: the signatureAlgorithm and signature of signer 0
\* as an S-expression; the partial SignerInfos of a build has none.
SigValOf(idx) ==
  IF signer_info # NoDigest /\ idx = 0 /\ SignerInfoParsed THEN "sexp"
  ELSE NULL

\* The accessors' results are well typed in every reachable state.
AccTypeOK ==
  /\ TypeOK
  /\ digest_algo_cache \in Algos \cup {NULL}
  /\ \A w \in {0, 1, 2} : /\ ContentTypeOf(w) \in TableCTs \cup {"NONE"}
                          /\ ContentOidOf(w) \in Oids
  /\ \A i \in -1 .. MaxAlgos : DigestAlgoListOf(i) \in Algos \cup {NULL}
  /\ \A i \in {0, 1} :
       /\ IssuerSerialOf(i) \subseteq {"OK", "No_Data", "No_Value",
                                       "General_Error"}
       /\ DigestAlgoOf(i) \in Algos \cup {NULL}
       /\ MessageDigestOf(i) \in Digests \cup {"No_Data", "Not_Implemented"}
       /\ SigValOf(i) \in {"sexp", NULL}

AccInit == Init /\ digest_algo_cache = NULL /\ answer = NoAnswer

Answer(c, i, v) == answer' = [call |-> c, idx |-> i, ret |-> v]

(***************************************************************************)
(* The accessors.  All but get_digest_algo change nothing in the container *)
(* and only return their result.                                           *)
(***************************************************************************)

ksba_cms_get_content_type(what) ==
  /\ Answer("get_content_type", what, ContentTypeOf(what))
  /\ UNCHANGED <<vars, digest_algo_cache>>

ksba_cms_get_content_oid(what) ==
  /\ Answer("get_content_oid", what, ContentOidOf(what))
  /\ UNCHANGED <<vars, digest_algo_cache>>

ksba_cms_get_digest_algo_list(idx) ==
  /\ Answer("get_digest_algo_list", idx, DigestAlgoListOf(idx))
  /\ UNCHANGED <<vars, digest_algo_cache>>

ksba_cms_get_issuer_serial(idx) ==
  /\ \E e \in IssuerSerialOf(idx) : Answer("get_issuer_serial", idx, e)
  /\ UNCHANGED <<vars, digest_algo_cache>>

\* When signer 0 is asked for and the cache is empty, the digestAlgorithm
\* found is stored in it (finding none stores nothing: it stays NULL).
ksba_cms_get_digest_algo(idx) ==
  /\ Answer("get_digest_algo", idx, DigestAlgoOf(idx))
  /\ digest_algo_cache' =
       IF signer_info # NoDigest /\ idx = 0 /\ digest_algo_cache = NULL
         THEN signer_algo ELSE digest_algo_cache
  /\ UNCHANGED vars

ksba_cms_get_message_digest(idx) ==
  /\ Answer("get_message_digest", idx, MessageDigestOf(idx))
  /\ UNCHANGED <<vars, digest_algo_cache>>

ksba_cms_get_sig_val(idx) ==
  /\ Answer("get_sig_val", idx, SigValOf(idx))
  /\ UNCHANGED <<vars, digest_algo_cache>>

\* An engine call leaves the cache and the last answer alone.
AccNext ==
  \/ Next /\ UNCHANGED accVars
  \/ ~aborted /\ \E what \in {0, 1, 2} : ksba_cms_get_content_type(what)
  \/ ~aborted /\ \E what \in {0, 1, 2} : ksba_cms_get_content_oid(what)
  \/ ~aborted /\ \E idx \in -1 .. MaxAlgos : ksba_cms_get_digest_algo_list(idx)
  \/ ~aborted /\ \E idx \in {0, 1} : ksba_cms_get_issuer_serial(idx)
  \/ ~aborted /\ \E idx \in {0, 1} : ksba_cms_get_digest_algo(idx)
  \/ ~aborted /\ \E idx \in {0, 1} : ksba_cms_get_message_digest(idx)
  \/ ~aborted /\ \E idx \in {0, 1} : ksba_cms_get_sig_val(idx)

AccSpec == AccInit /\ [][AccNext]_allVars

(***************************************************************************)
(* Properties.                                                             *)
(***************************************************************************)

\* Spec sections 4.5 and 8: get_digest_algo(0) is idempotent.  The cache
\* filled by ksba_cms_get_digest_algo is never cleared, so this holds only
\* if the cached OID is still the digestAlgorithm of the signer_info in
\* place: no parse or build step may replace signer_info after the cache
\* is set.
CacheCoherent ==
  digest_algo_cache # NULL => digest_algo_cache = signer_algo

\* Spec section 4.5: once a SignerInfos is there to be read,
\* get_issuer_serial(idx) with idx > 0 is Not_Implemented (only one signer
\* is kept), rather than an answer about signer 0.
IssuerSerialIndexChecked ==
  /\ answer.call = "get_issuer_serial" /\ answer.idx # 0
  /\ answer.ret # "No_Data"
  => answer.ret = "Not_Implemented"
=============================================================================
