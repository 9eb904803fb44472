------------------------ MODULE CMSAccessors_proofs ------------------------
(***************************************************************************)
(* Proofs about the accessors composed with the engine (CMSAccessors), for *)
(* every value of the constants and for any caller: parse, build or both,  *)
(* disciplined or not.                                                     *)
(***************************************************************************)
EXTENDS CMSAccessors, CMSEngine_proofs, TLAPS

\* The stop reasons after which a parse has read its SignerInfos.
Done == {"READY", "RUNNING"}

(***************************************************************************)
(* An engine step from READY or RUNNING stays there and leaves the        *)
(* signer's digestAlgorithm alone (every handler fails there and every    *)
(* other call needs NONE or does not touch them); a step from anywhere    *)
(* else either leaves signer_algo, clears it (a build's partial           *)
(* SignerInfos) or is part 2 of the parse, which ends at READY.           *)
(***************************************************************************)
LEMMA EngineAlgo ==
  ASSUME Next
  PROVE  /\ stop_reason \in Done =>
              stop_reason' \in Done /\ signer_algo' = signer_algo
         /\ stop_reason \notin Done =>
              signer_algo' \in {NULL, signer_algo} \/ stop_reason' = "READY"
<1>1. ASSUME NEW api, ksba_cms_step(api)
      PROVE  /\ stop_reason \in Done =>
                  stop_reason' \in Done /\ signer_algo' = signer_algo
             /\ stop_reason \notin Done =>
                  signer_algo' \in {NULL, signer_algo}
                  \/ stop_reason' = "READY"
  <2>1. CASE content_handler = "ct_parse_signed_data"
    <3>1. ct_parse_signed_data  BY <1>1, <2>1 DEF ksba_cms_step
    <3>. QED  BY <3>1 DEF ct_parse_signed_data, Fail, Done
  <2>2. CASE content_handler = "ct_build_signed_data"
    <3>1. ct_build_signed_data  BY <1>1, <2>2 DEF ksba_cms_step
    <3>2. build_signed_data_attributes =>
            signer_algo' \in {NULL, signer_algo}
      BY DEF build_signed_data_attributes, Fail
    <3>. QED  BY <3>1, <3>2 DEF ct_build_signed_data, Fail, Done
  <2>3. CASE content_handler \notin {"ct_parse_signed_data",
                                     "ct_build_signed_data"}
    BY <1>1, <2>3 DEF ksba_cms_step, NotImplemented
  <2>. QED  BY <2>1, <2>2, <2>3
<1>2. ASSUME ksba_cms_parse_start \/ ksba_cms_build_start
      PROVE  stop_reason \notin Done /\ signer_algo' = signer_algo
  BY <1>2 DEF ksba_cms_parse_start, ksba_cms_build_start, Done
<1>3. CASE \/ \E r, w \in BOOLEAN : ksba_cms_set_reader_writer(r, w)
           \/ \E f \in BOOLEAN : ksba_cms_set_hash_function(f)
           \/ \E what \in {0, 1}, t \in CTs :
                ksba_cms_set_content_type(what, t)
           \/ \E a \in Algos : ksba_cms_add_digest_algo(a)
           \/ \E c \in Certs : ksba_cms_add_signer(c)
           \/ \E idx \in 0 .. MaxSigners - 1, d \in Digests :
                ksba_cms_set_message_digest(idx, d)
           \/ \E idx \in 0 .. MaxSigners - 1 : ksba_cms_get_cert(idx)
           \/ \E idx \in {0, 1} : ksba_cms_hash_signed_attrs(idx)
  BY <1>3 DEF ksba_cms_set_reader_writer, ksba_cms_set_hash_function,
              ksba_cms_set_content_type, ksba_cms_add_digest_algo,
              ksba_cms_add_signer, ksba_cms_set_message_digest,
              ksba_cms_get_cert, ksba_cms_hash_signed_attrs, engineVars
<1>. QED  BY <1>1, <1>2, <1>3 DEF Next

\* The strengthening: a signer digestAlgorithm is only ever there once the
\* parse has read the SignerInfos, and the engine never leaves that state.
CacheInv ==
  /\ signer_algo # NULL => stop_reason \in Done
  /\ CacheCoherent

LEMMA CacheInvInit == AccInit => CacheInv
BY DEF AccInit, Init, CacheInv, CacheCoherent

LEMMA CacheInvStep == CacheInv /\ [AccNext]_allVars => CacheInv'
<1> SUFFICES ASSUME CacheInv, [AccNext]_allVars PROVE CacheInv'
  OBVIOUS
<1>1. CASE Next /\ UNCHANGED accVars
  <2>1. CASE stop_reason \in Done
    BY <1>1, <2>1, EngineAlgo DEF CacheInv, CacheCoherent, accVars
  <2>2. CASE stop_reason \notin Done
    <3>1. signer_algo = NULL /\ digest_algo_cache = NULL
      BY <2>2 DEF CacheInv, CacheCoherent
    <3>. QED  BY <1>1, <2>2, <3>1, EngineAlgo
              DEF CacheInv, CacheCoherent, accVars, Done
  <2>. QED  BY <2>1, <2>2
<1>2. ASSUME NEW idx, ksba_cms_get_digest_algo(idx) PROVE CacheInv'
  BY <1>2 DEF ksba_cms_get_digest_algo, vars, CacheInv, CacheCoherent
<1>3. CASE \/ \E what \in {0, 1, 2} : ksba_cms_get_content_type(what)
           \/ \E what \in {0, 1, 2} : ksba_cms_get_content_oid(what)
           \/ \E idx \in -1 .. MaxAlgos : ksba_cms_get_digest_algo_list(idx)
           \/ \E idx \in {0, 1} : ksba_cms_get_issuer_serial(idx)
           \/ \E idx \in {0, 1} : ksba_cms_get_message_digest(idx)
           \/ \E idx \in {0, 1} : ksba_cms_get_sig_val(idx)
  <2>1. UNCHANGED <<stop_reason, signer_algo, digest_algo_cache>>
    BY <1>3 DEF ksba_cms_get_content_type, ksba_cms_get_content_oid,
                ksba_cms_get_digest_algo_list, ksba_cms_get_issuer_serial,
                ksba_cms_get_message_digest, ksba_cms_get_sig_val, vars
  <2>. QED  BY <2>1 DEF CacheInv, CacheCoherent
<1>4. CASE UNCHANGED allVars
  BY <1>4 DEF allVars, vars, accVars, CacheInv, CacheCoherent
<1>. QED  BY <1>1, <1>2, <1>3, <1>4 DEF AccNext

(***************************************************************************)
(* get_digest_algo(0) is idempotent for any caller (spec sections 4.5 and  *)
(* 8): the OID ksba_cms_get_digest_algo caches in signer_info.cache is     *)
(* always the digestAlgorithm of the signer_info in place.  The cache is   *)
(* filled only from a parsed SignerInfos, which exists only at READY or    *)
(* RUNNING, and no parse or build step replaces signer_info from there.    *)
(***************************************************************************)
THEOREM CacheCoherence == AccSpec => []CacheCoherent
<1>1. CacheInv => CacheCoherent  BY DEF CacheInv
<1>. QED  BY <1>1, CacheInvInit, CacheInvStep, PTL DEF AccSpec

(***************************************************************************)
(* What every accessor returns is well typed as soon as the container is   *)
(* and the digestAlgorithm cache holds an OID or nothing.                  *)
(***************************************************************************)
AccTypeInv == TypeOK /\ digest_algo_cache \in Algos \cup {NULL}

LEMMA AccResultsType == AccTypeInv => AccTypeOK
<1> SUFFICES ASSUME AccTypeInv PROVE AccTypeOK
  OBVIOUS
<1>a. TypeOK  BY DEF AccTypeInv
<1>1. ASSUME NEW w \in {0, 1, 2}
      PROVE  /\ ContentTypeOf(w) \in TableCTs \cup {"NONE"}
             /\ ContentOidOf(w) \in Oids
  <2>1. KnownOid(encap_cont_type) =>
          RowOfOid(encap_cont_type).ct \in TableCTs
    BY RowOfOidType, RowType
  <2>2. NULL \in Oids  BY DEF Oids
  <2>. QED  BY <1>a, <2>1, <2>2 DEF ContentTypeOf, ContentOidOf, TypeOK
<1>2. ASSUME NEW i \in -1 .. MaxAlgos
      PROVE  DigestAlgoListOf(i) \in Algos \cup {NULL}
  <2>1. \A j \in 1 .. Len(digest_algos) : digest_algos[j] \in Algos
    BY <1>a, ElementOfSeq DEF TypeOK
  <2>. QED  BY <2>1 DEF DigestAlgoListOf
<1>3. ASSUME NEW i \in {0, 1}
      PROVE  /\ IssuerSerialOf(i) \subseteq {"OK", "No_Data", "No_Value",
                                             "General_Error"}
             /\ DigestAlgoOf(i) \in Algos \cup {NULL}
             /\ MessageDigestOf(i) \in Digests \cup {"No_Data",
                                                     "Not_Implemented"}
             /\ SigValOf(i) \in {"sexp", NULL}
  BY <1>a DEF AccTypeInv, IssuerSerialOf, DigestAlgoOf, MessageDigestOf,
              SigValOf, TypeOK
<1>. QED  BY <1>a, <1>1, <1>2, <1>3 DEF AccTypeOK, AccTypeInv

LEMMA AccTypeInit == AccInit => AccTypeInv
BY TypeInit DEF AccInit, AccTypeInv

\* The engine keeps its types and leaves the cache alone; the accessors
\* change nothing but the cache, which get_digest_algo fills with the
\* signer_info's digestAlgorithm.
LEMMA AccTypeStep == AccTypeInv /\ [AccNext]_allVars => AccTypeInv'
<1> SUFFICES ASSUME AccTypeInv, [AccNext]_allVars PROVE AccTypeInv'
  OBVIOUS
<1>a. TypeOK  BY DEF AccTypeInv
<1>1. CASE Next /\ UNCHANGED accVars
  BY <1>a, <1>1, TypeStep DEF AccTypeInv, accVars
<1>2. ASSUME NEW idx, ksba_cms_get_digest_algo(idx) PROVE AccTypeInv'
  BY <1>a, <1>2 DEF ksba_cms_get_digest_algo, vars, AccTypeInv, TypeOK
<1>3. CASE \/ \E what \in {0, 1, 2} : ksba_cms_get_content_type(what)
           \/ \E what \in {0, 1, 2} : ksba_cms_get_content_oid(what)
           \/ \E idx \in -1 .. MaxAlgos : ksba_cms_get_digest_algo_list(idx)
           \/ \E idx \in {0, 1} : ksba_cms_get_issuer_serial(idx)
           \/ \E idx \in {0, 1} : ksba_cms_get_message_digest(idx)
           \/ \E idx \in {0, 1} : ksba_cms_get_sig_val(idx)
  <2>1. UNCHANGED <<vars, digest_algo_cache>>
    BY <1>3 DEF ksba_cms_get_content_type, ksba_cms_get_content_oid,
                ksba_cms_get_digest_algo_list, ksba_cms_get_issuer_serial,
                ksba_cms_get_message_digest, ksba_cms_get_sig_val
  <2>. QED  BY <1>a, <2>1, TypeStep DEF AccTypeInv
<1>4. CASE UNCHANGED allVars
  BY <1>a, <1>4, TypeStep DEF allVars, accVars, AccTypeInv
<1>. QED  BY <1>1, <1>2, <1>3, <1>4 DEF AccNext

(***************************************************************************)
(* Whatever the caller asks, whenever it asks it: get_content_type and     *)
(* get_content_oid return a content type and an OID of the table or read   *)
(* from the message; get_digest_algo_list returns an algorithm of the list *)
(* or NULL for every index, negative or past the end; get_digest_algo, its *)
(* cache included, returns a digestAlgorithm or NULL; get_message_digest a *)
(* digest or an error; and the container itself stays well typed.          *)
(***************************************************************************)
THEOREM AccTypeCorrect == AccSpec => []AccTypeOK
BY AccTypeInit, AccTypeStep, AccResultsType, PTL DEF AccSpec
=============================================================================
