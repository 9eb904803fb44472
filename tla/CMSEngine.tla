----------------------------- MODULE CMSEngine -----------------------------
(***************************************************************************)
(* The CMS container of libksba (src/src/cms.c) and its signed-data        *)
(* engine: the content dispatcher, the configuration calls, the parse and  *)
(* build drivers with their stop-reason protocol, the signed-data parse    *)
(* and build handlers, and hash_signed_attrs.                              *)
(*                                                                         *)
(* One container is modelled; the caller is the environment and may make  *)
(* any public call at any time (restricted by Uses and Disciplined).       *)
(* Data is abstracted: OIDs are strings, certificates and digests model    *)
(* values, an ASN.1 tree with its image is the one value the properties    *)
(* tell apart (the messageDigest it carries), and the writer's output is a *)
(* sequence of tokens, one per TLV header or DER image written.            *)
(***************************************************************************)
EXTENDS Naturals, Sequences

CONSTANTS
  Certs,        \* signer certificates handed to ksba_cms_add_signer
  Digests,      \* message digest values given to ksba_cms_set_message_digest
  Algos,        \* digest algorithm OIDs, each a sequence of its arcs
  Inputs,       \* the signed/other messages a reader may deliver to parse
  CTs,          \* KsbaContentType values the caller passes to set_content_type
  MaxSigners,   \* bound on ksba_cms_add_signer calls
  MaxAlgos,     \* bound on ksba_cms_add_digest_algo calls
  Uses,         \* the drivers the caller uses: subset of {"parse", "build"}
  Disciplined,  \* the caller configures only before the engine starts
  NoCert,       \* a NULL certificate pointer
  NoDigest      \* msg_digest_len = 0 / attr.root = NULL / no signer_info

ASSUME ConstAssumption ==
  /\ MaxSigners \in Nat /\ MaxAlgos \in Nat
  /\ Uses \subseteq {"parse", "build"}
  /\ Disciplined \in BOOLEAN
  /\ NoCert \notin Certs /\ NoDigest \notin Digests
  /\ Algos \subseteq Seq(Nat)

VARIABLES
  stop_reason,        \* cms->stop_reason
  content_oid,        \* cms->content.oid
  content_ct,         \* cms->content.ct
  content_handler,    \* cms->content.handler (the function's name)
  encap_cont_type,    \* cms->encap_cont_type
  reader, writer,     \* cms->reader / cms->writer are set
  hash_fnc,           \* cms->hash_fnc is set
  digest_algos,       \* cms->digest_algos, head first
  cert_list,          \* cms->cert_list, head first: [cert, md, attr]
  signer_info,        \* cms->signer_info.root/image: its messageDigest
  signer_algo,        \* its SignerInfos..digestAlgorithm (NULL: not set)
  detached_signature, \* cms->detached_signature
  input,              \* the message the reader delivers (external)
  out,                \* what the engine has written to the writer
  hashed,             \* what has been fed to hash_fnc
  last_err,           \* the result of the last call
  aborted             \* an assert() failed: the process has stopped

vars == <<stop_reason, content_oid, content_ct, content_handler,
          encap_cont_type, reader, writer, hash_fnc, digest_algos,
          cert_list, signer_info, signer_algo, detached_signature, input,
          out, hashed, last_err, aborted>>

NULL == "NULL"

(***************************************************************************)
(* content_handlers[]: OID, content type, parse and build handler.  The    *)
(* auth-data row has no handlers.  OIDs are distinct, so the loops' first  *)
(* match is the only match.                                                *)
(***************************************************************************)
ContentHandlers ==
  { [oid |-> "1.2.840.113549.1.7.1", ct |-> "DATA",
     parse |-> "ct_parse_data", build |-> "ct_build_data"],
    [oid |-> "1.2.840.113549.1.7.2", ct |-> "SIGNED_DATA",
     parse |-> "ct_parse_signed_data", build |-> "ct_build_signed_data"],
    [oid |-> "1.2.840.113549.1.7.3", ct |-> "ENVELOPED_DATA",
     parse |-> "ct_parse_enveloped_data", build |-> "ct_build_enveloped_data"],
    [oid |-> "1.2.840.113549.1.7.5", ct |-> "DIGESTED_DATA",
     parse |-> "ct_parse_digested_data", build |-> "ct_build_digested_data"],
    [oid |-> "1.2.840.113549.1.7.6", ct |-> "ENCRYPTED_DATA",
     parse |-> "ct_parse_encrypted_data", build |-> "ct_build_encrypted_data"],
    [oid |-> "1.2.840.113549.1.9.16.1.2", ct |-> "AUTH_DATA",
     parse |-> NULL, build |-> NULL] }

HandlerNames == {r.parse : r \in ContentHandlers} \cup
                {r.build : r \in ContentHandlers}
TableOids == {r.oid : r \in ContentHandlers}
TableCTs == {r.ct : r \in ContentHandlers}

KnownOid(o) == \E r \in ContentHandlers : r.oid = o
RowOfOid(o) == CHOOSE r \in ContentHandlers : r.oid = o
KnownCT(t) == \E r \in ContentHandlers : r.ct = t
RowOfCT(t) == CHOOSE r \in ContentHandlers : r.ct = t

StopReasons == {"NONE", "RUNNING", "GOT_CONTENT", "NEED_HASH", "BEGIN_DATA",
                "END_DATA", "READY", "NEED_SIG"}

\* A message on the reader: outer OID, whether the encapsulated content is
\* absent, its inner OID, the messageDigest of its signedAttrs and the
\* digestAlgorithm of its SignerInfo.
InputRec == [oid : STRING, detached : BOOLEAN, encap : STRING,
             md : Digests \cup {NoDigest}, algo : Algos]
\* Nothing read yet.
NoInput == [oid |-> NULL, detached |-> FALSE, encap |-> NULL, md |-> NoDigest,
            algo |-> NULL]

\* What the reader delivers is a well-formed message.
ASSUME InputsAssumption == Inputs \subseteq InputRec

\* Every OID string the container can hold: a table entry, NULL, or one
\* read from the input.
Oids == TableOids \cup {NULL} \cup {m.oid : m \in Inputs}
                                \cup {m.encap : m \in Inputs}

SignerRec == [cert : Certs \cup {NoCert}, md : Digests \cup {NoDigest},
              attr : Digests \cup {NoDigest}]

\* One SignerInfos image written by build_signed_data_rest.
SignerInfoRec == [tag : {"CTX0", "SET"}, cert : Certs, algo : Algos,
                  attr : Digests]

Tok(k, v) == [kind |-> k, val |-> v]
EOC == Tok("eoc", "EOC")

Token == [kind : {"open"}, val : {"SEQUENCE", "CTX0"}]
    \cup [kind : {"oid"}, val : Oids]
    \cup [kind : {"int", "set"}, val : Nat]
    \cup [kind : {"algid"}, val : Algos]
    \cup [kind : {"eoc"}, val : {"EOC"}]
    \cup [kind : {"signerinfo"}, val : SignerInfoRec]

Errors == {"OK", "Invalid_Value", "Conflict", "Unknown_CMS_Object",
           "Unsupported_CMS_Object", "Missing_Action", "Invalid_Index",
           "Invalid_State", "Bug", "Missing_Value", "Not_Implemented",
           "No_Value", "Minus_One", "Read_Error", "Write_Error",
           "Assertion_Failed"}

TypeOK ==
  /\ stop_reason \in StopReasons
  /\ content_oid \in Oids
  /\ content_ct \in TableCTs \cup {"NONE"}
  /\ content_handler \in HandlerNames
  /\ encap_cont_type \in Oids
  /\ reader \in BOOLEAN /\ writer \in BOOLEAN /\ hash_fnc \in BOOLEAN
  /\ digest_algos \in Seq(Algos) /\ Len(digest_algos) <= MaxAlgos
  /\ cert_list \in Seq(SignerRec) /\ Len(cert_list) <= MaxSigners
  /\ signer_info \in Digests \cup {NoDigest}
  /\ signer_algo \in Algos \cup {NULL}
  /\ detached_signature \in BOOLEAN
  /\ input \in Inputs \cup {NoInput}
  /\ out \in Seq(Token)
  /\ hashed \subseteq Digests
  /\ last_err \in Errors
  /\ aborted \in BOOLEAN

\* ksba_cms_new: a zeroed container (xtrycalloc).
Init ==
  /\ stop_reason = "NONE"
  /\ content_oid = NULL /\ content_ct = "NONE" /\ content_handler = NULL
  /\ encap_cont_type = NULL
  /\ reader = FALSE /\ writer = FALSE /\ hash_fnc = FALSE
  /\ digest_algos = <<>> /\ cert_list = <<>>
  /\ signer_info = NoDigest /\ signer_algo = NULL
  /\ detached_signature = FALSE
  /\ input = NoInput /\ out = <<>> /\ hashed = {}
  /\ last_err = "OK" /\ aborted = FALSE

cfgVars == <<content_oid, content_ct, content_handler, encap_cont_type,
             digest_algos, cert_list>>
engineVars == <<stop_reason, signer_info, signer_algo, detached_signature,
                input, out, hashed, aborted>>

\* The configuration calls the spec says happen before parse/build starts.
Configurable == ~Disciplined \/ stop_reason = "NONE"

(***************************************************************************)
(* Configuration calls.                                                    *)
(***************************************************************************)

\* Both pointers are assigned, so setting one direction clears the other.
ksba_cms_set_reader_writer(r, w) ==
  /\ Configurable
  /\ \/ /\ ~(r \/ w)
        /\ last_err' = "Invalid_Value"
        /\ UNCHANGED <<reader, writer>>
     \/ /\ (r /\ reader) \/ (w /\ writer)
        /\ last_err' = "Conflict"
        /\ UNCHANGED <<reader, writer>>
     \/ /\ r \/ w
        /\ ~((r /\ reader) \/ (w /\ writer))
        /\ reader' = r /\ writer' = w
        /\ last_err' = "OK"
  /\ UNCHANGED <<hash_fnc, cfgVars, engineVars>>

\* f = FALSE is a NULL hash function.  The call returns nothing.
ksba_cms_set_hash_function(f) ==
  /\ hash_fnc' = f
  /\ UNCHANGED <<reader, writer, cfgVars, engineVars, last_err>>

\* Mutant: the what = 0 branch forgets cms->content.ct.
set_content_type_no_ct(what, t) ==
  /\ "build" \in Uses /\ Configurable
  /\ KnownCT(t) /\ RowOfCT(t).build # NULL
  /\ \/ /\ what = 0
        /\ content_oid' = RowOfCT(t).oid
        /\ content_handler' = RowOfCT(t).build
        /\ UNCHANGED <<content_ct, encap_cont_type, digest_algos, cert_list>>
     \/ /\ what = 1
        /\ encap_cont_type' = RowOfCT(t).oid
        /\ UNCHANGED <<content_oid, content_ct, content_handler,
                       digest_algos, cert_list>>
  /\ last_err' = "OK"
  /\ UNCHANGED <<reader, writer, hash_fnc, engineVars>>

\* what = 0 sets the outer content type and its build handler, what = 1
\* the inner (encapsulated) content type.
ksba_cms_set_content_type(what, t) ==
  /\ "build" \in Uses /\ Configurable
  /\ \/ /\ ~KnownCT(t)
        /\ last_err' = "Unknown_CMS_Object"
        /\ UNCHANGED cfgVars
     \/ /\ KnownCT(t) /\ RowOfCT(t).build = NULL
        /\ last_err' = "Unsupported_CMS_Object"
        /\ UNCHANGED cfgVars
     \/ /\ KnownCT(t) /\ RowOfCT(t).build # NULL /\ what = 0
        /\ content_oid' = RowOfCT(t).oid
        /\ content_ct' = RowOfCT(t).ct
        /\ content_handler' = RowOfCT(t).build
        /\ last_err' = "OK"
        /\ UNCHANGED <<encap_cont_type, digest_algos, cert_list>>
     \/ /\ KnownCT(t) /\ RowOfCT(t).build # NULL /\ what = 1
        /\ encap_cont_type' = RowOfCT(t).oid
        /\ last_err' = "OK"
        /\ UNCHANGED <<content_oid, content_ct, content_handler,
                       digest_algos, cert_list>>
  /\ UNCHANGED <<reader, writer, hash_fnc, engineVars>>

\* The new algorithm is linked in at the head of the list.
ksba_cms_add_digest_algo(a) ==
  /\ "build" \in Uses /\ Configurable
  /\ Len(digest_algos) < MaxAlgos
  /\ digest_algos' = <<a>> \o digest_algos
  /\ last_err' = "OK"
  /\ UNCHANGED <<content_oid, content_ct, content_handler, encap_cont_type,
                 cert_list, reader, writer, hash_fnc, engineVars>>

\* Mutant: the signer allocated with xtrymalloc, its digest uninitialized.
add_signer_uninitialized(c) ==
  /\ "build" \in Uses /\ Configurable
  /\ Len(cert_list) < MaxSigners
  /\ cert_list' = <<[cert |-> c, md |-> "uninitialized", attr |-> NoDigest]>>
                    \o cert_list
  /\ last_err' = "OK"
  /\ UNCHANGED <<content_oid, content_ct, content_handler, encap_cont_type,
                 digest_algos, reader, writer, hash_fnc, engineVars>>

\* The new signer (zeroed by xtrycalloc) is linked in at the head.
ksba_cms_add_signer(c) ==
  /\ "build" \in Uses /\ Configurable
  /\ Len(cert_list) < MaxSigners
  /\ cert_list' = <<[cert |-> c, md |-> NoDigest, attr |-> NoDigest]>>
                    \o cert_list
  /\ last_err' = "OK"
  /\ UNCHANGED <<content_oid, content_ct, content_handler, encap_cont_type,
                 digest_algos, reader, writer, hash_fnc, engineVars>>

\* idx counts from the head of cert_list.
ksba_cms_set_message_digest(idx, d) ==
  /\ "build" \in Uses
  /\ \/ /\ idx >= Len(cert_list)
        /\ last_err' = "Invalid_Index"
        /\ UNCHANGED cert_list
     \/ /\ idx < Len(cert_list)
        /\ cert_list' = [cert_list EXCEPT ![idx + 1].md = d]
        /\ last_err' = "OK"
  /\ UNCHANGED <<content_oid, content_ct, content_handler, encap_cont_type,
                 digest_algos, reader, writer, hash_fnc, engineVars>>

\* The certificate is handed out and cleared in the list; an index past
\* the end returns NULL and changes nothing (a stuttering step).
ksba_cms_get_cert(idx) ==
  /\ "build" \in Uses
  /\ idx < Len(cert_list)
  /\ cert_list' = [cert_list EXCEPT ![idx + 1].cert = NoCert]
  /\ UNCHANGED <<content_oid, content_ct, content_handler, encap_cont_type,
                 digest_algos, reader, writer, hash_fnc, engineVars,
                 last_err>>

\* Feeds 0x31 and the signedAttrs of signer_info (minus its first byte)
\* to hash_fnc: the value hashed is signer_info's signedAttrs.
ksba_cms_hash_signed_attrs(idx) ==
  /\ \/ /\ ~hash_fnc
        /\ last_err' = "Missing_Action"
        /\ UNCHANGED hashed
     \/ /\ hash_fnc /\ idx # 0
        /\ last_err' = "Minus_One"
        /\ UNCHANGED hashed
     \/ /\ hash_fnc /\ idx = 0 /\ signer_info = NoDigest
        /\ last_err' = "No_Value"
        /\ UNCHANGED hashed
     \/ /\ hash_fnc /\ idx = 0 /\ signer_info # NoDigest
        /\ hashed' = hashed \cup {signer_info}
        /\ last_err' = "OK"
  /\ UNCHANGED <<stop_reason, signer_info, signer_algo, detached_signature,
                 input, out, aborted, reader, writer, hash_fnc, cfgVars>>

(***************************************************************************)
(* The drivers ksba_cms_parse and ksba_cms_build.                          *)
(***************************************************************************)

\* Mutant: the dispatch stores the OID string in cms->content.ct.
parse_start_ct_is_oid ==
  /\ "parse" \in Uses /\ stop_reason = "NONE" /\ reader
  /\ \E m \in Inputs :
       /\ KnownOid(m.oid) /\ RowOfOid(m.oid).parse # NULL
       /\ input' = m /\ content_oid' = m.oid
       /\ content_ct' = RowOfOid(m.oid).oid
       /\ content_handler' = RowOfOid(m.oid).parse
       /\ stop_reason' = "GOT_CONTENT" /\ last_err' = "OK"
  /\ UNCHANGED <<encap_cont_type, digest_algos, cert_list, reader, writer,
                 hash_fnc, signer_info, signer_algo, detached_signature, out,
                 hashed, aborted>>

\* Mutant: the dispatch forgets cms->content.ct.
parse_start_no_ct ==
  /\ "parse" \in Uses /\ stop_reason = "NONE" /\ reader
  /\ \E m \in Inputs :
       /\ KnownOid(m.oid) /\ RowOfOid(m.oid).parse # NULL
       /\ input' = m /\ content_oid' = m.oid
       /\ content_handler' = RowOfOid(m.oid).parse
       /\ stop_reason' = "GOT_CONTENT" /\ last_err' = "OK"
  /\ UNCHANGED <<content_ct, encap_cont_type, digest_algos, cert_list, reader,
                 writer, hash_fnc, signer_info, signer_algo,
                 detached_signature, out, hashed, aborted>>

\* stop_reason = NONE: _ksba_cms_parse_content_info reads the ContentInfo
\* (it fails without a reader, or on malformed input) and stores its OID;
\* then the OID is dispatched.
ksba_cms_parse_start ==
  /\ "parse" \in Uses /\ stop_reason = "NONE"
  /\ \/ /\ last_err' = "Read_Error"
        /\ UNCHANGED <<content_oid, content_ct, content_handler,
                       stop_reason, input>>
     \/ /\ reader
        /\ \E m \in Inputs :
             /\ input' = m
             /\ content_oid' = m.oid
             /\ \/ /\ ~KnownOid(m.oid)
                   /\ last_err' = "Unknown_CMS_Object"
                   /\ UNCHANGED <<content_ct, content_handler, stop_reason>>
                \/ /\ KnownOid(m.oid) /\ RowOfOid(m.oid).parse = NULL
                   /\ last_err' = "Unsupported_CMS_Object"
                   /\ UNCHANGED <<content_ct, content_handler, stop_reason>>
                \/ /\ KnownOid(m.oid) /\ RowOfOid(m.oid).parse # NULL
                   /\ content_ct' = RowOfOid(m.oid).ct
                   /\ content_handler' = RowOfOid(m.oid).parse
                   /\ stop_reason' = "GOT_CONTENT"
                   /\ last_err' = "OK"
  /\ UNCHANGED <<encap_cont_type, digest_algos, cert_list, reader, writer,
                 hash_fnc, signer_info, signer_algo, detached_signature, out,
                 hashed, aborted>>

\* Mutant: the initial build step announces BEGIN_DATA at once.
build_start_skips_content ==
  /\ "build" \in Uses /\ stop_reason = "NONE"
  /\ writer /\ content_handler # NULL /\ encap_cont_type # NULL
  /\ stop_reason' = "BEGIN_DATA"
  /\ last_err' = "OK"
  /\ UNCHANGED <<cfgVars, reader, writer, hash_fnc, signer_info, signer_algo,
                 detached_signature, input, out, hashed, aborted>>

\* stop_reason = NONE: check the prerequisites of a build.
ksba_cms_build_start ==
  /\ "build" \in Uses /\ stop_reason = "NONE"
  /\ \/ /\ ~writer \/ content_handler = NULL \/ encap_cont_type = NULL
        /\ last_err' = "Missing_Action"
        /\ UNCHANGED stop_reason
     \/ /\ writer /\ content_handler # NULL /\ encap_cont_type # NULL
        /\ stop_reason' = "GOT_CONTENT"
        /\ last_err' = "OK"
  /\ UNCHANGED <<cfgVars, reader, writer, hash_fnc, signer_info, signer_algo,
                 detached_signature, input, out, hashed, aborted>>

(***************************************************************************)
(* The handlers.  Both signed-data handlers first set stop_reason to       *)
(* RUNNING and return any error with it left there.                        *)
(***************************************************************************)
Fail(e) == stop_reason' = "RUNNING" /\ last_err' = e

\* The five stub handlers return Not_Implemented and touch nothing.
NotImplemented ==
  /\ last_err' = "Not_Implemented"
  /\ UNCHANGED <<stop_reason, cfgVars, reader, writer, hash_fnc, signer_info,
                 signer_algo, detached_signature, input, out, hashed, aborted>>

\* Mutant: after the data (sIN_DATA) the parser reports READY, skipping
\* END_DATA and the SignerInfos.
parse_signed_data_skips_end ==
  /\ \/ /\ stop_reason = "GOT_CONTENT"
        /\ detached_signature' = input.detached
        /\ encap_cont_type' = input.encap
        /\ stop_reason' = IF input.detached THEN "NEED_HASH" ELSE "BEGIN_DATA"
        /\ last_err' = "OK"
        /\ UNCHANGED <<signer_info, signer_algo>>
     \/ /\ stop_reason \in {"NEED_HASH", "END_DATA"}
        /\ signer_info' = input.md /\ signer_algo' = input.algo
        /\ stop_reason' = "READY" /\ last_err' = "OK"
        /\ UNCHANGED <<detached_signature, encap_cont_type>>
     \/ /\ stop_reason = "BEGIN_DATA" /\ hash_fnc
        /\ stop_reason' = "READY" /\ last_err' = "OK"
        /\ UNCHANGED <<signer_info, signer_algo, detached_signature,
                       encap_cont_type>>
  /\ UNCHANGED <<content_oid, content_ct, content_handler, digest_algos,
                 cert_list, reader, writer, hash_fnc, input, out, hashed,
                 aborted>>

\* ct_parse_signed_data.  _ksba_cms_parse_signed_data_part_1 reads the
\* prefix up to the encapsulated content (its OID and whether it is
\* present); part_2 reads the SignerInfos.  Either may fail on the input.
\* cms->data.digest is never set, so "detached && !data.digest" is detached.
ct_parse_signed_data ==
  /\ \/ /\ stop_reason = "GOT_CONTENT"
        /\ \/ /\ Fail("Read_Error")
              /\ UNCHANGED <<detached_signature, encap_cont_type>>
           \/ /\ detached_signature' = input.detached
              /\ encap_cont_type' = input.encap
              /\ stop_reason' = IF input.detached THEN "NEED_HASH"
                                                  ELSE "BEGIN_DATA"
              /\ last_err' = "OK"
        /\ UNCHANGED <<signer_info, signer_algo>>
     \/ /\ stop_reason \in {"NEED_HASH", "END_DATA"}
        /\ \/ /\ Fail("Read_Error")
              /\ UNCHANGED <<signer_info, signer_algo>>
           \/ /\ signer_info' = input.md /\ signer_algo' = input.algo
              /\ stop_reason' = "READY"
              /\ last_err' = "OK"
        /\ UNCHANGED <<detached_signature, encap_cont_type>>
     \/ /\ stop_reason = "BEGIN_DATA" /\ ~hash_fnc
        /\ Fail("Missing_Action")
        /\ UNCHANGED <<signer_info, signer_algo, detached_signature,
                       encap_cont_type>>
     \/ /\ stop_reason = "BEGIN_DATA" /\ hash_fnc
        /\ stop_reason' = "END_DATA"
        /\ last_err' = "OK"
        /\ UNCHANGED <<signer_info, signer_algo, detached_signature,
                       encap_cont_type>>
     \/ /\ stop_reason \notin {"GOT_CONTENT", "NEED_HASH", "BEGIN_DATA",
                               "END_DATA"}
        /\ Fail(IF stop_reason = "RUNNING" THEN "Invalid_State" ELSE "Bug")
        /\ UNCHANGED <<signer_info, signer_algo, detached_signature,
                       encap_cont_type>>
  /\ UNCHANGED <<content_oid, content_ct, content_handler, digest_algos,
                 cert_list, reader, writer, hash_fnc, input, out, hashed,
                 aborted>>

\* The writer writes toks and the step ends in stop reason next, or one of
\* the writes fails and the step stops after the first k of them.
Emit(toks, next) ==
  \/ /\ out' = out \o toks
     /\ stop_reason' = next
     /\ last_err' = "OK"
  \/ /\ \E k \in 0 .. Len(toks) - 1 : out' = out \o SubSeq(toks, 1, k)
     /\ Fail("Write_Error")

\* Mutant: the AlgorithmIdentifier loop starts at the second entry.
header_skips_first_algo(detached) ==
  << Tok("open", "SEQUENCE"), Tok("oid", content_oid), Tok("open", "CTX0"),
     Tok("open", "SEQUENCE"), Tok("int", 3), Tok("set", 11) >>
  \o [i \in 1 .. Len(digest_algos) - 1 |-> Tok("algid", digest_algos[i + 1])]
  \o << Tok("open", "SEQUENCE"), Tok("oid", encap_cont_type) >>
  \o (IF detached THEN << >> ELSE << Tok("open", "CTX0") >>)

\* build_signed_data_header: ContentInfo, [0], SignedData, version 3, the
\* digestAlgorithms SET with its length hard-coded to 11, one
\* AlgorithmIdentifier per list entry in list order, the encapContentInfo
\* SEQUENCE with its OID, and the [0] content wrapper unless detached.
HeaderTokens(detached) ==
  << Tok("open", "SEQUENCE"), Tok("oid", content_oid), Tok("open", "CTX0"),
     Tok("open", "SEQUENCE"), Tok("int", 3), Tok("set", 11) >>
  \o [i \in 1 .. Len(digest_algos) |-> Tok("algid", digest_algos[i])]
  \o << Tok("open", "SEQUENCE"), Tok("oid", encap_cont_type) >>
  \o (IF detached THEN << >> ELSE << Tok("open", "CTX0") >>)

\* The first signer in list order at which the per-signer loop of
\* build_signed_data_attributes stops: no digest algorithm left, a NULL
\* certificate, or no message digest (the assert); Len + 1 if none.
AttrBad(i) == \/ i > Len(digest_algos)
              \/ cert_list[i].cert = NoCert
              \/ cert_list[i].md = NoDigest
AttrStop == IF \E i \in 1 .. Len(cert_list) : AttrBad(i)
              THEN CHOOSE i \in 1 .. Len(cert_list) :
                     AttrBad(i) /\ \A j \in 1 .. i - 1 : ~AttrBad(j)
              ELSE Len(cert_list) + 1

\* The error with which the loop stops at signer i.
LoopError(i) ==
  IF i > Len(digest_algos) THEN "Missing_Value"
  ELSE IF cert_list[i].cert = NoCert THEN "Bug"
  ELSE "Assertion_Failed"

\* The signers before k have their messageDigest attribute built and
\* cached in attr.root/attr.image.
AttrsBuilt(k) ==
  [i \in 1 .. Len(cert_list) |->
     IF i < k THEN [cert_list[i] EXCEPT !.attr = cert_list[i].md]
              ELSE cert_list[i]]

\* build_signed_data_attributes: the end tag of the content, then for each
\* signer the messageDigest attribute; signer_info is replaced by each
\* signer's partial SignerInfos, so the last one processed stays.  That
\* partial SignerInfos holds only the signedAttrs: no digestAlgorithm.
build_signed_data_attributes ==
  \/ /\ Fail("Write_Error")
     /\ UNCHANGED <<out, cert_list, signer_info, signer_algo, aborted>>
  \/ /\ cert_list = << >> \/ digest_algos = << >>
     /\ out' = Append(out, EOC)
     /\ Fail("Missing_Value")
     /\ UNCHANGED <<cert_list, signer_info, signer_algo, aborted>>
  \/ /\ cert_list # << >> /\ digest_algos # << >>
     /\ out' = Append(out, EOC)
     /\ cert_list' = AttrsBuilt(AttrStop)
     /\ signer_info' = IF AttrStop > 1 THEN cert_list[AttrStop - 1].md
                                       ELSE signer_info
     /\ signer_algo' = IF AttrStop > 1 THEN NULL ELSE signer_algo
     /\ \/ /\ AttrStop > Len(cert_list)
           /\ stop_reason' = "NEED_SIG"
           /\ last_err' = "OK"
           /\ UNCHANGED aborted
        \/ /\ AttrStop <= Len(cert_list)
           /\ Fail(LoopError(AttrStop))
           /\ aborted' = (LoopError(AttrStop) = "Assertion_Failed")

\* Mutant: the signedAttrs are rebuilt from the signer's current message
\* digest instead of being copied from the attr.root/attr.image cache.
signer_info_from_md(i) ==
  Tok("signerinfo", [tag |-> IF i = 1 THEN "CTX0" ELSE "SET",
                     cert |-> cert_list[i].cert, algo |-> digest_algos[i],
                     attr |-> cert_list[i].md])

\* The SignerInfos image of the signer at list position i: sid from its
\* certificate, the i-th digest algorithm, the cached attributes; the
\* first one has its SET tag overwritten by 0xA0.
SignerInfoToken(i) ==
  Tok("signerinfo", [tag |-> IF i = 1 THEN "CTX0" ELSE "SET",
                     cert |-> cert_list[i].cert, algo |-> digest_algos[i],
                     attr |-> cert_list[i].attr])
SignerInfoTokens(k) == [i \in 1 .. k |-> SignerInfoToken(i)]

RestBad(i) == \/ i > Len(digest_algos)
              \/ cert_list[i].cert = NoCert
              \/ cert_list[i].attr = NoDigest
RestStop == IF \E i \in 1 .. Len(cert_list) : RestBad(i)
              THEN CHOOSE i \in 1 .. Len(cert_list) :
                     RestBad(i) /\ \A j \in 1 .. i - 1 : ~RestBad(j)
              ELSE Len(cert_list) + 1

\* build_signed_data_rest: one SignerInfos image per signer, then two
\* end-of-contents.  An empty signer or algorithm list is Missing_Value
\* before anything is written.
build_signed_data_rest ==
  \/ /\ cert_list # << >> /\ RestStop > Len(cert_list)
     /\ Emit(SignerInfoTokens(Len(cert_list)) \o << EOC, EOC >>, "READY")
     /\ UNCHANGED aborted
  \/ /\ cert_list = << >> \/ RestStop <= Len(cert_list)
     /\ LET written == IF cert_list = << >> THEN << >>
                       ELSE SignerInfoTokens(RestStop - 1)
            err == IF cert_list = << >> THEN "Missing_Value"
                   ELSE LoopError(RestStop)
        IN \/ /\ out' = out \o written
              /\ Fail(err)
              /\ aborted' = (err = "Assertion_Failed")
           \/ /\ \E k \in 0 .. Len(written) - 1 :
                   out' = out \o SubSeq(written, 1, k)
              /\ Fail("Write_Error")
              /\ UNCHANGED aborted

\* Mutant: READY is taken for sDATAREADY, so a further call rebuilds the
\* signed attributes (and replaces signer_info) instead of failing.
build_signed_data_ready_rebuilds ==
  /\ \/ /\ stop_reason = "GOT_CONTENT"
        /\ detached_signature' = (cert_list # << >> /\
                                  Head(cert_list).md # NoDigest)
        /\ Emit(HeaderTokens(detached_signature'),
                IF detached_signature' THEN "END_DATA" ELSE "BEGIN_DATA")
        /\ UNCHANGED <<cert_list, signer_info, signer_algo, aborted>>
     \/ /\ stop_reason \in {"BEGIN_DATA", "END_DATA", "READY"}
        /\ build_signed_data_attributes
        /\ UNCHANGED detached_signature
     \/ /\ stop_reason = "NEED_SIG"
        /\ build_signed_data_rest
        /\ UNCHANGED <<cert_list, signer_info, signer_algo, detached_signature>>
     \/ /\ stop_reason \notin {"GOT_CONTENT", "BEGIN_DATA", "END_DATA",
                               "NEED_SIG", "READY"}
        /\ Fail(IF stop_reason = "RUNNING" THEN "Invalid_State" ELSE "Bug")
        /\ UNCHANGED <<out, cert_list, signer_info, signer_algo,
                       detached_signature, aborted>>
  /\ UNCHANGED <<content_oid, content_ct, content_handler, encap_cont_type,
                 digest_algos, reader, writer, hash_fnc, input, hashed>>

\* ct_build_signed_data.  At START the signature is detached iff the head
\* signer already has a message digest.
ct_build_signed_data ==
  /\ \/ /\ stop_reason = "GOT_CONTENT"
        /\ detached_signature' = (cert_list # << >> /\
                                  Head(cert_list).md # NoDigest)
        /\ Emit(HeaderTokens(detached_signature'),
                IF detached_signature' THEN "END_DATA" ELSE "BEGIN_DATA")
        /\ UNCHANGED <<cert_list, signer_info, signer_algo, aborted>>
     \/ /\ stop_reason \in {"BEGIN_DATA", "END_DATA"}
        /\ build_signed_data_attributes
        /\ UNCHANGED detached_signature
     \/ /\ stop_reason = "NEED_SIG"
        /\ build_signed_data_rest
        /\ UNCHANGED <<cert_list, signer_info, signer_algo, detached_signature>>
     \/ /\ stop_reason \notin {"GOT_CONTENT", "BEGIN_DATA", "END_DATA",
                               "NEED_SIG"}
        /\ Fail(IF stop_reason = "RUNNING" THEN "Invalid_State" ELSE "Bug")
        /\ UNCHANGED <<out, cert_list, signer_info, signer_algo,
                       detached_signature, aborted>>
  /\ UNCHANGED <<content_oid, content_ct, content_handler, encap_cont_type,
                 digest_algos, reader, writer, hash_fnc, input, hashed>>

\* stop_reason # NONE: both drivers call content.handler.  (The driver's
\* "no handler" branch is unreachable: a handler is installed whenever
\* stop_reason leaves NONE and is never removed.)
ksba_cms_step(api) ==
  /\ api \in Uses /\ stop_reason # "NONE"
  /\ CASE content_handler = "ct_parse_signed_data" -> ct_parse_signed_data
       [] content_handler = "ct_build_signed_data" -> ct_build_signed_data
       [] OTHER -> NotImplemented

\* Every call needs a running process: after a failed assert() nothing runs.
Next ==
  \/ ~aborted /\ \E r, w \in BOOLEAN : ksba_cms_set_reader_writer(r, w)
  \/ ~aborted /\ \E f \in BOOLEAN : ksba_cms_set_hash_function(f)
  \/ ~aborted /\ \E what \in {0, 1}, t \in CTs :
                  ksba_cms_set_content_type(what, t)
  \/ ~aborted /\ \E a \in Algos : ksba_cms_add_digest_algo(a)
  \/ ~aborted /\ \E c \in Certs : ksba_cms_add_signer(c)
  \/ ~aborted /\ \E idx \in 0 .. MaxSigners - 1, d \in Digests :
                  ksba_cms_set_message_digest(idx, d)
  \/ ~aborted /\ \E idx \in 0 .. MaxSigners - 1 : ksba_cms_get_cert(idx)
  \/ ~aborted /\ \E idx \in {0, 1} : ksba_cms_hash_signed_attrs(idx)
  \/ ~aborted /\ ksba_cms_parse_start
  \/ ~aborted /\ ksba_cms_build_start
  \/ ~aborted /\ \E api \in Uses : ksba_cms_step(api)

Spec == Init /\ [][Next]_vars

(***************************************************************************)
(* Properties.                                                             *)
(***************************************************************************)

\* Spec section 3: content.handler and content.ct always agree with
\* content.oid through the content_handlers table (set together by the
\* dispatch in ksba_cms_parse and by ksba_cms_set_content_type).
HandlerAgreesWithOid ==
  content_handler # NULL =>
    /\ KnownOid(content_oid)
    /\ content_ct = RowOfOid(content_oid).ct
    /\ content_handler \in {RowOfOid(content_oid).parse,
                            RowOfOid(content_oid).build}

\* The direction of the installed handler: none yet, a parse handler or a
\* build handler of the content_handlers table.
ModeOf(h) == IF h = NULL THEN "none"
             ELSE IF h \in {r.parse : r \in ContentHandlers} THEN "parse"
             ELSE "build"

\* The stop-reason protocol of spec section 4 seen through the container:
\* the phase is stop_reason, the direction that of content.handler, and a
\* call succeeded iff it returned 0.
Protocol == INSTANCE CMSProtocol
              WITH phase <- stop_reason, mode <- ModeOf(content_handler),
                   result <- IF last_err = "OK" THEN "ok" ELSE "err"

\* Spec sections 4.2-4.4: every sequence of calls is one the protocol
\* allows.  The first successful driver call moves NONE to GOT_CONTENT and
\* fixes the direction; after it a successful call moves stop_reason only
\* along the parse graph (NEED_HASH or BEGIN_DATA/END_DATA, READY) or the
\* build graph (BEGIN_DATA or END_DATA, NEED_SIG, READY) of the installed
\* handler, and a failed one leaves it or parks it at RUNNING.
ProtocolRefined == Protocol!PSpec

SignerInfosAt == {i \in DOMAIN out : out[i].kind = "signerinfo"}
LastSignerInfo == CHOOSE i \in SignerInfosAt : \A j \in SignerInfosAt : j <= i

\* hash_signed_attrs / build_signed_data_rest: when a build is READY, every
\* signedAttrs value that ksba_cms_hash_signed_attrs fed to the hash
\* function is the signedAttrs of the last SignerInfo written, whatever the
\* caller did to the signers' message digests in between.
HashedAttrsEmbedded ==
  stop_reason = "READY" /\ SignerInfosAt # {} =>
    \A h \in hashed : h = out[LastSignerInfo].val.attr

\* build_signed_data_header / build_signed_data_rest: the digestAlgorithm
\* of every SignerInfo written is one of the AlgorithmIdentifiers the
\* header wrote into the SignedData digestAlgorithms SET.
SignerAlgoAnnounced ==
  \A i \in SignerInfosAt :
    \E j \in DOMAIN out : out[j].kind = "algid" /\ out[j].val = out[i].val.algo

(***************************************************************************)
(* DER lengths (ksba_oid_from_str and _ksba_der_write_algorithm_identifier, *)
(* outside src/): an OID's content is its first two arcs as 40*a1+a2, then *)
(* every arc in base 128; an AlgorithmIdentifier is a SEQUENCE of the OID  *)
(* and a NULL, each with a two-byte header.                                *)
(***************************************************************************)
Base128Len(n) == CHOOSE k \in 1 .. 5 : n < 128^k /\ (k = 1 \/ n >= 128^(k-1))
OidContentLen(a) ==
  LET len[i \in 2 .. Len(a)] ==
        IF i = 2 THEN Base128Len(40 * a[1] + a[2])
                 ELSE len[i - 1] + Base128Len(a[i])
  IN len[Len(a)]
AlgIdLen(a) == 2 + (2 + OidContentLen(a)) + 2

\* The number of tokens of a kind in out, and the total AlgorithmIdentifier
\* length out holds.
CountKind(k) == LET c[i \in 0 .. Len(out)] ==
                      IF i = 0 THEN 0
                      ELSE c[i - 1] + (IF out[i].kind = k THEN 1 ELSE 0)
                IN c[Len(out)]
AlgIdBytes == LET b[i \in 0 .. Len(out)] ==
                    IF i = 0 THEN 0
                    ELSE b[i - 1] + (IF out[i].kind = "algid"
                                       THEN AlgIdLen(out[i].val) ELSE 0)
              IN b[Len(out)]

\* Spec section 4.4.1 and 9.1: a digestAlgorithms SET that holds at least
\* one AlgorithmIdentifier is encoded with their total length
\* (build_signed_data_header writes 11 whatever the list holds, which is
\* right for SHA-1 alone and wrong for SHA-256 or for two algorithms).
DigestSetLengthMatches ==
  \A p \in DOMAIN out :
    (/\ out[p].kind = "set"
     /\ \E q \in p + 1 .. Len(out) : out[q].kind = "open"
     /\ CountKind("algid") > 0)
      => out[p].val = AlgIdBytes

\* Spec section 8, scenario 3: the byte stream a completed build emits
\* parses, so every indefinite-length constructed encoding opened by
\* build_signed_data_header is closed by an end-of-contents.
BalancedOutput ==
  stop_reason = "READY" /\ SignerInfosAt # {} =>
    CountKind("open") = CountKind("eoc")

FirstSignerInfo == CHOOSE i \in SignerInfosAt : \A j \in SignerInfosAt : i <= j

\* Spec section 3 and 4.4.3: the signedAttrs that
\* ksba_cms_hash_signed_attrs(cms, 0) hashes are those embedded in the
\* SignerInfo of signer 0 (the first one build_signed_data_rest writes).
HashedAttrsAreSignerZero ==
  stop_reason = "READY" /\ SignerInfosAt # {} =>
    \A h \in hashed : h = out[FirstSignerInfo].val.attr

\* The documentation of ksba_cms_set_message_digest: "The index of a signer
\* is determined by the sequence of ksba_cms_add_signer() calls; the first
\* signer has the index 0".  So a successful set_message_digest(idx, d)
\* stores d in the signer added idx-th, which is element Len - idx of the
\* head-first cert_list.
SignerIndexIsAdditionOrder ==
  [][\A idx \in 0 .. MaxSigners - 1, d \in Digests :
       ksba_cms_set_message_digest(idx, d) /\ last_err' = "OK"
         => cert_list'[Len(cert_list) - idx].md = d]_vars


\* Spec section 4.6: set_reader_writer is one-shot per direction, so a
\* reader or writer once set stays set.
ReaderWriterKept == [][(reader => reader') /\ (writer => writer')]_vars

\* Spec section 4.4.2: a signer without a message digest makes the build
\* fail with Missing_Value (build_signed_data_attributes asserts instead).
NoAssertionFailure == ~aborted

=============================================================================
