------------------------- MODULE CMSEngine_proofs -------------------------
(***************************************************************************)
(* Proofs about the CMS container model CMSEngine, for every value of its  *)
(* constants.                                                              *)
(***************************************************************************)
EXTENDS CMSEngine, TLAPS, WellFoundedInduction, FiniteSetTheorems,
        SequenceTheorems

(***************************************************************************)
(* Every non-empty set of naturals has a least element.  The loops of      *)
(* build_signed_data_attributes and build_signed_data_rest stop at the     *)
(* first signer that fails; this is why that signer exists.                *)
(***************************************************************************)
LEMMA LeastNat ==
  ASSUME NEW T \in SUBSET Nat, IsFiniteSet(T), T # {}
  PROVE  \E x \in T : \A y \in T : x <= y
<1> DEFINE Below(b) == {z \in T : z <= b}
           F == {Below(b) : b \in T}
           R == StrictSubsetOrdering(T)
<1>1. F \subseteq FiniteSubsetsOf(T)
  BY FS_FiniteSubsetsOfFinite DEF FiniteSubsetsOf
<1>2. F # {}
  OBVIOUS
<1>3. \E M \in F : \A N \in F : ~(<<N, M>> \in R)
  BY <1>1, <1>2, FS_StrictSubsetOrderingWellFounded, WFMin
<1>4. PICK x \in T : \A N \in F : ~(<<N, Below(x)>> \in R)
  BY <1>3
<1>5. ASSUME NEW y \in T, y < x PROVE FALSE
  <2>1. Below(y) \in F  OBVIOUS
  <2>a. x \in T /\ x \in Nat /\ y \in Nat /\ y < x
    BY <1>4, <1>5
  <2>b. Below(y) \subseteq Below(x)
    <3> SUFFICES ASSUME NEW z \in T, z <= y PROVE z <= x
      BY DEF Below
    <3> z \in Nat  OBVIOUS
    <3> QED  BY <2>a
  <2>c. x \in Below(x) /\ x \notin Below(y)
    BY <2>a, SMT DEF Below
  <2>2. Below(y) \subseteq Below(x) /\ x \in Below(x) \ Below(y)
    BY <2>b, <2>c
  <2>3. <<Below(y), Below(x)>> \in R
    BY <2>2 DEF StrictSubsetOrdering, R
  <2>. QED  BY <1>4, <2>1, <2>3
<1>. QED  BY <1>5

(***************************************************************************)
(* The per-signer loop of build_signed_data_attributes stops at a signer   *)
(* of the list, or after the last one, and every signer before it passed.  *)
(***************************************************************************)
LEMMA AttrStopRange ==
  ASSUME cert_list \in Seq(SignerRec), digest_algos \in Seq(Algos)
  PROVE  /\ AttrStop \in 1 .. Len(cert_list) + 1
         /\ \A j \in 1 .. AttrStop - 1 : ~AttrBad(j)
         /\ AttrStop <= Len(cert_list) => AttrBad(AttrStop)
<1> DEFINE T == {i \in 1 .. Len(cert_list) : AttrBad(i)}
<1>1. CASE \E i \in 1 .. Len(cert_list) : AttrBad(i)
  <2>0. IsFiniteSet(T)
    BY FS_Interval, FS_Subset
  <2>a. T \in SUBSET Nat /\ T # {}
    BY <1>1
  <2>1. PICK x \in T : \A y \in T : x <= y
    BY <2>a, <2>0, LeastNat
  <2>2. AttrBad(x) /\ \A j \in 1 .. x - 1 : ~AttrBad(j)
    BY <2>1
  <2>3. /\ AttrStop \in 1 .. Len(cert_list)
        /\ AttrBad(AttrStop)
        /\ \A j \in 1 .. AttrStop - 1 : ~AttrBad(j)
    BY <1>1, <2>1, <2>2 DEF AttrStop
  <2>. QED  BY <2>3
<1>2. CASE ~\E i \in 1 .. Len(cert_list) : AttrBad(i)
  BY <1>2 DEF AttrStop
<1>. QED  BY <1>1, <1>2

(***************************************************************************)
(* The same for the loop of build_signed_data_rest.                        *)
(***************************************************************************)
LEMMA RestStopRange ==
  ASSUME cert_list \in Seq(SignerRec), digest_algos \in Seq(Algos)
  PROVE  /\ RestStop \in 1 .. Len(cert_list) + 1
         /\ \A j \in 1 .. RestStop - 1 : ~RestBad(j)
         /\ RestStop <= Len(cert_list) => RestBad(RestStop)
<1> DEFINE T == {i \in 1 .. Len(cert_list) : RestBad(i)}
<1>1. CASE \E i \in 1 .. Len(cert_list) : RestBad(i)
  <2>0. IsFiniteSet(T)
    BY FS_Interval, FS_Subset
  <2>a. T \in SUBSET Nat /\ T # {}
    BY <1>1
  <2>1. PICK x \in T : \A y \in T : x <= y
    BY <2>a, <2>0, LeastNat
  <2>2. RestBad(x) /\ \A j \in 1 .. x - 1 : ~RestBad(j)
    BY <2>1
  <2>3. /\ RestStop \in 1 .. Len(cert_list)
        /\ RestBad(RestStop)
        /\ \A j \in 1 .. RestStop - 1 : ~RestBad(j)
    BY <1>1, <2>1, <2>2 DEF RestStop
  <2>. QED  BY <2>3
<1>2. CASE ~\E i \in 1 .. Len(cert_list) : RestBad(i)
  BY <1>2 DEF RestStop
<1>. QED  BY <1>1, <1>2

(***************************************************************************)
(* The rows of content_handlers hold an OID the container may store and    *)
(* handler names, and the row found by an OID or a content type carries it.*)
(***************************************************************************)
LEMMA RowType ==
  ASSUME NEW r \in ContentHandlers
  PROVE  /\ r.oid \in Oids /\ r.ct \in TableCTs
         /\ r.parse \in HandlerNames /\ r.build \in HandlerNames
BY DEF Oids, TableOids, TableCTs, HandlerNames

LEMMA RowOfOidType ==
  ASSUME NEW o, KnownOid(o)
  PROVE  RowOfOid(o) \in ContentHandlers /\ RowOfOid(o).oid = o
BY DEF KnownOid, RowOfOid

LEMMA RowOfCTType ==
  ASSUME NEW t, KnownCT(t)
  PROVE  RowOfCT(t) \in ContentHandlers /\ RowOfCT(t).ct = t
BY DEF KnownCT, RowOfCT

(***************************************************************************)
(* The header build_signed_data_header writes is a sequence of tokens.     *)
(***************************************************************************)
LEMMA HeaderType ==
  ASSUME TypeOK, NEW d \in BOOLEAN
  PROVE  HeaderTokens(d) \in Seq(Token)
<1> DEFINE pre == << Tok("open", "SEQUENCE"), Tok("oid", content_oid),
                     Tok("open", "CTX0"), Tok("open", "SEQUENCE"),
                     Tok("int", 3), Tok("set", 11) >>
           algs == [i \in 1 .. Len(digest_algos) |->
                      Tok("algid", digest_algos[i])]
           enc == << Tok("open", "SEQUENCE"), Tok("oid", encap_cont_type) >>
           wrap == IF d THEN << >> ELSE << Tok("open", "CTX0") >>
<1>1. pre \in Seq(Token)  BY DEF TypeOK, Tok, Token
<1>2. algs \in Seq(Token)
  <2>1. \A i \in 1 .. Len(digest_algos) : digest_algos[i] \in Algos
    BY ElementOfSeq DEF TypeOK
  <2>. QED  BY <2>1, LenProperties DEF TypeOK, Tok, Token
<1>3. enc \in Seq(Token)  BY DEF TypeOK, Tok, Token
<1>4. wrap \in Seq(Token)
  <2>1. << Tok("open", "CTX0") >> \in Seq(Token)  BY DEF Tok, Token
  <2>. QED  BY <2>1, EmptySeq
<1>. QED  BY <1>1, <1>2, <1>3, <1>4, ConcatProperties DEF HeaderTokens

(***************************************************************************)
(* The SignerInfos build_signed_data_rest writes for signers that passed   *)
(* its checks are a sequence of tokens.                                    *)
(***************************************************************************)
LEMMA SignerInfosType ==
  ASSUME TypeOK, NEW k \in 0 .. Len(cert_list),
         \A j \in 1 .. k : ~RestBad(j)
  PROVE  SignerInfoTokens(k) \in Seq(Token)
<1>1. ASSUME NEW j \in 1 .. k PROVE SignerInfoToken(j) \in Token
  <2>1. cert_list[j] \in SignerRec  BY ElementOfSeq DEF TypeOK
  <2>2. j <= Len(digest_algos) /\ cert_list[j].cert # NoCert
        /\ cert_list[j].attr # NoDigest
    BY <1>1 DEF RestBad
  <2>3. digest_algos[j] \in Algos  BY <2>2, ElementOfSeq DEF TypeOK
  <2>4. cert_list[j].cert \in Certs /\ cert_list[j].attr \in Digests
    BY <2>1, <2>2 DEF SignerRec
  <2>. QED  BY <2>3, <2>4 DEF SignerInfoToken, Tok, Token, SignerInfoRec
<1>. QED  BY <1>1 DEF SignerInfoTokens

(***************************************************************************)
(* A write of tokens that succeeds or stops part way keeps out a sequence  *)
(* of tokens.                                                              *)
(***************************************************************************)
LEMMA EmitType ==
  ASSUME TypeOK, NEW toks \in Seq(Token), NEW next \in StopReasons,
         Emit(toks, next)
  PROVE  out' \in Seq(Token) /\ stop_reason' \in StopReasons
         /\ last_err' \in Errors
<1>1. CASE out' = out \o toks /\ stop_reason' = next /\ last_err' = "OK"
  BY <1>1, ConcatProperties DEF TypeOK, Errors
<1>2. CASE /\ \E k \in 0 .. Len(toks) - 1 : out' = out \o SubSeq(toks, 1, k)
           /\ Fail("Write_Error")
  <2>1. PICK k \in 0 .. Len(toks) - 1 : out' = out \o SubSeq(toks, 1, k)
    BY <1>2
  <2>2. SubSeq(toks, 1, k) \in Seq(Token)
    BY SubSeqProperties, ElementOfSeq, LenProperties
  <2>. QED  BY <1>2, <2>1, <2>2, ConcatProperties
            DEF TypeOK, Fail, Errors, StopReasons
<1>. QED  BY <1>1, <1>2 DEF Emit

(***************************************************************************)
(* build_signed_data_attributes caches the messageDigest attribute of the  *)
(* signers before the stop point and leaves the list's length alone.       *)
(***************************************************************************)
LEMMA AttrsBuiltType ==
  ASSUME TypeOK, NEW k
  PROVE  AttrsBuilt(k) \in Seq(SignerRec) /\ Len(AttrsBuilt(k)) = Len(cert_list)
<1>1. \A i \in 1 .. Len(cert_list) :
        /\ cert_list[i] \in SignerRec
        /\ [cert_list[i] EXCEPT !.attr = cert_list[i].md] \in SignerRec
  <2> SUFFICES ASSUME NEW i \in 1 .. Len(cert_list)
               PROVE  /\ cert_list[i] \in SignerRec
                      /\ [cert_list[i] EXCEPT !.attr = cert_list[i].md]
                           \in SignerRec
    OBVIOUS
  <2>1. cert_list[i] \in SignerRec  BY ElementOfSeq DEF TypeOK
  <2>2. [cert_list[i] EXCEPT !.attr = cert_list[i].md] \in SignerRec
    BY <2>1, Zenon DEF SignerRec
  <2>. QED  BY <2>1, <2>2
<1>. QED  BY <1>1, LenProperties DEF TypeOK, AttrsBuilt

(***************************************************************************)
(* What the reader delivered (or nothing yet) has well-typed fields.       *)
(***************************************************************************)
LEMMA InputFields ==
  ASSUME TypeOK
  PROVE  /\ input.detached \in BOOLEAN
         /\ input.encap \in Oids
         /\ input.md \in Digests \cup {NoDigest}
         /\ input.algo \in Algos \cup {NULL}
<1>1. CASE input \in Inputs
  BY <1>1, InputsAssumption DEF InputRec, Oids
<1>2. CASE input = NoInput
  BY <1>2 DEF NoInput, Oids
<1>. QED  BY <1>1, <1>2 DEF TypeOK

(***************************************************************************)
(* A step of ct_parse_signed_data keeps the container well typed.          *)
(***************************************************************************)
LEMMA ParseSignedDataType ==
  ASSUME TypeOK, ct_parse_signed_data
  PROVE  TypeOK'
<1>1. /\ input.detached \in BOOLEAN
      /\ input.encap \in Oids
      /\ input.md \in Digests \cup {NoDigest}
      /\ input.algo \in Algos \cup {NULL}
  BY InputFields
<1>. QED  BY <1>1 DEF ct_parse_signed_data, Fail, TypeOK, StopReasons, Errors

(***************************************************************************)
(* build_signed_data_attributes keeps the container well typed.            *)
(***************************************************************************)
LEMMA AttributesType ==
  ASSUME TypeOK, build_signed_data_attributes
  PROVE  /\ out' \in Seq(Token)
         /\ cert_list' \in Seq(SignerRec) /\ Len(cert_list') <= MaxSigners
         /\ signer_info' \in Digests \cup {NoDigest}
         /\ signer_algo' \in Algos \cup {NULL}
         /\ stop_reason' \in StopReasons /\ last_err' \in Errors
         /\ aborted' \in BOOLEAN
<1>1. EOC \in Token  BY DEF EOC, Tok, Token
<1>2. CASE Fail("Write_Error") /\ UNCHANGED <<out, cert_list, signer_info,
                                              signer_algo, aborted>>
  BY <1>2 DEF Fail, TypeOK, StopReasons, Errors
<1>3. CASE /\ cert_list = << >> \/ digest_algos = << >>
           /\ out' = Append(out, EOC)
           /\ Fail("Missing_Value")
           /\ UNCHANGED <<cert_list, signer_info, signer_algo, aborted>>
  BY <1>1, <1>3, AppendProperties DEF Fail, TypeOK, StopReasons, Errors
<1>4. CASE /\ cert_list # << >> /\ digest_algos # << >>
           /\ out' = Append(out, EOC)
           /\ cert_list' = AttrsBuilt(AttrStop)
           /\ signer_info' = IF AttrStop > 1 THEN cert_list[AttrStop - 1].md
                                             ELSE signer_info
           /\ signer_algo' = IF AttrStop > 1 THEN NULL ELSE signer_algo
           /\ \/ /\ AttrStop > Len(cert_list)
                 /\ stop_reason' = "NEED_SIG"
                 /\ last_err' = "OK"
                 /\ UNCHANGED aborted
              \/ /\ AttrStop <= Len(cert_list)
                 /\ Fail(LoopError(AttrStop))
                 /\ aborted' = (LoopError(AttrStop) = "Assertion_Failed")
  <2>1. AttrStop \in 1 .. Len(cert_list) + 1
    BY AttrStopRange DEF TypeOK
  <2>2. out' \in Seq(Token)
    BY <1>1, <1>4, AppendProperties DEF TypeOK
  <2>3. cert_list' \in Seq(SignerRec) /\ Len(cert_list') <= MaxSigners
    BY <1>4, AttrsBuiltType DEF TypeOK
  <2>4. signer_info' \in Digests \cup {NoDigest}
    <3>1. CASE AttrStop > 1
      <4>1. cert_list[AttrStop - 1] \in SignerRec
        BY <2>1, <3>1, ElementOfSeq DEF TypeOK
      <4>. QED  BY <1>4, <3>1, <4>1 DEF SignerRec
    <3>2. CASE ~(AttrStop > 1)
      BY <1>4, <3>2 DEF TypeOK
    <3>. QED  BY <3>1, <3>2
  <2>7. signer_algo' \in Algos \cup {NULL}
    BY <1>4 DEF TypeOK
  <2>5. LoopError(AttrStop) \in Errors  BY DEF LoopError, Errors
  <2>6. stop_reason' \in StopReasons /\ last_err' \in Errors
        /\ aborted' \in BOOLEAN
    BY <1>4, <2>5 DEF Fail, StopReasons, Errors, TypeOK
  <2>. QED  BY <2>2, <2>3, <2>4, <2>6, <2>7
<1>. QED  BY <1>2, <1>3, <1>4 DEF build_signed_data_attributes

(***************************************************************************)
(* build_signed_data_rest keeps the container well typed.                  *)
(***************************************************************************)
LEMMA RestType ==
  ASSUME TypeOK, build_signed_data_rest
  PROVE  /\ out' \in Seq(Token)
         /\ stop_reason' \in StopReasons /\ last_err' \in Errors
         /\ aborted' \in BOOLEAN
<1>1. RestStop \in 1 .. Len(cert_list) + 1
      /\ \A j \in 1 .. RestStop - 1 : ~RestBad(j)
  BY RestStopRange DEF TypeOK
<1>2. << EOC, EOC >> \in Seq(Token)  BY DEF EOC, Tok, Token
<1>3. CASE /\ cert_list # << >> /\ RestStop > Len(cert_list)
           /\ Emit(SignerInfoTokens(Len(cert_list)) \o << EOC, EOC >>, "READY")
           /\ UNCHANGED aborted
  <2>1. SignerInfoTokens(Len(cert_list)) \in Seq(Token)
    BY <1>1, <1>3, SignerInfosType DEF TypeOK
  <2>2. SignerInfoTokens(Len(cert_list)) \o << EOC, EOC >> \in Seq(Token)
    BY <1>2, <2>1, ConcatProperties
  <2>. QED  BY <1>3, <2>2, EmitType DEF StopReasons, TypeOK
<1>4. CASE /\ cert_list = << >> \/ RestStop <= Len(cert_list)
           /\ LET written == IF cert_list = << >> THEN << >>
                             ELSE SignerInfoTokens(RestStop - 1)
                  err == IF cert_list = << >> THEN "Missing_Value"
                         ELSE LoopError(RestStop)
              IN \/ /\ out' = out \o written
                    /\ Fail(err)
                    /\ aborted' = (err = "Assertion_Failed")
                 \/ /\ \E k \in 0 .. Len(written) - 1 :
                         out' = out \o SubSeq(written, 1, k)
                    /\ Fail("Write_Error")
                    /\ UNCHANGED aborted
  <2> DEFINE written == IF cert_list = << >> THEN << >>
                        ELSE SignerInfoTokens(RestStop - 1)
             err == IF cert_list = << >> THEN "Missing_Value"
                    ELSE LoopError(RestStop)
  <2>1. written \in Seq(Token)
    <3>1. CASE cert_list = << >>  BY <3>1, EmptySeq
    <3>2. CASE cert_list # << >>
      <4>1. RestStop - 1 \in 0 .. Len(cert_list)
        BY <1>1 DEF TypeOK
      <4>2. \A j \in 1 .. RestStop - 1 : ~RestBad(j)
        BY <1>1
      <4>. QED  BY <3>2, <4>1, <4>2, SignerInfosType
    <3>. QED  BY <3>1, <3>2
  <2>2. err \in Errors  BY DEF LoopError, Errors
  <2>3. CASE /\ out' = out \o written
             /\ Fail(err)
             /\ aborted' = (err = "Assertion_Failed")
    BY <2>1, <2>2, <2>3, ConcatProperties
    DEF TypeOK, Fail, StopReasons, Errors
  <2>4. CASE /\ \E k \in 0 .. Len(written) - 1 :
                  out' = out \o SubSeq(written, 1, k)
             /\ Fail("Write_Error")
             /\ UNCHANGED aborted
    <3>1. PICK k \in 0 .. Len(written) - 1 :
            out' = out \o SubSeq(written, 1, k)
      BY <2>4
    <3>2. SubSeq(written, 1, k) \in Seq(Token)
      BY <2>1, SubSeqProperties, ElementOfSeq, LenProperties
    <3>. QED  BY <2>4, <3>1, <3>2, ConcatProperties
              DEF TypeOK, Fail, StopReasons, Errors
  <2>. QED  BY <1>4, <2>3, <2>4
<1>. QED  BY <1>3, <1>4 DEF build_signed_data_rest

(***************************************************************************)
(* A step of ct_build_signed_data keeps the container well typed.          *)
(***************************************************************************)
LEMMA BuildSignedDataType ==
  ASSUME TypeOK, ct_build_signed_data
  PROVE  TypeOK'
<1> USE DEF TypeOK
<1>1. CASE /\ stop_reason = "GOT_CONTENT"
           /\ detached_signature' = (cert_list # << >> /\
                                     Head(cert_list).md # NoDigest)
           /\ Emit(HeaderTokens(detached_signature'),
                   IF detached_signature' THEN "END_DATA" ELSE "BEGIN_DATA")
           /\ UNCHANGED <<cert_list, signer_info, signer_algo, aborted>>
  <2>1. detached_signature' \in BOOLEAN  BY <1>1
  <2>2. HeaderTokens(detached_signature') \in Seq(Token)
    BY <2>1, HeaderType
  <2>3. (IF detached_signature' THEN "END_DATA" ELSE "BEGIN_DATA")
          \in StopReasons
    BY DEF StopReasons
  <2>. QED  BY <1>1, <2>1, <2>2, <2>3, EmitType DEF ct_build_signed_data
<1>2. CASE /\ stop_reason \in {"BEGIN_DATA", "END_DATA"}
           /\ build_signed_data_attributes
           /\ UNCHANGED detached_signature
  BY <1>2, AttributesType DEF ct_build_signed_data
<1>3. CASE /\ stop_reason = "NEED_SIG"
           /\ build_signed_data_rest
           /\ UNCHANGED <<cert_list, signer_info, signer_algo,
                          detached_signature>>
  BY <1>3, RestType DEF ct_build_signed_data
<1>4. CASE /\ stop_reason \notin {"GOT_CONTENT", "BEGIN_DATA", "END_DATA",
                                  "NEED_SIG"}
           /\ Fail(IF stop_reason = "RUNNING" THEN "Invalid_State" ELSE "Bug")
           /\ UNCHANGED <<out, cert_list, signer_info, signer_algo,
                          detached_signature, aborted>>
  BY <1>4 DEF ct_build_signed_data, Fail, StopReasons, Errors
<1>. QED  BY <1>1, <1>2, <1>3, <1>4 DEF ct_build_signed_data

(***************************************************************************)
(* A stub handler (ct_parse_data, ct_build_enveloped_data, ...) keeps the  *)
(* container well typed.                                                   *)
(***************************************************************************)
LEMMA NotImplementedType ==
  ASSUME TypeOK, NotImplemented
  PROVE  TypeOK'
BY DEF NotImplemented, TypeOK, cfgVars, Errors

(***************************************************************************)
(* The initial container and every step keep the types.                    *)
(***************************************************************************)
LEMMA TypeInit == Init => TypeOK
<1> SUFFICES ASSUME Init PROVE TypeOK
  OBVIOUS
<1>1. NULL \in HandlerNames /\ NULL \in Oids
  <2>1. [oid |-> "1.2.840.113549.1.9.16.1.2", ct |-> "AUTH_DATA",
         parse |-> NULL, build |-> NULL] \in ContentHandlers
    BY DEF ContentHandlers
  <2>. QED  BY <2>1 DEF HandlerNames, Oids
<1>2. /\ << >> \in Seq(Algos) /\ << >> \in Seq(SignerRec)
      /\ << >> \in Seq(Token) /\ Len(<< >>) = 0
  BY EmptySeq
<1>3. stop_reason \in StopReasons /\ last_err \in Errors
  BY DEF Init, StopReasons, Errors
<1>4. content_oid \in Oids /\ content_handler \in HandlerNames
      /\ encap_cont_type \in Oids /\ content_ct \in TableCTs \cup {"NONE"}
  BY <1>1 DEF Init
<1>5. /\ digest_algos \in Seq(Algos) /\ Len(digest_algos) <= MaxAlgos
      /\ cert_list \in Seq(SignerRec) /\ Len(cert_list) <= MaxSigners
      /\ out \in Seq(Token)
  BY <1>2, ConstAssumption DEF Init
<1>6. /\ reader \in BOOLEAN /\ writer \in BOOLEAN /\ hash_fnc \in BOOLEAN
      /\ signer_info \in Digests \cup {NoDigest}
      /\ signer_algo \in Algos \cup {NULL}
      /\ detached_signature \in BOOLEAN
      /\ input \in Inputs \cup {NoInput}
      /\ hashed \subseteq Digests
      /\ aborted \in BOOLEAN
  BY DEF Init
<1>. QED  BY <1>3, <1>4, <1>5, <1>6 DEF TypeOK

LEMMA TypeStep == TypeOK /\ [Next]_vars => TypeOK'
<1> SUFFICES ASSUME TypeOK, [Next]_vars PROVE TypeOK'
  OBVIOUS
<1>1. ASSUME NEW r \in BOOLEAN, NEW w \in BOOLEAN,
             ksba_cms_set_reader_writer(r, w)
      PROVE  TypeOK'
  BY <1>1 DEF ksba_cms_set_reader_writer, TypeOK, cfgVars, engineVars,
            Errors
<1>2. ASSUME NEW f \in BOOLEAN, ksba_cms_set_hash_function(f)
      PROVE  TypeOK'
  BY <1>2 DEF ksba_cms_set_hash_function, TypeOK, cfgVars, engineVars
<1>3. ASSUME NEW what \in {0, 1}, NEW t \in CTs,
             ksba_cms_set_content_type(what, t)
      PROVE  TypeOK'
  <2>1. KnownCT(t) => /\ RowOfCT(t).oid \in Oids
                      /\ RowOfCT(t).ct \in TableCTs
                      /\ RowOfCT(t).build \in HandlerNames
    BY RowOfCTType, RowType
  <2>. QED  BY <1>3, <2>1 DEF ksba_cms_set_content_type, TypeOK, cfgVars,
                            engineVars, Errors
<1>4. ASSUME NEW a \in Algos, ksba_cms_add_digest_algo(a)
      PROVE  TypeOK'
  <2>1. << a >> \in Seq(Algos) /\ Len(<< a >>) = 1  OBVIOUS
  <2>. QED  BY <1>4, <2>1, ConcatProperties, ConstAssumption
            DEF ksba_cms_add_digest_algo, TypeOK, engineVars, Errors
<1>5. ASSUME NEW c \in Certs, ksba_cms_add_signer(c)
      PROVE  TypeOK'
  <2>1. << [cert |-> c, md |-> NoDigest, attr |-> NoDigest] >>
          \in Seq(SignerRec)
    BY DEF SignerRec
  <2>. QED  BY <1>5, <2>1, ConcatProperties, ConstAssumption
            DEF ksba_cms_add_signer, TypeOK, engineVars, Errors
<1>6. ASSUME NEW idx \in 0 .. MaxSigners - 1, NEW d \in Digests,
             ksba_cms_set_message_digest(idx, d)
      PROVE  TypeOK'
  <2>1. CASE idx < Len(cert_list)
    <3>1. cert_list[idx + 1] \in SignerRec
      BY <2>1, ElementOfSeq, ConstAssumption DEF TypeOK
    <3>2. [cert_list[idx + 1] EXCEPT !.md = d] \in SignerRec
      BY <3>1, Zenon DEF SignerRec
    <3>3. /\ [cert_list EXCEPT ![idx + 1].md = d] \in Seq(SignerRec)
          /\ Len([cert_list EXCEPT ![idx + 1].md = d]) = Len(cert_list)
      BY <2>1, <3>2, ExceptSeq, ConstAssumption DEF TypeOK
    <3>. QED  BY <1>6, <2>1, <3>3
              DEF ksba_cms_set_message_digest, TypeOK, engineVars, Errors
  <2>2. CASE ~(idx < Len(cert_list))
    BY <1>6, <2>2 DEF ksba_cms_set_message_digest, TypeOK, engineVars,
                     Errors
  <2>. QED  BY <2>1, <2>2
<1>7. ASSUME NEW idx \in 0 .. MaxSigners - 1, ksba_cms_get_cert(idx)
      PROVE  TypeOK'
  <2>1. cert_list[idx + 1] \in SignerRec
    BY <1>7, ElementOfSeq, ConstAssumption DEF ksba_cms_get_cert, TypeOK
  <2>2. [cert_list[idx + 1] EXCEPT !.cert = NoCert] \in SignerRec
    BY <2>1, Zenon DEF SignerRec
  <2>3. /\ [cert_list EXCEPT ![idx + 1].cert = NoCert] \in Seq(SignerRec)
        /\ Len([cert_list EXCEPT ![idx + 1].cert = NoCert])
             = Len(cert_list)
    BY <1>7, <2>2, ExceptSeq, ConstAssumption DEF ksba_cms_get_cert, TypeOK
  <2>. QED  BY <1>7, <2>3 DEF ksba_cms_get_cert, TypeOK, engineVars
<1>8. ASSUME NEW idx \in {0, 1}, ksba_cms_hash_signed_attrs(idx)
      PROVE  TypeOK'
  BY <1>8 DEF ksba_cms_hash_signed_attrs, TypeOK, cfgVars, Errors
<1>9. ASSUME ksba_cms_parse_start PROVE TypeOK'
  <2>1. \A m \in Inputs :
          /\ m.oid \in Oids
          /\ KnownOid(m.oid) => /\ RowOfOid(m.oid).ct \in TableCTs
                                /\ RowOfOid(m.oid).parse \in HandlerNames
    BY RowOfOidType, RowType DEF Oids
  <2>. QED  BY <1>9, <2>1 DEF ksba_cms_parse_start, TypeOK, Errors, StopReasons
<1>10. ASSUME ksba_cms_build_start PROVE TypeOK'
  BY <1>10 DEF ksba_cms_build_start, TypeOK, cfgVars, Errors, StopReasons
<1>11. ASSUME NEW api \in Uses, ksba_cms_step(api) PROVE TypeOK'
  <2>1. CASE content_handler = "ct_parse_signed_data"
    BY <1>11, <2>1, ParseSignedDataType DEF ksba_cms_step
  <2>2. CASE content_handler = "ct_build_signed_data"
    BY <1>11, <2>2, BuildSignedDataType DEF ksba_cms_step
  <2>3. CASE content_handler \notin {"ct_parse_signed_data",
                                     "ct_build_signed_data"}
    BY <1>11, <2>3, NotImplementedType DEF ksba_cms_step
  <2>. QED  BY <2>1, <2>2, <2>3
<1>12. CASE UNCHANGED vars
  BY <1>12 DEF vars, TypeOK
<1>. QED  BY <1>1, <1>2, <1>3, <1>4, <1>5, <1>6, <1>7, <1>8, <1>9, <1>10,
             <1>11, <1>12 DEF Next

(***************************************************************************)
(* Type correctness: whatever sequence of public calls the caller makes,   *)
(* and whatever the reader delivers or the writer does, every field of     *)
(* the container keeps its type: the lists stay within their bounds, the   *)
(* writer's output stays a sequence of well-formed TLVs (every SignerInfo  *)
(* written names a real certificate, an announced kind of digest algorithm *)
(* and a built attribute set), and stop_reason stays a KsbaStopReason.     *)
(***************************************************************************)
THEOREM TypeCorrect == Spec => []TypeOK
BY TypeInit, TypeStep, PTL DEF Spec

(***************************************************************************)
(* The OIDs of content_handlers are distinct: the loops of ksba_cms_parse  *)
(* and ksba_cms_set_content_type can only ever match one row.              *)
(***************************************************************************)
LEMMA OidsUnique ==
  \A r1, r2 \in ContentHandlers : r1.oid = r2.oid => r1 = r2
BY DEF ContentHandlers

(***************************************************************************)
(* A handler step never touches the content type and never sends the      *)
(* container back to stop reason NONE.                                     *)
(***************************************************************************)
LEMMA StepKeepsContent ==
  ASSUME NEW api, ksba_cms_step(api)
  PROVE  /\ UNCHANGED <<content_oid, content_ct, content_handler>>
         /\ stop_reason' # "NONE"
<1>1. stop_reason # "NONE"  BY DEF ksba_cms_step
<1>2. CASE content_handler = "ct_parse_signed_data"
  BY <1>1, <1>2 DEF ksba_cms_step, ct_parse_signed_data, Fail
<1>3. CASE content_handler = "ct_build_signed_data"
  <2>1. ct_build_signed_data  BY <1>3 DEF ksba_cms_step
  <2>2. ASSUME NEW toks, NEW next, next # "NONE", Emit(toks, next)
        PROVE  stop_reason' # "NONE"
    BY <2>2 DEF Emit, Fail
  <2>3. build_signed_data_attributes => stop_reason' # "NONE"
    BY DEF build_signed_data_attributes, Fail
  <2>4. build_signed_data_rest => stop_reason' # "NONE"
    BY <2>2 DEF build_signed_data_rest, Fail
  <2>. QED  BY <1>1, <2>1, <2>2, <2>3, <2>4 DEF ct_build_signed_data, Fail
<1>4. CASE content_handler \notin {"ct_parse_signed_data",
                                  "ct_build_signed_data"}
  BY <1>1, <1>4 DEF ksba_cms_step, NotImplemented, cfgVars
<1>. QED  BY <1>2, <1>3, <1>4

(***************************************************************************)
(* A caller that only parses has installed no handler before the parse    *)
(* starts: ksba_cms_parse installs one in the same step that leaves NONE.  *)
(***************************************************************************)
NoHandlerBeforeStart ==
  "build" \notin Uses => (stop_reason = "NONE" => content_handler = NULL)

HandlerInv == TypeOK /\ HandlerAgreesWithOid /\ NoHandlerBeforeStart

(***************************************************************************)
(* For a caller that either parses or builds (never both on one           *)
(* container), content.handler and content.ct agree with content.oid at   *)
(* every point: ksba_cms_parse's dispatch and ksba_cms_set_content_type   *)
(* set the three together, a failed dispatch happens only before a        *)
(* handler exists, and no handler step changes them.                       *)
(***************************************************************************)
THEOREM HandlerAgreement ==
  ASSUME Uses # {"parse", "build"}
  PROVE  Spec => []HandlerAgreesWithOid
<1>1. Init => HandlerInv
  BY TypeInit DEF Init, HandlerInv, HandlerAgreesWithOid,
                     NoHandlerBeforeStart
<1>2. HandlerInv /\ [Next]_vars => HandlerInv'
  <2> SUFFICES ASSUME HandlerInv, [Next]_vars PROVE HandlerInv'
    OBVIOUS
  <2>0. TypeOK'  BY TypeStep DEF HandlerInv
  <2> DEFINE Same == UNCHANGED <<content_oid, content_ct, content_handler,
                                 stop_reason>>
  <2>1. Same => HandlerInv'
    BY <2>0 DEF HandlerInv, HandlerAgreesWithOid, NoHandlerBeforeStart
  <2>2. ASSUME NEW what \in {0, 1}, NEW t \in CTs,
               ksba_cms_set_content_type(what, t)
        PROVE  HandlerInv'
    <3>1. "build" \in Uses /\ UNCHANGED stop_reason
      BY <2>2 DEF ksba_cms_set_content_type, engineVars
    <3>2. CASE KnownCT(t) /\ RowOfCT(t).build # NULL /\ what = 0
      <4>1. /\ content_oid' = RowOfCT(t).oid
            /\ content_ct' = RowOfCT(t).ct
            /\ content_handler' = RowOfCT(t).build
        BY <2>2, <3>2 DEF ksba_cms_set_content_type
      <4>2. RowOfCT(t) \in ContentHandlers  BY <3>2, RowOfCTType
      <4>3. KnownOid(content_oid') /\ RowOfOid(content_oid') = RowOfCT(t)
        BY <4>1, <4>2, OidsUnique DEF KnownOid, RowOfOid
      <4>. QED  BY <2>0, <3>1, <4>1, <4>3
                DEF HandlerInv, HandlerAgreesWithOid, NoHandlerBeforeStart
    <3>3. CASE ~(KnownCT(t) /\ RowOfCT(t).build # NULL /\ what = 0)
      <4>1. UNCHANGED <<content_oid, content_ct, content_handler>>
        BY <2>2, <3>3 DEF ksba_cms_set_content_type, cfgVars
      <4>. QED  BY <2>1, <3>1, <4>1
    <3>. QED  BY <3>2, <3>3
  <2>3. ASSUME ksba_cms_parse_start PROVE HandlerInv'
    <3>1. "build" \notin Uses /\ stop_reason = "NONE"
      BY <2>3, ConstAssumption DEF ksba_cms_parse_start
    <3>2. content_handler = NULL
      BY <3>1 DEF HandlerInv, NoHandlerBeforeStart
    <3>3. CASE UNCHANGED <<content_handler, stop_reason>>
      BY <2>0, <3>1, <3>2, <3>3
      DEF HandlerInv, HandlerAgreesWithOid, NoHandlerBeforeStart
    <3>4. CASE \E m \in Inputs :
                 /\ KnownOid(m.oid) /\ RowOfOid(m.oid).parse # NULL
                 /\ content_oid' = m.oid
                 /\ content_ct' = RowOfOid(m.oid).ct
                 /\ content_handler' = RowOfOid(m.oid).parse
                 /\ stop_reason' = "GOT_CONTENT"
      <4>1. PICK m \in Inputs :
                 /\ KnownOid(m.oid) /\ RowOfOid(m.oid).parse # NULL
                 /\ content_oid' = m.oid
                 /\ content_ct' = RowOfOid(m.oid).ct
                 /\ content_handler' = RowOfOid(m.oid).parse
                 /\ stop_reason' = "GOT_CONTENT"
        BY <3>4
      <4>. QED  BY <2>0, <3>1, <4>1
                DEF HandlerInv, HandlerAgreesWithOid, NoHandlerBeforeStart
    <3>. QED  BY <2>3, <3>3, <3>4 DEF ksba_cms_parse_start
  <2>4. ASSUME NEW api \in Uses, ksba_cms_step(api) PROVE HandlerInv'
    <3>1. UNCHANGED <<content_oid, content_ct, content_handler>>
          /\ stop_reason' # "NONE"
      BY <2>4, StepKeepsContent
    <3>. QED  BY <2>0, <3>1
              DEF HandlerInv, HandlerAgreesWithOid, NoHandlerBeforeStart
  <2>5. ASSUME ksba_cms_build_start PROVE HandlerInv'
    <3>1. "build" \in Uses /\ UNCHANGED <<content_oid, content_ct,
                                          content_handler>>
      BY <2>5 DEF ksba_cms_build_start, cfgVars
    <3>. QED  BY <2>0, <3>1
              DEF HandlerInv, HandlerAgreesWithOid, NoHandlerBeforeStart
  <2>6. CASE \/ \E r, w \in BOOLEAN : ksba_cms_set_reader_writer(r, w)
             \/ \E f \in BOOLEAN : ksba_cms_set_hash_function(f)
             \/ \E a \in Algos : ksba_cms_add_digest_algo(a)
             \/ \E c \in Certs : ksba_cms_add_signer(c)
             \/ \E idx \in 0 .. MaxSigners - 1, d \in Digests :
                  ksba_cms_set_message_digest(idx, d)
             \/ \E idx \in 0 .. MaxSigners - 1 : ksba_cms_get_cert(idx)
             \/ \E idx \in {0, 1} : ksba_cms_hash_signed_attrs(idx)
             \/ UNCHANGED vars
    <3>1. Same
      BY <2>6 DEF ksba_cms_set_reader_writer, ksba_cms_set_hash_function,
                  ksba_cms_add_digest_algo, ksba_cms_add_signer,
                  ksba_cms_set_message_digest, ksba_cms_get_cert,
                  ksba_cms_hash_signed_attrs, cfgVars, engineVars, vars
    <3>. QED  BY <2>1, <3>1
  <2>. QED  BY <2>2, <2>3, <2>4, <2>5, <2>6 DEF Next
<1>3. HandlerInv => HandlerAgreesWithOid
  BY DEF HandlerInv
<1>. QED  BY <1>1, <1>2, <1>3, TypeCorrect, PTL DEF Spec

(***************************************************************************)
(* Refinement of the stop-reason protocol.                                 *)
(***************************************************************************)

\* A non-NULL handler of the table is a parse handler or a build handler,
\* never both.
LEMMA ModeOfRow ==
  ASSUME NEW r \in ContentHandlers
  PROVE  /\ r.parse # NULL => ModeOf(r.parse) = "parse"
         /\ r.build # NULL => ModeOf(r.build) = "build"
BY DEF ContentHandlers, ModeOf, NULL

\* A write sequence either ends in the stop reason it announces, with
\* success, or parks the container at RUNNING with Write_Error.
LEMMA EmitOutcome ==
  ASSUME NEW toks, NEW next, Emit(toks, next)
  PROVE  \/ stop_reason' = next /\ last_err' = "OK"
         \/ stop_reason' = "RUNNING" /\ last_err' # "OK"
BY DEF Emit, Fail

\* A handler step leaves stop_reason, fails to RUNNING, or succeeds along
\* an edge of the protocol graph of its own direction.
LEMMA StepProtocol ==
  ASSUME NEW api, ksba_cms_step(api)
  PROVE  \/ stop_reason' = stop_reason
         \/ stop_reason' = "RUNNING" /\ last_err' # "OK"
         \/ /\ <<stop_reason, stop_reason'>>
                 \in Protocol!Edges(ModeOf(content_handler))
            /\ last_err' = "OK"
<1>1. CASE content_handler = "ct_parse_signed_data"
  <2>1. ModeOf(content_handler) = "parse"
    BY <1>1 DEF ModeOf, NULL, ContentHandlers
  <2>2. ct_parse_signed_data  BY <1>1 DEF ksba_cms_step
  <2>. QED  BY <2>1, <2>2 DEF ct_parse_signed_data, Fail, Protocol!Edges,
                              Protocol!ParseEdges
<1>2. CASE content_handler = "ct_build_signed_data"
  <2>1. ModeOf(content_handler) = "build"
    BY <1>2 DEF ModeOf, NULL, ContentHandlers
  <2>2. ct_build_signed_data  BY <1>2 DEF ksba_cms_step
  <2>3. \A i : LoopError(i) # "OK"  BY DEF LoopError
  <2>4. CASE stop_reason = "GOT_CONTENT"
    <3>1. \/ stop_reason' \in {"END_DATA", "BEGIN_DATA"} /\ last_err' = "OK"
          \/ stop_reason' = "RUNNING" /\ last_err' # "OK"
      BY <2>2, <2>4, EmitOutcome DEF ct_build_signed_data
    <3>. QED  BY <2>1, <2>4, <3>1 DEF Protocol!Edges, Protocol!BuildEdges
  <2>5. CASE stop_reason \in {"BEGIN_DATA", "END_DATA"}
    <3>1. build_signed_data_attributes
      BY <2>2, <2>5 DEF ct_build_signed_data
    <3>2. \/ stop_reason' = "NEED_SIG" /\ last_err' = "OK"
          \/ stop_reason' = "RUNNING" /\ last_err' # "OK"
      BY <2>3, <3>1 DEF build_signed_data_attributes, Fail
    <3>. QED  BY <2>1, <2>5, <3>2 DEF Protocol!Edges, Protocol!BuildEdges
  <2>6. CASE stop_reason = "NEED_SIG"
    <3>1. build_signed_data_rest  BY <2>2, <2>6 DEF ct_build_signed_data
    <3>2. \/ stop_reason' = "READY" /\ last_err' = "OK"
          \/ stop_reason' = "RUNNING" /\ last_err' # "OK"
      BY <2>3, <3>1, EmitOutcome DEF build_signed_data_rest, Fail
    <3>. QED  BY <2>1, <2>6, <3>2 DEF Protocol!Edges, Protocol!BuildEdges
  <2>7. CASE stop_reason \notin {"GOT_CONTENT", "BEGIN_DATA", "END_DATA",
                                 "NEED_SIG"}
    BY <2>2, <2>7 DEF ct_build_signed_data, Fail
  <2>. QED  BY <2>4, <2>5, <2>6, <2>7
<1>3. CASE content_handler \notin {"ct_parse_signed_data",
                                  "ct_build_signed_data"}
  BY <1>3 DEF ksba_cms_step, NotImplemented
<1>. QED  BY <1>1, <1>2, <1>3

\* What the refinement needs of the handler: a container that has left
\* NONE has one, and a container never parsed has no parse handler.
RefInv ==
  /\ stop_reason # "NONE" => content_handler # NULL
  /\ "parse" \notin Uses => ModeOf(content_handler) # "parse"


\* Before a driver starts, the protocol's only state is its initial one.
LEMMA RefInit == Init => RefInv /\ Protocol!PInit
BY DEF Init, RefInv, ModeOf, Protocol!PInit

LEMMA RefStep ==
  ASSUME Uses # {"parse", "build"}, RefInv, [Next]_vars
  PROVE  RefInv' /\ [Protocol!PNext]_Protocol!pvars
<1> DEFINE mode == ModeOf(content_handler)
           result == IF last_err = "OK" THEN "ok" ELSE "err"
<1>0. result' \in Protocol!Results  BY DEF Protocol!Results
<1> DEFINE Same == UNCHANGED <<stop_reason, content_handler>>
<1>1. Same => RefInv' /\ Protocol!Idle
  BY <1>0 DEF RefInv, Protocol!Idle
<1>2. ASSUME NEW what \in {0, 1}, NEW t \in CTs,
             ksba_cms_set_content_type(what, t)
      PROVE  RefInv' /\ [Protocol!PNext]_Protocol!pvars
  <2>1. "parse" \notin Uses /\ UNCHANGED stop_reason
    BY <1>2, ConstAssumption DEF ksba_cms_set_content_type, engineVars
  <2>2. CASE KnownCT(t) /\ RowOfCT(t).build # NULL /\ what = 0
    <3>1. content_handler' = RowOfCT(t).build
      BY <1>2, <2>2 DEF ksba_cms_set_content_type
    <3>2. content_handler' # NULL /\ ModeOf(content_handler') = "build"
      BY <2>2, <3>1, RowOfCTType, ModeOfRow
    <3>3. stop_reason # "NONE" => mode = "build"
      BY <2>1 DEF RefInv, ModeOf
    <3>4. RefInv'  BY <2>1, <3>2 DEF RefInv
    <3>5. Protocol!Idle  BY <1>0, <2>1, <3>2, <3>3 DEF Protocol!Idle
    <3>. QED  BY <3>4, <3>5 DEF Protocol!PNext
  <2>3. CASE ~(KnownCT(t) /\ RowOfCT(t).build # NULL /\ what = 0)
    BY <1>1, <1>2, <2>1, <2>3 DEF ksba_cms_set_content_type, cfgVars,
                                    Protocol!PNext
  <2>. QED  BY <2>2, <2>3
<1>3. ASSUME ksba_cms_parse_start
      PROVE  RefInv' /\ [Protocol!PNext]_Protocol!pvars
  <2>1. stop_reason = "NONE" /\ "parse" \in Uses
    BY <1>3 DEF ksba_cms_parse_start
  <2>2. CASE Same  BY <1>1, <2>2 DEF Protocol!PNext
  <2>3. CASE \E m \in Inputs :
               /\ KnownOid(m.oid) /\ RowOfOid(m.oid).parse # NULL
               /\ content_handler' = RowOfOid(m.oid).parse
               /\ stop_reason' = "GOT_CONTENT" /\ last_err' = "OK"
    <3>1. PICK m \in Inputs :
               /\ KnownOid(m.oid) /\ RowOfOid(m.oid).parse # NULL
               /\ content_handler' = RowOfOid(m.oid).parse
               /\ stop_reason' = "GOT_CONTENT" /\ last_err' = "OK"
      BY <2>3
    <3>2. content_handler' # NULL /\ ModeOf(content_handler') = "parse"
      BY <3>1, RowOfOidType, ModeOfRow
    <3>3. RefInv'  BY <2>1, <3>1, <3>2 DEF RefInv
    <3>4. Protocol!Start  BY <2>1, <3>1, <3>2 DEF Protocol!Start
    <3>. QED  BY <3>3, <3>4 DEF Protocol!PNext
  <2>. QED  BY <1>3, <2>2, <2>3 DEF ksba_cms_parse_start
<1>4. ASSUME ksba_cms_build_start
      PROVE  RefInv' /\ [Protocol!PNext]_Protocol!pvars
  <2>1. stop_reason = "NONE" /\ UNCHANGED content_handler
    BY <1>4 DEF ksba_cms_build_start, cfgVars
  <2>2. CASE UNCHANGED stop_reason  BY <1>1, <2>1, <2>2 DEF Protocol!PNext
  <2>3. CASE content_handler # NULL /\ stop_reason' = "GOT_CONTENT"
             /\ last_err' = "OK"
    <3>1. ModeOf(content_handler') \in {"parse", "build"}
      BY <2>1, <2>3 DEF ModeOf
    <3>2. RefInv'  BY <2>1, <2>3 DEF RefInv
    <3>3. Protocol!Start  BY <2>1, <2>3, <3>1 DEF Protocol!Start
    <3>. QED  BY <3>2, <3>3 DEF Protocol!PNext
  <2>. QED  BY <1>4, <2>2, <2>3 DEF ksba_cms_build_start
<1>5. ASSUME NEW api \in Uses, ksba_cms_step(api)
      PROVE  RefInv' /\ [Protocol!PNext]_Protocol!pvars
  <2>1. /\ UNCHANGED content_handler
        /\ stop_reason # "NONE" /\ stop_reason' # "NONE"
    BY <1>5, StepKeepsContent DEF ksba_cms_step
  <2>2. RefInv'  BY <2>1 DEF RefInv
  <2>3. \/ stop_reason' = stop_reason
        \/ stop_reason' = "RUNNING" /\ last_err' # "OK"
        \/ /\ <<stop_reason, stop_reason'>> \in Protocol!Edges(mode)
           /\ last_err' = "OK"
    BY <1>5, StepProtocol
  <2>4. Protocol!Idle \/ Protocol!Abort \/ Protocol!Advance
    BY <1>0, <2>1, <2>3 DEF Protocol!Idle, Protocol!Abort, Protocol!Advance
  <2>. QED  BY <2>2, <2>4 DEF Protocol!PNext
<1>6. CASE \/ \E r, w \in BOOLEAN : ksba_cms_set_reader_writer(r, w)
           \/ \E f \in BOOLEAN : ksba_cms_set_hash_function(f)
           \/ \E a \in Algos : ksba_cms_add_digest_algo(a)
           \/ \E c \in Certs : ksba_cms_add_signer(c)
           \/ \E idx \in 0 .. MaxSigners - 1, d \in Digests :
                ksba_cms_set_message_digest(idx, d)
           \/ \E idx \in 0 .. MaxSigners - 1 : ksba_cms_get_cert(idx)
           \/ \E idx \in {0, 1} : ksba_cms_hash_signed_attrs(idx)
  <2>1. Same
    BY <1>6 DEF ksba_cms_set_reader_writer, ksba_cms_set_hash_function,
                ksba_cms_add_digest_algo, ksba_cms_add_signer,
                ksba_cms_set_message_digest, ksba_cms_get_cert,
                ksba_cms_hash_signed_attrs, cfgVars, engineVars
  <2>. QED  BY <1>1, <2>1 DEF Protocol!PNext
<1>7. CASE UNCHANGED vars
  BY <1>7 DEF vars, RefInv, Protocol!pvars
<1>. QED  BY <1>2, <1>3, <1>4, <1>5, <1>6, <1>7 DEF Next

(***************************************************************************)
(* For a caller that either parses or builds (never both on one           *)
(* container), the container implements the stop-reason protocol of spec  *)
(* section 4 under the mapping of CMSEngine's Protocol instance: ksba_cms_ *)
(* parse and ksba_cms_build leave NONE only for GOT_CONTENT, a handler     *)
(* step that succeeds moves along its direction's graph, one that fails    *)
(* parks the container at RUNNING, and every other call leaves the stop    *)
(* reason and (once started) the direction alone.                          *)
(***************************************************************************)
THEOREM Refinement ==
  ASSUME Uses # {"parse", "build"}
  PROVE  Spec => ProtocolRefined
<1>1. Init => RefInv /\ Protocol!PInit  BY RefInit
<1>2. RefInv /\ [Next]_vars => RefInv' /\ [Protocol!PNext]_Protocol!pvars
  BY RefStep
<1>. QED  BY <1>1, <1>2, PTL DEF Spec, ProtocolRefined, Protocol!PSpec

=============================================================================
