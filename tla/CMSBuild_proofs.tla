-------------------------- MODULE CMSBuild_proofs --------------------------
(***************************************************************************)
(* Proofs about what ct_build_signed_data writes: the SignerInfos that     *)
(* build_signed_data_rest writes carry announced digest algorithms and the *)
(* signedAttrs that ksba_cms_hash_signed_attrs hashed.                     *)
(***************************************************************************)
EXTENDS CMSEngine_proofs

(***************************************************************************)
(* Tokens of the writer's output, as sequences.                            *)
(***************************************************************************)

\* No SignerInfo image among the tokens t.
NoSignerInfo(t) == \A i \in DOMAIN t : t[i].kind # "signerinfo"

\* Every SignerInfo image among t names a digest algorithm that the output
\* s holds as an AlgorithmIdentifier.
AnnouncedIn(t, s) ==
  \A i \in DOMAIN t :
    t[i].kind = "signerinfo" =>
      \E j \in DOMAIN s : s[j].kind = "algid" /\ s[j].val = t[i].val.algo

\* The output s holds an AlgorithmIdentifier for the algorithm a.
Written(a, s) == \E j \in DOMAIN s : s[j] = Tok("algid", a)

LEMMA NoSignerInfoConcat ==
  ASSUME NEW S, NEW s \in Seq(S), NEW t \in Seq(S),
         NoSignerInfo(s), NoSignerInfo(t)
  PROVE  NoSignerInfo(s \o t)
BY ConcatProperties DEF NoSignerInfo

LEMMA NoSignerInfoPrefix ==
  ASSUME NEW S, NEW t \in Seq(S), NEW k \in 0 .. Len(t), NoSignerInfo(t)
  PROVE  NoSignerInfo(SubSeq(t, 1, k))
BY SubSeqProperties DEF NoSignerInfo

LEMMA NoSignerInfoAnnounced ==
  ASSUME NEW t, NEW s, NoSignerInfo(t)
  PROVE  AnnouncedIn(t, s)
BY DEF NoSignerInfo, AnnouncedIn

\* What an output holds stays there when more is written after it.
LEMMA AnnouncedGrow ==
  ASSUME NEW S, NEW s \in Seq(S), NEW u \in Seq(S), NEW t,
         AnnouncedIn(t, s)
  PROVE  AnnouncedIn(t, s \o u)
<1> SUFFICES ASSUME NEW i \in DOMAIN t, t[i].kind = "signerinfo"
             PROVE  \E j \in DOMAIN (s \o u) :
                      (s \o u)[j].kind = "algid"
                      /\ (s \o u)[j].val = t[i].val.algo
  BY DEF AnnouncedIn
<1>1. PICK j \in DOMAIN s : s[j].kind = "algid" /\ s[j].val = t[i].val.algo
  BY DEF AnnouncedIn
<1>. QED  BY <1>1, ConcatProperties

LEMMA WrittenGrow ==
  ASSUME NEW S, NEW s \in Seq(S), NEW u \in Seq(S), NEW a, Written(a, s)
  PROVE  Written(a, s \o u)
BY ConcatProperties DEF Written

LEMMA AnnouncedConcat ==
  ASSUME NEW S, NEW t \in Seq(S), NEW u \in Seq(S), NEW s,
         AnnouncedIn(t, s), AnnouncedIn(u, s)
  PROVE  AnnouncedIn(t \o u, s)
<1> SUFFICES ASSUME NEW i \in 1 .. Len(t) + Len(u),
                    (t \o u)[i].kind = "signerinfo"
             PROVE  \E j \in DOMAIN s : s[j].kind = "algid"
                                        /\ s[j].val = (t \o u)[i].val.algo
  BY ConcatProperties DEF AnnouncedIn
<1>1. CASE i <= Len(t)
  BY <1>1, ConcatProperties DEF AnnouncedIn
<1>2. CASE ~(i <= Len(t))
  <2>1. i - Len(t) \in DOMAIN u /\ (t \o u)[i] = u[i - Len(t)]
    BY <1>2, ConcatProperties
  <2>. QED  BY <2>1 DEF AnnouncedIn
<1>. QED  BY <1>1, <1>2

LEMMA AnnouncedPrefix ==
  ASSUME NEW S, NEW t \in Seq(S), NEW k \in 0 .. Len(t), NEW s,
         AnnouncedIn(t, s)
  PROVE  AnnouncedIn(SubSeq(t, 1, k), s)
<1>1. /\ DOMAIN SubSeq(t, 1, k) = 1 .. k
      /\ \A i \in 1 .. k : SubSeq(t, 1, k)[i] = t[i] /\ i \in DOMAIN t
  BY SubSeqProperties
<1>. QED  BY <1>1 DEF AnnouncedIn

(***************************************************************************)
(* Writing tokens t after an output s whose SignerInfos are announced      *)
(* keeps them announced when t's SignerInfos are announced in s.           *)
(***************************************************************************)
LEMMA AnnouncedAppend ==
  ASSUME NEW S, NEW s \in Seq(S), NEW t \in Seq(S),
         AnnouncedIn(s, s), AnnouncedIn(t, s)
  PROVE  AnnouncedIn(s \o t, s \o t)
BY AnnouncedGrow, AnnouncedConcat, ConcatProperties

(***************************************************************************)
(* build_signed_data_header writes no SignerInfo, and one                  *)
(* AlgorithmIdentifier for every entry of cms->digest_algos.               *)
(***************************************************************************)
LEMMA HeaderShape ==
  ASSUME TypeOK, NEW d \in BOOLEAN
  PROVE  /\ NoSignerInfo(HeaderTokens(d))
         /\ \A i \in 1 .. Len(digest_algos) :
              Written(digest_algos[i], HeaderTokens(d))
<1> DEFINE pre == << Tok("open", "SEQUENCE"), Tok("oid", content_oid),
                     Tok("open", "CTX0"), Tok("open", "SEQUENCE"),
                     Tok("int", 3), Tok("set", 11) >>
           algs == [i \in 1 .. Len(digest_algos) |->
                      Tok("algid", digest_algos[i])]
           enc == << Tok("open", "SEQUENCE"), Tok("oid", encap_cont_type) >>
           wrap == IF d THEN << >> ELSE << Tok("open", "CTX0") >>
<1>0. HeaderTokens(d) = ((pre \o algs) \o enc) \o wrap
  BY DEF HeaderTokens
<1>1. /\ pre \in Seq(Token) /\ algs \in Seq(Token)
      /\ enc \in Seq(Token) /\ wrap \in Seq(Token)
  <2>1. pre \in Seq(Token) /\ enc \in Seq(Token)  BY DEF TypeOK, Tok, Token
  <2>2. algs \in Seq(Token)
    <3>1. \A i \in 1 .. Len(digest_algos) : digest_algos[i] \in Algos
      BY ElementOfSeq DEF TypeOK
    <3>. QED  BY <3>1, LenProperties DEF TypeOK, Tok, Token
  <2>3. wrap \in Seq(Token)
    <3>1. << Tok("open", "CTX0") >> \in Seq(Token)  BY DEF Tok, Token
    <3>. QED  BY <3>1, EmptySeq
  <2>. QED  BY <2>1, <2>2, <2>3
<1>2. /\ NoSignerInfo(pre) /\ NoSignerInfo(algs)
      /\ NoSignerInfo(enc) /\ NoSignerInfo(wrap)
  BY DEF NoSignerInfo, Tok
<1>3. NoSignerInfo(HeaderTokens(d))
  <2>1. NoSignerInfo(pre \o algs) /\ pre \o algs \in Seq(Token)
    BY <1>1, <1>2, NoSignerInfoConcat, ConcatProperties
  <2>2. NoSignerInfo((pre \o algs) \o enc)
        /\ (pre \o algs) \o enc \in Seq(Token)
    BY <1>1, <1>2, <2>1, NoSignerInfoConcat, ConcatProperties
  <2>. QED  BY <1>0, <1>1, <1>2, <2>2, NoSignerInfoConcat
<1>4. ASSUME NEW i \in 1 .. Len(digest_algos)
      PROVE  Written(digest_algos[i], HeaderTokens(d))
  <2>1. Written(digest_algos[i], pre \o algs)
    <3>1. (pre \o algs)[6 + i] = Tok("algid", digest_algos[i])
          /\ 6 + i \in DOMAIN (pre \o algs)
      BY <1>1, ConcatProperties
    <3>. QED  BY <3>1 DEF Written
  <2>2. pre \o algs \in Seq(Token) /\ (pre \o algs) \o enc \in Seq(Token)
    BY <1>1, ConcatProperties
  <2>. QED  BY <1>0, <1>1, <2>1, <2>2, WrittenGrow
<1>. QED  BY <1>3, <1>4

\* The end-of-contents build_signed_data_attributes and
\* build_signed_data_rest write are no SignerInfos.
LEMMA EOCShape ==
  /\ << EOC >> \in Seq(Token) /\ << EOC, EOC >> \in Seq(Token)
  /\ NoSignerInfo(<< EOC >>) /\ NoSignerInfo(<< EOC, EOC >>)
BY DEF EOC, Tok, Token, NoSignerInfo

(***************************************************************************)
(* The SignerInfos build_signed_data_rest writes for the signers that      *)
(* passed its checks name digest algorithms of cms->digest_algos.          *)
(***************************************************************************)
LEMMA SignerInfosAnnounced ==
  ASSUME TypeOK, NEW k \in 0 .. Len(cert_list),
         \A j \in 1 .. k : ~RestBad(j),
         \A i \in 1 .. Len(digest_algos) : Written(digest_algos[i], out)
  PROVE  AnnouncedIn(SignerInfoTokens(k), out)
<1> SUFFICES ASSUME NEW i \in 1 .. k
             PROVE  \E j \in DOMAIN out :
                      out[j].kind = "algid"
                      /\ out[j].val = SignerInfoTokens(k)[i].val.algo
  BY DEF AnnouncedIn, SignerInfoTokens
<1>1. i <= Len(digest_algos)  BY DEF RestBad
<1>2. SignerInfoTokens(k)[i].val.algo = digest_algos[i]
  BY DEF SignerInfoTokens, SignerInfoToken, Tok
<1>3. PICK j \in DOMAIN out : out[j] = Tok("algid", digest_algos[i])
  BY <1>1 DEF Written
<1>. QED  BY <1>2, <1>3 DEF Tok

(***************************************************************************)
(* The strengthening of SignerAlgoAnnounced.  Nothing is written before    *)
(* ct_build_signed_data's first step or by any other handler; once the     *)
(* header is out, every entry of cms->digest_algos has its                 *)
(* AlgorithmIdentifier in the output.                                      *)
(***************************************************************************)
BuildHandler == content_handler = "ct_build_signed_data"
HeaderOut == {"BEGIN_DATA", "END_DATA", "NEED_SIG", "READY"}

OutBeforeHeader ==
  stop_reason \in {"NONE", "GOT_CONTENT"} \/ ~BuildHandler => out = << >>
AlgosWritten ==
  BuildHandler /\ stop_reason \in HeaderOut =>
    \A i \in 1 .. Len(digest_algos) : Written(digest_algos[i], out)

AlgoInv == TypeOK /\ OutBeforeHeader /\ AlgosWritten /\ AnnouncedIn(out, out)

LEMMA AnnouncedIsProperty == AnnouncedIn(out, out) <=> SignerAlgoAnnounced
BY DEF AnnouncedIn, SignerAlgoAnnounced, SignerInfosAt

LEMMA AlgoInit == Init => AlgoInv
BY TypeInit DEF Init, AlgoInv, OutBeforeHeader, AlgosWritten, AnnouncedIn,
               BuildHandler, HeaderOut

\* A step that starts at NONE, writes nothing and does not get past
\* GOT_CONTENT (a configuration call, or the first step of a driver).
LEMMA AlgoFromNone ==
  ASSUME AlgoInv, TypeOK', stop_reason = "NONE",
         stop_reason' \in {"NONE", "GOT_CONTENT"}, out' = out
  PROVE  AlgoInv'
BY DEF AlgoInv, OutBeforeHeader, AlgosWritten, AnnouncedIn, HeaderOut

\* A step that touches none of what the strengthening is about.
LEMMA AlgoUnchanged ==
  ASSUME AlgoInv, TypeOK',
         UNCHANGED <<out, content_handler, stop_reason, digest_algos>>
  PROVE  AlgoInv'
BY DEF AlgoInv, OutBeforeHeader, AlgosWritten, AnnouncedIn, BuildHandler,
       Written

(***************************************************************************)
(* A step of ct_build_signed_data after the header that writes tokens x   *)
(* whose SignerInfos are announced, and reaches a stop reason after the    *)
(* header only from one.                                                   *)
(***************************************************************************)
LEMMA AlgoAfterHeader ==
  ASSUME AlgoInv, TypeOK', BuildHandler,
         UNCHANGED <<content_handler, digest_algos>>,
         stop_reason \notin {"NONE", "GOT_CONTENT"},
         stop_reason' \notin {"NONE", "GOT_CONTENT"},
         stop_reason' \in HeaderOut => stop_reason \in HeaderOut,
         NEW x \in Seq(Token), out' = out \o x, AnnouncedIn(x, out)
  PROVE  AlgoInv'
<1>1. OutBeforeHeader'  BY DEF OutBeforeHeader, BuildHandler
<1>2. AlgosWritten'
  <2> SUFFICES ASSUME stop_reason' \in HeaderOut,
                      NEW i \in 1 .. Len(digest_algos)
               PROVE  Written(digest_algos[i], out \o x)
    BY DEF AlgosWritten, BuildHandler
  <2>1. Written(digest_algos[i], out)  BY DEF AlgoInv, AlgosWritten
  <2>. QED  BY <2>1, WrittenGrow DEF AlgoInv, TypeOK
<1>3. AnnouncedIn(out', out')
  BY AnnouncedAppend DEF AlgoInv, TypeOK
<1>. QED  BY <1>1, <1>2, <1>3 DEF AlgoInv

(***************************************************************************)
(* Every step of ct_build_signed_data keeps the strengthening.             *)
(***************************************************************************)
LEMMA AlgoBuildStep ==
  ASSUME AlgoInv, TypeOK', BuildHandler, stop_reason # "NONE",
         ct_build_signed_data
  PROVE  AlgoInv'
<1>a. TypeOK  BY DEF AlgoInv
<1> USE <1>a
<1>0. UNCHANGED <<content_handler, digest_algos>>
  BY DEF ct_build_signed_data
<1>1. CASE stop_reason = "GOT_CONTENT"
  <2> DEFINE H == HeaderTokens(detached_signature')
  <2>1. detached_signature' \in BOOLEAN /\ out = << >>
        /\ Emit(H, IF detached_signature' THEN "END_DATA" ELSE "BEGIN_DATA")
    BY <1>1 DEF ct_build_signed_data, AlgoInv, OutBeforeHeader
  <2>2. H \in Seq(Token) /\ NoSignerInfo(H)
        /\ \A i \in 1 .. Len(digest_algos) : Written(digest_algos[i], H)
    BY <2>1, HeaderShape, HeaderType
  <2>3. CASE out' = out \o H /\ stop_reason' \in {"BEGIN_DATA", "END_DATA"}
    <3>1. out' = H  BY <2>1, <2>2, <2>3, ConcatEmptySeq
    <3>2. AnnouncedIn(out', out')  BY <2>2, <3>1, NoSignerInfoAnnounced
    <3>. QED  BY <1>0, <2>2, <2>3, <3>1, <3>2
              DEF AlgoInv, OutBeforeHeader, AlgosWritten, BuildHandler
  <2>4. CASE /\ \E k \in 0 .. Len(H) - 1 : out' = out \o SubSeq(H, 1, k)
             /\ stop_reason' = "RUNNING"
    <3>1. PICK k \in 0 .. Len(H) - 1 : out' = out \o SubSeq(H, 1, k)
      BY <2>4
    <3>2. SubSeq(H, 1, k) \in Seq(Token) /\ NoSignerInfo(SubSeq(H, 1, k))
      BY <2>2, SubSeqProperties, ElementOfSeq, NoSignerInfoPrefix
    <3>3. out' = SubSeq(H, 1, k)  BY <2>1, <3>1, <3>2, ConcatEmptySeq
    <3>4. AnnouncedIn(out', out')  BY <3>2, <3>3, NoSignerInfoAnnounced
    <3>. QED  BY <1>0, <2>4, <3>4
              DEF AlgoInv, OutBeforeHeader, AlgosWritten, BuildHandler,
                  HeaderOut
  <2>. QED  BY <2>1, <2>3, <2>4 DEF Emit, Fail
<1>2. CASE stop_reason \in {"BEGIN_DATA", "END_DATA"}
  <2>1. build_signed_data_attributes
    BY <1>2 DEF ct_build_signed_data
  <2>2. stop_reason' \in {"NEED_SIG", "RUNNING"}
    BY <2>1 DEF build_signed_data_attributes, Fail
  <2>3. CASE out' = out
    <3>1. out' = out \o << >>  BY <2>3, ConcatEmptySeq
    <3>2. << >> \in Seq(Token) /\ AnnouncedIn(<< >>, out)
      BY EmptySeq DEF AnnouncedIn
    <3>3. stop_reason \notin {"NONE", "GOT_CONTENT"}
          /\ stop_reason' \notin {"NONE", "GOT_CONTENT"}
          /\ (stop_reason' \in HeaderOut => stop_reason \in HeaderOut)
      BY <1>2, <2>2 DEF HeaderOut
    <3>. QED  BY <1>0, <3>1, <3>2, <3>3, AlgoAfterHeader
  <2>4. CASE out' = Append(out, EOC)
    <3>1. out' = out \o << EOC >>  BY <2>4, EOCShape, AppendIsConcat
    <3>2. << EOC >> \in Seq(Token) /\ AnnouncedIn(<< EOC >>, out)
      BY EOCShape, NoSignerInfoAnnounced
    <3>3. stop_reason \notin {"NONE", "GOT_CONTENT"}
          /\ stop_reason' \notin {"NONE", "GOT_CONTENT"}
          /\ (stop_reason' \in HeaderOut => stop_reason \in HeaderOut)
      BY <1>2, <2>2 DEF HeaderOut
    <3>. QED  BY <1>0, <3>1, <3>2, <3>3, AlgoAfterHeader
  <2>. QED  BY <2>1, <2>3, <2>4 DEF build_signed_data_attributes
<1>3. CASE stop_reason = "NEED_SIG"
  <2>1. build_signed_data_rest  BY <1>3 DEF ct_build_signed_data
  <2>2. \A i \in 1 .. Len(digest_algos) : Written(digest_algos[i], out)
    BY <1>3 DEF AlgoInv, AlgosWritten, HeaderOut
  <2>3. RestStop \in 1 .. Len(cert_list) + 1
        /\ \A j \in 1 .. RestStop - 1 : ~RestBad(j)
    BY RestStopRange DEF TypeOK
  \* What the loop writes, in full or cut short by a failed write.
  <2>4. ASSUME NEW w \in Seq(Token), AnnouncedIn(w, out),
               \/ out' = out \o w
               \/ \E k \in 0 .. Len(w) - 1 : out' = out \o SubSeq(w, 1, k),
               stop_reason' \in {"READY", "RUNNING"}
        PROVE  AlgoInv'
    <3>0. stop_reason \notin {"NONE", "GOT_CONTENT"}
          /\ stop_reason' \notin {"NONE", "GOT_CONTENT"}
          /\ (stop_reason' \in HeaderOut => stop_reason \in HeaderOut)
      BY <1>3, <2>4 DEF HeaderOut
    <3>1. CASE out' = out \o w
      BY <1>0, <2>4, <3>0, <3>1, AlgoAfterHeader
    <3>2. CASE \E k \in 0 .. Len(w) - 1 : out' = out \o SubSeq(w, 1, k)
      <4>1. PICK k \in 0 .. Len(w) - 1 : out' = out \o SubSeq(w, 1, k)
        BY <3>2
      <4>2. k \in 0 .. Len(w)  BY LenProperties
      <4>3. SubSeq(w, 1, k) \in Seq(Token)
        BY <4>2, SubSeqProperties, ElementOfSeq
      <4>4. AnnouncedIn(SubSeq(w, 1, k), out)
        BY <2>4, <4>2, AnnouncedPrefix
      <4>. QED  BY <1>0, <3>0, <4>1, <4>3, <4>4, AlgoAfterHeader
    <3>. QED  BY <2>4, <3>1, <3>2
  <2>5. CASE cert_list # << >> /\ RestStop > Len(cert_list)
    <3> DEFINE w == SignerInfoTokens(Len(cert_list)) \o << EOC, EOC >>
    <3>1. SignerInfoTokens(Len(cert_list)) \in Seq(Token)
          /\ AnnouncedIn(SignerInfoTokens(Len(cert_list)), out)
      BY <2>2, <2>3, <2>5, SignerInfosType, SignerInfosAnnounced
    <3>2. w \in Seq(Token) /\ AnnouncedIn(w, out)
      BY <3>1, EOCShape, NoSignerInfoAnnounced, AnnouncedConcat,
         ConcatProperties
    <3>3. Emit(w, "READY")  BY <2>1, <2>3, <2>5 DEF build_signed_data_rest
    <3>. QED  BY <2>4, <3>2, <3>3 DEF Emit, Fail
  <2>6. CASE cert_list = << >> \/ RestStop <= Len(cert_list)
    <3> DEFINE w == IF cert_list = << >> THEN << >>
                    ELSE SignerInfoTokens(RestStop - 1)
    <3>1. w \in Seq(Token) /\ AnnouncedIn(w, out)
      <4>1. CASE cert_list = << >>
        BY <4>1, EmptySeq DEF AnnouncedIn
      <4>2. CASE cert_list # << >>
        <5>1. RestStop - 1 \in 0 .. Len(cert_list)  BY <2>3
        <5>. QED  BY <2>2, <2>3, <4>2, <5>1, SignerInfosType,
                     SignerInfosAnnounced
      <4>. QED  BY <4>1, <4>2
    <3>a. ~(cert_list # << >> /\ RestStop > Len(cert_list))
      BY <2>3, <2>6
    <3>b. \/ out' = out \o w /\ stop_reason' = "RUNNING"
          \/ /\ \E k \in 0 .. Len(w) - 1 : out' = out \o SubSeq(w, 1, k)
             /\ stop_reason' = "RUNNING"
      BY <2>1, <3>a, Zenon DEF build_signed_data_rest, Fail
    <3>2. \/ out' = out \o w
          \/ \E k \in 0 .. Len(w) - 1 : out' = out \o SubSeq(w, 1, k)
      BY <3>b
    <3>3. stop_reason' = "RUNNING"
      BY <3>b
    <3>. QED  BY <2>4, <3>1, <3>2, <3>3
  <2>. QED  BY <2>3, <2>5, <2>6
<1>4. CASE stop_reason \notin {"GOT_CONTENT", "BEGIN_DATA", "END_DATA",
                               "NEED_SIG"}
  <2>1. out' = out /\ stop_reason' = "RUNNING"
    BY <1>4 DEF ct_build_signed_data, Fail
  <2>2. out' = out \o << >>  BY <2>1, ConcatEmptySeq
  <2>3. << >> \in Seq(Token) /\ AnnouncedIn(<< >>, out)
    BY EmptySeq DEF AnnouncedIn
  <2>4. stop_reason \notin {"NONE", "GOT_CONTENT"}
        /\ stop_reason' \notin {"NONE", "GOT_CONTENT"}
        /\ (stop_reason' \in HeaderOut => stop_reason \in HeaderOut)
    BY <1>4, <2>1 DEF HeaderOut
  <2>. QED  BY <1>0, <2>2, <2>3, <2>4, AlgoAfterHeader
<1>. QED  BY <1>1, <1>2, <1>3, <1>4

(***************************************************************************)
(* For a caller that configures before it builds, every call keeps the     *)
(* strengthening: the configuration calls that change the handler or the   *)
(* algorithm list happen only at NONE, before anything is written.         *)
(***************************************************************************)
LEMMA AlgoStep ==
  ASSUME Disciplined
  PROVE  AlgoInv /\ [Next]_vars => AlgoInv'
<1> SUFFICES ASSUME AlgoInv, [Next]_vars PROVE AlgoInv'
  OBVIOUS
<1>0. TypeOK'  BY TypeStep DEF AlgoInv
<1>c. Configurable => stop_reason = "NONE"  BY DEF Configurable
<1>1. CASE \/ \E r, w \in BOOLEAN : ksba_cms_set_reader_writer(r, w)
           \/ \E f \in BOOLEAN : ksba_cms_set_hash_function(f)
           \/ \E c \in Certs : ksba_cms_add_signer(c)
           \/ \E idx \in 0 .. MaxSigners - 1, d \in Digests :
                ksba_cms_set_message_digest(idx, d)
           \/ \E idx \in 0 .. MaxSigners - 1 : ksba_cms_get_cert(idx)
           \/ \E idx \in {0, 1} : ksba_cms_hash_signed_attrs(idx)
  <2>1. UNCHANGED <<out, content_handler, stop_reason, digest_algos>>
    BY <1>1 DEF ksba_cms_set_reader_writer, ksba_cms_set_hash_function,
                ksba_cms_add_signer, ksba_cms_set_message_digest,
                ksba_cms_get_cert, ksba_cms_hash_signed_attrs, cfgVars,
                engineVars
  <2>. QED  BY <1>0, <2>1, AlgoUnchanged
<1>2. CASE \/ \E what \in {0, 1}, t \in CTs :
                ksba_cms_set_content_type(what, t)
           \/ \E a \in Algos : ksba_cms_add_digest_algo(a)
           \/ ksba_cms_parse_start
           \/ ksba_cms_build_start
  <2>1. /\ stop_reason = "NONE"
        /\ stop_reason' \in {"NONE", "GOT_CONTENT"}
        /\ out' = out
    BY <1>2, <1>c DEF ksba_cms_set_content_type, ksba_cms_add_digest_algo,
                      ksba_cms_parse_start, ksba_cms_build_start,
                      engineVars
  <2>. QED  BY <1>0, <2>1, AlgoFromNone
<1>3. ASSUME NEW api, ksba_cms_step(api) PROVE AlgoInv'
  <2>0. stop_reason # "NONE"  BY <1>3 DEF ksba_cms_step
  <2>1. CASE content_handler = "ct_build_signed_data"
    BY <1>0, <1>3, <2>0, <2>1, AlgoBuildStep DEF ksba_cms_step, BuildHandler
  <2>2. CASE content_handler = "ct_parse_signed_data"
    <3>1. ct_parse_signed_data  BY <1>3, <2>2 DEF ksba_cms_step
    <3>2. out' = out /\ out = << >> /\ content_handler' = content_handler
      BY <2>2, <3>1 DEF ct_parse_signed_data, AlgoInv, OutBeforeHeader,
                       BuildHandler
    <3>. QED  BY <1>0, <2>2, <3>2
              DEF AlgoInv, OutBeforeHeader, AlgosWritten, BuildHandler,
                  AnnouncedIn
  <2>3. CASE content_handler \notin {"ct_parse_signed_data",
                                     "ct_build_signed_data"}
    <3>1. UNCHANGED <<out, content_handler, stop_reason, digest_algos>>
      BY <1>3, <2>3 DEF ksba_cms_step, NotImplemented, cfgVars
    <3>. QED  BY <1>0, <3>1, AlgoUnchanged
  <2>. QED  BY <2>1, <2>2, <2>3
<1>4. CASE UNCHANGED vars
  BY <1>0, <1>4, AlgoUnchanged DEF vars
<1>. QED  BY <1>1, <1>2, <1>3, <1>4 DEF Next

(***************************************************************************)
(* For a caller that configures the container before ksba_cms_build       *)
(* starts (spec section 4.3), every SignerInfo that build_signed_data_rest *)
(* writes names a digest algorithm that build_signed_data_header announced *)
(* in the SignedData digestAlgorithms SET: the header writes one           *)
(* AlgorithmIdentifier per entry of cms->digest_algos, the SignerInfos use *)
(* entries of the same list, and the list cannot change once the header   *)
(* is out.  Whatever the caller does with signers, digests and hashing,   *)
(* and wherever a write fails.                                             *)
(***************************************************************************)
THEOREM AlgorithmsAnnounced ==
  ASSUME Disciplined
  PROVE  Spec => []SignerAlgoAnnounced
<1>1. AlgoInv => SignerAlgoAnnounced  BY AnnouncedIsProperty DEF AlgoInv
<1>2. AlgoInv /\ [Next]_vars => AlgoInv'  BY AlgoStep
<1>. QED  BY <1>1, <1>2, AlgoInit, PTL DEF Spec

(***************************************************************************)
(* The strengthening of HashedAttrsEmbedded.  signer_info is empty until   *)
(* build_signed_data_attributes (or part 2 of the parse) fills it, so      *)
(* hash_signed_attrs hashes nothing before; what it hashes afterwards is   *)
(* signer_info, which at NEED_SIG holds the signedAttrs cached for the     *)
(* last signer of the list.  No SignerInfo is written before the step     *)
(* that reaches READY, and that step writes the last signer's SignerInfo  *)
(* just before the two end-of-contents.                                    *)
(***************************************************************************)
SignerInfoUnset ==
  stop_reason \notin {"NEED_SIG", "READY", "RUNNING"} => signer_info = NoDigest
HashedIsSignerInfo ==
  stop_reason # "RUNNING" => \A h \in hashed : h = signer_info /\ h # NoDigest
SignedAttrsOfLast ==
  stop_reason = "NEED_SIG" =>
    cert_list # << >> /\ signer_info = cert_list[Len(cert_list)].attr
NoSignerInfoBeforeReady ==
  stop_reason \notin {"READY", "RUNNING"} => NoSignerInfo(out)
LastSignerInfoWritten ==
  stop_reason = "READY" /\ ~NoSignerInfo(out) =>
    /\ Len(out) - 2 \in DOMAIN out
    /\ out[Len(out) - 2].kind = "signerinfo"
    /\ out[Len(out) - 2].val.attr = signer_info
    /\ \A j \in DOMAIN out : out[j].kind = "signerinfo" => j <= Len(out) - 2

HashInv == /\ TypeOK /\ SignerInfoUnset /\ HashedIsSignerInfo
           /\ SignedAttrsOfLast /\ NoSignerInfoBeforeReady
           /\ LastSignerInfoWritten

LEMMA HashInit == Init => HashInv
BY TypeInit DEF Init, HashInv, SignerInfoUnset, HashedIsSignerInfo,
               SignedAttrsOfLast, NoSignerInfoBeforeReady,
               LastSignerInfoWritten, NoSignerInfo

\* The last SignerInfo written is the one LastSignerInfoWritten names.
LEMMA HashInvProperty == HashInv => HashedAttrsEmbedded
<1> SUFFICES ASSUME HashInv, stop_reason = "READY", SignerInfosAt # {}
             PROVE  \A h \in hashed : h = out[LastSignerInfo].val.attr
  BY DEF HashedAttrsEmbedded
<1> DEFINE p == Len(out) - 2
<1>1. ~NoSignerInfo(out)  BY DEF SignerInfosAt, NoSignerInfo
<1>2. /\ p \in SignerInfosAt
      /\ out[p].val.attr = signer_info
      /\ \A j \in SignerInfosAt : j <= p
  BY <1>1 DEF HashInv, LastSignerInfoWritten, SignerInfosAt
<1>3. LastSignerInfo \in SignerInfosAt
      /\ \A j \in SignerInfosAt : j <= LastSignerInfo
  BY <1>2 DEF LastSignerInfo
<1>4. LastSignerInfo = p
  <2>1. SignerInfosAt \subseteq Nat  BY DEF SignerInfosAt, HashInv, TypeOK
  <2>. QED  BY <1>2, <1>3, <2>1
<1>. QED  BY <1>2, <1>4 DEF HashInv, HashedIsSignerInfo

\* Every step that fails parks the container at RUNNING.
LEMMA HashRunning ==
  ASSUME TypeOK', stop_reason' = "RUNNING", HashInv
  PROVE  HashInv'
BY DEF HashInv, SignerInfoUnset, HashedIsSignerInfo, SignedAttrsOfLast,
       NoSignerInfoBeforeReady, LastSignerInfoWritten

(***************************************************************************)
(* A step that leaves the stop reason, signer_info, the output and the    *)
(* hashes alone, and keeps the last signer of a non-empty list and its    *)
(* cached signedAttrs (a configuration call, or one that prepends a       *)
(* signer or edits a digest or a certificate).                             *)
(***************************************************************************)
LEMMA HashUnchanged ==
  ASSUME HashInv, TypeOK',
         UNCHANGED <<stop_reason, signer_info, out, hashed>>,
         cert_list # << >> =>
           /\ cert_list' # << >>
           /\ cert_list'[Len(cert_list')].attr
                = cert_list[Len(cert_list)].attr
  PROVE  HashInv'
BY DEF HashInv, SignerInfoUnset, HashedIsSignerInfo, SignedAttrsOfLast,
       NoSignerInfoBeforeReady, LastSignerInfoWritten

(***************************************************************************)
(* A step before NEED_SIG that writes no SignerInfo and hashes nothing,    *)
(* and leaves signer_info empty unless it reaches READY or fails (the     *)
(* driver's first step, the parse, and the build header).                  *)
(***************************************************************************)
LEMMA HashQuiet ==
  ASSUME HashInv, TypeOK', UNCHANGED hashed,
         stop_reason \notin {"NEED_SIG", "READY", "RUNNING"},
         stop_reason' # "NEED_SIG",
         stop_reason' \notin {"READY", "RUNNING"} => signer_info' = NoDigest,
         NEW x \in Seq(Token), NoSignerInfo(x), out' = out \o x
  PROVE  HashInv'
<1>1. hashed = {}
  BY DEF HashInv, SignerInfoUnset, HashedIsSignerInfo
<1>2. NoSignerInfo(out')
  BY NoSignerInfoConcat DEF HashInv, NoSignerInfoBeforeReady, TypeOK
<1>. QED  BY <1>1, <1>2
          DEF HashInv, SignerInfoUnset, HashedIsSignerInfo,
              SignedAttrsOfLast, NoSignerInfoBeforeReady,
              LastSignerInfoWritten

(***************************************************************************)
(* build_signed_data_attributes reaching NEED_SIG: every signer passed,    *)
(* so signer_info is the partial SignerInfos of the last signer, whose     *)
(* messageDigest attribute has just been cached in attr.                   *)
(***************************************************************************)
LEMMA HashNeedSig ==
  ASSUME HashInv, TypeOK', stop_reason \in {"BEGIN_DATA", "END_DATA"},
         build_signed_data_attributes, UNCHANGED hashed,
         stop_reason' = "NEED_SIG"
  PROVE  HashInv'
<1>a. TypeOK  BY DEF HashInv
<1> DEFINE L == Len(cert_list)
<1>1. /\ cert_list # << >>
      /\ out' = Append(out, EOC)
      /\ cert_list' = AttrsBuilt(AttrStop)
      /\ signer_info' = IF AttrStop > 1 THEN cert_list[AttrStop - 1].md
                                        ELSE signer_info
      /\ AttrStop > L
  BY DEF build_signed_data_attributes, Fail
<1>2. AttrStop = L + 1 /\ L >= 1 /\ L \in Nat
  BY <1>a, <1>1, AttrStopRange DEF TypeOK
<1>3. signer_info' = cert_list[L].md  BY <1>1, <1>2
<1>4. cert_list' # << >> /\ cert_list'[Len(cert_list')].attr = cert_list[L].md
  <2>1. cert_list[L] \in SignerRec  BY <1>a, <1>2, ElementOfSeq DEF TypeOK
  <2>2. Len(cert_list') = L /\ cert_list' \in Seq(SignerRec)
    BY <1>a, <1>1, AttrsBuiltType
  <2>3. cert_list'[L] = [cert_list[L] EXCEPT !.attr = cert_list[L].md]
    BY <1>1, <1>2 DEF AttrsBuilt
  <2>4. cert_list'[L].attr = cert_list[L].md  BY <2>1, <2>3 DEF SignerRec
  <2>. QED  BY <1>2, <2>2, <2>4
<1>5. hashed = {}  BY DEF HashInv, SignerInfoUnset, HashedIsSignerInfo
<1>6. NoSignerInfo(out')
  <2>1. out' = out \o << EOC >>  BY <1>a, <1>1, EOCShape, AppendIsConcat
                                  DEF TypeOK
  <2>. QED  BY <1>a, <2>1, EOCShape, NoSignerInfoConcat
            DEF HashInv, NoSignerInfoBeforeReady, TypeOK
<1>. QED  BY <1>3, <1>4, <1>5, <1>6
          DEF HashInv, SignerInfoUnset, HashedIsSignerInfo,
              SignedAttrsOfLast, NoSignerInfoBeforeReady,
              LastSignerInfoWritten

(***************************************************************************)
(* build_signed_data_rest reaching READY: it writes the SignerInfos of     *)
(* all signers, the last one's with the signedAttrs in signer_info, then   *)
(* two end-of-contents.                                                    *)
(***************************************************************************)
LEMMA HashReady ==
  ASSUME HashInv, TypeOK', stop_reason = "NEED_SIG",
         cert_list # << >>, RestStop > Len(cert_list),
         out' = out \o (SignerInfoTokens(Len(cert_list)) \o << EOC, EOC >>),
         stop_reason' = "READY",
         UNCHANGED <<signer_info, hashed, cert_list>>
  PROVE  HashInv'
<1>a. TypeOK  BY DEF HashInv
<1> DEFINE L == Len(cert_list)
           Y == SignerInfoTokens(L)
           X == Y \o << EOC, EOC >>
           p == Len(out) + L
<1>0. L \in Nat /\ L >= 1 /\ \A j \in 1 .. L : ~RestBad(j)
  BY <1>a, RestStopRange DEF TypeOK
<1>1. Y \in Seq(Token) /\ Len(Y) = L
  <2>1. Y \in Seq(Token)  BY <1>a, <1>0, SignerInfosType
  <2>2. DOMAIN Y = 1 .. L  BY DEF SignerInfoTokens
  <2>. QED  BY <2>1, <2>2, LenProperties
<1>2. /\ X \in Seq(Token) /\ Len(X) = L + 2
      /\ X[L] = Y[L] /\ X[L + 1] = EOC /\ X[L + 2] = EOC
  BY <1>0, <1>1, EOCShape, ConcatProperties
<1>3. /\ Len(out') = p + 2
      /\ \A i \in 1 .. p + 2 :
           out'[i] = IF i <= Len(out) THEN out[i] ELSE X[i - Len(out)]
  <2>1. out \in Seq(Token)  BY <1>a DEF TypeOK
  <2>2. out' = out \o X  OBVIOUS
  <2>3. /\ Len(out \o X) = Len(out) + Len(X)
        /\ \A i \in 1 .. Len(out) + Len(X) : (out \o X)[i] =
             IF i <= Len(out) THEN out[i] ELSE X[i - Len(out)]
    BY <1>2, <2>1, ConcatProperties
  <2>. QED  BY <1>2, <2>2, <2>3
<1>4. p \in DOMAIN out' /\ out'[p] = SignerInfoToken(L)
  <2>1. Len(out) \in Nat  BY <1>a, LenProperties DEF TypeOK
  <2>2. out'[p] = X[L]  BY <1>0, <1>3, <2>1
  <2>3. p \in 1 .. p + 2  BY <1>0, <2>1
  <2>4. DOMAIN out' = 1 .. p + 2
    BY <1>a, <1>2, <1>3, ConcatProperties DEF TypeOK
  <2>. QED  BY <1>0, <1>2, <2>2, <2>3, <2>4 DEF SignerInfoTokens
<1>5. out'[p].kind = "signerinfo" /\ out'[p].val.attr = signer_info
  <2>1. signer_info = cert_list[L].attr
    BY DEF HashInv, SignedAttrsOfLast
  <2>. QED  BY <1>4, <2>1 DEF SignerInfoToken, Tok
<1>6. \A j \in DOMAIN out' : out'[j].kind = "signerinfo" => j <= p
  <2> SUFFICES ASSUME NEW j \in DOMAIN out', ~(j <= p)
               PROVE  out'[j].kind # "signerinfo"
    OBVIOUS
  <2>1. Len(out) \in Nat  BY <1>a, LenProperties DEF TypeOK
  <2>2. DOMAIN out' = 1 .. p + 2
    BY <1>a, <1>2, <1>3, ConcatProperties DEF TypeOK
  <2>3. j \in {p + 1, p + 2}  BY <1>0, <2>1, <2>2
  <2>4. ~(j <= Len(out)) /\ j \in 1 .. p + 2  BY <1>0, <2>1, <2>3
  <2>5. out'[j] = X[j - Len(out)]  BY <1>3, <2>4
  <2>6. j - Len(out) \in {L + 1, L + 2}  BY <1>0, <2>1, <2>3
  <2>7. out'[j] = EOC  BY <1>2, <2>5, <2>6
  <2>. QED  BY <2>7 DEF EOC, Tok
<1>7. HashedIsSignerInfo'  BY DEF HashInv, HashedIsSignerInfo
<1>8. Len(out') - 2 = p  BY <1>0, <1>3, <1>a, LenProperties DEF TypeOK
<1>. QED  BY <1>4, <1>5, <1>6, <1>7, <1>8
          DEF HashInv, SignerInfoUnset, SignedAttrsOfLast,
              NoSignerInfoBeforeReady, LastSignerInfoWritten

(***************************************************************************)
(* Every step of ct_build_signed_data keeps the strengthening.             *)
(***************************************************************************)
LEMMA HashBuildStep ==
  ASSUME HashInv, TypeOK', stop_reason # "NONE", ct_build_signed_data
  PROVE  HashInv'
<1>a. TypeOK  BY DEF HashInv
<1>h. UNCHANGED hashed  BY DEF ct_build_signed_data
<1>r. stop_reason' = "RUNNING" => HashInv'  BY HashRunning
<1>1. CASE stop_reason = "GOT_CONTENT"
  <2> DEFINE H == HeaderTokens(detached_signature')
  <2>1. /\ detached_signature' \in BOOLEAN
        /\ Emit(H, IF detached_signature' THEN "END_DATA" ELSE "BEGIN_DATA")
        /\ UNCHANGED signer_info
    BY <1>1 DEF ct_build_signed_data
  <2>2. H \in Seq(Token) /\ NoSignerInfo(H)
    BY <1>a, <2>1, HeaderShape, HeaderType
  <2>3. signer_info' = NoDigest
    BY <1>1, <2>1 DEF HashInv, SignerInfoUnset
  <2>4. CASE out' = out \o H /\ stop_reason' \in {"BEGIN_DATA", "END_DATA"}
    <3>1. stop_reason \notin {"NEED_SIG", "READY", "RUNNING"}
          /\ stop_reason' # "NEED_SIG"
      BY <1>1, <2>4
    <3>. QED  BY <1>h, <2>2, <2>3, <2>4, <3>1, HashQuiet
  <2>. QED  BY <1>r, <2>1, <2>4 DEF Emit, Fail
<1>2. CASE stop_reason \in {"BEGIN_DATA", "END_DATA"}
  <2>1. build_signed_data_attributes  BY <1>2 DEF ct_build_signed_data
  <2>2. stop_reason' \in {"NEED_SIG", "RUNNING"}
    BY <2>1 DEF build_signed_data_attributes, Fail
  <2>. QED  BY <1>r, <1>h, <1>2, <2>1, <2>2, HashNeedSig
<1>3. CASE stop_reason = "NEED_SIG"
  <2>1. build_signed_data_rest /\ UNCHANGED <<signer_info, cert_list>>
    BY <1>3 DEF ct_build_signed_data
  <2>2. stop_reason' = "READY" =>
          /\ cert_list # << >> /\ RestStop > Len(cert_list)
          /\ out' = out \o (SignerInfoTokens(Len(cert_list))
                              \o << EOC, EOC >>)
    BY <2>1, Zenon DEF build_signed_data_rest, Emit, Fail
  <2>3. stop_reason' \in {"READY", "RUNNING"}
    BY <2>1 DEF build_signed_data_rest, Emit, Fail
  <2>. QED  BY <1>r, <1>h, <1>3, <2>1, <2>2, <2>3, HashReady
<1>4. CASE stop_reason \notin {"GOT_CONTENT", "BEGIN_DATA", "END_DATA",
                               "NEED_SIG"}
  BY <1>r, <1>4 DEF ct_build_signed_data, Fail
<1>. QED  BY <1>1, <1>2, <1>3, <1>4

(***************************************************************************)
(* Every step of ct_parse_signed_data keeps the strengthening: it writes   *)
(* nothing, and fills signer_info only on its way to READY.               *)
(***************************************************************************)
LEMMA HashParseStep ==
  ASSUME HashInv, TypeOK', ct_parse_signed_data
  PROVE  HashInv'
<1>a. TypeOK  BY DEF HashInv
<1>1. UNCHANGED <<out, hashed>>  BY DEF ct_parse_signed_data
<1>2. CASE stop_reason \in {"GOT_CONTENT", "NEED_HASH", "BEGIN_DATA",
                            "END_DATA"}
  <2>1. /\ stop_reason' # "NEED_SIG"
        /\ stop_reason' \notin {"READY", "RUNNING"} => signer_info' = NoDigest
    BY <1>2 DEF ct_parse_signed_data, Fail, HashInv, SignerInfoUnset
  <2>2. out' = out \o << >> /\ << >> \in Seq(Token) /\ NoSignerInfo(<< >>)
    BY <1>a, <1>1, ConcatEmptySeq, EmptySeq DEF TypeOK, NoSignerInfo
  <2>. QED  BY <1>1, <1>2, <2>1, <2>2, HashQuiet
<1>3. CASE stop_reason \notin {"GOT_CONTENT", "NEED_HASH", "BEGIN_DATA",
                               "END_DATA"}
  BY <1>3, HashRunning DEF ct_parse_signed_data, Fail
<1>. QED  BY <1>2, <1>3

LEMMA HashStep == HashInv /\ [Next]_vars => HashInv'
<1> SUFFICES ASSUME HashInv, [Next]_vars PROVE HashInv'
  OBVIOUS
<1>a. TypeOK  BY DEF HashInv
<1>0. TypeOK'  BY <1>a, TypeStep
<1>1. CASE \/ \E r, w \in BOOLEAN : ksba_cms_set_reader_writer(r, w)
           \/ \E f \in BOOLEAN : ksba_cms_set_hash_function(f)
           \/ \E what \in {0, 1}, t \in CTs :
                ksba_cms_set_content_type(what, t)
           \/ \E a \in Algos : ksba_cms_add_digest_algo(a)
  <2>1. UNCHANGED <<stop_reason, signer_info, out, hashed, cert_list>>
    BY <1>1 DEF ksba_cms_set_reader_writer, ksba_cms_set_hash_function,
                ksba_cms_set_content_type, ksba_cms_add_digest_algo,
                cfgVars, engineVars
  <2>. QED  BY <1>0, <2>1, HashUnchanged
\* A new signer goes in at the head: the last one stays the last.
<1>2. ASSUME NEW c \in Certs, ksba_cms_add_signer(c) PROVE HashInv'
  <2> DEFINE n == << [cert |-> c, md |-> NoDigest, attr |-> NoDigest] >>
  <2>1. cert_list' = n \o cert_list
        /\ UNCHANGED <<stop_reason, signer_info, out, hashed>>
    BY <1>2 DEF ksba_cms_add_signer, engineVars
  <2>2. ASSUME cert_list # << >>
        PROVE  /\ cert_list' # << >>
               /\ cert_list'[Len(cert_list')].attr
                    = cert_list[Len(cert_list)].attr
    <3>1. n \in Seq(SignerRec) /\ Len(n) = 1  BY DEF SignerRec
    <3>2. cert_list \in Seq(SignerRec) /\ Len(cert_list) >= 1
      BY <1>a, <2>2, EmptySeq, LenProperties DEF TypeOK
    <3>3. Len(cert_list') = 1 + Len(cert_list)
          /\ cert_list'[1 + Len(cert_list)] = cert_list[Len(cert_list)]
      BY <2>1, <3>1, <3>2, ConcatProperties
    <3>. QED  BY <3>2, <3>3, LenProperties
  <2>. QED  BY <1>0, <2>1, <2>2, HashUnchanged
\* A digest or a certificate changed in place: the cached attributes stay.
<1>3. CASE \/ \E idx \in 0 .. MaxSigners - 1, d \in Digests :
                ksba_cms_set_message_digest(idx, d)
           \/ \E idx \in 0 .. MaxSigners - 1 : ksba_cms_get_cert(idx)
  <2>1. UNCHANGED <<stop_reason, signer_info, out, hashed>>
    BY <1>3 DEF ksba_cms_set_message_digest, ksba_cms_get_cert, engineVars
  <2>2. /\ Len(cert_list') = Len(cert_list)
        /\ \A i \in 1 .. Len(cert_list) : cert_list'[i].attr = cert_list[i].attr
    <3>1. ASSUME NEW idx \in 0 .. MaxSigners - 1, idx < Len(cert_list),
                 NEW f \in {"md", "cert"}, NEW v,
                 cert_list' = [cert_list EXCEPT ![idx + 1][f] = v]
          PROVE  /\ Len(cert_list') = Len(cert_list)
                 /\ \A i \in 1 .. Len(cert_list) :
                      cert_list'[i].attr = cert_list[i].attr
      <4>1. cert_list \in Seq(SignerRec)  BY <1>a DEF TypeOK
      <4>2. \A i \in 1 .. Len(cert_list) : cert_list[i] \in SignerRec
        BY <4>1, ElementOfSeq
      <4>. QED  BY <3>1, <4>1, <4>2, ConstAssumption DEF SignerRec
    <3>. QED  BY <1>3, <3>1 DEF ksba_cms_set_message_digest,
                               ksba_cms_get_cert
  <2>3. cert_list # << >> =>
          /\ cert_list' # << >>
          /\ cert_list'[Len(cert_list')].attr = cert_list[Len(cert_list)].attr
    BY <1>a, <2>2, EmptySeq, LenProperties DEF TypeOK
  <2>. QED  BY <1>0, <2>1, <2>3, HashUnchanged
<1>4. ASSUME NEW idx \in {0, 1}, ksba_cms_hash_signed_attrs(idx)
      PROVE  HashInv'
  <2>1. /\ UNCHANGED <<stop_reason, signer_info, out, cert_list>>
        /\ \/ hashed' = hashed
           \/ hashed' = hashed \cup {signer_info} /\ signer_info # NoDigest
    BY <1>4 DEF ksba_cms_hash_signed_attrs, cfgVars
  <2>. QED  BY <1>0, <2>1
            DEF HashInv, SignerInfoUnset, HashedIsSignerInfo,
                SignedAttrsOfLast, NoSignerInfoBeforeReady,
                LastSignerInfoWritten
<1>5. CASE ksba_cms_parse_start \/ ksba_cms_build_start
  <2>1. /\ UNCHANGED <<signer_info, out, hashed>>
        /\ stop_reason = "NONE" /\ stop_reason' \in {"NONE", "GOT_CONTENT"}
    BY <1>5 DEF ksba_cms_parse_start, ksba_cms_build_start
  <2>2. signer_info = NoDigest  BY <2>1 DEF HashInv, SignerInfoUnset
  <2>3. out' = out \o << >> /\ << >> \in Seq(Token) /\ NoSignerInfo(<< >>)
    BY <1>a, <2>1, ConcatEmptySeq, EmptySeq DEF TypeOK, NoSignerInfo
  <2>. QED  BY <1>0, <2>1, <2>2, <2>3, HashQuiet
<1>6. ASSUME NEW api, ksba_cms_step(api) PROVE HashInv'
  <2>1. CASE content_handler = "ct_build_signed_data"
    BY <1>0, <1>6, <2>1, HashBuildStep DEF ksba_cms_step
  <2>2. CASE content_handler = "ct_parse_signed_data"
    BY <1>0, <1>6, <2>2, HashParseStep DEF ksba_cms_step
  <2>3. CASE content_handler \notin {"ct_parse_signed_data",
                                     "ct_build_signed_data"}
    <3>1. UNCHANGED <<stop_reason, signer_info, out, hashed, cert_list>>
      BY <1>6, <2>3 DEF ksba_cms_step, NotImplemented, cfgVars
    <3>. QED  BY <1>0, <3>1, HashUnchanged
  <2>. QED  BY <2>1, <2>2, <2>3
<1>7. CASE UNCHANGED vars
  BY <1>0, <1>7, HashUnchanged DEF vars
<1>. QED  BY <1>1, <1>2, <1>3, <1>4, <1>5, <1>6, <1>7 DEF Next

(***************************************************************************)
(* For any caller (parsing, building or both, configuring whenever it      *)
(* likes), once a build is READY every signedAttrs value that              *)
(* ksba_cms_hash_signed_attrs fed to the hash function is the signedAttrs  *)
(* embedded in the last SignerInfo that build_signed_data_rest wrote, even *)
(* if the caller changed the signers' message digests after the           *)
(* attributes were built: hash_signed_attrs hashes signer_info, which     *)
(* build_signed_data_attributes fills once with the last signer's         *)
(* attributes, and build_signed_data_rest copies the cached attributes,   *)
(* not the current digests.                                                *)
(***************************************************************************)
THEOREM HashedAttrsAreEmbedded == Spec => []HashedAttrsEmbedded
BY HashInit, HashStep, HashInvProperty, PTL DEF Spec
=============================================================================
