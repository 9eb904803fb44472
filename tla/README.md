# Verification model of libksba's CMS container (src/src/cms.c)

This directory holds TLA+ models of the CMS (Cryptographic Message Syntax)
container of libksba. It contains the TLC configurations that model-check
them and TLAPS proofs about them. Everything here is taken from
`src/src/cms.c`. The ASN.1 machinery it calls is not under `src/` and is
modelled from `spec.md`.

## The system

A `KsbaCMS` object is created by `ksba_cms_new`. The caller then configures
it and drives it as a coroutine.

- **Configuration.** The calls are `ksba_cms_set_reader_writer`,
  `set_hash_function`, `set_content_type`, `add_digest_algo`, `add_signer`,
  `set_message_digest` and `get_cert`.
- **Driving.** The caller calls `ksba_cms_parse` or `ksba_cms_build`
  repeatedly. Each call returns a *stop reason* telling the caller what to do
  next.

The first call dispatches on the content type through the `content_handlers`
table:

- a parse reads the ContentInfo OID;
- a build uses the type set by `set_content_type`.

Every later call runs the installed handler. Only signed data has real
handlers. `ct_parse_signed_data` moves through
GOT_CONTENT → NEED_HASH | BEGIN_DATA → END_DATA → READY.
`ct_build_signed_data` moves through
GOT_CONTENT → BEGIN_DATA | END_DATA → NEED_SIG → READY, and its steps are
done by `build_signed_data_header`, `_attributes` and `_rest`.

The other handlers are stubs returning Not_Implemented.
`ksba_cms_hash_signed_attrs` feeds the signed attributes kept in
`signer_info` to the caller's hash function.

The container interacts with three things:

- the **caller**, who may make any call at any time;
- the **reader**, which delivers a message or fails;
- the **writer**, which accepts each write or fails it.

Nothing runs concurrently. The hard behaviours are all sequences of calls:

- errors in the middle of a step;
- calls made in an order the code does not expect;
- state cached in one step and used in a later one (`signer_info`, the
  `attr` cache of each signer, the digest-algorithm cache).

## Modules

| module | what it models |
|---|---|
| `CMSEngine` | One container: its state, one action per public call and per handler step, and the properties. |
| `CMSProtocol` | The abstract stop-reason protocol of spec §4: phase, direction and result only. `CMSEngine` maps onto it (`Protocol`). |
| `CMSAccessors` | The read accessors composed with `CMSEngine`, and `get_digest_algo`'s cache. |
| `MCCMSEngine`, `MCCMSAccessors` | Model values and small input sets for TLC. |
| `CMSEngine_proofs` | TLAPS lemmas and theorems about `CMSEngine`, including the refinement. |
| `CMSBuild_proofs` | TLAPS proofs about what the build writes and hashes: `HashedAttrsEmbedded` and `SignerAlgoAnnounced`, with lemmas about token sequences. |
| `CMSAccessors_proofs` | TLAPS proofs that the accessors' results are well typed and that the digest-algorithm cache is coherent. |

### State (`CMSEngine` VARIABLES ↔ `struct ksba_cms_s`)

| variable | field of `struct ksba_cms_s` | modelled as |
|---|---|---|
| `stop_reason` | `stop_reason` | one of the stop reasons |
| `content_oid` | `content.oid` | a string |
| `content_ct` | `content.ct` | a string |
| `content_handler` | `content.handler` | the handler function's name |
| `encap_cont_type` | `encap_cont_type` | a string |
| `reader`, `writer`, `hash_fnc` | the three pointers | whether each is set |
| `digest_algos` | `digest_algos` | sequence of OIDs (arcs), head first |
| `cert_list` | `cert_list` | sequence of `[cert, md, attr]`, head first |
| `signer_info` | `signer_info.root/.image` | the messageDigest it carries |
| `signer_algo` | `SignerInfos..digestAlgorithm` in it | the OID, NULL for a build's partial SignerInfos |
| `detached_signature` | `detached_signature` | Boolean |

For `cert_list`:

- `md` is `msg_digest` (NoDigest when `msg_digest_len` = 0);
- `attr` is the cached `attr.root/.image`.

`input`, `out`, `hashed`, `last_err` and `aborted` are the environment:

- `input`: the message the reader delivers;
- `out`: the tokens written, one per TLV header or DER image;
- `hashed`: what was fed to the hash function;
- `last_err`: the last return value;
- `aborted`: a failed `assert()` stopped the process.

### Actions

There is one action per public call, and each covers the call's whole body
with every error return. The data and the ASN.1 library are abstracted:

- OIDs are strings, and certificates and digests are model values;
- a built attribute set is the messageDigest it holds;
- Out_Of_Core and the ASN.1 library's own failures (Element_Not_Found ...)
  are left out;
- the reader's ASN.1 parsers are a read that returns a message from `Inputs`
  or fails;
- every writer call may fail, leaving a prefix of the tokens written (`Emit`).

`ksba_cms_step` is the "handler installed" branch of both drivers. The
handlers follow the code state by state:

- RUNNING is stored first;
- every error returns with it left there;
- the loops of the attribute and rest steps stop at the first failing signer
  (`AttrStop`, `RestStop`), write what they wrote before it, and fail with
  that signer's error or `assert()`.

Two constants restrict the caller:

- **`Uses`** says which drivers one container is used with. The code does
  not forbid both on one container; run `mixed` shows what happens then.
- **`Disciplined`** keeps configuration before the first driver call, as
  `set_content_type`'s documentation asks.

### Accessors (`CMSAccessors`)

`CMSAccessors` adds two variables to the engine:

- `digest_algo_cache` is `signer_info.cache.digest_algo`;
- `answer` is what the last accessor returned (call, index, value).

What each accessor returns is an operator of the state (`ContentTypeOf`,
`DigestAlgoOf`, ...). The accessor action records it in `answer`, and
`get_digest_algo` also fills an empty cache. `AccNext` is an engine step
(accessor state unchanged) or one accessor call. Each accessor keeps the code's early returns: no `signer_info`
(No_Data or NULL), `idx # 0` (NULL or Not_Implemented, except in
`get_issuer_serial`, which never looks at idx), then the lookup. The ASN.1
lookups are abstracted to what the SignerInfos holds. A parsed one has a
sid, a digestAlgorithm and a signature. The partial one that
`build_signed_data_attributes` stores holds only the signedAttrs
(`SignerInfoParsed` tells them apart).

### The abstract protocol (`CMSProtocol`)

`CMSProtocol` has three variables: `phase`, `mode` (none, parse, build) and
`result` (ok, err). Its actions are:

- `Start`: NONE to GOT_CONTENT, choosing the direction;
- `Advance`: one edge of the direction's graph, with success;
- `Abort`: a failure that parks the container at RUNNING;
- `Idle`: any call that leaves the phase, and (once started) the direction.

`CMSEngine` defines `Protocol == INSTANCE CMSProtocol WITH phase <-
stop_reason, mode <- ModeOf(content_handler), result <- IF last_err = "OK" THEN "ok" ELSE "err"`,
and `ProtocolRefined == Protocol!PSpec`.

## Runs (MCCMSEngine, `Certs = {c1}`, `Digests = {d1, d2}`)

| run | expect | properties | bounds |
|---|---|---|---|
| build | pass | TypeOK, HandlerAgreesWithOid, HashedAttrsEmbedded, SignerAlgoAnnounced, ProtocolRefined | 2 signers, 2 algorithms (SHA-1, SHA-256) |
| parse | pass | TypeOK, HandlerAgreesWithOid, ProtocolRefined | messages signed / data / auth-data / unknown, attached or detached |
| cache (MCCMSAccessors) | pass | AccTypeOK, CacheCoherent | parse and build on one container, undisciplined; signed data only, 1 signer, SHA-1 |
| issuer (MCCMSAccessors) | violation | IssuerSerialIndexChecked | parse |
| index | violation | SignerIndexIsAdditionOrder | 2 signers, build |
| setlen | violation | DigestSetLengthMatches | 1 signer, 2 algorithms (SHA-1, SHA-256) |
| balance | violation | BalancedOutput | 1 signer, SHA-1 |
| signer0 | violation | HashedAttrsAreSignerZero | 2 signers |
| rwonce | violation | ReaderWriterKept | parse |
| assert | violation | NoAssertionFailure | build |
| mixed | violation | HandlerAgreesWithOid | parse and build on one container |

What the properties say:

- **HandlerAgreesWithOid**: `content.handler` and `content.ct` are those of
  `content.oid`'s row of the table.
- **ProtocolRefined**: the container implements `CMSProtocol`. The first
  successful driver call moves NONE to GOT_CONTENT and fixes the direction.
  After it, a successful call moves the stop reason only along the parse
  or build graph of the installed handler, and a failed one leaves it or
  sets RUNNING.
- **AccTypeOK**: every accessor's result, for every index the model tries,
  is of its C type's range (a KsbaContentType, an OID or NULL, an error
  code).
- **CacheCoherent**: `get_digest_algo`'s cached OID is the digestAlgorithm
  of the `signer_info` in place. It is checked for the loosest caller the
  model has (both drivers, configuration at any time), because only such a
  caller could make a parse or build step follow a query.
- **HashedAttrsEmbedded**: at READY, what `hash_signed_attrs` hashed is the
  attribute set embedded in the last SignerInfo written. It holds even when
  the caller changes digests after the attributes step, because the written
  SignerInfo copies the cache.
- **SignerAlgoAnnounced**: every SignerInfo's digest algorithm was announced
  in the header's SET.

Why the bounds are enough:

- **Two signers** is the least number at which list order, the one-signer
  `signer_info` and the index of `hash_signed_attrs` matter.
- **Two algorithms** (or one SHA-256) is the least that overflows the
  hard-coded SET length.
- **Every stop reason and error path** of both handlers is reached, including
  writer failures at every prefix.

The cache run is kept small by its inputs (signed data only, one digest,
SHA-1) and by `VIEW CacheView`. The view leaves out `answer`, which no
guard reads, so states differing only in the last answer have the same
futures. Both of its invariants are functions of the viewed state:
`AccTypeOK` types what every accessor would return, not `answer`. The run still reaches every accessor, every stop reason of both
handlers and a cache filled from a parse. Its mutant (READY taken for
sDATAREADY in `ct_build_signed_data`) breaks the property there.

The passing runs check deadlock only where the process can stop. The build
run sets `CHECK_DEADLOCK FALSE` because an `assert()` really ends the
process. The parse run has no abort, so it is checked for deadlock.

**Fairness.** None is assumed. Every step is a call the caller chooses to
make, and the code has no background activity. A caller that stops calling
is legitimate, so there is no liveness property to check.

## Findings (violation runs)

1. **setlen:** the digestAlgorithms SET length is hard-coded to 11 (cms.c:906).
   The property asks for the right length only of a SET that holds at
   least one AlgorithmIdentifier (an empty list fails with Missing_Value at
   the next step anyway). TLC's trace adds SHA-256 alone and writes the
   header: SET length 11 around a 15-byte AlgorithmIdentifier. Two
   algorithms overflow it too; SHA-1 alone happens to fit.
2. **balance:** a finished build writes 3 end-of-contents for 5 (or 4)
   indefinite-length encodings opened (cms.c:1213).
3. **signer0:** with two signers, `hash_signed_attrs(0)` hashes the last
   signer's attributes, but SignerInfo 0 is the list head's (cms.c:1074).
4. **rwonce:** `set_reader_writer(NULL, w)` after `(r, NULL)` clears the
   reader (cms.c:135).
5. **assert:** a signer without a digest aborts the process via `assert`
   instead of returning Missing_Value (cms.c:1038).
6. **mixed:** build configuration followed by a failed parse leaves
   `content.oid` disagreeing with `content.ct` and `content.handler`
   (cms.c:154).
7. **issuer:** `get_issuer_serial` never looks at idx. After a parse,
   `get_issuer_serial(1)` succeeds with signer 0's issuer, where spec §4.5
   says Not_Implemented (cms.c:288).
8. **index:** `add_signer` prepends, so `set_message_digest(0, d)` reaches
   the signer added last. The function's documentation says the first
   signer added has index 0 (cms.c:681, 697).

A further divergence is recorded as a hazard, not a run. Spec §4.2 calls
RUNNING transient, but both handlers return their errors with stop_reason
left at RUNNING (cms.c:754), so one failed step kills the container. The
protocol's `Abort` step states this behaviour, and `ProtocolRefined` checks
that nothing worse happens.

In sIN_DATA `ct_parse_signed_data` does no engine work and reports END_DATA
(cms.c:790). Spec §4.2 and §4.3 leave hashing the content to the caller,
through `hash_fnc`, so this is intended and no property is stated about it;
the model has no caller action that feeds content to the hash.

## Proofs (checked by tlapm)

- **TypeCorrect** `Spec => []TypeOK`, for every value of the constants.
  - It assumes `ConstAssumption` (bounds in Nat, NoCert and NoDigest are
    fresh values, algorithm OIDs are sequences of naturals) and
    `InputsAssumption` (the reader delivers well-formed messages).
  - TypeOK is inductive by itself. There is one step per action, with lemmas
    for the table (`RowType`, `RowOfOidType`, `RowOfCTType`), the token
    sequences (`HeaderType`, `SignerInfosType`, `EmitType`), the attribute
    cache (`AttrsBuiltType`) and each handler.
  - The subtle part is the loops' stop point. `AttrStopRange` and
    `RestStopRange` show that it exists and that every signer before it
    passed the checks. This is why every SignerInfo written names a real
    certificate, an algorithm of the list and a built attribute set.
  - They rest on `LeastNat`: a non-empty finite set of naturals has a least
    element. It is derived from the library's well-foundedness of strict
    subset inclusion on finite sets.
- **HandlerAgreement**: for `Uses # {"parse", "build"}`,
  `Spec => []HandlerAgreesWithOid`.
  - The inductive invariant is `HandlerInv` = TypeOK ∧ HandlerAgreesWithOid
    ∧ `NoHandlerBeforeStart`. NoHandlerBeforeStart says that a parse-only
    container has no handler while its stop reason is NONE.
  - The strengthening is needed because a failed dispatch writes
    `content.oid` alone. That is harmless only when no handler exists yet.
  - `StepKeepsContent` shows that handler steps never touch the content
    fields and never return to NONE. `OidsUnique` shows that the table's
    OIDs are distinct.
  - TLC checked HandlerInv as an invariant of both passing runs before the
    proof was written.
  - Run `mixed` shows the hypothesis on `Uses` is needed.

- **Refinement**: for `Uses # {"parse", "build"}`,
  `Spec => ProtocolRefined`.
  - The invariant `RefInv` says that a container past NONE has a handler,
    and that a container that was never parsed has no parse handler. The
    second conjunct is what keeps the direction fixed when
    `set_content_type` is called mid-build by an undisciplined caller.
  - `StepProtocol` shows that every handler step stutters, fails to
    RUNNING with an error, or takes an edge of its direction's graph.
    `EmitOutcome` covers the writer's partial writes, and `LoopError` is
    never OK. `ModeOfRow` shows that parse and build handler names are
    disjoint.
  - The proof follows the two-step form: `Init => RefInv /\ Protocol!PInit`,
    then `RefInv /\ [Next]_vars => RefInv' /\ [Protocol!PNext]_pvars`,
    with one step per action. The last step is `PTL`.
- **CacheCoherence** (CMSAccessors_proofs): `AccSpec => []CacheCoherent`
  for every caller, with no hypothesis on `Uses` or `Disciplined`.
  - The invariant `CacheInv` adds that `signer_algo` is set only at READY
    or RUNNING.
  - `EngineAlgo` shows that no engine step leaves {READY, RUNNING}, and that
    from anywhere else `signer_algo` is kept, cleared or set by part 2 of
    the parse. The cache can be filled only after that, and nothing
    replaces `signer_info` afterwards.

- **HashedAttrsAreEmbedded** (CMSBuild_proofs):
  `Spec => []HashedAttrsEmbedded`, for every caller, with no hypothesis on
  `Uses` or `Disciplined`.
  - The inductive invariant is `HashInv`. Besides TypeOK it says:
    `signer_info` is empty before NEED_SIG (`SignerInfoUnset`); outside
    RUNNING everything hashed is `signer_info` (`HashedIsSignerInfo`); at
    NEED_SIG, `signer_info` is the cached `attr` of the last signer of the
    list (`SignedAttrsOfLast`); no SignerInfo is written before READY
    (`NoSignerInfoBeforeReady`); and at READY the SignerInfo two tokens from
    the end is the last one and carries `signer_info`
    (`LastSignerInfoWritten`).
  - The property alone is not inductive. Its antecedent is false until the
    step that reaches READY, so the invariant must say what that step
    finds: the last signer's cached attributes in `signer_info`, and
    nothing hashed but them.
  - `add_signer` prepends and `set_message_digest`/`get_cert` edit other
    fields. So the last signer and its `attr` survive every call an
    undisciplined caller makes at NEED_SIG. `HashNeedSig` and `HashReady`
    are the two steps that fill `signer_info` and write the SignerInfos.
- **AlgorithmsAnnounced** (CMSBuild_proofs): for a `Disciplined` caller,
  `Spec => []SignerAlgoAnnounced`.
  - The inductive invariant is `AlgoInv`. Nothing is written before the
    header or by any other handler (`OutBeforeHeader`). Once the header is
    out, every entry of `digest_algos` has its AlgorithmIdentifier in the
    output (`AlgosWritten`).
  - The lemmas about token sequences (`NoSignerInfoConcat`,
    `AnnouncedGrow`, `AnnouncedConcat`, `AnnouncedPrefix`,
    `AnnouncedAppend`) cover partial writes at any prefix. `HeaderShape`
    and `SignerInfosAnnounced` tie the header and the SignerInfos to
    `digest_algos`.
  - The hypothesis is needed. With `Disciplined = FALSE`, TLC finds an
    `add_digest_algo` call after the header. The next SignerInfo then names
    an algorithm the SET does not hold.
- **AccTypeCorrect** (CMSAccessors_proofs): `AccSpec => []AccTypeOK`.
  - The inductive invariant is `AccTypeInv`: TypeOK plus the cache's type.
  - `AccResultsType` shows that every accessor's result is well typed in
    such a state, for every index tried, negative and past-the-end
    included.

TLC checked every strengthening before it was proved:

- `AlgoInv`'s conjuncts on the build run's instance (812,222 states);
- `HashInv`'s conjuncts on the build run's instance, and on a caller with
  both drivers and `Disciplined = FALSE` (3,114,940 states).

Only model-checked are the properties of the violation runs, which TLC
refutes. Out of the provers' reach in any case:

- liveness (there is none here, see Fairness);
- the recursive functions of the length computation, which TLC evaluates.

## Not modelled

- `ksba_cms_release`, which only frees memory.
- `get_issuer_serial`'s string and serial conversions, and the
  malformed-attribute errors of `get_message_digest`. They need ASN.1
  trees, which the model abstracts.
- The ASN.1 codec, reader, writer and certificate code, which are not in
  this repository.
- Memory exhaustion.
- `tests/cert-basic.c`, a certificate test program.

## Plan for later sittings

- **More proofs.** Action properties of the writer, such as "nothing is
  written after READY", proved from `HashInv` and `AlgoInv`.
- **Refinement of the mixed caller.** State what the protocol should be
  when one container is parsed and built, once the code defines it.
