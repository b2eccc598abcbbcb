# MachineMandate in TLA+

A model of the reference implementation of the machine-mandate profile: an issuer
signs a credential over one action an agent may take, the agent presents it to a
relying party together with an attestation of its runtime, and the relying party
lets the action through only if four gates agree. Paths below are relative to the
repository root, which the project knows as `src/`.

## 1. The system

### Components

| component | code | state it keeps | operations | model |
|---|---|---|---|---|
| seal, canonical form | `src/agent_demo.py` `action_hash`, `deps/jcs.py` | none | check types, normalise to NFC, hash | `ActionSeal` |
| credential | `deps/mandate.py` | none; the clock is read | `issue_sd`, `present_sd`, `verify_presentation_sd` | `Mandate` |
| trusted-list parser | `src/tl_xml.py` | anchors, services, two indices | `from_file`, five queries | `TrustedListXML`, an implementation of `VouchedList`; its result is `TrustedList` |
| relying party | `src/mock_verifier.py` | the list, `aud`, current `nonce` and `challenge` | `request`, `verify` (gates L1-L3), `main` | `Gates`, `Presentation`, `Mains` |
| four-gate core | `src/verifier_core.py` | temporary list and evidence files | `evaluate` | `Harness`, `Presentation` |
| agent demo, one case | `src/agent_demo.py` | temporary list; the session nonce of `main` | `issue_action_mandate`, `verify_l4_scope` (L4), `run_case`, `main` | `Harness`, `Gates`, `Mains` |
| planner | `src/agent_demo.py` lines 40-151 | none | ask a model with retries, fall back to a policy | `Planner` |
| ablation | `run_ablation.py` | temporary files | `forged_credential`, `untrusted_issuer`, the table | `Harness`, `Mains` |
| scope-aware verifier | `src/scope_enforce.py` | as the relying party | `scoped_wallet_present`, `verify_scoped`, `main` | `ScopeGate`, `ScopeVerifier`, `Harness`, `Mains` |
| artifact writers | the mains of `agent_demo`, `mock_verifier`, `scope_enforce` | files under `artifacts/` | write in place, or write and replace | `Mains` |
| run-credential mint | `interop/mint_run_credential.py` | six files of a run directory | mint, self-check, persist | `MintRun` |
| presentation-invariance check | `interop/presentation_invariance_check.py` | one record | present a frozen credential six times | `PresentationCheck` |
| keys and thumbprints | `deps/crypto.py` | none | key generation, JWK conversion | symbolic |

### How they interact

The relying party's `request` draws a nonce (for the holder) and a challenge (for the
attester). The issuer seals the approved action into a credential bound to a holder key;
the holder chooses what to disclose and signs a KB-JWT over nonce, audience and the hash
of what is sent. The attester takes a quote over the challenge, and an appraisal (EAR)
repeats it. `verify` checks the signatures, the window and the binding (L1), the quote
and the EAR (L2) and the issuer's entry in the trusted list (L3). `verify_l4_scope`
verifies the same presentation a second time and compares the action about to be
executed with the seal and the scope (L4). `evaluate`, `run_case` and the ablation play
all these roles in one thread; `scope_enforce` replaces L4 by one that knows
pre-authorised acts. The four mains run such cases one after another from a table; the
demo's planner decides first which action the credential is made for; three of them
write their results as an artifact. The mint drives that verifier over the credential it
has just made, and then leaves credential, keys and record in a directory the invariance
check, a program of its own, reads file by file.

### What is hard here

* A relying party's state is two attributes that `request` overwrites and `verify`
  does not consume. Answers may be late, duplicated, mixed or sent elsewhere.
* L1 and L4 read the clock and the nonce separately; either may change in between.
* The same action is judged three ways: its seal is compared in NFC, its tool byte
  for byte, its amount as a Python number.
* Exceptions leave some harnesses and become denials in others, while temporary
  files exist.
* One list is parsed certificate by certificate and must survive bad ones.
* A run directory is overwritten in place, file by file, and the mint may be killed
  between any two, or another program may be reading it.
* The planner's answer is untrusted text: it may fail in any way at any attempt, or
  succeed with another action than the task's.
* Two artifacts are emptied before they are written, a third is replaced.

What makes each component correct: the *seal* gives two actions one seal only if a
person would call them one action, and takes no action it would have to coerce; the
*credential* verifies only as its holder presented it and within its lifetime; the
*list* vouches for exactly the readable certificates of eligible services; the
*relying party* accepts answers to one request of its own and to no other; the
*four gates* together execute only what a listed endorser approved; a *harness*
ends, reports the gate that is at fault and cleans up; the *planner* decides on the
task's tool and amount whatever the model says; a *main* reports success only for a
complete table of expected rows; the *scope-aware verifier*
accepts only acts both minted and pre-authorised; the *mint* never leaves a frozen
credential beside keys that are not its own. `PROJECT.json` lists the hazards
one by one with their lines.

## 2. Modules

    Gates               extends ActionSeal, Mandate, TrustedList
    Presentation          extends Gates                 the core: parties and messages
      GateRefinement        instantiates AuthorityGate (abstract)
        PresentationInv       the inductive invariant
          PresentationProofs    theorems: types, provenance, replay
            GateProofs            theorems: the token, its window, the refinement
    ScopeGate             extends Gates
      ScopeVerifier         the scope-aware verifier over several sessions
        ScopeProofs           theorems
      Harness               one case of any harness
        HarnessInv            the inductive invariant of a run
          HarnessProofs         theorems
        Mains                 the programs; extends Harness and Planner
          MainsInv              the inductive invariant of the programs; extends HarnessInv
            MainsProofs           theorems; extends HarnessProofs
      MintRun               the mint and its run directory
        PresentationCheck     the check beside the mint
          MintProofs            theorems about both
    Planner             extends ActionSeal
    TrustedListXML      the parser; instantiates VouchedList (abstract)
      ListProofs          theorems

Each has an `MC...` module with values for the configurations (`MCValues` has the
actions and lists they share).

**ActionSeal.** SHA-256 is collision free here, so a seal is the canonical action.
An amount is a record of its Python type, the integer below it and whether a
fraction is left: what `_exact_int` and the comparison with the limit tell apart.
`nfc` is a constant, any idempotent function on the texts.

**Mandate.** A signature is the name of the key that made it, a hash is the value
hashed; `Broken` signs a JWT no key verifies. `Claims` is the claim dictionary after
disclosures overlaid the signed claims, `NotFromFuture` and `NotExpired` are PyJWT's
two checks with leeway.

**TrustedList / TrustedListXML.** The relying parties see the finished list
(`Anchors`, `Endorsers`). `TrustedListXML` is the loop that produces such a list;
`i` and `j` are the service and the certificate it looks at.

**VouchedList.** What a list promises whoever asks it: it vouches for published entries
only, takes none back, and for all of them once it is complete. `RefinesList` maps the
parse to it: published are the readable
certificates with the types of the services that count, vouched are the anchors
appended so far.

**Gates.** One operator per gate. `verify_l4_scope` returns the exit it takes, in the
order of the code; `"raised"` is the exception of the second verification.

**Presentation.** The core. `session[r]` is `rp.nonce` and `rp.challenge`; `network` and
`evidence` hold what may reach `verify`, and nothing leaves them, so that any answer may
be late, lost (never used), repeated or taken elsewhere, and a presentation may be
signed for the audience of a relying party other than the one that asked; `pending[r]`
is the local state of `evaluate` between L3 and L4, across which the model lets another
`request` and clock ticks fall (more than the callers in `src/` do). `asked`, `grants`, `wallet` and `accepted` are history the
properties speak about. The actions are `request`, `Issue` and `Present` (the halves of
`issue_action_mandate`), `Reassemble` and `Damage` (a presentation altered on its way),
`Attest` (`rebind_evidence`), `Verify`, `VerifyL4` and `Tick`.

**AuthorityGate, GateRefinement.** What the gates promise with no credential or quote
in sight: grant, ask, execute. `GateRefinement` maps credentials to mandates in force
until `exp + Leeway`, requests to questions and executions to executions.

**PresentationInv, HarnessInv, MainsInv.** The inductive invariants `IInv`, `PresentedInv`,
`RunInv` and `ProgramInv` in named parts; those of the other components (`ScopeInv`,
`MintInv`, `CheckInv`, `ParseInv`) are at the end of their modules (section 5).

**Harness.** One run of `evaluate`, `run_case`, `forged_credential`,
`untrusted_issuer`, or of one row of the mock's or `scope_enforce`'s table, statement by
statement, with the gates found True, found False or not run, the files on disk, and
the places an exception can come from. `run` holds the arguments: who issued, what was
approved, what is executed, which evidence.

**Planner.** `decide_action`. `attempt` counts the requests of `call_hermes` over the
endpoints and modes; each may fail (`AttemptFails`: no connection, a timeout, an error
status, no JSON), be answered by any object of `Answers`, or raise what the loop does
not catch (`int` of an infinity). The policy reads a task as a sequence of words, each
with the kind the code tests for.

**Mains.** The four programs over `Harness` and `Planner`: temporary evidence, one case
of the table after another, the artifact, the exit status. `stage` is where `main` is,
`results` what the finished rows gave, `temps` and `files` what is still to be removed,
`litter` what nobody will remove. `Killed` ends the process anywhere, `Restart` begins
it again over the artifact and the litter it left. The program `library` is a single
call of any harness with any arguments, so that the properties of `Harness` are checked
beyond the tables.

**ScopeGate.** The L4 of `scope_enforce`: an act is its id and its outcome, and the
claims hold the ids allowed, the acts committed to and the limit. `verify_scoped`
combines it with the verdict of the base gates.

**ScopeVerifier.** `verify_scoped` with one credential over several sessions, as the
self-check of the mint uses it; `base` is the verdict of L1-L3 before the second
verification.

**MintRun.** `main` of the mint, statement by statement where the order matters: the
checks of the manifest with the first reading of the clock, the credential under fresh
keys with the second, the two cases of the self-check, and each of the six files in
two steps, opened (which empties it) and filled. `Killed` ends the process anywhere;
`Start` begins another over the same directory. `frozen` is what an operator froze
after a mint that ended well, `used` the keys drawn so far, `start` the directory as
the run found it.

**PresentationCheck.** The invariance check as a second process beside the mint. It
reads three files one after another, presents under six nonces, audiences and sets of
disclosures, and answers; the mint may write between any two of its steps, which
`disturbed` remembers.

`Bug_...` operators next to a definition are plausible mistakes in it, at least one for each
property, and show that the property notices. Some of them are mistakes the code
once made (`Bug_L2_attested` in `CORRECTION.md`, `Bug_exact_int` in the comment of
`action_hash`).

## 3. Runs

| run | question | bounds |
|---|---|---|
| `presentation_sessions` | `NoReplay`, `AnswersOneRequest`, `IInv`, `RefinesGate` | two relying parties with different audiences, two requests, two presentations for either audience, two executions, one clock step; an endorser and an issuer listed as `CA/QC` |
| `presentation_holder` | `AcceptedAsPresented`, `ExecutedActionWasMandated`, `TypeOK` | two credentials over any of four actions (two encodings of the tool, two of the payee, a fraction of a euro more), two holders, two presentations, one altered token, disclosure of all claims or of either one, two appraisals |
| `presentation_window` | `ExecutedWithinLifetime`, `HonestAnswerPasses` | two relying parties with different audiences, two requests, one credential under a scope that names the tool in one of two encodings, one presentation for either audience, lifetime 1, leeway 1, clock to 4 |
| `harness_gates` | `RowsAsExpected`, `PlanReadsTask`, `SuccessMeansTable`, `WholeOrInPlace`, `AcceptsOnlySound`, `DenierNamesCause`, `EndsClean`, `MainsTypeOK` | four programs with tables of 4, 8, 5 and 6 rows, two starts; six harnesses with any arguments (six by six actions, five by five requests, three issuers, replay, contraindication); two endpoints in two modes, 36 answers; lifetime 2, leeway 1, clock to 4 |
| `trustedlist_parse` | `ListedExactly`, `IdentitiesAgree`, `CensusComplete`, `RefinesList`, `TypeOK` | every list of up to two services of two types and two status values, each with up to two elements out of two certificates, an unreadable one and a blank one |
| `scope_sessions` | `AcceptedWasPreAuthorised`, `OneCredentialOneAct`, `TypeOK` | one credential, two sessions, four mandates, six requests, lifetime 1, clock to 2 |
| `mint_crash` | `FrozenStaysUsable`, `SuccessIsChecked`, `AbortLeavesDirectory`, `CheckIsRight`, `CheckTypeOK` | two mints into one directory (two issuer and two holder keys), seven manifests of which one is consistent, expiry 1, leeway 1, clock to 3; one invariance check at a time, any number of them |
| `presentation_singleuse` | `SingleUseJti`, violated | one of everything, two executions |
| `harness_challenge` | `RelyingPartyChoseChallenge`, violated | `run_case` |
| `harness_unsealable` | `UnsealableIsDenied`, violated | `evaluate` |
| `scope_limit` | `AmountWithinLimit`, violated | one session |
| `mint_window` | `RecordedWindowIsSigned`, violated | the consistent manifest |

Why these bounds are enough to mean something. A replay needs two requests and two
places; a confusion of audiences needs two of them, one of which is not the constant
`verify_l4_scope` compares with; a mix-up of answers needs a nonce of one request and a
challenge of another, again two; a boundary needs the clock to pass `exp + Leeway` (1 +
1, or 2 + 1) with a step to spare. Two credentials suffice for one to be presented under
the other's approval. The list needs two services for an error in one to reach the other
and two elements for the same inside a service. The second mint is the one that meets
files of another; its clock passes the expiry and the leeway of the first. A second
start of a main is the one that finds an artifact and litter of another. The tables are
the code's own, with amounts scaled down (a limit of 1, 2 beyond it). The answers of a
model cover what `normalise_action` distinguishes: padded and empty texts, another tool
or payee, whole, half and signed amounts, an infinity, no number. Symmetry is declared
for nonces, challenges, salts and the keys of the mint, which the specification only
compares; the runs that use it check invariants only.

Every run may stop: every variable that grows is bounded, and programs end.
`CHECK_DEADLOCK FALSE` says so.

### What the violated runs show

* `deps/mandate.py:4` calls the credential's jti single-use. It is the constant
  `m-1` here (the run credential names its own), no verifier records it, and `verify`
  consumes no nonce: one presentation is executed twice in one session.
* `src/agent_demo.py:238` says the relying party chooses the challenge. `main` draws
  it once for four cases and the challenge of each case's relying party is unread.
* `src/agent_demo.py:164` says an action the seal cannot represent is denied, not
  crashed. `evaluate` without a separate mandated action seals that very action while
  issuing and raises `ValueError`.
* `src/scope_enforce.py:28` states `amount <= scope.max_spend`. The code compares
  `int(amount)`: 1.5 passes a limit of 1.
* `interop/mint_run_credential.py:19` says the expiry window is recorded verbatim.
  `main` records `--exp` and derives the time to live from its own reading of the
  clock; `issue_sd` adds it to a later reading. When the second turns in between, the
  credential expires one second after what the record says.

Four remarks that are no runs. `QUALIFIED_TYPES` in `src/tl_xml.py:34` is never read:
any service type becomes an anchor. The status `make_tl` writes is not the one `tl_xml`
counts as granted, so the relying parties could not load their lists with the default
`granted_only=True`. `decide_action` falls back when the answer "did not preserve task
fields" (`src/agent_demo.py:150`), yet compares tool and amount only: a model may choose
the payee, and the credential is sealed over it; `RowsAsExpected` has that as an
exception. `verify_scoped`'s class comment says L4 runs only when the base accepts; it
runs whenever the claims can be recovered.

## 4. Fairness

`Presentation`, `ScopeVerifier`, `MintRun`, `PresentationCheck` and `TrustedListXML`
have none: nothing obliges a party to answer or a process to survive, a parse is two
loops over a finite tree, and all their properties are safety. `Mains` assumes weak
fairness of the program's own steps, `WF_allVars(ProgramStep)`, and none of the clock,
of `Killed` or of `Restart`: a main is one thread that makes local calls. The one call
that waits for somebody is the planner's HTTP request, whose timeout (`HERMES_TIMEOUT`)
bounds each socket operation: the assumption is that an endpoint does not keep an answer
alive forever by sending it byte by byte. `Harness` states the same for a harness on its
own. Under it `EndsClean` says every program ends and leaves behind, unless it was
killed, at most the lists of the harnesses without a finally clause. Among other things
it needs the planner to give up: a planner that started over with its endpoints would
never end.

## 5. Proofs

Every safety property a run checks is also a theorem, for any number of parties,
services, cases, words and answers, any clock, lifetime and leeway, and so are both
refinements. Each rests on an inductive invariant that TLC checked before it was
proved: `IInv` is a property of the run `presentation_sessions`, and each of the others
holds, in place of the INVARIANTs, in every configuration of its module that is
expected to pass.

| module | theorems over the module's specification |
|---|---|
| `PresentationProofs` | `TypeCorrect`, `Provenance` (`IInv`), `Mandated`, `NoCrossSessionReplay`, `OneRequestAnswered` |
| `GateProofs` | `Presented` (`PresentedInv`), `PresentedAsSent`, `WithinLifetime`, `HonestPasses`, `GateRefined` |
| `ScopeProofs` | `ScopeSafe` (`ScopeInv`), `ScopeTypeCorrect`, `PreAuthorised`, `OneAct` |
| `HarnessProofs` | `RunSafe` (`RunInv`), `HarnessAcceptsSound`, `HarnessNamesCause` |
| `MainsProofs` | `ProgramSafe` (`ProgramInv`), `ProgramTypeCorrect`, `AcceptedSoundly`, `DeniedByCause`, `DecidedAsAsked`, `RowsRight`, `SuccessIsTable`, `ArtifactWhole` |
| `MintProofs` | `MintSafe` (`MintInv`), `FrozenUsable`, `SuccessChecked`, `AbortHarmless`, `CheckSafe` (`CheckInv`), `CheckTypeCorrect`, `CheckRight` |
| `ListProofs` | `ParseSafe` (`ParseInv`), `ParseTypeCorrect`, `IdentitiesInStep`, `ListExact`, `CensusExact`, `ListRefined` |

### Assumptions

They are those of the modules, and TLC evaluates them on every run: `nfc` is
idempotent, `None` is no nonce and no challenge, the stale challenge is never drawn
again, issuers' and holders' keys are different keys, `Broken` is nobody's; an absent
or empty file is neither a key nor a credential (`FileAssumption`). Three are about the
literal tables of the mains. `TablesAssumption`: the good action of the ablation is in
its scope, the over-limit and the injected one are not, the swapped one is another
action, and the requests of `scope_enforce` stand to its scope as their names say.
`TasksAssumption`: the sentence of a task of the demo names its tool before any other
tool, its amount after the first EUR and its payee after the last "to"
(`PlainlyWorded`), and its expected verdict is the one the demo's limit and allowed
tools give (`Expected`). `MainsAssumption`: a program needs the harnesses of its table.

Unforgeability is in the shape of the actions: only `Issue` makes a credential with an
issuer's name in it, only `Present` a KB-JWT. That fresh nonces and challenges are new
is the guard of `request`.

### The core

None of `ExecutedActionWasMandated`, `NoReplay` and `AnswersOneRequest` is inductive: an
execution is copied from `pending`, which was judged in an earlier session. `IInv`
therefore says where everything came from. A request is known by its nonce and by its
challenge (`RequestsUnique`), and the pair a session holds belongs to one request of its
relying party (`SessionWasAsked`): hence a token and a quote that pass L1 and L2
together answer the same request, under the audience of the relying party that verified
them (`PendingAnswers`), and they keep answering it although `request` may overwrite the
session before L4. A KB-JWT and a quote are younger than the request they name
(`AnswersFollow`). On the other side, a credential carries the seal of the action
approved with it (`GrantsSealed`), and a token any issuer's key verifies carries such a
credential (`TokensGranted`); equal seals of sealable actions are the same action (lemma
`SealBinds`), so L4's comparison yields the approval. `NoReplay` follows from
`AcceptedAnswers` and `RequestsUnique` without a further induction. Two lemmas carry the
data: `ClaimsRegistered`, that disclosures named `principal` and `ear_status` leave the
registered claims as signed, and `SealBinds`.

`PresentedInv` adds what the token itself proves: a credential lives for `Ttl` and
discloses each claim once (`GrantsWindowed`), the wallet signs over what it sends
(`WalletSigned`), and a KB-JWT in the network is one the wallet made (`KbsFromWallet`).
Its `sd_hash` pins credential and disclosures, so what verifies was sent. `HonestPasses`
is not about acceptance but about the converse: no gate may deny an honest, timely
answer, which a verifier that denies everything would, and that L4 passes it exactly
where `aud[r] = AUD`. `GateRefined` maps initial state to initial state and takes the
actions one by one: `Issue` grants, `request` asks, a `VerifyL4` that accepts executes,
and everything else stutters; that the clock of `AuthorityGate` admits the execution is
`ExecutedWithinLifetime`.

### One run, and the programs

`AcceptsOnlySound` and `DenierNamesCause` speak of the end of a run; `RunInv` says at
every statement before it for which reason each gate is where it is (`GatesFollow`,
`L4Follows`, `DenialFollows`), that the token is the one of this run (`TokenFollows`),
and what an exception can come from (`RaiseFollows`). The lemmas evaluate the gates on
such a token: `TokenVerifies` (L1 holds exactly until expiry, unless the harness broke
the signature), `TokenL4` and `TokenL4Scoped` (every exit of the two L4), `SealExact`
(equal hashes are equal actions, both ways). `RunsWell` says that every call of `Runs`
is one `RunInv` knows.

`ProgramInv` adds the main around it: the case under way is the call of the row that
comes next (`CaseFollows`), what was decided reads the task of that row
(`PlanFollows`, from `PolicyReads` and `PlannerReads`), a recorded row that matches was
denied by the gate its table names (`MatchesFollow`), and the artifact is the results
(`ArtifactFollows`), over kills and restarts. `RowsRight` needs two more steps. Lemma
`CallEnds` says how any call ends that its credential outlives: accepted if it is
blameless, and otherwise denied first by the gate of its `Cause`. Lemmas
`AblationRightly`, `MockRightly`, `ScopeRightly` and `DemoReason` say that a row
expects exactly that.

### List, scope, mint

`ParseInv` follows the two loops: what is recorded and vouched is what the positions
passed so far hold. The refinement of `VouchedList` and, at the end of the loop, the
exactness of the list and of its census follow from it. `ScopeInv` says that every
token is of a credential minted as mandated, and that L1-L3 found its issuer among the
endorsers. `MintInv` says, for each position of the write order, which files are of
this run and which still those of an earlier one; a credential is emptied before any
key beside it is touched, which is why what was frozen stays usable. `CheckInv` says
that a variation counted as verified was verified under the credential's own keys, and
that as long as no mint wrote in between, the keys and the credential the check read
belong together.
The check only reads, so that what is proved of the mint holds beside it as it does of
the mint alone (lemma `CheckImplementsMint`, which follows from how the two are put
together).

### What the proofs found

Two definitions of the model were wrong and TLC had not noticed. `rebind_evidence`
chose the nonce of the evidence by a CASE with overlapping guards, which names an
arbitrary one of them: it is an IF with the order of the code now. `RowsAsExpected`
exempted a model that names the payee the tampered executor pays letter by letter; a
model that names it in another encoding seals the same payee, and the configuration has
one now. `by_type` was a selected sequence and is the set of its positions.

## 6. Only model-checked

* Liveness under fairness, which rests on ENABLED and is beyond the proof system:
  `EndsClean`.
* The properties that are violated (section 3), by their counterexamples.

## 7. Not modelled, and why

* Cryptography, DER, XML, JSON: symbolic. A forged signature is one no key verifies.
* One clock for all parties, in whole seconds: everything runs on one host. PyJWT
  compares against a fractional time, which moves a boundary by less than a second.
* `issuer_jwk` and `issuer_x5t` are separate arguments of `verify`; every caller
  passes the two of one issuer, and an issuer is both here.
* Disclosures named like a registered claim: no caller issues one. `Claims` has the
  overlay, the configurations and the proofs have only the names the code uses.
* EARs with several submodules, of which `ear_of` reads the first.
* `jcs._nfc`'s refusal of keys that coincide after normalisation: sealed objects have
  three ASCII keys.
* The mint's comparison with an ORPRG directory, which only aborts before anything is
  written, and the modes of the files it writes. What `open` and `write` leave is in
  the file at once; a lost page cache is not modelled.
* The content of the invariance check's record: nothing reads it, and its one statement
  that is acted on, the exit status, is `Finding`.
* `issue`, `present` and `verify_presentation` of `deps/mandate.py`, the variant without
  selective disclosure: nothing calls them. `deps/crypto.py` is key material only.
* The command line of `tl_xml.py`: it prints what the queries modelled here answer.
* The text of a task and of an HTTP answer character by character: how a text splits
  into words and where its first JSON object begins are data of the planner.
* Printing, the paper and the interop manifests.

## 8. Plan

Done, in this order: `ActionSeal`, `Mandate`, `TrustedList`, `Gates`, `Presentation`
(core), `AuthorityGate` with its refinement, `PresentationInv` and the proofs of the
core, `Harness`, `TrustedListXML`, `ScopeGate` with `ScopeVerifier`, `MintRun`,
`Planner`, `Mains`, `VouchedList` with its refinement, `PresentationCheck`. That is the
whole of the code's state; what is left out is in section 7.

Then the proofs: the token, the window and the refinement of the core (`GateProofs`),
the scope-aware verifier, the mint and its check, the parser with its refinement, a run
of a harness, and the programs. Every safety property of a run that passes is now a
theorem.

Next: that `TrustedListXML` yields the `Anchors` the gates assume (a list every element
of which has a thumbprint and a type), that a program implements a one-line
specification of its table (rows appended one by one, a status at the end), and that
`ScopeVerifier` implements `AuthorityGate` with acts for actions.
