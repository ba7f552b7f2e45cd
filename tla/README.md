# Verification of Scnehaux Codex Authority

TLA+ models, TLC runs and TLAPS proofs for the parts of this repository that
decide whether a pull request of `scnehaux/codex` gets the success check
*Codex Governance Authority*.  Definitions are translated from the Python
sources; `PROJECT.json` maps every one to its lines.

What matters most: a success check is posted at most once per candidate and state
directory, only under a durable reservation, only for a candidate that a pinned
runtime passed, behind durable evidence and a receipt, and what the records and
exit codes say afterwards is true, although processes crash, hosts lose power,
answers get lost, people work in the checkout, and operators start things twice.

## 1. The system

| Part | Source | State it keeps | Operations |
|---|---|---|---|
| Durable records | `evidence.py` `write_new_json_file`, `attested_handover.py` `_write_bound` | one file per record, created once | probe, create exclusively, write, fsync, sync directory, read back |
| Runtime process | `adapters/attested_runtime.py` `_run` | two bounded buffers, a failure event, two drain threads, a process | start, drain, wait, kill, join, return |
| Result contracts | `attested_contract.py`, `adapters/promoted_runtime.py`, `privileged.py`, `controlled_evidence.py` | none (pure) | parse a result, authorize a FAIL by a tracked attestation |
| Authority service | `service.py`, `model.py` | none; appends one evidence record | evaluate |
| Permit preparation | `scripts/issue_controlled_permit.py`, `attested_handover.py`, `controlled_evidence.py`, `publication.py` | evidence, receipt and permit files; reads the Authority checkout | read policy, bind a clean main revision, read committed bytes, evaluate, write, gate, export |
| ARB gate | `arb_gate.py` | none; reads records of the working tree | required approvals, check |
| Bundle verification | `controlled_evidence.py` `verify_bundle` | none | check permit, evidence and receipt as one whole |
| Controlled publisher | `integrations/github-app-publisher/controlled_publisher.py` | attempt and outcome record per candidate in a state directory; a token and a check run at GitHub | execute, reserve, authenticate, requalify, recheck time, POST, revoke, settle |
| First publisher | `github_app_publisher.py`, `publisher_contract.py` | none; a token and a check run at GitHub | load, gates, POST, revoke |
| First issuers | `scripts/issue_proof_permit.py`, `scripts/issue_privileged_permit.py` | evidence and permit files | bind a revision, evaluate, record, export |
| Attested adapter | `adapters/attested_runtime.py` `evaluate` | a private copy of the runtime's package | check the package file by file, copy, run, parse |
| Rehearsal | `integrations/github-app-publisher/attested_preview.py` | none | read a prepared bundle, say what the publisher would say |
| Governance history | `scripts/verify_privileged_maintenance.py`, `scripts/verify_privileged_attestation_history.py`, `privileged.py`, `governance/github-main-ruleset.json` | main of the Authority; workflow runs on merge commits | check a policy, diff attestations against the merge base, merge |
| Transport | `publisher_transport.py` | none | requests with a 20 s timeout, checks of the answers |

How they interact.  An operator runs the issuer from an Authority checkout.  It
calls the service, which calls a runtime adapter, which executes a private copy of the
pinned Codex runtime as a child process; the result comes back through two pipes and is parsed
by the contract.  The service appends to an evidence sink; the issuer adds a
receipt, asks the gate and writes the permit.  The three files travel to the
publisher's export, where a rehearsal may read them first.  Nothing else connects the
two halves: no shared memory, no queue.  What the issuers read as policy, activations
and attestations reached main through pull requests, each verified by a workflow on a
merge commit.  The publisher checks the bundle against a reviewed activation and talks
to GitHub.

Behaviours that are hard:

- two programs started for the same thing, in the same directory, at the same time;
- a crash or power loss between any two writes or requests;
- an answer that is lost after the request took effect, or a request that takes
  effect after the client gave up;
- the checkout, the pull request, the qualification, the activation, the exported
  package and the clock move while a program is on its way, and main while a
  workflow is;
- the token and the check fail separately, and so do their records;
- threads of the runner end, overflow or hang around the moment they are examined;
- a runtime repeats its verdict and facts many times in one result.

What makes each part correct is stated by the properties in section 4;
`PROJECT.json` lists the hazards line by line.

## 2. The modules

| Module | Models | Proofs |
|---|---|---|
| `BoundFiles` | the records of `evidence.py` and `_write_bound`, statement by statement, with errors and power loss; instantiated by everything that writes | lemmas in the module |
| `ControlledPublisher` | the controlled publisher, GitHub, the clock and the operator | `PublisherProofs` |
| `PublicationOnce` | the abstract promise: one slot per candidate, posted once, one true verdict | |
| `PublisherRefinement` | the mapping from the publisher to `PublicationOnce` | `PublisherProofs` |
| `RuntimeContracts` | `AttestedResult.parse`, `bootstrap_result`, `authorize`, `AuthorityService.evaluate`, and what the pinned runtime prints | |
| `ContractReader` | a state machine around one reading, to check and prove the contracts | `ContractProofs` |
| `PermitPreparation` | both modes of `issue_controlled_permit.py`, with service, sinks, gate, and the people at the checkout | `PreparationProofs` |
| `PermitOnRecord` | the abstract promise of a job: records filed for good and in turn, a report that is true of them | |
| `PreparationRefinement` | the mapping from the jobs to `PermitOnRecord` | `PreparationProofs` |
| `PublicationBundles` | `verify_bundle` and the rehearsal over all files jobs may have written | `PreparationProofs` |
| `EndToEnd` | jobs, people and publishers together: `execute` reads three files that jobs may still be writing, and verifies them | `PreparationProofs` |
| `RuntimeProcess` | `_run`: main thread, drain threads, pipes, process, descendant | `AdapterProofs` |
| `AttestedAdapter` | `evaluate` around it: package, private copy, run, parse, and whoever exports the package | `AdapterProofs` |
| `GovernanceHistory` | pull requests on `governance/`, the workflow's verifiers, merges | `HistoryProofs` |
| `LegacyIssuers` | the two first issuers on the same kind of checkout | `IssuerProofs` |
| `ProofPublisher` | the first publisher | `ProofPublisherProofs` |
| `MCPublisher`, `MCContracts`, `MCPreparation`, `MCIssuers`, `MCProofPublisher`, `MCHistory`, `MCEndToEnd` | instances for TLC | |

`BoundFiles` is composed by `INSTANCE` into `ControlledPublisher` (as `Journal`),
`PermitPreparation` and `LegacyIssuers` (as `Disk`); `PermitPreparation`,
`ContractReader` and `LegacyIssuers` extend `RuntimeContracts`;
`PublicationBundles` and `PreparationRefinement` extend `PermitPreparation`;
`AttestedAdapter` extends `RuntimeProcess`, whose steps it takes while its own statement is
`_run`.  `EndToEnd` extends `PublicationBundles` and instantiates the publisher, with its
proofs, as `Publisher`: it shares the candidates, and nothing that changes.

### How the state corresponds to the code

**`BoundFiles`.**  `files[n]` is a path: absent, or a body with how much of it is on
disk (`volatile`, `data` after `os.fsync(file)`, `entry` after the directory's
fsync).  `io[w]` is where a writer is inside `_write_bound`.  `WriteBound` is one
statement of `_write_bound`; `WriteNew` one of `write_new_json_file` used alone,
which ends with `lstat` and no directory sync.  `PowerLoss` lets every entry that
is not on disk vanish or survive by itself and tears unsynced contents.

**`ControlledPublisher`.**  `pc` is the statement of `execute`/`_publish`; `act`,
`token`, `attempted`, `known`, `revoked`, `failed` are its locals (`known` is
`check_id is not None`). `Execute` is `execute` up to its inputs, `VerifyInputs` the
verdict on them: either one when the publisher stands alone. `req[p][c]` is what became
of a mutation at GitHub: unsent, sent, applied, delivered, refused; `GitHubApplies` may
come long after the client raised. Reads at GitHub (`Qualify`, `ReadPull`) happen in one
step. `TryRaises` is `except BaseException`; the `finally` block is `SkipRevocation`,
`RevokeToken`, `Revoked` and `RevocationRaises`. The journal's key is (export, head), as
in `_publish`: neither base nor activation.

**`PermitPreparation`.**  One job is one run of the program, in one mode, for one
head.  `commit`, `origin` and `tree` are the checkout; a tree is the governance
directory (`package`, `bootstrap`, `attestations`, `approvals`).  `ReadPolicy`,
`ReadHead`, `CheckMain`, `CheckClean`, `ReadCommitted` are the statements in code
order, one Git command each; `Evaluate` is the service with the mode's runtime and
the acceptance test of its sink; `WriteEvidence`/`WriteReceipt`/`WritePermit` are
single statements of `_write_bound`.  A digest is the value it digests.

**`EndToEnd`.**  `held[i]` is what invocation `i` has read of its three inputs, one at a
time and in the code's order, from any path that holds a whole file (`read_regular` of a
torn one fails to parse).  `Verify` is `VerifyInputs` with `verify_bundle` and the digests
of the activation (`ReviewOf`) in place of the free verdict; the rest of the publisher is
unchanged.  The publisher's journal is another directory, possibly on another host: each
loses power by itself.

**`RuntimeContracts`.**  Every repetition in a result is a field of its own; all
checks of shape and fixed value of a section are one bit, `sound`.  `Printed(f)` is
what the pinned runtime prints for facts `f` (external to this repository, taken
from the contract that reads it).

**`RuntimeProcess`.**  Bytes are counted, not named.  A drain thread reads a chunk,
checks the bound, appends or kills; the main thread waits with a timeout, kills,
joins for a second, and reads the event, then the threads' liveness, then the exit,
each in its own step.  A descendant may keep the pipes open.

**`AttestedAdapter`.**  `step` is the statement of `evaluate`; `package` is the exported
directory, which `Replace` changes at any time; `sources` is the dictionary of bytes that
`read_regular` returned and `blob_id` confirmed; `working` is the temporary directory.  A
file either holds the pinned blob or not.  A result is `ResultChunks` chunks long; the
parser takes exactly these, for neither a part of a JSON object nor one with something
appended parses.

**`PublicationBundles`** adds `PreviewHolds`, the checks of `preview_attested_permit` in
place of those of `verify_bundle`: the rehearsal compares the files with each other and
with the promoted runtime, but does not read the runtime's output again: it takes the
decision in the evidence at its word.

**`GovernanceHistory`.**  `main` is the sequence of main's trees; `fork[q]` and `tip[q]` are
what a pull request's branch contains of main and holds; `ci[q]` is its latest workflow run,
on GitHub's merge of `tip[q]` with main as it was when the run began (`Merged` is Git's
three-way merge, a region at a time).  `Foundation` is both verifiers.  `Merge` is the
ruleset of `github-main-ruleset.json`: the required check, a branch that is up to date, a
squash.  `Tree` holds the fields of `privileged-maintenance.json` that the loader relates,
and the attestation files by name.

**`LegacyIssuers`, `ProofPublisher`.**  As above, without receipt, gate and journal.
In `ProofPublisher` the token request may deliver a token whose permissions are not
exact (`inexact`): `issue_token` raises on it before `publish` has it.

## 3. Runs

All runs together take a few minutes with 2 workers.

| Run | Instance | Distinct states | Properties |
|---|---|---|---|
| `publisher_race` | 2 interchangeable invocations, 1 export, an activation and its renewal on a new base, time 0..1 | 865,524 | `TypeOK`, `AtMostOneCheckPost`, `CredentialsNeedReservation`, `OutcomeTruthful`, `SuccessIsProven`, `TokensAreReturned`, `JournalIsAppendOnly`, `ConclusiveOutcomesAreFinal`, `PublishesOnce` |
| `publisher_liveness` | 1 invocation, a pull request that moves, closes, becomes a draft | 88,800 | `OnlyLiveCandidatesArePosted`, `InvocationsEnd` |
| `contracts` | 2 heads; 4 classes of reasons; every honest result of 1 to 5 files, renames included; every single rewrite of one of up to 2 files | 227,976 | `PassIsEarned`, `FailuresSurvive`, `HonestResultsAreRead` |
| `attested_adapter` | 2 package files, a result of 2 chunks; both streams, capacity 1, bound 2, 3 chunks written | 111,172 | `AdapterTypeOK`, `ReturnedIsWhole`, `EnvelopeIsPromoted`, `EvaluationEnds` |
| `process_excess` | the same process | violation | `ExcessIsRefused` |
| `preparation_race` | 2 jobs with the same paths, for an approved and an unapproved candidate | 10,962 | `TypeOK`, `PermitFollowsRecord`, `ReportsAreTrue`, `PromotionsAreApproved`, `FilesInTurn`, `JobsEnd` |
| `preparation_bundles` | 1 job of each mode, 3 commits, one never merged; all combinations of their files | 759,540 | `EvidenceIsGoverned`, `AcceptedBundlesAreGenuine`, `PreviewAgrees` |
| `end_to_end` | 1 bootstrap job, 1 invocation, 2 trees, 2 activations, only one of which fits the files | 411,912 | `ChecksRestOnEvidence` |
| `attested_drift` | 1 attested job, 3 commits, 4 trees | violation | `AttestedRuntimeIsGoverned` |
| `issuers` | both first issuers, the same two paths, a moving checkout, power loss | 689,016 | `TypeOK`, `PermitIsEarned`, `PermitFollowsEvidence` |
| `proof_publication` | 1 invocation, 8 permits, 7 configurations, 4 pull states | 8,008 | `TypeOK`, `OnlyPromotedPermitsArePosted`, `OnlyOpenCandidatesArePosted`, `ReportIsProven`, `HeldTokensAreReturned`, `InvocationsEnd` |
| `governance_history` | 2 interchangeable pull requests, 8 trees, main of up to 3 commits | 493,179 | `TypeOK`, `MainIsMaintained`, `AttestationsArePermanent` |

### Bounds, and why they are enough

- **Invocations, jobs: 2.**  They meet only at the exclusive creation of a file; the
  properties that relate two actors relate exactly two.  A third one finds the file
  there, as the second does.  All safety properties are proved for any number.  Two
  *successive* runs are the same two actors, one of which starts after the other ended.
- **One export.**  The journal is per state directory; the code and its notes make no
  promise across directories.
- **Publishers are interchangeable** in `publisher_race` (symmetry): no property there tells
  them apart, and none is a liveness property.
- **End to end: one job, one invocation.**  What a second one of each can do to the first is
  what `preparation_race` and `publisher_race` are about, and the theorem is for any number.
  Left are the order of reading and writing, a tree whose approval is withdrawn at any
  time, crashes of both, and an activation that names the right files under another mode.
- **`MaxTime` = 1**: two windows that do not overlap; the second opens as the first closes.
  The two activations share the head and differ in the base, which the journal's key leaves out.
- **Pull states and permits** differ from the good one in one respect each: every guard
  is tested by an input that fails it alone.
- **Contracts: 1 to 5 files; `PageSize` 2, `MaxListed` 4, `MaxPages` 2**, which agree as the
  code's 100, 2000 and 20 do (`PageAssumption`): counts at, below and above a page and at,
  below and above the limits.  Elsewhere 2 files.
- **Pipes: `Capacity` 1, `MaxResult` 2, `MaxWritten` 3** (the bounds `Capacity`,
  `MAX_RESULT_BYTES` and a runtime that exceeds it by one).  The proof has no such bounds.
- **Package: 2 files; `ResultChunks` = 2**: one file may be replaced while the other is read; a
  result may be cut in the middle, or run over the bound.
- **Pull requests of the Authority: 2; `MaxMain` = 3; 8 trees** (staged, armed and permanent
  policies, each also with one thing wrong, and attestations that are missing, foreign or
  changed): one request is verified, the other is merged, the first follows; a third commit
  lets an attestation be removed by a branch older than it.  The requests are symmetric; no
  property distinguishes them.
- **Commits 3, trees 2 to 4**: a promotion, an arming, and a commit never merged, so that a
  checkout can be stale, ahead, dirty, and dirty in a way that a merge makes clean.

`CHECK_DEADLOCK FALSE` is set where everything ends and nobody else acts: one reading
(`contracts`), one run of a process (`process_excess`).

### Fairness

`FairSpec` assumes weak fairness of each program as a whole, `WF_vars(Program(p))`: as
long as a program can take a step it takes one.  The code justifies it by timeouts on
every call that could hang: 20 s per request, 10 s or 30 s per Git command, a timeout on
the runtime and one second on each join.  Nothing is assumed of GitHub, the clock,
operators, or people at the checkout; a crash needs no fairness, and after it a program
has ended.  `AttestedAdapter` assumes weak fairness of the main thread alone: the drain
threads and the runtime may stop for good, and `EvaluationEnds` still holds because `wait`
and `join` give up.  In `ProofPublisher` a DELETE need never be answered: `Finish` is its
timeout.  `GovernanceHistory` has no liveness: nothing in the code makes a workflow run or a
person merge.

## 4. What the checks show

**Controlled publisher.**  `AtMostOneCheckPost`: one candidate, one state directory, one
POST, across races, crashes, power loss and renewals.  `CredentialsNeedReservation`: not
even a token is asked for without the invocation's own attempt record on disk.
`OutcomeTruthful` and `SuccessIsProven`: what the outcome record and the exit code say of
GitHub is so.  `TokensAreReturned`: a received token sees a DELETE before the outcome is
written.  `JournalIsAppendOnly`.  `ConclusiveOutcomesAreFinal`: once an outcome on disk says
whether the candidate was published, or that the token of an uncertain one is dead, no later
request, late application or further invocation, under a renewed activation included, changes
that; an operator who reconciles it may trust what GitHub shows.  `InvocationsEnd`.
`OnlyLiveCandidatesArePosted` is about candidates that are never live.  What the code cannot
exclude is no property: the pull request may change, and the window close, between the last
check and the moment GitHub applies the POST (note 0004 calls it the residual check-to-use
race); and a token whose answer is lost lives until it expires.  `PublishesOnce`: every behaviour is one of `PublicationOnce`, a
specification of one page without files or processes; a reader can take it as the promise.

**Contracts.**  `PassIsEarned`: no rewrite of a result, and no attestation, turns a
candidate into a PASS that is not qualified, has other failures, or has grown a file.
`FailuresSurvive`: a FAIL keeps its reasons.  `HonestResultsAreRead`: an honest result keeps
its verdict if its files and reasons fit into the parser's lists (2000 each), whatever its
renames and pages; one that does not fit is refused, never cut short.

**Preparation.**  `PermitFollowsRecord`: no permit file, not even a torn one, without the
durable evidence of a PASS and the receipt of the same job.  `ReportsAreTrue`: the same for
what the program reports.  `EvidenceIsGoverned`: evidence names a reviewed commit of main;
bootstrap evidence rests on what that commit activates and attests.
`AcceptedBundlesAreGenuine`: what `verify_bundle` accepts was earned by one job, gate
included.  `PreviewAgrees`: the rehearsal, which reads the runtime's output only as bytes to
compare, says yes to exactly the bundles the publisher will accept.  `PromotionsAreApproved`,
`JobsEnd`.  `FilesInTurn`: every behaviour of the jobs is one of `PermitOnRecord`, in which a
job has neither paths nor statements, only a verdict, the records filed of it, and a report.
It shows what no state does: records reach the disk in order and for good, a verdict never
changes once it is filed, and a report of success is the last thing that happens to an entry.

**End to end.**  `ChecksRestOnEvidence`: a check POST that was ever sent is for an activation
whose evidence some job earned at the commit of main that the activation names, with that
evidence still on disk, and whose permit some job took through the gate; whatever files the
operator supplies, whenever they are read, and whatever happens to jobs and checkout
between.  The digests of the activation alone do not give it, as the mutant shows: the
reviewed files may be those of another mode.

**Adapter and runner.**  `ReturnedIsWhole`: what `_run` returns without failure is all that
was written, by a process that ended by itself.  `EnvelopeIsPromoted`: a verdict that leaves
the adapter was printed whole by the pinned files, though their directory may change at any
time and `_run` may return an output cut off.  `EvaluationEnds`: always, and without a
process of its own left behind.

**Governance history.**  `MainIsMaintained`: every commit of main passes its own
verification, although what was verified is a merge with an earlier main.  It rests on the
ruleset's *up to date* rule, as the mutant without it shows: two requests that merge cleanly
can make a policy nobody verified.  `AttestationsArePermanent`: the check of single changes
makes the whole history append-only.

**First issuers and publisher.**  `PermitFollowsEvidence`: a permit comes into being only
beside the whole evidence of its PASS, whatever was lost before.  `PermitIsEarned`.
`OnlyPromotedPermitsArePosted`: an invocation posts nothing but an earned permit that the
export promoted as a whole, by digest, head and source, before the invocation read it,
whatever the export is rearmed or disarmed with afterwards.  `OnlyOpenCandidatesArePosted`
(with the same limit as above), `ReportIsProven`, `HeldTokensAreReturned`.  `InvocationsEnd`: the second DELETE, of the cleanup, may be lost
and the run still ends.

Each property has a mutant in `PROJECT.json`, a plausible bug in the modelled code that
its run catches.

### Disagreements between code and documentation

1. **`AttestedRuntimeIsGoverned`** (`attested_handover.py:195`).  The attested mode reads
   its policy from the working tree before it pins a clean main commit and never compares
   the two; a pull in between makes evidence name a commit that promotes another runtime.
   The bootstrap mode compares.
2. **`ExcessIsRefused`** (`adapters/attested_runtime.py:117`).  The failure event is read
   before the threads' liveness.  A thread that outlives the one-second join may drop an
   excess chunk, set the event and end between the two reads: a cut-off output is returned,
   although the notes promise no implicit truncation.  It does not become a verdict
   (`EnvelopeIsPromoted`): a result cut off does not parse.

Four more things were seen in the first programs, which are kept for history and
disarmed; no run is about them:

- `write_new_json_file` alone (`evidence.py:76`) does not sync the directory: with the first
  issuers a power loss may leave a permit without its evidence.  The controlled path goes
  through `_write_bound`, which does sync it.
- `issue_privileged_permit.py:95` reads policy and attestation from the working tree after
  the checks that it is clean main, so its permit may name a revision that holds others.
- `issue_token` refuses a token with unexpected permissions before `publish`
  (`github_app_publisher.py:48`) enters the `try` whose cleanup would revoke it.  The
  controlled publisher keeps the token first.
- `adapters/promoted_runtime.py:379` verifies the exported directory and then executes it
  where it is.  The attested adapter executes a copy of the bytes it verified.

## 5. Proofs

TLAPS proves, for every value of the constants that the named assumptions allow:

| Theorem | Property |
|---|---|
| `PublisherProofs!TypeCorrect` | `TypeOK` of the publisher |
| `PublisherProofs!ReservationFirst` | `CredentialsNeedReservation` |
| `PublisherProofs!OncePerCandidate` | `AtMostOneCheckPost` |
| `PublisherProofs!AppendOnly` | `JournalIsAppendOnly` |
| `PublisherProofs!ConclusiveIsFinal` | `ConclusiveOutcomesAreFinal` |
| `PublisherProofs!TokensReturned` | `TokensAreReturned` |
| `PublisherProofs!SuccessProven` | `SuccessIsProven` |
| `PublisherProofs!OutcomesTruthful` | `OutcomeTruthful` |
| `PublisherProofs!OnlyLiveCandidates` | `OnlyLiveCandidatesArePosted` |
| `PublisherProofs!OnceAndTruthfully` | `PublishesOnce`, the refinement of `PublicationOnce` |
| `PublisherProofs!InvocationsAdvance` | no invocation loops: the first half of `InvocationsEnd` |
| `ContractProofs!PassEarned` | `PassIsEarned` |
| `ContractProofs!FailuresKept` | `FailuresSurvive` |
| `ContractProofs!HonestyIsUnderstood` | `HonestResultsAreRead` |
| `PreparationProofs!PreparationTypes` | `TypeOK` of the preparation |
| `PreparationProofs!PermitsAreRecorded` | `PermitFollowsRecord` |
| `PreparationProofs!EvidenceGoverned` | `EvidenceIsGoverned` |
| `PreparationProofs!ReportsTrue` | `ReportsAreTrue` |
| `PreparationProofs!BundlesGenuine` | `AcceptedBundlesAreGenuine` |
| `PreparationProofs!PreviewsAgree` | `PreviewAgrees` |
| `PreparationProofs!PromotionsApproved` | `PromotionsAreApproved`, if `WiresListChanges` |
| `PreparationProofs!FiledInTurn` | `FilesInTurn`, the refinement of `PermitOnRecord` |
| `PreparationProofs!JobsAdvance` | no job loops: the first half of `JobsEnd` |
| `PreparationProofs!JobsRunBeside` | the composition's jobs are those of `PermitPreparation` |
| `PreparationProofs!PublisherRunsBeside` | its publishers are those of `ControlledPublisher` |
| `PreparationProofs!WholePublishesOnce` | so `PublishesOnce` holds of it |
| `PreparationProofs!ChecksRest` | `ChecksRestOnEvidence` |
| `PreparationProofs!ChecksPromote` | `ChecksPromoteApproved`: no check for an unapproved promotion, if `WiresListChanges` |
| `AdapterProofs!OutputsAreWhole` | `ReturnedIsWhole` of `_run` |
| `AdapterProofs!EnvelopesArePromoted` | `EnvelopeIsPromoted` |
| `AdapterProofs!AdapterTypes` | `AdapterTypeOK` |
| `AdapterProofs!ProcessesAreReaped` | no wait for a process that runs, none left behind: the safety in `EvaluationEnds` |
| `AdapterProofs!EvaluationsAdvance` | neither `evaluate` nor `_run` loops |
| `HistoryProofs!MainStaysMaintained` | `MainIsMaintained` |
| `HistoryProofs!HistoryIsAppendOnly` | `AttestationsArePermanent` |
| `HistoryProofs!HistoryTypes` | `TypeOK` of the history |
| `IssuerProofs!IssuerTypes` | `TypeOK` of the first issuers |
| `IssuerProofs!PermitsAreEarned` | `PermitIsEarned` |
| `IssuerProofs!PermitsFollowEvidence` | `PermitFollowsEvidence` |
| `ProofPublisherProofs!ProofTypes` | `TypeOK` of the first publisher |
| `ProofPublisherProofs!OnlyPromotedPermits` | `OnlyPromotedPermitsArePosted` |
| `ProofPublisherProofs!OnlyOpenCandidates` | `OnlyOpenCandidatesArePosted` |
| `ProofPublisherProofs!ReportsAreProven` | `ReportIsProven` |
| `ProofPublisherProofs!TokensGoBack` | `HeldTokensAreReturned` |
| `ProofPublisherProofs!InvocationsAdvance` | no invocation loops, cleanup included |

Assumptions.  The constants have the shapes of `PublisherAssumption`,
`PreparationAssumption`, `IssuersAssumption`, `ProofAssumption`, `HistoryAssumption`,
`WireAssumption`, `PageAssumption`, `RuntimeAssumption`, `AdapterAssumption` and
`EndToEndAssumption`; TLC
evaluates them on its instances.  `PageAssumption` says that the page limit admits every
listed file, `MaxListed <= MaxPages * PageSize`, which the code's 2000, 20 and 100 satisfy with
equality.  `FactsAssumption` says that a change has finitely many
files and that no other failure goes by one of the privileged names, or the honest results
that `HonestResultsAreRead` counts would not be what it says.  No assumption speaks of who
runs how often, or of how activations, trees and requests relate.  `PromotionsApproved` and
`ChecksPromote` alone have a hypothesis of their own, `WiresListChanges`: the runtime lists
every governance document that a candidate changes.  The gate reads no other list, so without it an
unlisted promotion would pass; the instance of `preparation_race` satisfies it.

**Files.**  `BoundFiles!Holds(w, n)` says what a writer inside `_write_bound(n)` knows: from
the creation on the file is its own, whole once filled, on disk once synced.
`WriteBoundEffect` shows that a step touches only the writer's own file and never a durable
one; `HoldsStable`, `PowerLossEffect`, `WriteBoundContents` and `PowerLossContents` carry
this over steps of others, power losses and contents.  `Creates` and `WriteNewEffect` are
the same for `write_new_json_file` alone.  Everything else cites these lemmas.

**Publisher.**  `AtMostOneCheckPost` is not inductive: it does not say why a second
invocation cannot get as far.  `Inv` adds, per invocation: it loaded an activation
(`Loaded`), has sent nothing before it passed the reservation (`NothingSent`), holds its
file while it writes (`Writing`), and owns the durable reservation from then on
(`ReservedSoon`).  Two posters of one candidate would own one file.  `Truth` adds what the
locals say of GitHub (`RequestsHold`), that an outcome on file is exactly what its writer's
locals still say (`RecordsHold`), and that success was decided with it on disk
(`SuccessHolds`).  The refinement follows step by step: a step that writes no file changes a
slot by one POST at most (`SlotMove`), one that writes the outcome gives it its verdict
(`SlotWrite`).  `Barred` is the invariant behind `OnlyLiveCandidatesArePosted`: as long as
the pull request is not ready nobody passes the statement that reads it.
`ConclusiveIsFinal` adds nothing to `Truth`: a request that could still land (`Landing`) has a
live token, which a conclusive outcome excludes, and a POST needs the reservation.

**Preparation.**  `Inv` is `TypeOK`, a per-job invariant (bound to a revision, writing,
having written evidence, then receipt) and `PermitFollowsRecord` itself.  `EarlyMove`,
`LateMove`, `WriteMove`, `HostFailsMove` and `PeopleMove` are the five kinds of steps.
`Genuine` adds what a job's reads were governed by (`Governed`), what it has on disk when it
reports (`Reported`), and that every file is what its job decided (`FilesHold`); a bundle
that is accepted then has one job behind it.  `Gated` adds what the gate saw.

**The refinement of `PermitOnRecord`.**  `FilesInTurn` needs more than the invariants of
states: `OnFile` is `Genuine` with `ReceiptsAreRecorded` (a receipt on file has its evidence
on disk) and `Complete` (a job that ended without a permit has its receipt).  A file is
created in one step and on disk in a later one (`FilesAppear`), and its predecessors are on
disk when it is created; so what becomes durable, also in a power loss, is one record per
job and the next in turn (`FiledInOrder`), and what is durable stays (`FiledStep`).
`DecidedStays` says that a job changes its verdict only before there is a file of it.
`UndecidedEntry` and `DecidedEntry` then map each step to `Pass`, `File`, `Report` or a
stutter.

**Composition.**  `WholePart` projects a step of the whole to a step or a stutter of each
part, so `JobsRunBeside` and `PublisherRunsBeside` carry over all that was proved of the
parts.  What neither part knows is in `WholeInv`: a receipt or permit that was read still
*means something* (`MeansSomething`), although the job may have crashed and the file may be
lost since, because decided jobs keep their verdict and durable files stay
(`MeaningStays`); an accepted bundle that means something rests on evidence
(`AcceptedRests`); and an invocation that was admitted keeps its activation
(`Admission`, `AdmissionKept`).  A check is sent only by one that was admitted.

**Half of liveness.**  `Left` counts the statements that a program has ahead of it, with
those of the write it is in (`BoundFiles!WriteBoundCounts`); each step of its own lowers it
and no other step raises it.  In the adapter the count is a pair, a statement and the files
not yet read, and `Reaped` shows that the one wait without a time limit, after the kill,
never has to wait.  What is left to TLC is that a program that has not ended has a step to
take: `ENABLED`.

**Contracts.**  One reading is one step; the work is in `AttestedPass`, `AttestedFail` and
`BootstrapPass`, which say what the two parsers let through, and in `PagesRead` and
`HonestHolds`: the pages that an honest runtime reads are the number the parser computes, and
`PagesFit` and `ListedFits` keep it within the limit whenever the files are.

**Runner and adapter.**  As long as nothing failed, written = buffered + queued in each
stream (`NothingLost`); a thread that is done has read to the end (`ReadToTheEnd`), which
there is only when nobody holds the pipe (`PipesHeld`).  For the adapter it is enough that
what is kept was written (`KeptIsWritten`), even after a failure; `SourcesPinned` says that
what was read and what is executed is pinned, whatever the directory holds by now.

**History.**  A workflow run that still counts is of this branch with the commit it names
(`RunsHold`); if the branch is up to date that merge is the branch (`MergedIsBranch`), and
the squash is what was verified.

**First programs.**  `OnlyPromotedPermits` carries the configuration along from the statement
that reads it (`Unpromoted`, `UnpromotedStep`).  Otherwise invariants per job and per invocation; no step of one touches what
another's speaks of, except files, for which the lemmas of `BoundFiles` are used.

### Model-checked only

Liveness: `InvocationsEnd` of both publishers, `JobsEnd`, `EvaluationEnds`.  The provers
have neither fairness nor `ENABLED`, so only the half above is proved.  Every other property
of a passing run is a theorem.

## 6. Not modelled

- **Formats, lengths, signatures, HTTP, redirects, JWT, key files**: success or failure of
  the statement that uses them.
- **The exported directory the first issuers verify and run**: one outcome of `Evaluate`.
- **The front-matter parser of the gate**: it returns metadata or nothing.
- **Preview modes of the publishers**: they read, print and keep no state.  The offline
  rehearsal is modelled by what it accepts.
- **Pull requests that change the verifiers or the workflow**, and pushes to main, which the
  ruleset forbids: `GovernanceHistory` assumes that the verifiers stay the ones of the
  source and that main changes by merges only.
- **Repository verifiers, environment checks, provider acceptance, the policy loader**:
  one-shot checks of fixed files and of the operator's machine.
- **Hosts without POSIX directory sync**: the code skips it there and says so; the models are
  of POSIX hosts.
- **Two state directories** may each post once for a candidate: a documented limit.
- **ARB records** may be uncommitted: the gate reads the working tree, on purpose;
  `PromotionsAreApproved` therefore asks for a record in some tree.

## 7. Plan

Done, in this order: `BoundFiles`; `ControlledPublisher` with `PublicationOnce`; the
contracts; `PermitPreparation` with bundles; `RuntimeProcess`; the first issuers and
publisher; the governance history; the adapter around the runner; the rehearsal; the end-to-end
composition; the refinement of `PermitOnRecord`; the proofs of section 5.

What remains, in order of worth:

1. `PermitPreparation`'s commits drawn from a `GovernanceHistory`, instead of any trees: it
   would strengthen `EvidenceIsGoverned`, and with it `ChecksRestOnEvidence`, by
   `AttestationsArePermanent`.
2. The first publisher run twice, against `PublicationOnce`, to state what the journal adds.
3. The promoted adapter's verification and execution in place as steps of their own.
