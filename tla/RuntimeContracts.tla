--------------------------- MODULE RuntimeContracts ---------------------------
(***************************************************************************)
(* What the authority accepts from a runtime it executed: results of the    *)
(* attested runtime (AttestedResult.parse, attested_contract.py) and of the *)
(* promoted one with a tracked attestation (bootstrap_result,               *)
(* controlled_evidence.py), and what AuthorityService.evaluate makes of it. *)
(*                                                                         *)
(* A result repeats its verdict and the facts behind it many times over;    *)
(* every repetition is a field of its own here.  "sound" stands for all the *)
(* checks of shape, version, type and fixed value of a section.  Lists of   *)
(* reasons are sets.                                                        *)
(***************************************************************************)
EXTENDS Naturals, FiniteSets

CONSTANTS Heads,         \* candidates: repository, pull request and head commit
          Bases,         \* commits of main
          Paths,         \* changed files
          OtherReasons,  \* failures that no privilege resolves
          PageSize,      \* records per page of the pull-request API: 100
          MaxListed,     \* entries of a list, records and touched files accepted: 2000
          MaxPages       \* pages accepted: 20

\* The three limits are one: no accepted number of files takes more pages.
ASSUME PageAssumption == /\ PageSize \in Nat \ {0}
                         /\ MaxListed \in Nat \ {0}
                         /\ MaxPages \in Nat
                         /\ MaxListed <= MaxPages * PageSize

PrivilegeBlockers == {"privileged-validation-missing", "runtime-critical-mutation"}
Unqualified == "candidate-qualification-failed"
Reasons == PrivilegeBlockers \cup {Unqualified} \cup OtherReasons

\* What a result, an attestation or a snapshot speaks of.
Candidate == [head: Heads, base: Bases, paths: SUBSET Paths]

\* One answer of the evaluator.
Evaluation == [head: Heads, base: Bases, protected: SUBSET Paths, requires: BOOLEAN,
               qualification: {"pass", "fail"}, privileged: {"pass", "not_required"},
               reasons: SUBSET Reasons, verdict: {"pass", "fail"}, sound: BOOLEAN]

NoRecord == [head |-> "none"]

\* The privileged attestation the runtime found, or why it has none.
Approval == [status: {"not_required", "not_attempted", "missing", "verified"},
             record: Candidate \cup {NoRecord}, sound: BOOLEAN]

\* Numbers of files: in the API's records, touched, pages read.
Counts == [records: Nat, touched: Nat, pages: Nat]

AttestedResult ==
  [kind: {"attested"}, sound: BOOLEAN, head: Heads, base: Bases, manifest: Candidate,
   counts: Counts, conclusion: {"success", "failure"},
   original: Evaluation, runtimeOnly: SUBSET Paths, originalRuntime: SUBSET Reasons,
   originalVerdict: {"pass", "fail"}, approval: Approval, final: Evaluation,
   runtime: SUBSET Reasons, reasons: SUBSET Reasons, verdict: {"pass", "fail"}]

PromotedResult ==
  [kind: {"promoted"}, sound: BOOLEAN, head: Heads, manifest: Candidate,
   conclusion: {"success", "failure"}, evaluator: SUBSET Reasons,
   runtime: SUBSET Reasons, verdict: {"pass", "fail"}, facts: BOOLEAN]

Rejected == [decision |-> "rejected"]

Verdict(reasons) == IF reasons = {} THEN "pass" ELSE "fail"

-------------------------------------------------------------------------------
(* AttestedResult.parse *)

\* _strings: a list is not too long.
Listed(S) == Cardinality(S) <= MaxListed

\* _evaluator: one evaluation of candidate c, whose qualification is q.
EvaluationHolds(e, c, q) ==
  /\ e.sound
  /\ e.head = c.head /\ e.base = c.base
  /\ e.protected \subseteq c.paths
  /\ Listed(e.reasons)
  /\ e.requires = (e.protected # {})
  /\ e.qualification = q
  /\ e.verdict = Verdict(e.reasons)
  /\ q # "pass" => Unqualified \in e.reasons

\* The attested candidate is whatever has the right head.
ApprovalHolds_AnyFiles(a, c) ==
  /\ a.sound
  /\ \/ a.status = "missing" /\ a.record = NoRecord
     \/ a.status = "verified" /\ a.record.head = c.head

\* _approval: the record is absent, or attests exactly this candidate, files
\* included.
ApprovalHolds(a, c) ==
  /\ a.sound
  /\ \/ a.status = "missing" /\ a.record = NoRecord
     \/ a.status = "verified" /\ a.record = c

\* Whole pages only: an exact multiple of the page size is one page short.
CountsHold_WholePages(n, k) ==
  /\ k.records \in 1..MaxListed /\ k.touched \in 1..MaxListed /\ k.pages \in 1..MaxPages
  /\ k.records <= k.touched /\ k.touched = n /\ n <= 2 * k.records
  /\ k.pages = k.records \div PageSize + 1

\* A record touches one file or, when it renames one, two; all pages were read.
CountsHold(n, k) ==
  /\ k.records \in 1..MaxListed /\ k.touched \in 1..MaxListed /\ k.pages \in 1..MaxPages
  /\ k.records <= k.touched /\ k.touched = n /\ n <= 2 * k.records
  /\ k.pages = (k.records + PageSize - 1) \div PageSize

Qualification(r) == IF r.conclusion = "success" THEN "pass" ELSE "fail"

\* runtime_failure_reasons as the runtime-only protected files demand it.
RuntimeReasons(runtimeOnly) ==
  IF runtimeOnly = {} THEN {} ELSE {"runtime-critical-mutation"}

OriginalReasons(r) == r.original.reasons \cup r.originalRuntime

\* Only privilege blockers, and at least one, on a qualified candidate.
Eligible(r) ==
  /\ r.conclusion = "success"
  /\ OriginalReasons(r) # {}
  /\ OriginalReasons(r) \subseteq PrivilegeBlockers

Resolved(r) == Eligible(r) /\ r.approval.status = "verified"

\* initial: the verdict before any approval.
OriginalHolds(r) ==
  /\ EvaluationHolds(r.original, r.manifest, Qualification(r))
  /\ r.original.privileged = "not_required"
  /\ ("privileged-validation-missing" \in r.original.reasons) = (r.original.protected # {})
  /\ r.runtimeOnly \subseteq r.manifest.paths \ r.original.protected
  /\ r.originalRuntime = RuntimeReasons(r.runtimeOnly)
  /\ r.originalVerdict = Verdict(OriginalReasons(r))

\* privileged_validation_evidence: looked up only when it could help.
ApprovalFits(r) ==
  IF Eligible(r) THEN ApprovalHolds(r.approval, r.manifest)
  ELSE r.approval = [status |-> IF r.original.protected \cup r.runtimeOnly = {}
                                THEN "not_required" ELSE "not_attempted",
                     record |-> NoRecord, sound |-> TRUE]

\* expected_final: the original evaluation, with its blockers resolved or not.
ExpectedFinal(r) ==
  IF Resolved(r)
  THEN [r.original EXCEPT
          !.privileged = IF r.original.protected # {} THEN "pass" ELSE "not_required",
          !.reasons = {}, !.verdict = "pass"]
  ELSE r.original

\* The final verdict repeats the original one, or resolves it entirely.
FinalHolds(r) ==
  /\ EvaluationHolds(r.final, r.manifest, Qualification(r))
  /\ r.final = ExpectedFinal(r)
  /\ r.runtime = (IF Resolved(r) THEN {} ELSE r.originalRuntime)
  /\ r.reasons = r.final.reasons \cup r.runtime
  /\ r.verdict = Verdict(r.reasons)

AttestedHolds(r, request) ==
  /\ r.sound
  /\ r.head = request
  /\ r.manifest.head = request /\ r.manifest.base = r.base
  /\ Listed(r.manifest.paths)
  /\ r.manifest.paths # {} /\ r.base # request
  /\ CountsHold(Cardinality(r.manifest.paths), r.counts)
  /\ OriginalHolds(r)
  /\ ApprovalFits(r)
  /\ FinalHolds(r)

Snapshot(c) == [head |-> c.head, base |-> c.base, paths |-> c.paths, state |-> "open"]

\* The runtime's own reasons are left behind.
ParseAttested_EvaluatorOnly(r, request) ==
  IF AttestedHolds(r, request)
  THEN [decision |-> r.verdict, reasons |-> r.final.reasons, snapshot |-> Snapshot(r.manifest)]
  ELSE Rejected

ParseAttested(r, request) ==
  IF AttestedHolds(r, request)
  THEN [decision |-> r.verdict, reasons |-> r.reasons, snapshot |-> Snapshot(r.manifest)]
  ELSE Rejected

-------------------------------------------------------------------------------
(* bootstrap_result *)

\* legacy._parse_runtime_result: it does not look at the conclusion.
PromotedHolds(r, request) ==
  /\ r.sound
  /\ r.head = request /\ r.manifest.head = request
  /\ r.manifest.paths # {} /\ r.manifest.base # request
  /\ r.verdict = Verdict(r.evaluator \cup r.runtime)

ParsePromoted(r, request) ==
  IF PromotedHolds(r, request)
  THEN [decision |-> r.verdict, reasons |-> r.evaluator \cup r.runtime,
        snapshot |-> Snapshot(r.manifest)]
  ELSE Rejected

\* An attestation resolves every failure.
Authorize_AnyReason(record, request, x) ==
  IF /\ record = [head |-> request, base |-> x.snapshot.base, paths |-> x.snapshot.paths]
     /\ x.decision = "fail"
  THEN [decision |-> "pass", reasons |-> {}, snapshot |-> x.snapshot]
  ELSE Rejected

\* PrivilegedValidationAttestation.authorize, with the conditions that
\* strict_attestation puts on the record: it attests exactly the snapshot.
Authorize(record, request, x) ==
  IF /\ record = [head |-> request, base |-> x.snapshot.base, paths |-> x.snapshot.paths]
     /\ x.decision = "fail"
     /\ x.reasons # {} /\ x.reasons \subseteq PrivilegeBlockers
  THEN [decision |-> "pass", reasons |-> {}, snapshot |-> x.snapshot]
  ELSE Rejected

\* An original verdict of FAIL on a qualified candidate, and an attestation
\* that resolves it.
BootstrapResult(r, request, record) ==
  LET x == ParsePromoted(r, request) IN
  IF x.decision = "fail" /\ r.conclusion = "success" /\ r.facts
  THEN Authorize(record, request, x)
  ELSE Rejected

-------------------------------------------------------------------------------
(* AuthorityService.evaluate: what becomes of an accepted or rejected answer *)

NoSnapshot == [state |-> "none"]

\* The runtime's answer is recorded as it is.
Blocked_Rejected(snapshot) == [decision |-> "rejected", reasons |-> {}, snapshot |-> snapshot]

Blocked(snapshot) == [decision |-> "blocked", reasons |-> {}, snapshot |-> snapshot]

\* PASS and FAIL are the runtime's, about the candidate that was asked for.  Which
\* reason blocks is left out.
Judge(request, x) ==
  IF x = Rejected THEN Blocked(NoSnapshot)
  ELSE IF x.snapshot.head # request \/ x.snapshot.state # "open" THEN Blocked(x.snapshot)
  ELSE x

-------------------------------------------------------------------------------
(* The runtime that is pinned (external): what it prints for a candidate.  *)

\* Facts about a candidate: files protected by the evaluator and by the runtime
\* only, failures unrelated to privilege, a qualification, whether an attestation
\* is on record, how many of the files are the old names of renamed ones.
Facts ==
  {f \in [c: Candidate, protected: SUBSET Paths, runtimeOnly: SUBSET Paths,
          others: SUBSET OtherReasons, conclusion: {"success", "failure"},
          found: BOOLEAN, renames: 0..Cardinality(Paths)] :
     /\ f.c.paths # {} /\ f.c.base # f.c.head
     /\ f.protected \cup f.runtimeOnly \subseteq f.c.paths
     /\ f.protected \cap f.runtimeOnly = {}
     /\ 2 * f.renames <= Cardinality(f.c.paths)}

Printed(f) ==
  LET c         == f.c
      qualified == f.conclusion = "success"
      missing   == IF f.protected = {} THEN {} ELSE {"privileged-validation-missing"}
      failures  == missing \cup f.others \cup (IF qualified THEN {} ELSE {Unqualified})
      critical  == RuntimeReasons(f.runtimeOnly)
      touched   == f.protected \cup f.runtimeOnly # {}
      lookup    == qualified /\ touched /\ f.others = {}
      resolved  == lookup /\ f.found
      records   == Cardinality(c.paths) - f.renames
      pages     == CHOOSE p \in 1..records :
                     p * PageSize >= records /\ (p - 1) * PageSize < records
      first     == [head |-> c.head, base |-> c.base, protected |-> f.protected,
                    requires |-> f.protected # {}, privileged |-> "not_required",
                    qualification |-> IF qualified THEN "pass" ELSE "fail",
                    reasons |-> failures, verdict |-> Verdict(failures), sound |-> TRUE]
      second    == IF resolved
                   THEN [first EXCEPT !.reasons = {}, !.verdict = "pass",
                           !.privileged = IF f.protected = {} THEN "not_required" ELSE "pass"]
                   ELSE first
      remaining == IF resolved THEN {} ELSE critical
  IN [kind |-> "attested", sound |-> TRUE, head |-> c.head, base |-> c.base,
      manifest |-> c, conclusion |-> f.conclusion, runtimeOnly |-> f.runtimeOnly,
      counts |-> [records |-> records, touched |-> Cardinality(c.paths), pages |-> pages],
      original |-> first, originalRuntime |-> critical,
      originalVerdict |-> Verdict(failures \cup critical),
      approval |-> [status |-> IF resolved THEN "verified" ELSE IF lookup THEN "missing"
                               ELSE IF touched THEN "not_attempted" ELSE "not_required",
                    record |-> IF resolved THEN c ELSE NoRecord, sound |-> TRUE],
      final |-> second, runtime |-> remaining, reasons |-> second.reasons \cup remaining,
      verdict |-> Verdict(second.reasons \cup remaining)]

\* The facts a printed result must have come from.
FactsOf(r) ==
  [c |-> r.manifest, protected |-> r.original.protected, runtimeOnly |-> r.runtimeOnly,
   others |-> r.original.reasons \cap OtherReasons, conclusion |-> r.conclusion,
   found |-> r.approval.status = "verified", renames |-> r.counts.touched - r.counts.records]

===============================================================================
