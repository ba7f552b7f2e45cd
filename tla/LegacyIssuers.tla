----------------------------- MODULE LegacyIssuers -----------------------------
(***************************************************************************)
(* The issuers the repository keeps for the two completed proofs:           *)
(* issue_proof_permit.py and issue_privileged_permit.py.  They bind to an   *)
(* Authority revision, run the promoted runtime, and write one evidence     *)
(* file and one permit: no receipt, no gate, and the bare                   *)
(* write_new_json_file for both.                                            *)
(*                                                                         *)
(* As in PermitPreparation, jobs may run at once on a checkout that people  *)
(* use, and raise, crash or lose power at any step.                         *)
(***************************************************************************)
EXTENDS RuntimeContracts

CONSTANTS
  Jobs,          \* runs of the two programs
  JobOf,         \* which program, and the candidate head it was started for
  Places,        \* paths of output files
  OutOf,         \* --evidence-out and --permit-out of a job
  None,          \* disabled, absent
  Main,          \* commits of the Authority's main branch
  Revisions,     \* all its commits
  Trees,         \* governance directories a working tree may hold
  GovernanceOf,  \* the one of a commit
  Wires          \* results the promoted runtime may print

Programs == {"proof", "privileged"}

\* privileged-maintenance.json and privileged-validations/.
Governance == [bootstrap: Heads \cup {None},
               attestations: [Heads -> Candidate \cup {NoRecord}]]

ASSUME IssuersAssumption ==
  /\ JobOf \in [Jobs -> [program: Programs, head: Heads]]
  /\ OutOf \in [Jobs -> [{"evidence", "permit"} -> Places]]
  /\ Main \subseteq Revisions
  /\ Trees \subseteq Governance
  /\ GovernanceOf \in [Revisions -> Trees]
  /\ Wires \subseteq PromotedResult

VARIABLES
  files, io,  \* the output files, see BoundFiles
  commit,     \* HEAD of the Authority checkout
  origin,     \* its origin/main
  tree,       \* its working tree
  pc,         \* the statement a job is about to execute
  revision,   \* authority_revision
  approval,   \* the attestation that was loaded (privileged)
  outcome,    \* the AuthorityOutcome
  printed     \* history: what the runtime printed for a job

checkout == <<commit, origin, tree>>
locals   == <<revision, approval, outcome, printed>>
vars     == <<files, io, checkout, pc, locals>>

-------------------------------------------------------------------------------
Head(j) == JobOf[j].head
Privileged(j) == JobOf[j].program = "privileged"

Snapshots == [head: Heads, base: Bases, paths: SUBSET Paths, state: {"open"}]

Outcomes == [decision: {"pass", "fail", "blocked"}, reasons: SUBSET Reasons,
             snapshot: Snapshots \cup {NoSnapshot}]

EvidenceBodies == [kind: {"evidence"}, head: Heads, outcome: Outcomes]
PermitBodies == [kind: {"permit"}, head: Heads, base: Bases, revision: Revisions]

Disk == INSTANCE BoundFiles
          WITH Names <- Places, Writers <- Jobs, Bodies <- EvidenceBodies \cup PermitBodies

Ended == {"issued", "blocked", "crashed"}
Unwritten == {"head", "main", "clean", "tracked", "policy", "attestation", "evaluate"}
Statements == Unwritten \cup {"record", "export"} \cup Ended

TypeOK ==
  /\ Disk!FilesTypeOK
  /\ commit \in Revisions
  /\ origin \in Main
  /\ tree \in Trees
  /\ pc \in [Jobs -> Statements]
  /\ revision \in [Jobs -> Revisions \cup {None}]
  /\ approval \in [Jobs -> Candidate \cup {NoRecord}]
  /\ outcome \in [Jobs -> Outcomes]
  /\ printed \in [Jobs -> Wires \cup {None}]

Init ==
  /\ Disk!FilesInit
  /\ commit \in Revisions
  /\ origin \in Main
  /\ tree \in Trees
  /\ pc = [j \in Jobs |-> "head"]
  /\ revision = [j \in Jobs |-> None]
  /\ approval = [j \in Jobs |-> NoRecord]
  /\ outcome = [j \in Jobs |-> Blocked(NoSnapshot)]
  /\ printed = [j \in Jobs |-> None]

-------------------------------------------------------------------------------
Goto(j, next) == pc' = [pc EXCEPT ![j] = next]
Step(j, here, next) == pc[j] = here /\ Goto(j, next)
Check(j, holds, here, next) == Step(j, here, IF holds THEN next ELSE "blocked")

\* _authority_source_revision: rev-parse HEAD;
ReadHead(j) ==
  /\ Step(j, "head", IF Privileged(j) THEN "main" ELSE "clean")
  /\ revision' = [revision EXCEPT ![j] = commit]
  /\ UNCHANGED <<files, io, checkout, approval, outcome, printed>>

\* the privileged issuer runs on main, which origin/main is at;
CheckMain(j, named) ==
  /\ Check(j, named /\ origin = revision[j], "main", "clean")
  /\ UNCHANGED <<files, io, checkout, locals>>

\* the working tree is clean;
CheckClean(j) ==
  /\ Check(j, tree = GovernanceOf[commit], "clean",
           IF Privileged(j) THEN "tracked" ELSE "evaluate")
  /\ UNCHANGED <<files, io, checkout, locals>>

\* an attestation of the head is tracked at HEAD.
CheckTracked(j) ==
  /\ Check(j, GovernanceOf[commit].attestations[Head(j)] # NoRecord, "tracked", "policy")
  /\ UNCHANGED <<files, io, checkout, locals>>

\* load_maintenance_policy, of the working tree: armed for this candidate.
ReadPolicy(j) ==
  /\ Check(j, tree.bootstrap = Head(j), "policy", "attestation")
  /\ UNCHANGED <<files, io, checkout, locals>>

\* PrivilegedValidationAttestation.load finds one, and it is of this head.
Attests(record, head) == record # NoRecord /\ record.head = head

\* The attestation, too, is that of the working tree.
ReadAttestation(j) ==
  LET record == tree.attestations[Head(j)] IN
  /\ Check(j, Attests(record, Head(j)), "attestation", "evaluate")
  /\ approval' = [approval EXCEPT ![j] = record]
  /\ UNCHANGED <<files, io, checkout, revision, outcome, printed>>

\* What the runtime printed and how it exited; "error" is a package that is not the
\* promoted one, a timeout, too much output, or any other failure.

\* PromotedCodexRuntime.evaluate
ProofAnswer(w, request, exit) ==
  IF exit = "pass" THEN ParsePromoted(w, request) ELSE Rejected

\* PrivilegedBootstrapRuntime.evaluate: only a FAIL is resolved.
PrivilegedAnswer(w, request, exit, record) ==
  LET x == ParsePromoted(w, request) IN
  IF exit = "fail" /\ x.decision = "fail" THEN Authorize(record, request, x) ELSE Rejected

Answer(j, w, exit) ==
  IF Privileged(j) THEN PrivilegedAnswer(w, Head(j), exit, approval[j])
  ELSE ProofAnswer(w, Head(j), exit)

Evaluate(j, w, exit) ==
  /\ Step(j, "evaluate", "record")
  /\ outcome' = [outcome EXCEPT ![j] = Judge(Head(j), Answer(j, w, exit))]
  /\ printed' = [printed EXCEPT ![j] = w]
  /\ io' = [io EXCEPT ![j] = "probe"]
  /\ UNCHANGED <<files, checkout, revision, approval>>

-------------------------------------------------------------------------------
(* The two files. *)

Evidence(j) == [kind |-> "evidence", head |-> Head(j), outcome |-> outcome[j]]
Permit(j) == [kind |-> "permit", head |-> Head(j), base |-> outcome[j].snapshot.base,
              revision |-> revision[j]]

Passed(j) == outcome[j].decision = "pass"

\* One statement of write_new_json_file.
Write(j, stage, kind, body) ==
  /\ pc[j] = stage
  /\ Disk!WriteNew(j, OutOf[j][kind], body)
  /\ UNCHANGED <<checkout, pc, locals>>

\* SingleRecordEvidenceSink.append
WriteEvidence(j) == Write(j, "record", "evidence", Evidence(j))
WritePermit(j) == Write(j, "export", "permit", Permit(j))

\* A PASS that could not be recorded remains a PASS.
Recorded_Anyway(j) == Passed(j)

\* _record: a record that could not be written makes the outcome BLOCKED, and
\* issue_publication_permit returns a permit for a recorded PASS only.
Recorded(j) == io[j] = "written" /\ Passed(j)

EvidenceWritten(j) ==
  /\ io[j] \in {"written", "failed"}
  /\ IF Recorded(j)
     THEN Step(j, "record", "export") /\ io' = [io EXCEPT ![j] = "probe"]
     ELSE Step(j, "record", "blocked") /\ UNCHANGED io
  /\ UNCHANGED <<files, checkout, locals>>

PermitWritten(j) ==
  /\ \/ io[j] = "written" /\ Step(j, "export", "issued")
     \/ io[j] = "failed" /\ Step(j, "export", "blocked")
  /\ UNCHANGED <<files, io, checkout, locals>>

\* Git or a read fails.
Raises(j) ==
  /\ pc[j] \in Unwritten
  /\ Goto(j, "blocked")
  /\ UNCHANGED <<files, io, checkout, locals>>

Crash(j) ==
  /\ pc[j] \notin Ended
  /\ Goto(j, "crashed")
  /\ UNCHANGED <<files, io, checkout, locals>>

HostFails ==
  /\ Disk!PowerLoss
  /\ pc' = [j \in Jobs |-> IF pc[j] \in Ended THEN pc[j] ELSE "crashed"]
  /\ UNCHANGED <<io, checkout, locals>>

-------------------------------------------------------------------------------
(* People at work on the checkout. *)

Fetch(c) ==
  /\ c # origin
  /\ origin' = c
  /\ UNCHANGED <<files, io, commit, tree, pc, locals>>

Checkout(c) ==
  /\ c # commit
  /\ commit' = c
  /\ tree' = GovernanceOf[c]
  /\ UNCHANGED <<files, io, origin, pc, locals>>

Edit(g) ==
  /\ g # tree
  /\ tree' = g
  /\ UNCHANGED <<files, io, commit, origin, pc, locals>>

Program(j) ==
  \/ ReadHead(j)
  \/ \E named \in BOOLEAN : CheckMain(j, named)
  \/ CheckClean(j)
  \/ CheckTracked(j)
  \/ ReadPolicy(j)
  \/ ReadAttestation(j)
  \/ \E w \in Wires, exit \in {"pass", "fail", "error"} : Evaluate(j, w, exit)
  \/ WriteEvidence(j)
  \/ EvidenceWritten(j)
  \/ WritePermit(j)
  \/ PermitWritten(j)
  \/ Raises(j)

People ==
  \/ \E c \in Main : Fetch(c)
  \/ \E c \in Revisions : Checkout(c)
  \/ \E g \in Trees : Edit(g)

Next ==
  \/ \E j \in Jobs : Program(j) \/ Crash(j)
  \/ HostFails
  \/ People

Spec == Init /\ [][Next]_vars

-------------------------------------------------------------------------------
(* Properties. *)

PermitOf(j) == files[OutOf[j]["permit"]]
EvidenceOf(j) == files[OutOf[j]["evidence"]]

\* A permit file that job j created, even a torn one.
HasPermit(j) == /\ Disk!Exists(OutOf[j]["permit"])
                /\ PermitOf(j).by = j
                /\ PermitOf(j).body.kind = "permit"

\* The whole evidence of job j's PASS is in its evidence file.
HasEvidence(j) == /\ Disk!Exists(OutOf[j]["evidence"])
                  /\ EvidenceOf(j).by = j
                  /\ EvidenceOf(j).whole
                  /\ EvidenceOf(j).body = Evidence(j)
                  /\ Passed(j)

\* Whatever fails, loses power, is killed, or is started with the same output paths:
\* a permit comes into being only beside the whole evidence of its PASS.  (Neither is
\* durable in its directory: a later power loss may take either.)
PermitFollowsEvidence ==
  [][\A j \in Jobs : ~HasPermit(j) /\ HasPermit(j)' => HasEvidence(j)]_vars

\* A permit is for the candidate the runtime examined, which passed, or failed on
\* nothing but privilege and has an attestation of exactly its base and files.
PermitIsEarned ==
  \A j \in Jobs : HasPermit(j) =>
    LET w        == printed[j]
        failures == w.evaluator \cup w.runtime IN
    /\ PermitOf(j).body.head = w.manifest.head
    /\ PermitOf(j).body.base = w.manifest.base
    /\ IF Privileged(j)
       THEN failures # {} /\ failures \subseteq PrivilegeBlockers /\ approval[j] = w.manifest
       ELSE failures = {}

===============================================================================
