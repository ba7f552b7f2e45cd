--------------------------- MODULE PermitPreparation ---------------------------
(***************************************************************************)
(* issue_controlled_permit.py, in both modes: the operator's jobs read the  *)
(* governed policy from the Authority checkout, bind themselves to a clean  *)
(* main revision, run the pinned runtime, and write evidence, a receipt and,*)
(* behind the ARB gate, a publication permit.                              *)
(*                                                                         *)
(* Jobs may run at once, in any directories, on one checkout that people    *)
(* pull, switch and edit meanwhile; each may raise, crash or lose power at  *)
(* any step.  A digest is modelled by what it digests.                     *)
(***************************************************************************)
EXTENDS RuntimeContracts

CONSTANTS
  Jobs,          \* runs of the program
  JobOf,         \* the mode and the candidate head a job was started for
  Places,        \* paths of output files
  OutOf,         \* --evidence-out, --receipt-out and --permit-out of a job
  Packages,      \* source revisions of the attested runtime
  Collector,     \* source revision of the promoted runtime: COLLECTOR_REVISION
  None,          \* disabled, absent
  Main,          \* commits of the Authority's main branch
  Revisions,     \* all its commits
  Trees,         \* governance directories a working tree may hold
  GovernanceOf,  \* the one of a commit
  Ids, Versions, \* identifiers and versions of governance documents
  GdcPaths,      \* paths that match governance/GDC-*.md
  Documents,     \* doc_meta of such a path at a commit of Codex
  Wires          \* results a runtime may print

Modes == {"bootstrap", "attested"}
Kinds == {"evidence", "receipt", "permit"}

\* The owner's ARB records, as far as validate_record accepts them.
ArbRecords == [head: Heads, document: Ids, version: Versions]

\* attested-handover.json, privileged-maintenance.json, privileged-validations/
\* and arb-approvals/.
Governance == [package: Packages \cup {None}, bootstrap: Heads \cup {None},
               attestations: [Heads -> Candidate \cup {NoRecord}],
               approvals: SUBSET ArbRecords]

\* A document that is gone, or its front matter.
Gone == [there |-> FALSE]
Metadata == [there: {TRUE}, approved: BOOLEAN, id: Ids \cup {None},
             version: Versions \cup {None}]

ASSUME PreparationAssumption ==
  /\ JobOf \in [Jobs -> [mode: Modes, head: Heads]]
  /\ OutOf \in [Jobs -> [Kinds -> Places]]
  /\ Main \subseteq Revisions
  /\ Trees \subseteq Governance
  /\ GovernanceOf \in [Revisions -> Trees]
  /\ GdcPaths \subseteq Paths
  /\ Documents \in [Heads \cup Bases -> [GdcPaths -> Metadata \cup {Gone}]]
  /\ Wires \subseteq AttestedResult \cup PromotedResult

VARIABLES
  files, io,  \* the output files, see BoundFiles
  commit,     \* HEAD of the Authority checkout
  origin,     \* its origin/main
  tree,       \* its working tree
  pc,         \* the statement a job is about to execute
  policy,     \* what it read: the package (attested), the activated head (bootstrap)
  revision,   \* local revision
  approval,   \* the committed attestation (bootstrap)
  result      \* the decision record and the runtime's output

checkout == <<commit, origin, tree>>
locals   == <<policy, revision, approval, result>>
vars     == <<files, io, checkout, pc, locals>>

-------------------------------------------------------------------------------
Mode(j) == JobOf[j].mode
Head(j) == JobOf[j].head

Snapshots == [head: Heads, base: Bases, paths: SUBSET Paths, state: {"open"}]
NoRaw == [kind |-> "none"]

\* A decision record with the output it rests on.
Results == [decision: {"pass", "fail", "blocked"}, reasons: SUBSET Reasons,
            snapshot: Snapshots \cup {NoSnapshot}, raw: Wires \cup {NoRaw}]

NoResult == [decision |-> "blocked", reasons |-> {}, snapshot |-> NoSnapshot, raw |-> NoRaw]

Sources == Packages \cup {Collector}

EvidenceBodies ==
  [kind: {"evidence"}, mode: Modes, head: Heads, revision: Revisions, source: Sources,
   result: Results, approval: Candidate \cup {NoRecord}, activation: Heads \cup {None}]
PermitBodies == [kind: {"permit"}, head: Heads, base: Bases, source: Sources,
                 revision: Revisions]
ReceiptBodies == [kind: {"receipt"}, mode: Modes, evidence: EvidenceBodies,
                  raw: Wires, permit: PermitBodies]

Disk == INSTANCE BoundFiles
          WITH Names <- Places, Writers <- Jobs,
               Bodies <- EvidenceBodies \cup PermitBodies \cup ReceiptBodies

\* Statements, the ends that are reported, and the one that is not.
Ended == {"prepared", "recorded", "blocked", "crashed"}
Unwritten == {"policy", "head", "main", "clean", "committed", "evaluate"}
Statements == Unwritten \cup {"record", "receipt", "gate", "export"} \cup Ended

TypeOK ==
  /\ Disk!FilesTypeOK
  /\ commit \in Revisions
  /\ origin \in Main
  /\ tree \in Trees
  /\ pc \in [Jobs -> Statements]
  /\ policy \in [Jobs -> Packages \cup Heads \cup {None}]
  /\ revision \in [Jobs -> Revisions \cup {None}]
  /\ approval \in [Jobs -> Candidate \cup {NoRecord}]
  /\ result \in [Jobs -> Results]

Init ==
  /\ Disk!FilesInit
  /\ commit \in Revisions
  /\ origin \in Main
  /\ tree \in Trees
  /\ pc = [j \in Jobs |-> "policy"]
  /\ policy = [j \in Jobs |-> None]
  /\ revision = [j \in Jobs |-> None]
  /\ approval = [j \in Jobs |-> NoRecord]
  /\ result = [j \in Jobs |-> NoResult]

-------------------------------------------------------------------------------
Goto(j, next) == pc' = [pc EXCEPT ![j] = next]
Step(j, here, next) == pc[j] = here /\ Goto(j, next)
Check(j, holds, here, next) == Step(j, here, IF holds THEN next ELSE "blocked")

\* HandoverPolicy.load or load_maintenance_policy, of the working tree: enabled,
\* and in the bootstrap mode for this candidate.
ReadPolicy(j) ==
  LET found == IF Mode(j) = "attested" THEN tree.package ELSE tree.bootstrap IN
  /\ Check(j, found # None /\ (Mode(j) = "bootstrap" => found = Head(j)), "policy", "head")
  /\ policy' = [policy EXCEPT ![j] = found]
  /\ UNCHANGED <<files, io, checkout, revision, approval, result>>

\* _authority_revision, one Git command after the other: HEAD;
ReadHead(j) ==
  /\ Step(j, "head", "main")
  /\ revision' = [revision EXCEPT ![j] = commit]
  /\ UNCHANGED <<files, io, checkout, policy, approval, result>>

\* remote and branch are named as they should be, and origin/main is HEAD;
CheckMain(j, named) ==
  /\ Check(j, named /\ origin = revision[j], "main", "clean")
  /\ UNCHANGED <<files, io, checkout, locals>>

\* the working tree is clean.
CheckClean(j) ==
  /\ Check(j, tree = GovernanceOf[commit], "clean",
           IF Mode(j) = "attested" THEN "evaluate" ELSE "committed")
  /\ UNCHANGED <<files, io, checkout, locals>>

\* Policy and attestation are taken from the working tree.
Committed_InTree(j) == tree

\* _committed_file: whatever the working tree holds by now.
Committed(j) == GovernanceOf[revision[j]]

\* The policy that was read is the committed one, and there is an attestation.
ReadCommitted(j) ==
  /\ Check(j, /\ Committed(j).bootstrap = policy[j]
              /\ Committed(j).attestations[Head(j)] # NoRecord, "committed", "evaluate")
  /\ approval' = [approval EXCEPT ![j] = Committed(j).attestations[Head(j)]]
  /\ UNCHANGED <<files, io, checkout, policy, revision, result>>

\* The runtime a job executes.
SourceOf(j) == IF Mode(j) = "attested" THEN policy[j] ELSE Collector

\* What the mode's adapter makes of output w and the exit of the runtime, "error"
\* standing for a package that is not intact, a timeout, or any other failure.
Answer(j, w, exit) ==
  LET x == IF Mode(j) = "attested" THEN ParseAttested(w, Head(j))
           ELSE BootstrapResult(w, Head(j), approval[j])
  IN IF /\ Head(j) # SourceOf(j)
        /\ exit = (IF Mode(j) = "attested" THEN x.decision ELSE "fail")
     THEN x ELSE Rejected

\* AttestedEvidenceSink.append and BootstrapEvidenceSink.append: a blocked record
\* carries no attested result.
SinkAccepts(j, x, record) ==
  IF record.decision = "blocked" THEN Mode(j) = "bootstrap" \/ x = Rejected
  ELSE record = x

\* The attested mode keeps an output it could read, the bootstrap mode any output
\* of a runtime that ended as it should.
Kept(j, w, exit, x) ==
  IF IF Mode(j) = "attested" THEN x # Rejected ELSE exit = "fail" /\ Head(j) # SourceOf(j)
  THEN w ELSE NoRaw

Evaluate(j, w, exit) ==
  LET x      == Answer(j, w, exit)
      record == Judge(Head(j), x)
  IN /\ w.kind = (IF Mode(j) = "attested" THEN "attested" ELSE "promoted")
     /\ Check(j, SinkAccepts(j, x, record), "evaluate", "record")
     /\ result' = [result EXCEPT ![j] =
                     [decision |-> record.decision, reasons |-> record.reasons,
                      snapshot |-> record.snapshot, raw |-> Kept(j, w, exit, x)]]
     /\ io' = [io EXCEPT ![j] = "probe"]
     /\ UNCHANGED <<files, checkout, policy, revision, approval>>

-------------------------------------------------------------------------------
(* The three files. *)

Evidence(j) ==
  [kind |-> "evidence", mode |-> Mode(j), head |-> Head(j), revision |-> revision[j],
   source |-> SourceOf(j), result |-> result[j], approval |-> approval[j],
   activation |-> IF Mode(j) = "bootstrap" THEN policy[j] ELSE None]

\* issue_publication_permit
Permit(j) == [kind |-> "permit", head |-> Head(j), base |-> result[j].snapshot.base,
              source |-> SourceOf(j), revision |-> revision[j]]

Receipt(j) == [kind |-> "receipt", mode |-> Mode(j), evidence |-> Evidence(j),
               raw |-> result[j].raw, permit |-> Permit(j)]

\* issue_publication_permit returns a permit for a recorded PASS only.
Passed(j) == result[j].decision = "pass"

\* One statement of _write_bound.
Write(j, stage, kind, body) ==
  /\ pc[j] = stage
  /\ Disk!WriteBound(j, OutOf[j][kind], body)
  /\ UNCHANGED <<checkout, pc, locals>>

WriteEvidence(j) == Write(j, "record", "evidence", Evidence(j))
WriteReceipt(j) == Write(j, "receipt", "receipt", Receipt(j))
WritePermit(j) == Write(j, "export", "permit", Permit(j))

\* A file that could not be written goes unnoticed.
Wrote_Unnoticed(j, stage, next) ==
  /\ io[j] \in {"written", "failed"} /\ Step(j, stage, next)
  /\ io' = [io EXCEPT ![j] = IF next = "receipt" THEN "probe" ELSE io[j]]
  /\ UNCHANGED <<files, checkout, locals>>

\* A write that raised is never answered.
Wrote_OrWaits(j, stage, next) ==
  /\ io[j] = "written" /\ Step(j, stage, next)
  /\ io' = [io EXCEPT ![j] = IF next = "receipt" THEN "probe" ELSE io[j]]
  /\ UNCHANGED <<files, checkout, locals>>

\* _write_bound returned, or raised; another write follows or not.
Wrote(j, stage, next) ==
  /\ \/ io[j] = "written" /\ Step(j, stage, next)
     \/ io[j] = "failed" /\ Step(j, stage, "blocked")
  /\ io' = [io EXCEPT ![j] = IF io[j] = "written" /\ next = "receipt" THEN "probe" ELSE io[j]]
  /\ UNCHANGED <<files, checkout, locals>>

EvidenceWritten(j) == Wrote(j, "record", IF Passed(j) THEN "receipt" ELSE "recorded")
ReceiptWritten(j) == Wrote(j, "receipt", "gate")
PermitWritten(j) == Wrote(j, "export", "prepared")

\* Only the first approval of a document is a promotion.
Promotion_FirstOnly(head, base, p) ==
  /\ Documents[head][p].there /\ Documents[head][p].approved
  /\ ~(Documents[base][p].there /\ Documents[base][p].approved)

\* required_approvals: approved at the head, and not so already at the base.
Promotion(head, base, p) ==
  /\ Documents[head][p].there /\ Documents[head][p].approved
  /\ ~(/\ Documents[base][p].there /\ Documents[base][p].approved
       /\ Documents[base][p].version = Documents[head][p].version)

\* arb_gate.check: the Codex clone has the commits, if it is asked at all; no changed
\* document is gone; every promotion is of an identified version, which a record of
\* the working tree approves.
Approved(s, cloned) ==
  \A p \in s.paths \cap GdcPaths :
    LET document == Documents[s.head][p] IN
    /\ cloned /\ document.there
    /\ Promotion(s.head, s.base, p) =>
         /\ document.id # None /\ document.version # None
         /\ [head |-> s.head, document |-> document.id, version |-> document.version]
              \in tree.approvals

PassGate(j, cloned) ==
  /\ pc[j] = "gate"
  /\ IF Approved(result[j].snapshot, cloned)
     THEN Goto(j, "export") /\ io' = [io EXCEPT ![j] = "probe"]
     ELSE Goto(j, "recorded") /\ UNCHANGED io
  /\ UNCHANGED <<files, checkout, locals>>

\* Any other exception: main reports that it failed closed.
Raises(j) ==
  /\ pc[j] \in Unwritten \cup {"gate"}
  /\ Goto(j, "blocked")
  /\ UNCHANGED <<files, io, checkout, locals>>

\* The process is killed or interrupted.
Crash(j) ==
  /\ pc[j] \notin Ended
  /\ Goto(j, "crashed")
  /\ UNCHANGED <<files, io, checkout, locals>>

HostFails ==
  /\ Disk!PowerLoss
  /\ pc' = [j \in Jobs |-> IF pc[j] \in Ended THEN pc[j] ELSE "crashed"]
  /\ UNCHANGED <<io, checkout, locals>>

-------------------------------------------------------------------------------
(* People at work on the checkout. *)

Fetch(c) ==
  /\ c # origin
  /\ origin' = c
  /\ UNCHANGED <<files, io, commit, tree, pc, locals>>

\* Pull, switch or commit: the working tree is that of the new HEAD.
Checkout(c) ==
  /\ c # commit
  /\ commit' = c
  /\ tree' = GovernanceOf[c]
  /\ UNCHANGED <<files, io, origin, pc, locals>>

Edit(g) ==
  /\ g # tree
  /\ tree' = g
  /\ UNCHANGED <<files, io, commit, origin, pc, locals>>

Program(j) ==
  \/ ReadPolicy(j)
  \/ ReadHead(j)
  \/ \E named \in BOOLEAN : CheckMain(j, named)
  \/ CheckClean(j)
  \/ ReadCommitted(j)
  \/ \E w \in Wires, exit \in {"pass", "fail", "error"} : Evaluate(j, w, exit)
  \/ WriteEvidence(j)
  \/ EvidenceWritten(j)
  \/ WriteReceipt(j)
  \/ ReceiptWritten(j)
  \/ \E cloned \in BOOLEAN : PassGate(j, cloned)
  \/ WritePermit(j)
  \/ PermitWritten(j)
  \/ Raises(j)

People ==
  \/ \E c \in Main : Fetch(c)
  \/ \E c \in Revisions : Checkout(c)
  \/ \E g \in Trees : Edit(g)

Next ==
  \/ \E j \in Jobs : Program(j) \/ Crash(j)
  \/ HostFails
  \/ People

Spec == Init /\ [][Next]_vars

\* Every call of the program returns: Git, the runtime and the file system answer or
\* time out.  Nothing is assumed of people.
Fairness == \A j \in Jobs : WF_vars(Program(j))

FairSpec == Spec /\ Fairness

-------------------------------------------------------------------------------
(* Properties. *)

\* A durable file of job j.
Owns(j, kind, body) ==
  /\ Disk!Durable(OutOf[j][kind])
  /\ files[OutOf[j][kind]].by = j
  /\ files[OutOf[j][kind]].body = body

\* A permit file, even a torn one, is never there without the evidence of a PASS and
\* the receipt that links the two, both on disk: whatever crashes, fails, or shares
\* its directory.
PermitFollowsRecord ==
  \A n \in Places, j \in Jobs :
    Disk!Exists(n) /\ files[n].body.kind = "permit" /\ files[n].by = j =>
      /\ Passed(j)
      /\ files[n].body = Permit(j)
      /\ Owns(j, "evidence", Evidence(j))
      /\ Owns(j, "receipt", Receipt(j))

\* Evidence names a reviewed revision of the service, and the evidence of a bootstrap
\* PASS rests on what that very revision activates and attests, however the working
\* tree changed around the checks.
EvidenceIsGoverned ==
  \A n \in Places :
    Disk!Exists(n) /\ files[n].body.kind = "evidence" =>
      LET e == files[n].body  g == GovernanceOf[e.revision] IN
      /\ e.revision \in Main
      /\ e.mode = "bootstrap" /\ e.result.decision = "pass" =>
           /\ g.bootstrap = e.head
           /\ g.attestations[e.head] = [head |-> e.head, base |-> e.result.snapshot.base,
                                        paths |-> e.result.snapshot.paths]

\* The evidence of a PASS in the attested mode names the runtime that the Authority
\* promotes at the revision it names.
AttestedRuntimeIsGoverned ==
  \A n \in Places :
    Disk!Exists(n) /\ files[n].body.kind = "evidence" =>
      LET e == files[n].body IN
      e.mode = "attested" /\ e.result.decision = "pass" =>
        GovernanceOf[e.revision].package = e.source

\* No permit promotes a governance document to a version that nobody ever approved
\* at that exact head, in any tree.
PromotionsAreApproved ==
  \A n \in Places :
    Disk!Exists(n) /\ files[n].body.kind = "permit" =>
      LET permit == files[n].body IN
      \A p \in GdcPaths :
        LET new == Documents[permit.head][p]  old == Documents[permit.base][p] IN
        /\ new.there /\ new.approved
        /\ old.there /\ old.approved => old.version # new.version
        => \E record \in UNION {g.approvals : g \in Trees} :
             record.head = permit.head /\ record.document = new.id /\ record.version = new.version

\* Every job ends.
JobsEnd == \A j \in Jobs : <>(pc[j] \in Ended)

===============================================================================
