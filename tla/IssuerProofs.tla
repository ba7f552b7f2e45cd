----------------------------- MODULE IssuerProofs -----------------------------
(***************************************************************************)
(* Proofs about LegacyIssuers, for any number of jobs of either program, on *)
(* any output paths, and any history of the Authority.                      *)
(***************************************************************************)
EXTENDS LegacyIssuers, TLAPS

\* What a PASS rests on: the runtime's output, and the attestation.
Earned(j) ==
  LET w        == printed[j]
      failures == w.evaluator \cup w.runtime IN
  /\ Head(j) = w.manifest.head
  /\ outcome[j].snapshot \in Snapshots
  /\ outcome[j].snapshot.base = w.manifest.base
  /\ IF Privileged(j)
     THEN failures # {} /\ failures \subseteq PrivilegeBlockers /\ approval[j] = w.manifest
     ELSE failures = {}

JobInv(j) ==
  /\ pc[j] \in (Unwritten \ {"head"}) \cup {"record", "export"} => revision[j] \in Revisions
  /\ pc[j] \in Unwritten => ~Passed(j) /\ \A n \in Places : Disk!Exists(n) => files[n].by # j
  /\ Passed(j) => Earned(j)
  /\ pc[j] = "record" => Disk!Creates(j, OutOf[j]["evidence"], Evidence(j))
  /\ pc[j] = "export" => HasEvidence(j) /\ Disk!Creates(j, OutOf[j]["permit"], Permit(j))

\* A permit is that of its job's PASS.
PermitsHold ==
  \A n \in Places, j \in Jobs :
    Disk!Exists(n) /\ files[n].body.kind = "permit" /\ files[n].by = j =>
      Passed(j) /\ files[n].body = Permit(j)

Inv == TypeOK /\ (\A j \in Jobs : JobInv(j)) /\ PermitsHold

-------------------------------------------------------------------------------
LEMMA JobTypes ==
  ASSUME NEW j \in Jobs
  PROVE  /\ Head(j) \in Heads
         /\ OutOf[j]["evidence"] \in Places /\ OutOf[j]["permit"] \in Places
  BY IssuersAssumption DEF IssuersAssumption, Head

\* What the service makes of an output.
LEMMA EvaluateEarns ==
  ASSUME TypeOK, NEW j \in Jobs, NEW w \in Wires, NEW exit, Evaluate(j, w, exit)
  PROVE  outcome'[j] \in Outcomes /\ (Passed(j)' => Earned(j)')
<1> DEFINE x == Answer(j, w, exit)
           o == ParsePromoted(w, Head(j))
<1>1. /\ outcome'[j] = Judge(Head(j), x) /\ printed'[j] = w /\ approval' = approval
      /\ w \in PromotedResult
  BY IssuersAssumption DEF Evaluate, TypeOK, IssuersAssumption
<1>2. w.manifest \in Candidate /\ w.evaluator \subseteq Reasons /\ w.runtime \subseteq Reasons
  BY <1>1 DEF PromotedResult
<1>3. Snapshot(w.manifest) \in Snapshots
  BY <1>2 DEF Candidate, Snapshot, Snapshots
<1>4. CASE x = Rejected
  BY <1>1, <1>4 DEF Judge, Blocked, Outcomes, Passed
<1>5. CASE x # Rejected
  <2>1. x = o \/ x = Authorize(approval[j], Head(j), o)
    BY <1>5 DEF Answer, ProofAnswer, PrivilegedAnswer
  <2>2. o # Rejected
    BY <1>5, <2>1 DEF Authorize, Answer, PrivilegedAnswer, Rejected
  <2>3. /\ o = [decision |-> w.verdict, reasons |-> w.evaluator \cup w.runtime,
                snapshot |-> Snapshot(w.manifest)]
        /\ w.manifest.head = Head(j) /\ w.verdict = Verdict(w.evaluator \cup w.runtime)
    BY <2>2 DEF ParsePromoted, PromotedHolds
  <2>4. /\ o.decision = w.verdict /\ o.reasons = w.evaluator \cup w.runtime
        /\ o.snapshot = Snapshot(w.manifest)
    BY <2>3
  <2>. HIDE DEF o
  <2>5. /\ x.decision \in {"pass", "fail"} /\ x.reasons \subseteq Reasons
        /\ x.snapshot = Snapshot(w.manifest)
    BY <1>1, <1>2, <1>5, <2>1, <2>4 DEF Authorize, PromotedResult
  <2>. HIDE DEF x
  <2>6. outcome'[j] \in {x, Blocked(x.snapshot)}
    BY <1>1, <1>5 DEF Judge
  <2>7. x \in Outcomes
    <3>1. CASE x = o
      BY <1>3, <2>3, <2>4, <2>5, <3>1 DEF Outcomes
    <3>2. CASE x = Authorize(approval[j], Head(j), o)
      <4>1. x = [decision |-> "pass", reasons |-> {}, snapshot |-> o.snapshot]
        BY <1>5, <3>2 DEF Authorize
      <4>. QED
        BY <1>3, <2>4, <4>1 DEF Outcomes
    <3>. QED
      BY <2>1, <3>1, <3>2
  <2>8. outcome'[j] \in Outcomes
    BY <1>3, <2>5, <2>6, <2>7 DEF Blocked, Outcomes
  <2>9. ASSUME Passed(j)' PROVE Earned(j)'
    <3>1. outcome'[j] = x /\ x.decision = "pass"
      BY <2>6, <2>9 DEF Passed, Blocked
    <3>2. CASE Privileged(j)
      <4>1. x = Authorize(approval[j], Head(j), o)
        BY <1>5, <3>2 DEF Answer, PrivilegedAnswer, x, o
      <4>2. /\ approval[j] = [head |-> Head(j), base |-> o.snapshot.base,
                              paths |-> o.snapshot.paths]
            /\ o.reasons # {} /\ o.reasons \subseteq PrivilegeBlockers
        BY <1>5, <4>1 DEF Authorize
      <4>3. approval[j] = w.manifest
        BY <1>2, <2>3, <2>4, <4>2 DEF Candidate, Snapshot
      <4>. QED
        BY <1>1, <1>3, <2>3, <2>4, <2>5, <3>1, <3>2, <4>2, <4>3
           DEF Earned, Snapshot, Privileged, Head
    <3>3. CASE ~Privileged(j)
      <4>1. x = o
        BY <1>5, <3>3 DEF Answer, ProofAnswer, x, o
      <4>2. w.evaluator \cup w.runtime = {}
        BY <2>3, <2>4, <3>1, <4>1 DEF Verdict
      <4>. QED
        BY <1>1, <1>3, <2>3, <2>5, <3>1, <3>3, <4>2
           DEF Earned, Snapshot, Privileged, Head
    <3>. QED
      BY <3>2, <3>3
  <2>. QED
    BY <2>8, <2>9
<1>. QED
  BY <1>4, <1>5

-------------------------------------------------------------------------------
(* What stays. *)

Same(j) == /\ revision'[j] = revision[j] /\ approval'[j] = approval[j]
           /\ outcome'[j] = outcome[j] /\ printed'[j] = printed[j]

\* Files that are there keep their writer and contents, torn no more than they were.
FilesKept ==
  \A n \in Places : Disk!Exists(n) =>
    /\ Disk!Exists(n)' /\ files'[n].by = files[n].by /\ files'[n].body = files[n].body
    /\ files[n].whole => files'[n].whole

LEMMA SameBodies ==
  ASSUME NEW j \in Jobs, Same(j)
  PROVE  /\ Evidence(j)' = Evidence(j) /\ Permit(j)' = Permit(j)
         /\ Passed(j)' = Passed(j) /\ Earned(j)' = Earned(j)
  BY DEF Same, Evidence, Permit, Passed, Earned, Head, Privileged

LEMMA EvidenceStays ==
  ASSUME NEW j \in Jobs, Same(j), FilesKept, HasEvidence(j)
  PROVE  HasEvidence(j)'
  BY SameBodies, JobTypes DEF HasEvidence, EvidenceOf, FilesKept

\* A job that does not move keeps its invariant, if no file of its own appears.
LEMMA JobStays ==
  ASSUME NEW j \in Jobs, JobInv(j), Same(j), FilesKept, pc'[j] = pc[j], io'[j] = io[j],
         \A n \in Places : Disk!Exists(n)' /\ ~Disk!Exists(n) => files'[n].by # j
  PROVE  JobInv(j)'
<1>1. /\ Evidence(j)' = Evidence(j) /\ Permit(j)' = Permit(j) /\ Passed(j)' = Passed(j)
      /\ Earned(j)' = Earned(j) /\ revision'[j] = revision[j]
  BY SameBodies DEF Same
<1>2. HasEvidence(j) => HasEvidence(j)'
  BY EvidenceStays
<1>3. ASSUME NEW n \in Places, NEW body, Disk!Creates(j, n, body)
      PROVE  /\ io'[j] \in {"fill", "sync", "written"} =>
                  Disk!Exists(n)' /\ files'[n].by = j /\ files'[n].body = body
             /\ io'[j] \in {"sync", "written"} => files'[n].whole
  BY <1>3 DEF Disk!Creates, FilesKept
<1>4. /\ pc[j] = "record" => Disk!Creates(j, OutOf[j]["evidence"], Evidence(j))'
      /\ pc[j] = "export" => Disk!Creates(j, OutOf[j]["permit"], Permit(j))'
  BY <1>1, <1>3, JobTypes DEF JobInv, Disk!Creates, Disk!Exists
<1>5. pc[j] \in Unwritten => \A n \in Places : Disk!Exists(n)' => files'[n].by # j
  BY DEF JobInv, FilesKept
<1>. QED
  BY <1>1, <1>2, <1>4, <1>5 DEF JobInv

\* Permits keep their job's PASS.
LEMMA PermitsStay ==
  ASSUME Inv,
         \A n \in Places : Disk!Exists(n)' =>
           Disk!Exists(n) /\ files'[n].by = files[n].by /\ files'[n].body = files[n].body,
         \A j \in Jobs : Same(j) \/ \A n \in Places : Disk!Exists(n) => files[n].by # j
  PROVE  PermitsHold'
<1>1. SUFFICES ASSUME NEW n \in Places, NEW j \in Jobs, Disk!Exists(n)',
                      files'[n].body.kind = "permit", files'[n].by = j
               PROVE  Passed(j)' /\ files'[n].body = Permit(j)'
  BY DEF PermitsHold
<1>2. Disk!Exists(n) /\ files[n].by = j /\ files'[n].body = files[n].body /\ Same(j)
  BY <1>1
<1>. QED
  BY <1>1, <1>2, SameBodies DEF Inv, PermitsHold

\* A step that moves one job, without touching a file.
LEMMA Move ==
  ASSUME Inv, TypeOK', NEW j \in Jobs, NEW next, pc' = [pc EXCEPT ![j] = next],
         UNCHANGED files, \A v \in Jobs \ {j} : Same(v) /\ io'[v] = io[v],
         Same(j) \/ pc[j] \in Unwritten,
         JobInv(j)'
  PROVE  Inv'
<1>1. /\ FilesKept
      /\ \A n \in Places : Disk!Exists(n)' =>
           Disk!Exists(n) /\ files'[n].by = files[n].by /\ files'[n].body = files[n].body
  BY DEF FilesKept, Disk!Exists
<1>2. \A v \in Jobs \ {j} : pc'[v] = pc[v] /\ JobInv(v)
  BY DEF Inv, TypeOK
<1>3. \A v \in Jobs \ {j} : JobInv(v)'
  BY <1>1, <1>2, JobStays
<1>4. \A v \in Jobs : Same(v) \/ \A n \in Places : Disk!Exists(n) => files[n].by # v
  BY DEF Inv, JobInv
<1>5. PermitsHold'
  BY <1>1, <1>4, PermitsStay
<1>. QED
  BY <1>3, <1>5 DEF Inv

\* One statement of write_new_json_file, whoever else shares the path.
LEMMA WriteMove ==
  ASSUME Inv, NEW j \in Jobs, NEW kind, NEW body,
         \/ pc[j] = "record" /\ kind = "evidence" /\ body = Evidence(j)
         \/ pc[j] = "export" /\ kind = "permit" /\ body = Permit(j),
         Disk!WriteNew(j, OutOf[j][kind], body),
         UNCHANGED <<checkout, pc, locals>>
  PROVE  /\ Inv'
         /\ \A v \in Jobs : ~HasPermit(v) /\ HasPermit(v)' => HasEvidence(v)
<1> DEFINE out == OutOf[j][kind]
<1>1. out \in Places
  BY JobTypes
<1>2. JobInv(j) /\ Disk!FilesTypeOK /\ TypeOK
  BY DEF Inv, TypeOK
<1>3. Disk!Creates(j, out, body)
  BY <1>2 DEF JobInv
<1>4. body \in EvidenceBodies \cup PermitBodies
  <2>1. CASE body = Evidence(j)
    BY <1>2, <2>1, JobTypes DEF Evidence, EvidenceBodies, TypeOK
  <2>2. CASE pc[j] = "export" /\ body = Permit(j)
    <3>1. Passed(j) /\ outcome[j].snapshot \in Snapshots /\ revision[j] \in Revisions
      BY <1>2, <2>2 DEF JobInv, HasEvidence, Earned
    <3>. QED
      BY <2>2, <3>1, JobTypes DEF Permit, PermitBodies, Snapshots
  <2>. QED
    BY <2>1, <2>2
<1>. HIDE DEF out
<1>5. /\ Disk!FilesTypeOK'
      /\ Disk!Creates(j, out, body)'
      /\ \A v \in Jobs \ {j} : io'[v] = io[v]
      /\ FilesKept
      /\ \A m \in Places : Disk!Exists(m)' /\ ~Disk!Exists(m) =>
           m = out /\ files'[m].by = j /\ files'[m].body = body
  BY <1>1, <1>2, <1>3, <1>4, Disk!WriteNewEffect DEF out, FilesKept
<1>6. TypeOK'
  BY <1>2, <1>5 DEF TypeOK, checkout, locals
<1>7. \A v \in Jobs : Same(v) /\ pc'[v] = pc[v]
  BY DEF Same, locals
<1>8. \A v \in Jobs \ {j} : JobInv(v)'
  BY <1>5, <1>7, JobStays DEF Inv
<1>9. JobInv(j)'
  <2>1. /\ Evidence(j)' = Evidence(j) /\ Permit(j)' = Permit(j) /\ Passed(j)' = Passed(j)
        /\ Earned(j)' = Earned(j) /\ revision'[j] = revision[j] /\ pc'[j] = pc[j]
    BY <1>7, SameBodies DEF Same
  <2>2. HasEvidence(j) => HasEvidence(j)'
    BY <1>5, <1>7, EvidenceStays
  <2>3. \/ pc[j] = "record" /\ body = Evidence(j) /\ out = OutOf[j]["evidence"]
        \/ pc[j] = "export" /\ body = Permit(j) /\ out = OutOf[j]["permit"]
    BY DEF out
  <2>4. /\ pc[j] = "record" => Disk!Creates(j, OutOf[j]["evidence"], Evidence(j))'
        /\ pc[j] = "export" => Disk!Creates(j, OutOf[j]["permit"], Permit(j))'
    BY <1>5, <2>1, <2>3 DEF Disk!Creates, Disk!Exists
  <2>. QED
    BY <1>2, <2>1, <2>2, <2>3, <2>4 DEF JobInv, Unwritten
<1>10. PermitsHold'
  <2>1. SUFFICES ASSUME NEW n \in Places, NEW v \in Jobs, Disk!Exists(n)',
                        files'[n].body.kind = "permit", files'[n].by = v
                 PROVE  Passed(v)' /\ files'[n].body = Permit(v)'
    BY DEF PermitsHold
  <2>2. CASE Disk!Exists(n)
    BY <1>5, <1>7, <2>1, <2>2, SameBodies DEF Inv, PermitsHold, FilesKept
  <2>3. CASE ~Disk!Exists(n)
    <3>1. v = j /\ body = files'[n].body
      BY <1>5, <2>1, <2>3
    <3>2. pc[j] = "export" /\ body = Permit(j)
      BY <2>1, <3>1 DEF Evidence
    <3>. QED
      BY <1>2, <1>7, <3>1, <3>2, SameBodies DEF JobInv, HasEvidence
  <2>. QED
    BY <2>2, <2>3
<1>11. ASSUME NEW v \in Jobs, ~HasPermit(v), HasPermit(v)' PROVE HasEvidence(v)
  <2> DEFINE n == OutOf[v]["permit"]
  <2>1. n \in Places
    BY JobTypes
  <2>2. Disk!Exists(n)' /\ files'[n].by = v /\ files'[n].body.kind = "permit"
    BY <1>11 DEF HasPermit, PermitOf, Disk!Exists
  <2>3. ~Disk!Exists(n)
    BY <1>5, <1>11, <2>1, <2>2 DEF HasPermit, PermitOf, FilesKept
  <2>4. v = j /\ files'[n].body = body
    BY <1>5, <2>1, <2>2, <2>3
  <2>5. pc[j] = "export"
    BY <2>2, <2>4 DEF Evidence
  <2>. QED
    BY <1>2, <2>4, <2>5 DEF JobInv
<1>. QED
  BY <1>6, <1>8, <1>9, <1>10, <1>11 DEF Inv

\* Any other step of a job.
LEMMA JobMove ==
  ASSUME Inv, NEW j \in Jobs,
         \/ ReadHead(j) \/ (\E named \in BOOLEAN : CheckMain(j, named)) \/ CheckClean(j)
         \/ CheckTracked(j) \/ ReadPolicy(j) \/ ReadAttestation(j)
         \/ (\E w \in Wires, exit \in {"pass", "fail", "error"} : Evaluate(j, w, exit))
         \/ EvidenceWritten(j) \/ PermitWritten(j) \/ Raises(j) \/ Crash(j)
  PROVE  Inv' /\ UNCHANGED files
<1>. USE DEF Check, Step, Goto, checkout, locals
<1>1. TypeOK /\ JobInv(j)
  BY DEF Inv
<1>2. CASE ReadHead(j)
  <2>1. PICK next \in {"main", "clean"} :
          /\ pc[j] = "head" /\ pc' = [pc EXCEPT ![j] = next]
          /\ revision' = [revision EXCEPT ![j] = commit]
          /\ UNCHANGED <<files, io, commit, origin, tree, approval, outcome, printed>>
    BY <1>2 DEF ReadHead
  <2>2. TypeOK'
    BY <1>1, <2>1 DEF TypeOK, Disk!FilesTypeOK, Statements, Unwritten
  <2>3. JobInv(j)'
    BY <1>1, <2>1 DEF JobInv, TypeOK, Passed, Disk!Exists, Unwritten
  <2>4. \A v \in Jobs \ {j} : Same(v) /\ io'[v] = io[v]
    BY <1>1, <2>1 DEF Same, TypeOK
  <2>. QED
    BY <2>1, <2>2, <2>3, <2>4, Move DEF Unwritten
<1>3. CASE (\E named \in BOOLEAN : CheckMain(j, named)) \/ CheckClean(j) \/ CheckTracked(j)
           \/ ReadPolicy(j) \/ Raises(j)
  <2>1. PICK next \in (Unwritten \ {"head"}) \cup {"blocked"} :
          /\ pc[j] \in Unwritten /\ (pc[j] = "head" => next = "blocked")
          /\ pc' = [pc EXCEPT ![j] = next]
          /\ UNCHANGED <<files, io, commit, origin, tree, revision, approval, outcome, printed>>
    BY <1>3 DEF CheckMain, CheckClean, CheckTracked, ReadPolicy, Raises, Unwritten
  <2>2. TypeOK'
    BY <1>1, <2>1 DEF TypeOK, Disk!FilesTypeOK, Statements, Unwritten, Ended
  <2>3. \A v \in Jobs : Same(v) /\ io'[v] = io[v]
    BY <2>1 DEF Same
  <2>4. JobInv(j)'
    BY <1>1, <2>1 DEF JobInv, TypeOK, Passed, Disk!Exists, Unwritten
  <2>. QED
    BY <2>1, <2>2, <2>3, <2>4, Move
<1>4. CASE ReadAttestation(j)
  <2> DEFINE record == tree.attestations[Head(j)]
  <2>1. record \in Candidate \cup {NoRecord}
    BY <1>1, JobTypes, IssuersAssumption DEF TypeOK, IssuersAssumption, Governance
  <2>2. PICK next \in {"evaluate", "blocked"} :
          /\ pc[j] = "attestation" /\ pc' = [pc EXCEPT ![j] = next]
          /\ approval' = [approval EXCEPT ![j] = record]
          /\ UNCHANGED <<files, io, commit, origin, tree, revision, outcome, printed>>
    BY <1>4 DEF ReadAttestation
  <2>. HIDE DEF record
  <2>3. TypeOK'
    BY <1>1, <2>1, <2>2 DEF TypeOK, Disk!FilesTypeOK, Statements, Unwritten, Ended
  <2>4. JobInv(j)'
    BY <1>1, <2>2 DEF JobInv, TypeOK, Passed, Disk!Exists, Unwritten
  <2>5. \A v \in Jobs \ {j} : Same(v) /\ io'[v] = io[v]
    BY <1>1, <2>2 DEF Same, TypeOK
  <2>. QED
    BY <2>2, <2>3, <2>4, <2>5, Move DEF Unwritten
<1>5. CASE \E w \in Wires, exit \in {"pass", "fail", "error"} : Evaluate(j, w, exit)
  <2>1. PICK w \in Wires, exit \in {"pass", "fail", "error"} : Evaluate(j, w, exit)
    BY <1>5
  <2>2. outcome'[j] \in Outcomes /\ (Passed(j)' => Earned(j)')
    BY <1>1, <2>1, EvaluateEarns
  <2>3. PICK new :
          /\ pc[j] = "evaluate" /\ pc' = [pc EXCEPT ![j] = "record"]
          /\ outcome' = [outcome EXCEPT ![j] = new] /\ printed' = [printed EXCEPT ![j] = w]
          /\ io' = [io EXCEPT ![j] = "probe"]
          /\ UNCHANGED <<files, commit, origin, tree, revision, approval>>
    BY <2>1 DEF Evaluate
  <2>4. TypeOK'
    BY <1>1, <2>2, <2>3 DEF TypeOK, Disk!FilesTypeOK, Disk!WriteSteps, Statements
  <2>5. (\A v \in Jobs \ {j} : Same(v) /\ io'[v] = io[v]) /\ io'[j] = "probe"
    BY <1>1, <2>3 DEF Same, TypeOK, Disk!FilesTypeOK
  <2>6. JobInv(j)'
    BY <1>1, <2>2, <2>3, <2>5 DEF JobInv, TypeOK, Unwritten, Disk!Creates
  <2>. QED
    BY <2>3, <2>4, <2>5, <2>6, Move DEF Unwritten
<1>6. CASE EvidenceWritten(j) \/ PermitWritten(j) \/ Crash(j)
  <2>1. /\ UNCHANGED <<files, commit, origin, tree, revision, approval, outcome, printed>>
        /\ \A v \in Jobs : Same(v)
        /\ \A v \in Jobs \ {j} : io'[v] = io[v]
    BY <1>1, <1>6 DEF EvidenceWritten, PermitWritten, Crash, Same, TypeOK, Disk!FilesTypeOK
  <2>2. /\ Evidence(j)' = Evidence(j) /\ Passed(j)' = Passed(j) /\ Earned(j)' = Earned(j)
    BY <2>1, SameBodies
  <2>3. PICK next \in {"export", "issued", "blocked", "crashed"} :
          /\ pc' = [pc EXCEPT ![j] = next]
          /\ \/ next # "export" /\ UNCHANGED io
             \/ /\ next = "export" /\ pc[j] = "record" /\ Recorded(j)
                /\ io' = [io EXCEPT ![j] = "probe"]
    BY <1>6 DEF EvidenceWritten, PermitWritten, Crash
  <2>4. TypeOK'
    BY <1>1, <2>1, <2>3
       DEF TypeOK, Disk!FilesTypeOK, Disk!WriteSteps, Statements, Ended
  <2>5. JobInv(j)'
    <3>1. CASE next # "export"
      BY <1>1, <2>2, <2>3, <3>1 DEF JobInv, TypeOK, Unwritten
    <3>2. CASE next = "export"
      <4>1. pc'[j] = "export" /\ io'[j] = "probe" /\ revision'[j] \in Revisions
        BY <1>1, <2>1, <2>3, <3>2 DEF JobInv, TypeOK, Disk!FilesTypeOK
      <4>2. HasEvidence(j)
        BY <1>1, <2>3, <3>2 DEF JobInv, HasEvidence, EvidenceOf, Recorded, Disk!Creates
      <4>3. HasEvidence(j)'
        BY <2>1, <2>2, <4>2 DEF HasEvidence, EvidenceOf, Disk!Exists
      <4>. QED
        BY <1>1, <2>2, <4>1, <4>3 DEF JobInv, Unwritten, Disk!Creates
    <3>. QED
      BY <3>1, <3>2
  <2>. QED
    BY <2>1, <2>3, <2>4, <2>5, Move
<1>. QED
  <2>1. UNCHANGED files
    BY DEF ReadHead, CheckMain, CheckClean, CheckTracked, ReadPolicy, ReadAttestation, Evaluate,
           EvidenceWritten, PermitWritten, Raises, Crash
  <2>. QED
    BY <1>2, <1>3, <1>4, <1>5, <1>6, <2>1

\* The host stops: every running job dies, and no file appears.
LEMMA HostFailsMove ==
  ASSUME Inv, HostFails
  PROVE  /\ Inv'
         /\ \A m \in Places : Disk!Exists(m)' =>
              Disk!Exists(m) /\ files'[m].by = files[m].by /\ files'[m].body = files[m].body
<1>1. Disk!PowerLoss /\ Disk!FilesTypeOK /\ TypeOK
  BY DEF HostFails, Inv, TypeOK
<1>2. files' \in [Places -> Disk!Present \cup {Disk!Absent}]
  BY <1>1, Disk!PowerLossEffect
<1>3. \A m \in Places : Disk!Exists(m)' =>
        Disk!Exists(m) /\ files'[m].by = files[m].by /\ files'[m].body = files[m].body
  BY <1>1, Disk!PowerLossContents
<1>4. pc' \in [Jobs -> Statements] /\ \A v \in Jobs : pc'[v] \in Ended
  BY <1>1 DEF HostFails, TypeOK, Statements, Ended
<1>5. TypeOK'
  BY <1>1, <1>2, <1>4 DEF TypeOK, Disk!FilesTypeOK, HostFails, checkout, locals
<1>6. \A v \in Jobs : Same(v)
  BY DEF HostFails, Same, locals
<1>7. \A v \in Jobs : JobInv(v)'
  <2>1. ASSUME NEW v \in Jobs PROVE Passed(v)' => Earned(v)'
    BY <1>6, SameBodies DEF Inv, JobInv
  <2>. QED
    BY <1>4, <2>1 DEF JobInv, Ended, Unwritten
<1>8. PermitsHold'
  BY <1>3, <1>6, PermitsStay
<1>. QED
  BY <1>3, <1>5, <1>7, <1>8 DEF Inv

-------------------------------------------------------------------------------
(* The invariant is inductive. *)

LEMMA InitInv == Init => Inv
<1>. SUFFICES ASSUME Init PROVE Inv
  OBVIOUS
<1>1. \A n \in Places : ~Disk!Exists(n)
  BY DEF Init, Disk!FilesInit, Disk!Exists, Disk!Absent
<1>2. Blocked(NoSnapshot) \in Outcomes /\ Blocked(NoSnapshot).decision = "blocked"
  BY DEF Blocked, Outcomes
<1>3. TypeOK
  BY <1>2 DEF Init, TypeOK, Disk!FilesInit, Disk!FilesTypeOK, Statements, Unwritten
<1>4. \A j \in Jobs : pc[j] = "head" /\ ~Passed(j)
  BY <1>2 DEF Init, Passed
<1>. QED
  BY <1>1, <1>3, <1>4 DEF Inv, JobInv, PermitsHold

\* Every step keeps the invariant, and issues no permit without its evidence.
LEMMA StepInv ==
  ASSUME Inv, [Next]_vars
  PROVE  /\ Inv'
         /\ \A j \in Jobs : ~HasPermit(j) /\ HasPermit(j)' => HasEvidence(j)
<1>1. ASSUME \A m \in Places : Disk!Exists(m)' =>
               Disk!Exists(m) /\ files'[m].by = files[m].by /\ files'[m].body = files[m].body
      PROVE  \A j \in Jobs : ~HasPermit(j) => ~HasPermit(j)'
  BY <1>1, JobTypes DEF HasPermit, PermitOf, Disk!Exists
<1>2. ASSUME NEW j \in Jobs, WriteEvidence(j) \/ WritePermit(j)
      PROVE  /\ Inv'
             /\ \A v \in Jobs : ~HasPermit(v) /\ HasPermit(v)' => HasEvidence(v)
  BY <1>2, WriteMove DEF WriteEvidence, WritePermit, Write
<1>3. ASSUME NEW j \in Jobs, Program(j) \/ Crash(j), ~WriteEvidence(j), ~WritePermit(j)
      PROVE  Inv' /\ UNCHANGED files
  BY <1>3, JobMove DEF Program
<1>4. CASE HostFails
  BY <1>1, <1>4, HostFailsMove
<1>5. CASE People \/ UNCHANGED vars
  <2>1. UNCHANGED <<files, io, pc, locals>>
    BY <1>5 DEF People, Fetch, Checkout, Edit, vars
  <2>2. TypeOK'
    BY <1>5, IssuersAssumption
       DEF Inv, TypeOK, People, Fetch, Checkout, Edit, vars, Disk!FilesTypeOK,
           IssuersAssumption, locals, checkout
  <2>3. /\ FilesKept
        /\ \A m \in Places : Disk!Exists(m)' =>
             Disk!Exists(m) /\ files'[m].by = files[m].by /\ files'[m].body = files[m].body
    BY <2>1 DEF FilesKept, Disk!Exists
  <2>4. \A v \in Jobs : Same(v) /\ pc'[v] = pc[v] /\ io'[v] = io[v]
    BY <2>1 DEF Same, locals
  <2>5. \A v \in Jobs : JobInv(v)'
    BY <2>3, <2>4, JobStays DEF Inv
  <2>6. PermitsHold'
    BY <2>3, <2>4, PermitsStay
  <2>. QED
    BY <1>1, <2>2, <2>3, <2>5, <2>6 DEF Inv
<1>6. ASSUME UNCHANGED files PROVE \A j \in Jobs : ~HasPermit(j) => ~HasPermit(j)'
  BY <1>6 DEF HasPermit, PermitOf, Disk!Exists
<1>. QED
  BY <1>2, <1>3, <1>4, <1>5, <1>6 DEF Next

LEMMA Invariance == Spec => []Inv
<1>1. Inv /\ [Next]_vars => Inv'
  BY StepInv
<1>. QED
  BY <1>1, InitInv, PTL DEF Spec

\* Type correctness: a job that issues has what a well-formed permit needs.
THEOREM IssuerTypes == Spec => []TypeOK
<1>1. Inv => TypeOK
  BY DEF Inv
<1>. QED
  BY <1>1, Invariance, PTL

\* A permit is for the candidate the runtime examined and passed, or failed on nothing
\* but privilege that is attested for exactly its base and files: for any results, any
\* edits of the working tree, and any sharing of output paths.
THEOREM PermitsAreEarned == Spec => []PermitIsEarned
<1>1. Inv => PermitIsEarned
  <2> SUFFICES ASSUME Inv, NEW j \in Jobs, HasPermit(j)
               PROVE  LET w        == printed[j]
                          failures == w.evaluator \cup w.runtime IN
                      /\ PermitOf(j).body.head = w.manifest.head
                      /\ PermitOf(j).body.base = w.manifest.base
                      /\ IF Privileged(j)
                         THEN /\ failures # {} /\ failures \subseteq PrivilegeBlockers
                              /\ approval[j] = w.manifest
                         ELSE failures = {}
    BY DEF PermitIsEarned
  <2>1. Passed(j) /\ PermitOf(j).body = Permit(j)
    BY JobTypes DEF Inv, PermitsHold, HasPermit, PermitOf
  <2>2. Earned(j)
    BY <2>1 DEF Inv, JobInv
  <2>. QED
    BY <2>1, <2>2 DEF Earned, Permit
<1>. QED
  BY <1>1, Invariance, PTL

\* A permit comes into being only beside the whole evidence of its PASS, whatever
\* fails, crashes or shares the paths.
THEOREM PermitsFollowEvidence == Spec => PermitFollowsEvidence
<1>1. Inv /\ [Next]_vars => [\A j \in Jobs : ~HasPermit(j) /\ HasPermit(j)' => HasEvidence(j)]_vars
  BY StepInv
<1>. QED
  BY <1>1, Invariance, PTL DEF Spec, PermitFollowsEvidence

===============================================================================
