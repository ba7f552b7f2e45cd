--------------------------- MODULE PreparationProofs ---------------------------
(***************************************************************************)
(* Proofs about PermitPreparation, PublicationBundles and EndToEnd, for any *)
(* number of jobs, any output paths (shared ones included), any history of  *)
(* the Authority and any results of the runtimes.                           *)
(***************************************************************************)
EXTENDS EndToEnd, PreparationRefinement, TLAPS

Late == {"record", "receipt", "gate", "export"}

-------------------------------------------------------------------------------
(* The inductive invariant, job by job. *)

\* What a job has read so far.
Bound(j) ==
  /\ pc[j] \in (Unwritten \ {"policy"}) \cup Late =>
       policy[j] \in (IF Mode(j) = "attested" THEN Packages ELSE Heads)
  /\ pc[j] \in (Unwritten \ {"policy", "head"}) \cup Late => revision[j] \in Revisions
  /\ Passed(j) => result[j].snapshot \in Snapshots /\ result[j].raw \in Wires

\* A job owns nothing before its first write, and what it writes is its own.
Writing(j) ==
  /\ pc[j] \in Unwritten => \A n \in Places : Disk!Exists(n) => files[n].by # j
  /\ pc[j] = "record"  => Disk!Holds(j, OutOf[j]["evidence"])
  /\ pc[j] = "receipt" => Disk!Holds(j, OutOf[j]["receipt"])
  /\ pc[j] = "export"  => Disk!Holds(j, OutOf[j]["permit"])

\* What it has written, from the moment _write_bound returns.
Written(j) ==
  /\ pc[j] \in {"receipt", "gate", "export"} => Passed(j)
  /\ \/ pc[j] = "record" /\ io[j] = "written"
     \/ pc[j] \in {"receipt", "gate", "export"}
     => Owns(j, "evidence", Evidence(j))
  /\ \/ pc[j] = "receipt" /\ io[j] = "written"
     \/ pc[j] \in {"gate", "export"}
     => Owns(j, "receipt", Receipt(j))

JobInv(j) == Bound(j) /\ Writing(j) /\ Written(j)

Inv == TypeOK /\ (\A j \in Jobs : JobInv(j)) /\ PermitFollowsRecord

-------------------------------------------------------------------------------
LEMMA JobTypes ==
  ASSUME NEW j \in Jobs
  PROVE  /\ Mode(j) \in Modes /\ Head(j) \in Heads
         /\ \A kind \in Kinds : OutOf[j][kind] \in Places
  BY PreparationAssumption DEF PreparationAssumption, Mode, Head

\* An accepted result of either runtime, and what the service makes of it.
LEMMA AnswerType ==
  ASSUME NEW j \in Jobs, NEW w \in Wires, NEW exit,
         w.kind = (IF Mode(j) = "attested" THEN "attested" ELSE "promoted"),
         Answer(j, w, exit) # Rejected
  PROVE  /\ Answer(j, w, exit).decision \in {"pass", "fail"}
         /\ Answer(j, w, exit).reasons \subseteq Reasons
         /\ Answer(j, w, exit).snapshot \in Snapshots
         /\ Kept(j, w, exit, Answer(j, w, exit)) = w
<1> DEFINE x == Answer(j, w, exit)
<1>1. \A c \in Candidate : Snapshot(c) \in Snapshots
  BY DEF Candidate, Snapshot, Snapshots
<1>2. CASE Mode(j) = "attested"
  <2>1. w \in AttestedResult
    BY <1>2, PreparationAssumption DEF PreparationAssumption, AttestedResult, PromotedResult
  <2>2. x = ParseAttested(w, Head(j)) /\ x # Rejected
    BY <1>2 DEF Answer
  <2>3. x = [decision |-> w.verdict, reasons |-> w.reasons, snapshot |-> Snapshot(w.manifest)]
    BY <2>2 DEF ParseAttested
  <2>. HIDE DEF x
  <2>4. /\ x.decision \in {"pass", "fail"} /\ x.reasons \subseteq Reasons
        /\ x.snapshot \in Snapshots
    BY <1>1, <2>1, <2>3 DEF AttestedResult
  <2>. QED
    BY <1>2, <2>2, <2>4 DEF Kept, x
<1>3. CASE Mode(j) # "attested"
  <2>1. x = BootstrapResult(w, Head(j), approval[j]) /\ x # Rejected
        /\ exit = "fail" /\ Head(j) # SourceOf(j)
    BY <1>3 DEF Answer
  <2>2. w \in PromotedResult
    BY <1>3, PreparationAssumption DEF PreparationAssumption, AttestedResult, PromotedResult
  <2> DEFINE o == ParsePromoted(w, Head(j))
  <2>3. /\ o.decision = "fail"
        /\ x = [decision |-> "pass", reasons |-> {}, snapshot |-> o.snapshot]
    BY <2>1 DEF BootstrapResult, Authorize
  <2>4. o = [decision |-> w.verdict, reasons |-> w.evaluator \cup w.runtime,
             snapshot |-> Snapshot(w.manifest)]
    BY <2>3 DEF ParsePromoted, Rejected
  <2>5. o.snapshot = Snapshot(w.manifest)
    BY <2>4
  <2>. HIDE DEF x, o
  <2>6. /\ x.decision \in {"pass", "fail"} /\ x.reasons \subseteq Reasons
        /\ x.snapshot \in Snapshots
    BY <1>1, <2>2, <2>3, <2>5 DEF PromotedResult
  <2>. QED
    BY <1>3, <2>1, <2>6 DEF Kept, x
<1>. QED
  BY <1>2, <1>3

LEMMA EvaluateType ==
  ASSUME TypeOK, NEW j \in Jobs, NEW w \in Wires, NEW exit, Evaluate(j, w, exit)
  PROVE  result'[j] \in Results
         /\ (Passed(j)' => result'[j].snapshot \in Snapshots /\ result'[j].raw \in Wires)
<1> DEFINE x == Answer(j, w, exit)
<1> DEFINE record == Judge(Head(j), x)
<1> DEFINE new == [decision |-> record.decision, reasons |-> record.reasons,
                   snapshot |-> record.snapshot, raw |-> Kept(j, w, exit, x)]
<1>1. /\ result'[j] = new
      /\ w.kind = (IF Mode(j) = "attested" THEN "attested" ELSE "promoted")
  BY DEF Evaluate, TypeOK
<1>2. Kept(j, w, exit, x) \in Wires \cup {NoRaw}
  BY DEF Kept
<1>3. CASE x = Rejected
  <2>1. record = Blocked(NoSnapshot)
    BY <1>3 DEF Judge
  <2>2. /\ record.decision = "blocked" /\ record.reasons = {}
        /\ record.snapshot = NoSnapshot
    BY <2>1 DEF Blocked
  <2>. HIDE DEF record, x
  <2>. QED
    BY <1>1, <1>2, <2>2 DEF Results, Passed
<1>4. CASE x # Rejected
  <2>1. /\ x.decision \in {"pass", "fail"} /\ x.reasons \subseteq Reasons
        /\ x.snapshot \in Snapshots /\ Kept(j, w, exit, x) = w
    BY <1>1, <1>4, AnswerType
  <2>. HIDE DEF x
  <2>2. record \in {Blocked(x.snapshot), x}
    BY <1>4 DEF Judge
  <2>3. /\ record.decision \in {"pass", "fail", "blocked"} /\ record.reasons \subseteq Reasons
        /\ record.snapshot \in Snapshots
    BY <2>1, <2>2 DEF Blocked
  <2>. HIDE DEF record
  <2>. QED
    BY <1>1, <2>1, <2>3 DEF Results, Passed
<1>. QED
  BY <1>3, <1>4

\* The files a job writes are well-formed.
LEMMA BodyTypes ==
  ASSUME Inv, NEW j \in Jobs, pc[j] \in Late
  PROVE  /\ Evidence(j) \in EvidenceBodies
         /\ Passed(j) => Permit(j) \in PermitBodies /\ Receipt(j) \in ReceiptBodies
<1>1. /\ Mode(j) \in Modes /\ Head(j) \in Heads
      /\ policy[j] \in (IF Mode(j) = "attested" THEN Packages ELSE Heads)
      /\ revision[j] \in Revisions
      /\ approval[j] \in Candidate \cup {NoRecord}
      /\ result[j] \in Results
  BY JobTypes DEF Inv, JobInv, Bound, TypeOK
<1>2. SourceOf(j) \in Sources
  BY <1>1 DEF SourceOf, Sources
<1>3. Evidence(j) \in EvidenceBodies
  BY <1>1, <1>2 DEF Evidence, EvidenceBodies, Modes
<1>4. ASSUME Passed(j) PROVE Permit(j) \in PermitBodies /\ Receipt(j) \in ReceiptBodies
  <2>1. result[j].snapshot \in Snapshots /\ result[j].raw \in Wires
    BY <1>4 DEF Inv, JobInv, Bound
  <2>2. Permit(j) \in PermitBodies
    BY <1>1, <1>2, <2>1 DEF Permit, PermitBodies, Snapshots
  <2>. QED
    BY <1>1, <1>3, <2>1, <2>2 DEF Receipt, ReceiptBodies
<1>. QED
  BY <1>3, <1>4

-------------------------------------------------------------------------------
(* What does not change. *)

\* The locals of a job.
Same(j) == /\ policy'[j] = policy[j] /\ revision'[j] = revision[j]
           /\ approval'[j] = approval[j] /\ result'[j] = result[j]

\* A step leaves existing files with their contents, and durable ones altogether.
FilesKept ==
  /\ \A n \in Places : Disk!Durable(n) => files'[n] = files[n]
  /\ \A n \in Places : Disk!Exists(n) /\ Disk!Exists(n)' =>
       files'[n].by = files[n].by /\ files'[n].body = files[n].body

LEMMA SameBodies ==
  ASSUME NEW j \in Jobs, Same(j)
  PROVE  /\ Evidence(j)' = Evidence(j) /\ Permit(j)' = Permit(j)
         /\ Receipt(j)' = Receipt(j) /\ Passed(j)' = Passed(j)
<1>1. Evidence(j)' = Evidence(j) /\ Permit(j)' = Permit(j)
  BY DEF Same, Evidence, Permit, SourceOf
<1>. QED
  BY <1>1 DEF Same, Receipt, Passed

LEMMA OwnedStays ==
  ASSUME NEW j \in Jobs, Same(j), FilesKept
  PROVE  /\ Owns(j, "evidence", Evidence(j)) => Owns(j, "evidence", Evidence(j))'
         /\ Owns(j, "receipt", Receipt(j)) => Owns(j, "receipt", Receipt(j))'
<1>1. OutOf[j]["evidence"] \in Places /\ OutOf[j]["receipt"] \in Places
  BY JobTypes DEF Kinds
<1>. QED
  BY <1>1, SameBodies DEF Owns, FilesKept, Disk!Durable

\* Permits that were there before keep their evidence and receipt.
LEMMA PermitsStay ==
  ASSUME Inv, FilesKept,
         \A j \in Jobs : Same(j) \/ \A n \in Places : Disk!Exists(n) => files[n].by # j,
         \A n \in Places, j \in Jobs :
           /\ Disk!Exists(n)' /\ ~Disk!Exists(n)
           /\ files'[n].body.kind = "permit" /\ files'[n].by = j
           => /\ Same(j) /\ Passed(j) /\ files'[n].body = Permit(j)
              /\ Owns(j, "evidence", Evidence(j)) /\ Owns(j, "receipt", Receipt(j))
  PROVE  PermitFollowsRecord'
<1>1. SUFFICES ASSUME NEW n \in Places, NEW j \in Jobs,
                      Disk!Exists(n)', files'[n].body.kind = "permit", files'[n].by = j
               PROVE  /\ Passed(j)' /\ files'[n].body = Permit(j)'
                      /\ Owns(j, "evidence", Evidence(j))'
                      /\ Owns(j, "receipt", Receipt(j))'
  BY DEF PermitFollowsRecord
<1>2. /\ Same(j) /\ Passed(j) /\ files'[n].body = Permit(j)
      /\ Owns(j, "evidence", Evidence(j)) /\ Owns(j, "receipt", Receipt(j))
  <2>1. CASE Disk!Exists(n)
    <3>1. files'[n].by = files[n].by /\ files'[n].body = files[n].body
      BY <1>1, <2>1 DEF FilesKept
    <3>. QED
      BY <1>1, <2>1, <3>1 DEF Inv, PermitFollowsRecord
  <2>2. CASE ~Disk!Exists(n)
    BY <1>1, <2>2
  <2>. QED
    BY <2>1, <2>2
<1>. QED
  BY <1>2, SameBodies, OwnedStays

\* A step of one job that touches no file leaves the other jobs alone.
LEMMA OtherJobs ==
  ASSUME Inv, NEW j \in Jobs, NEW next, pc' = [pc EXCEPT ![j] = next], UNCHANGED files,
         \A v \in Jobs \ {j} : Same(v) /\ io'[v] = io[v]
  PROVE  \A v \in Jobs \ {j} : JobInv(v)'
<1>1. SUFFICES ASSUME NEW v \in Jobs \ {j} PROVE JobInv(v)'
  OBVIOUS
<1>2. Same(v) /\ io'[v] = io[v] /\ pc'[v] = pc[v] /\ JobInv(v)
  BY <1>1 DEF Inv, TypeOK
<1>3. Evidence(v)' = Evidence(v) /\ Receipt(v)' = Receipt(v) /\ Passed(v)' = Passed(v)
  BY <1>2, SameBodies
<1>4. Bound(v)'
  BY <1>2, <1>3 DEF JobInv, Bound, Same
<1>5. Writing(v)'
  BY <1>2 DEF JobInv, Writing, Disk!Holds, Disk!Exists, Disk!Durable
<1>6. Written(v)'
  BY <1>2, <1>3 DEF JobInv, Written, Owns, Disk!Durable
<1>. QED
  BY <1>4, <1>5, <1>6 DEF JobInv

\* A step before the first write.
LEMMA EarlyMove ==
  ASSUME Inv, TypeOK', NEW j \in Jobs, NEW next \in Unwritten \cup {"record", "blocked"},
         pc[j] \in Unwritten, pc' = [pc EXCEPT ![j] = next], UNCHANGED files,
         \A v \in Jobs \ {j} : Same(v) /\ io'[v] = io[v],
         next = "record" => io'[j] = "probe",
         Bound(j)'
  PROVE  Inv'
<1>1. \A v \in Jobs \ {j} : JobInv(v)'
  BY OtherJobs
<1>2. pc'[j] = next /\ \A n \in Places : Disk!Exists(n) => files[n].by # j
  BY DEF Inv, TypeOK, JobInv, Writing
<1>3. Writing(j)' /\ Written(j)'
  BY <1>2 DEF Writing, Written, Unwritten, Disk!Exists, Disk!Holds
<1>4. FilesKept
  BY DEF FilesKept
<1>5. PermitFollowsRecord'
  BY <1>2, <1>4, PermitsStay DEF Disk!Exists
<1>. QED
  BY <1>1, <1>3, <1>5 DEF Inv, JobInv

\* A step from the first write on that writes nothing itself.
LEMMA LateMove ==
  ASSUME Inv, TypeOK', NEW j \in Jobs, NEW next \in Late \cup Ended,
         pc' = [pc EXCEPT ![j] = next], UNCHANGED files,
         \A v \in Jobs : Same(v), \A v \in Jobs \ {j} : io'[v] = io[v],
         Bound(j)', Writing(j)', Written(j)'
  PROVE  Inv'
<1>1. \A v \in Jobs \ {j} : JobInv(v)'
  BY OtherJobs
<1>2. FilesKept
  BY DEF FilesKept
<1>3. PermitFollowsRecord'
  BY <1>2, PermitsStay DEF Disk!Exists
<1>. QED
  BY <1>1, <1>3 DEF Inv, JobInv

-------------------------------------------------------------------------------
(* Writing. *)

\* One statement of _write_bound, whoever else shares the path.
LEMMA WriteMove ==
  ASSUME Inv, NEW j \in Jobs, NEW kind \in Kinds, NEW body,
         \/ pc[j] = "record" /\ kind = "evidence" /\ body = Evidence(j)
         \/ pc[j] = "receipt" /\ kind = "receipt" /\ body = Receipt(j)
         \/ pc[j] = "export" /\ kind = "permit" /\ body = Permit(j),
         Disk!WriteBound(j, OutOf[j][kind], body),
         UNCHANGED <<checkout, pc, locals>>
  PROVE  Inv'
<1> DEFINE out == OutOf[j][kind]
<1>1. out \in Places
  BY JobTypes
<1>2. JobInv(j) /\ Disk!FilesTypeOK /\ TypeOK
  BY DEF Inv, TypeOK
<1>3. Disk!Holds(j, out)
  BY <1>2 DEF JobInv, Writing
<1>4. body \in EvidenceBodies \cup PermitBodies \cup ReceiptBodies
  BY <1>2, BodyTypes DEF JobInv, Written, Late
<1>. HIDE DEF out
<1>5. /\ Disk!FilesTypeOK' /\ Disk!Holds(j, out)'
      /\ \A v \in Jobs \ {j} : io'[v] = io[v]
      /\ \A m \in Places : m # out \/ Disk!Durable(m) => files'[m] = files[m]
  BY <1>1, <1>2, <1>3, <1>4, Disk!WriteBoundEffect DEF out
<1>6. /\ \A m \in Places : Disk!Exists(m) =>
           Disk!Exists(m)' /\ files'[m].by = files[m].by /\ files'[m].body = files[m].body
      /\ \A m \in Places : Disk!Exists(m)' /\ ~Disk!Exists(m) =>
           m = out /\ files'[m].by = j /\ files'[m].body = body
      /\ io'[j] = "written" =>
           Disk!Durable(out)' /\ files'[out].by = j /\ files'[out].body = body
  BY <1>1, <1>2, <1>3, <1>4, Disk!WriteBoundContents DEF out
<1>7. \A v \in Jobs \ {j}, m \in Places : Disk!Holds(v, m) => Disk!Holds(v, m)'
  BY <1>1, <1>2, <1>3, <1>4, Disk!HoldsStable DEF out
<1>8. TypeOK'
  BY <1>2, <1>5 DEF TypeOK, checkout, locals
<1>9. \A v \in Jobs : Same(v) /\ pc'[v] = pc[v]
  BY DEF Same, locals
<1>10. FilesKept
  BY <1>5, <1>6 DEF FilesKept
<1>11. ASSUME NEW v \in Jobs PROVE JobInv(v)'
  <2>1. JobInv(v) /\ Same(v) /\ pc'[v] = pc[v]
    BY <1>9 DEF Inv
  <2>2. Evidence(v)' = Evidence(v) /\ Receipt(v)' = Receipt(v) /\ Passed(v)' = Passed(v)
    BY <2>1, SameBodies
  <2>3. Bound(v)'
    BY <2>1, <2>2 DEF JobInv, Bound, Same
  <2>4. Writing(v)'
    <3>1. pc[v] \in Unwritten => \A n \in Places : Disk!Exists(n)' => files'[n].by # v
      <4>1. pc[j] \notin Unwritten
        BY DEF Unwritten
      <4>. QED
        BY <1>6, <2>1, <4>1 DEF JobInv, Writing
    <3>2. ASSUME NEW k \in Kinds, Disk!Holds(v, OutOf[v][k]), v = j => k = kind
          PROVE  Disk!Holds(v, OutOf[v][k])'
      BY <1>5, <1>7, <3>2, JobTypes DEF out
    <3>3. /\ pc[v] = "record"  => Disk!Holds(v, OutOf[v]["evidence"])'
          /\ pc[v] = "receipt" => Disk!Holds(v, OutOf[v]["receipt"])'
          /\ pc[v] = "export"  => Disk!Holds(v, OutOf[v]["permit"])'
      BY <2>1, <3>2 DEF JobInv, Writing, Kinds
    <3>. QED
      BY <2>1, <3>1, <3>3 DEF Writing
  <2>5. Written(v)'
    <3>1. /\ Owns(v, "evidence", Evidence(v)) => Owns(v, "evidence", Evidence(v))'
          /\ Owns(v, "receipt", Receipt(v)) => Owns(v, "receipt", Receipt(v))'
      BY <1>10, <2>1, OwnedStays
    <3>2. CASE v = j
      <4>1. /\ pc[v] = "record" /\ io'[v] = "written" => Owns(v, "evidence", Evidence(v))'
            /\ pc[v] = "receipt" /\ io'[v] = "written" => Owns(v, "receipt", Receipt(v))'
        BY <1>6, <2>2, <3>2 DEF Owns, out
      <4>. QED
        BY <2>1, <2>2, <3>1, <4>1 DEF JobInv, Written
    <3>3. CASE v # j
      BY <1>5, <2>1, <2>2, <3>1, <3>3 DEF JobInv, Written
    <3>. QED
      BY <3>2, <3>3
  <2>. QED
    BY <2>3, <2>4, <2>5 DEF JobInv
<1>12. PermitFollowsRecord'
  <2>1. ASSUME NEW n \in Places, NEW v \in Jobs, Disk!Exists(n)', ~Disk!Exists(n),
               files'[n].body.kind = "permit", files'[n].by = v
        PROVE  /\ Passed(v) /\ files'[n].body = Permit(v)
               /\ Owns(v, "evidence", Evidence(v)) /\ Owns(v, "receipt", Receipt(v))
    <3>1. v = j /\ files'[n].body = body
      BY <1>6, <2>1
    <3>2. body.kind = "permit"
      BY <2>1, <3>1
    <3>3. pc[j] = "export" /\ body = Permit(j)
      BY <3>2 DEF Evidence, Receipt
    <3>. QED
      BY <1>2, <3>1, <3>3 DEF JobInv, Written
  <2>. QED
    BY <1>9, <1>10, <2>1, PermitsStay
<1>. QED
  BY <1>8, <1>11, <1>12 DEF Inv

\* The host stops: every running job dies, every durable file stays.
LEMMA HostFailsMove ==
  ASSUME Inv, HostFails
  PROVE  Inv'
<1>1. Disk!PowerLoss /\ Disk!FilesTypeOK /\ TypeOK
  BY DEF HostFails, Inv, TypeOK
<1>2. /\ files' \in [Places -> Disk!Present \cup {Disk!Absent}]
      /\ \A m \in Places : Disk!Durable(m) => files'[m] = files[m]
  BY <1>1, Disk!PowerLossEffect
<1>3. \A m \in Places : Disk!Exists(m)' =>
        Disk!Exists(m) /\ files'[m].by = files[m].by /\ files'[m].body = files[m].body
  BY <1>1, Disk!PowerLossContents
<1>4. pc' \in [Jobs -> Statements] /\ \A v \in Jobs : pc'[v] \in Ended
  BY <1>1 DEF HostFails, TypeOK, Statements, Ended
<1>5. TypeOK'
  BY <1>1, <1>2, <1>4 DEF TypeOK, Disk!FilesTypeOK, HostFails, checkout, locals
<1>6. \A v \in Jobs : Same(v)
  BY DEF HostFails, Same, locals
<1>7. FilesKept
  BY <1>2, <1>3 DEF FilesKept
<1>8. ASSUME NEW v \in Jobs PROVE JobInv(v)'
  <2>1. Bound(v)'
    <3>1. Bound(v) /\ Passed(v)' = Passed(v)
      BY <1>6, SameBodies DEF Inv, JobInv
    <3>. QED
      BY <1>4, <1>6, <3>1 DEF Bound, Same, Ended, Unwritten, Late
  <2>2. Writing(v)' /\ Written(v)'
    BY <1>4 DEF Writing, Written, Ended, Unwritten
  <2>. QED
    BY <2>1, <2>2 DEF JobInv
<1>9. PermitFollowsRecord'
  BY <1>3, <1>6, <1>7, PermitsStay
<1>. QED
  BY <1>5, <1>8, <1>9 DEF Inv

\* What people do to the checkout is read by jobs, and changes nothing they have.
LEMMA PeopleMove ==
  ASSUME Inv, TypeOK', UNCHANGED <<files, io, pc, locals>>
  PROVE  Inv'
<1>1. \A v \in Jobs : Same(v) /\ pc'[v] = pc[v] /\ io'[v] = io[v]
  BY DEF Same, locals
<1>2. FilesKept
  BY DEF FilesKept
<1>3. ASSUME NEW v \in Jobs PROVE JobInv(v)'
  <2>1. /\ Evidence(v)' = Evidence(v) /\ Receipt(v)' = Receipt(v) /\ Passed(v)' = Passed(v)
        /\ JobInv(v)
    BY <1>1, SameBodies DEF Inv
  <2>2. Bound(v)' /\ Written(v)'
    BY <1>1, <2>1 DEF JobInv, Bound, Written, Same, Owns, Disk!Durable
  <2>3. Writing(v)'
    BY <1>1, <2>1 DEF JobInv, Writing, Disk!Holds, Disk!Exists, Disk!Durable
  <2>. QED
    BY <2>2, <2>3 DEF JobInv
<1>4. PermitFollowsRecord'
  BY <1>1, <1>2, PermitsStay DEF Disk!Exists
<1>. QED
  BY <1>3, <1>4 DEF Inv

-------------------------------------------------------------------------------
(* The invariant is inductive. *)

LEMMA InitInv == Init => Inv
<1>. SUFFICES ASSUME Init PROVE Inv
  OBVIOUS
<1>1. \A n \in Places : ~Disk!Exists(n)
  BY DEF Init, Disk!FilesInit, Disk!Exists, Disk!Absent
<1>2. NoResult \in Results
  BY DEF NoResult, Results
<1>3. TypeOK
  BY <1>2, PreparationAssumption
     DEF PreparationAssumption, Init, TypeOK, Disk!FilesInit, Disk!FilesTypeOK, Statements,
         Unwritten
<1>4. ASSUME NEW j \in Jobs PROVE JobInv(j)
  <2>1. pc[j] = "policy" /\ ~Passed(j)
    BY DEF Init, Passed, NoResult
  <2>. QED
    BY <1>1, <2>1 DEF JobInv, Bound, Writing, Written, Late
<1>. QED
  BY <1>1, <1>3, <1>4 DEF Inv, PermitFollowsRecord

\* The statements before the first write.
LEMMA Reading ==
  ASSUME Inv, NEW j \in Jobs,
         \/ ReadPolicy(j) \/ ReadHead(j) \/ (\E named \in BOOLEAN : CheckMain(j, named))
         \/ CheckClean(j) \/ ReadCommitted(j)
         \/ (\E w \in Wires, exit \in {"pass", "fail", "error"} : Evaluate(j, w, exit))
  PROVE  Inv'
<1>. USE DEF Check, Step, Goto, checkout, locals
<1>1. TypeOK /\ Bound(j) /\ Mode(j) \in Modes /\ Head(j) \in Heads
  BY JobTypes DEF Inv, JobInv
<1>2. tree \in Governance /\ \A r \in Revisions : GovernanceOf[r] \in Governance
  BY <1>1, PreparationAssumption DEF PreparationAssumption, TypeOK
<1>3. CASE ReadPolicy(j)
  <2> DEFINE found == IF Mode(j) = "attested" THEN tree.package ELSE tree.bootstrap
             ok == found # None /\ (Mode(j) = "bootstrap" => found = Head(j))
             next == IF ok THEN "head" ELSE "blocked"
  <2>1. /\ found \in Packages \cup Heads \cup {None}
        /\ ok => found \in (IF Mode(j) = "attested" THEN Packages ELSE Heads)
    BY <1>1, <1>2 DEF Governance, Modes
  <2>2. /\ pc[j] = "policy" /\ pc' = [pc EXCEPT ![j] = next]
        /\ policy' = [policy EXCEPT ![j] = found]
        /\ UNCHANGED <<files, io, commit, origin, tree, revision, approval, result>>
    BY <1>3 DEF ReadPolicy
  <2>. HIDE DEF found
  <2>3. TypeOK'
    BY <1>1, <2>1, <2>2 DEF TypeOK, Disk!FilesTypeOK, Statements, Unwritten, Ended
  <2>4. Bound(j)'
    BY <1>1, <2>1, <2>2 DEF Bound, TypeOK, Passed, Unwritten, Late
  <2>5. \A v \in Jobs \ {j} : Same(v) /\ io'[v] = io[v]
    BY <1>1, <2>2 DEF Same, TypeOK
  <2>. QED
    BY <2>2, <2>3, <2>4, <2>5, EarlyMove DEF Unwritten
<1>4. CASE ReadHead(j)
  <2>1. /\ pc[j] = "head" /\ pc' = [pc EXCEPT ![j] = "main"]
        /\ revision' = [revision EXCEPT ![j] = commit]
        /\ UNCHANGED <<files, io, commit, origin, tree, policy, approval, result>>
    BY <1>4 DEF ReadHead
  <2>2. TypeOK'
    BY <1>1, <2>1 DEF TypeOK, Disk!FilesTypeOK, Statements, Unwritten
  <2>3. Bound(j)'
    BY <1>1, <2>1 DEF Bound, TypeOK, Passed, Unwritten, Late
  <2>4. \A v \in Jobs \ {j} : Same(v) /\ io'[v] = io[v]
    BY <1>1, <2>1 DEF Same, TypeOK
  <2>. QED
    BY <2>1, <2>2, <2>3, <2>4, EarlyMove DEF Unwritten
<1>5. CASE (\E named \in BOOLEAN : CheckMain(j, named)) \/ CheckClean(j)
  <2>1. PICK next \in {"clean", "evaluate", "committed", "blocked"} :
          /\ pc[j] \in {"main", "clean"} /\ pc' = [pc EXCEPT ![j] = next]
          /\ UNCHANGED <<files, io, commit, origin, tree, policy, revision, approval, result>>
    BY <1>5 DEF CheckMain, CheckClean
  <2>2. TypeOK'
    BY <1>1, <2>1 DEF TypeOK, Disk!FilesTypeOK, Statements, Unwritten, Ended
  <2>3. Bound(j)'
    BY <1>1, <2>1 DEF Bound, TypeOK, Passed, Unwritten, Late
  <2>4. \A v \in Jobs \ {j} : Same(v) /\ io'[v] = io[v]
    BY <2>1 DEF Same
  <2>. QED
    BY <2>1, <2>2, <2>3, <2>4, EarlyMove DEF Unwritten
<1>6. CASE ReadCommitted(j)
  <2> DEFINE found == Committed(j).attestations[Head(j)]
  <2>1. pc[j] = "committed" /\ revision[j] \in Revisions
    BY <1>1, <1>6 DEF ReadCommitted, Bound, Unwritten
  <2>2. found \in Candidate \cup {NoRecord}
    BY <1>1, <1>2, <2>1 DEF Committed, Governance
  <2>3. PICK next \in {"evaluate", "blocked"} :
          /\ pc' = [pc EXCEPT ![j] = next] /\ approval' = [approval EXCEPT ![j] = found]
          /\ UNCHANGED <<files, io, commit, origin, tree, policy, revision, result>>
    BY <1>6 DEF ReadCommitted
  <2>. HIDE DEF found
  <2>4. TypeOK'
    BY <1>1, <2>2, <2>3 DEF TypeOK, Disk!FilesTypeOK, Statements, Unwritten, Ended
  <2>5. Bound(j)'
    BY <1>1, <2>1, <2>3 DEF Bound, TypeOK, Passed, Unwritten, Late
  <2>6. \A v \in Jobs \ {j} : Same(v) /\ io'[v] = io[v]
    BY <1>1, <2>3 DEF Same, TypeOK
  <2>. QED
    BY <2>1, <2>3, <2>4, <2>5, <2>6, EarlyMove DEF Unwritten
<1>7. CASE \E w \in Wires, exit \in {"pass", "fail", "error"} : Evaluate(j, w, exit)
  <2>1. PICK w \in Wires, exit \in {"pass", "fail", "error"} : Evaluate(j, w, exit)
    BY <1>7
  <2>2. result'[j] \in Results
        /\ (Passed(j)' => result'[j].snapshot \in Snapshots /\ result'[j].raw \in Wires)
    BY <1>1, <2>1, EvaluateType
  <2>3. PICK new : \E next \in {"record", "blocked"} :
          /\ pc[j] = "evaluate" /\ pc' = [pc EXCEPT ![j] = next]
          /\ result' = [result EXCEPT ![j] = new] /\ io' = [io EXCEPT ![j] = "probe"]
          /\ UNCHANGED <<files, commit, origin, tree, policy, revision, approval>>
    BY <2>1 DEF Evaluate
  <2>4. TypeOK'
    BY <1>1, <2>2, <2>3 DEF TypeOK, Disk!FilesTypeOK, Disk!WriteSteps, Statements, Ended
  <2>5. Bound(j)'
    BY <1>1, <2>2, <2>3 DEF Bound, TypeOK, Unwritten, Late
  <2>6. (\A v \in Jobs \ {j} : Same(v) /\ io'[v] = io[v]) /\ io'[j] = "probe"
    BY <1>1, <2>3 DEF Same, TypeOK, Disk!FilesTypeOK
  <2>. QED
    BY <2>3, <2>4, <2>5, <2>6, EarlyMove DEF Unwritten
<1>. QED
  BY <1>3, <1>4, <1>5, <1>6, <1>7

\* The statements that answer a write, the gate, and the ends.
LEMMA Answering ==
  ASSUME Inv, NEW j \in Jobs,
         \/ EvidenceWritten(j) \/ ReceiptWritten(j) \/ PermitWritten(j)
         \/ (\E cloned \in BOOLEAN : PassGate(j, cloned)) \/ Raises(j) \/ Crash(j)
  PROVE  Inv'
<1>. USE DEF Step, Goto, checkout, locals
<1>1. TypeOK /\ JobInv(j)
  BY DEF Inv
<1>2. /\ UNCHANGED <<files, policy, revision, approval, result, commit, origin, tree>>
      /\ \A v \in Jobs : Same(v)
  BY DEF EvidenceWritten, ReceiptWritten, PermitWritten, Wrote, PassGate, Raises, Crash, Same
<1>3. /\ Passed(j)' = Passed(j)
      /\ Owns(j, "evidence", Evidence(j))' <=> Owns(j, "evidence", Evidence(j))
      /\ Owns(j, "receipt", Receipt(j))' <=> Owns(j, "receipt", Receipt(j))
  BY <1>2, SameBodies DEF Owns, Disk!Durable
<1>4. CASE \E next \in Late \cup Ended :
             /\ pc[j] \in Late /\ next \in Ended
             /\ pc' = [pc EXCEPT ![j] = next]
             /\ io' \in {io, [io EXCEPT ![j] = io[j]]}
  <2>1. PICK next \in Ended : pc[j] \in Late /\ pc' = [pc EXCEPT ![j] = next]
    BY <1>4
  <2>2. TypeOK' /\ \A v \in Jobs : io'[v] = io[v]
    BY <1>1, <1>2, <1>4, <2>1 DEF TypeOK, Disk!FilesTypeOK, Statements
  <2>3. Bound(j)' /\ Writing(j)' /\ Written(j)'
    BY <1>1, <1>2, <1>3, <2>1
       DEF TypeOK, JobInv, Bound, Writing, Written, Ended, Unwritten, Late
  <2>. QED
    BY <1>2, <2>1, <2>2, <2>3, LateMove
<1>5. CASE \E next \in {"receipt", "gate", "export"} :
             /\ pc' = [pc EXCEPT ![j] = next]
             /\ \/ next = "receipt" /\ pc[j] = "record" /\ io[j] = "written" /\ Passed(j)
                \/ next = "gate" /\ pc[j] = "receipt" /\ io[j] = "written"
                \/ next = "export" /\ pc[j] = "gate"
             /\ io' = [io EXCEPT ![j] = IF next = "gate" THEN io[j] ELSE "probe"]
  <2>1. PICK next \in {"receipt", "gate", "export"} :
             /\ pc' = [pc EXCEPT ![j] = next]
             /\ \/ next = "receipt" /\ pc[j] = "record" /\ io[j] = "written" /\ Passed(j)
                \/ next = "gate" /\ pc[j] = "receipt" /\ io[j] = "written"
                \/ next = "export" /\ pc[j] = "gate"
             /\ io' = [io EXCEPT ![j] = IF next = "gate" THEN io[j] ELSE "probe"]
    BY <1>5
  <2>2. TypeOK' /\ \A v \in Jobs \ {j} : io'[v] = io[v]
    BY <1>1, <1>2, <2>1 DEF TypeOK, Disk!FilesTypeOK, Disk!WriteSteps, Statements
  <2>3. pc'[j] = next /\ (next # "gate" => io'[j] = "probe")
    BY <1>1, <2>1 DEF TypeOK, Disk!FilesTypeOK
  <2>4. Bound(j)'
    BY <1>1, <1>2, <1>3, <2>1, <2>3 DEF JobInv, Bound, Unwritten, Late
  <2>5. Writing(j)'
    BY <2>1, <2>3 DEF Writing, Unwritten, Disk!Holds
  <2>6. Written(j)'
    BY <1>1, <1>3, <2>1, <2>3 DEF JobInv, Written
  <2>. QED
    BY <1>2, <2>1, <2>2, <2>4, <2>5, <2>6, LateMove DEF Late
<1>6. CASE /\ pc[j] \in Unwritten
           /\ \E next \in {"blocked", "crashed"} : pc' = [pc EXCEPT ![j] = next]
           /\ UNCHANGED io
  <2>1. PICK next \in {"blocked", "crashed"} : pc' = [pc EXCEPT ![j] = next]
    BY <1>6
  <2>2. TypeOK'
    BY <1>1, <1>2, <1>6, <2>1 DEF TypeOK, Disk!FilesTypeOK, Statements, Ended
  <2>3. Bound(j)' /\ Writing(j)' /\ Written(j)'
    BY <1>1, <1>2, <1>3, <2>1
       DEF TypeOK, JobInv, Bound, Writing, Written, Unwritten, Late
  <2>. QED
    BY <1>2, <1>6, <2>1, <2>2, <2>3, LateMove DEF Ended
<1>7. CASE EvidenceWritten(j) \/ ReceiptWritten(j) \/ PermitWritten(j)
  <2>1. io' = [io EXCEPT ![j] = io[j]] \/ io' = [io EXCEPT ![j] = "probe"]
    BY <1>7 DEF EvidenceWritten, ReceiptWritten, PermitWritten, Wrote
  <2>2. CASE io[j] = "failed"
    BY <1>4, <1>7, <2>2 DEF EvidenceWritten, ReceiptWritten, PermitWritten, Wrote, Ended, Late
  <2>3. CASE io[j] = "written"
    <3>1. CASE EvidenceWritten(j) /\ Passed(j)
      BY <1>5, <2>3, <3>1 DEF EvidenceWritten, Wrote
    <3>2. CASE EvidenceWritten(j) /\ ~Passed(j)
      BY <1>4, <2>3, <3>2 DEF EvidenceWritten, Wrote, Ended, Late
    <3>3. CASE ReceiptWritten(j)
      BY <1>5, <2>3, <3>3 DEF ReceiptWritten, Wrote
    <3>4. CASE PermitWritten(j)
      BY <1>4, <2>3, <3>4 DEF PermitWritten, Wrote, Ended, Late
    <3>. QED
      BY <1>7, <3>1, <3>2, <3>3, <3>4
  <2>. QED
    BY <1>7, <2>2, <2>3 DEF EvidenceWritten, ReceiptWritten, PermitWritten, Wrote
<1>8. CASE \E cloned \in BOOLEAN : PassGate(j, cloned)
  BY <1>4, <1>5, <1>8 DEF PassGate, Ended, Late
<1>9. CASE Raises(j) \/ Crash(j)
  BY <1>1, <1>4, <1>6, <1>9 DEF Raises, Crash, Ended, Late, Unwritten, TypeOK, Statements
<1>. QED
  BY <1>7, <1>8, <1>9

LEMMA StepInv == Inv /\ [Next]_vars => Inv'
<1>. SUFFICES ASSUME Inv, [Next]_vars PROVE Inv'
  OBVIOUS
<1>1. ASSUME NEW j \in Jobs, Program(j) \/ Crash(j) PROVE Inv'
  <2>1. CASE WriteEvidence(j)
    BY <2>1, WriteMove DEF WriteEvidence, Write, Kinds
  <2>2. CASE WriteReceipt(j)
    BY <2>2, WriteMove DEF WriteReceipt, Write, Kinds
  <2>3. CASE WritePermit(j)
    BY <2>3, WriteMove DEF WritePermit, Write, Kinds
  <2>. QED
    BY <1>1, <2>1, <2>2, <2>3, Reading, Answering DEF Program
<1>2. CASE HostFails
  BY <1>2, HostFailsMove
<1>3. CASE People
  <2>1. TypeOK'
    BY <1>3, PreparationAssumption
       DEF Inv, TypeOK, People, Fetch, Checkout, Edit, Disk!FilesTypeOK,
           PreparationAssumption, locals
  <2>. QED
    BY <1>3, <2>1, PeopleMove DEF People, Fetch, Checkout, Edit
<1>4. CASE UNCHANGED vars
  BY <1>4, PeopleMove DEF vars, checkout, Inv, TypeOK, Disk!FilesTypeOK, locals
<1>. QED
  BY <1>1, <1>2, <1>3, <1>4 DEF Next

LEMMA Invariance == Spec => []Inv
  BY InitInv, StepInv, PTL DEF Spec

\* Type correctness: whatever a runtime prints, a job that goes on to write has what
\* it needs to write a well-formed file.
THEOREM PreparationTypes == Spec => []TypeOK
<1>1. Inv => TypeOK
  BY DEF Inv
<1>. QED
  BY <1>1, Invariance, PTL

\* A permit file, whole or torn, is on disk only after the PASS evidence and the
\* receipt of the same job are durable: for any jobs, on any paths.
THEOREM PermitsAreRecorded == Spec => []PermitFollowsRecord
<1>1. Inv => PermitFollowsRecord
  BY DEF Inv
<1>. QED
  BY <1>1, Invariance, PTL

-------------------------------------------------------------------------------
(* What a job's evidence rests on, and what its files and reports say.  *)

\* A PASS was earned: the output, read again, says so of this head, and in the
\* bootstrap mode the attestation is of exactly what was judged.
Earned(j) ==
  /\ EvidenceHolds(Evidence(j), Head(j), result[j].snapshot.base, ActivationOf(j))
  /\ Head(j) # SourceOf(j)
  /\ result[j].snapshot.head = Head(j)
  /\ Mode(j) = "bootstrap" =>
       approval[j] = [head |-> Head(j), base |-> result[j].snapshot.base,
                      paths |-> result[j].snapshot.paths]

\* What a job read is governed: from here on it is committed, on main.
Governed(j) ==
  /\ pc[j] \in {"clean", "committed", "evaluate"} \cup Late => revision[j] \in Main
  /\ Mode(j) = "bootstrap" =>
       /\ pc[j] \in (Unwritten \ {"policy"}) \cup Late => policy[j] = Head(j)
       /\ pc[j] \in {"evaluate"} \cup Late =>
            /\ Committed(j).bootstrap = policy[j]
            /\ approval[j] = Committed(j).attestations[Head(j)]
  /\ pc[j] \in Unwritten => ~Passed(j)
  /\ Passed(j) => Earned(j)

\* What a job has on disk when it reports.
Reported(j) ==
  /\ pc[j] \in {"recorded", "prepared"} => Owns(j, "evidence", Evidence(j))
  /\ pc[j] = "prepared" => Passed(j) /\ Owns(j, "receipt", Receipt(j))
  /\ pc[j] = "prepared" \/ (pc[j] = "export" /\ io[j] = "written") =>
       Owns(j, "permit", Permit(j))

\* Every file is what its job decided, once it had decided.
Exporting == {"export", "prepared", "blocked", "crashed"}

FileHolds(n) ==
  LET j == files[n].by IN
  /\ files[n].body.kind = "evidence" =>
       files[n].body = Evidence(j) /\ pc[j] \notin Unwritten
  /\ files[n].body.kind = "permit" => pc[j] \in Exporting

FilesHold == \A n \in Places : Disk!Exists(n) => FileHolds(n)

JobsHold == \A j \in Jobs : Governed(j) /\ Reported(j)

Genuine == Inv /\ JobsHold /\ FilesHold /\ EvidenceIsGoverned

-------------------------------------------------------------------------------
LEMMA Stays ==
  ASSUME NEW j \in Jobs, Same(j)
  PROVE  /\ Earned(j)' = Earned(j)
         /\ Committed(j)' = Committed(j)
BY DEF Same, Earned, Evidence, EvidenceHolds, Reparsed, ActivationOf, SourceOf, Committed,
       Mode, Head

\* A PASS is the runtime's, read as its mode demands.
LEMMA PassIsEarned ==
  ASSUME TypeOK, NEW j \in Jobs, NEW w \in Wires, NEW exit \in {"pass", "fail", "error"},
         Evaluate(j, w, exit), Passed(j)', Mode(j) = "bootstrap" => policy[j] = Head(j)
  PROVE  Earned(j)'
<1> DEFINE x == Answer(j, w, exit)
           record == Judge(Head(j), x)
           new == [decision |-> record.decision, reasons |-> record.reasons,
                   snapshot |-> record.snapshot, raw |-> Kept(j, w, exit, x)]
<1>1. /\ result'[j] = new
      /\ w.kind = (IF Mode(j) = "attested" THEN "attested" ELSE "promoted")
      /\ UNCHANGED <<policy, revision, approval>>
  BY DEF Evaluate, TypeOK
<1>2. record.decision = "pass"
  BY <1>1 DEF Passed
<1>3. x # Rejected /\ record = x /\ x.snapshot.head = Head(j)
  BY <1>2 DEF Judge, Blocked
<1>4. Kept(j, w, exit, x) = w /\ w # NoRaw
  BY <1>1, <1>3, AnswerType DEF NoRaw
<1>5. Head(j) # SourceOf(j)
  BY <1>3 DEF Answer
<1>6. CASE Mode(j) = "attested"
  <2>1. x = ParseAttested(w, Head(j))
    BY <1>3, <1>6 DEF Answer
  <2>2. /\ x = [decision |-> w.verdict, reasons |-> w.reasons, snapshot |-> Snapshot(w.manifest)]
        /\ w.verdict = Verdict(w.reasons)
    BY <1>3, <2>1 DEF ParseAttested, AttestedHolds, FinalHolds
  <2>3. x.decision = "pass" /\ x.reasons = {}
    BY <1>2, <1>3, <2>2 DEF Verdict
  <2>. HIDE DEF x
  <2>. QED
    BY <1>1, <1>3, <1>4, <1>5, <1>6, <2>1, <2>3
       DEF Earned, EvidenceHolds, Reparsed, Evidence, ActivationOf, SourceOf, Mode, Head
<1>7. CASE Mode(j) # "attested"
  <2>1. Mode(j) = "bootstrap"
    BY <1>7, JobTypes DEF Modes
  <2>2. x = BootstrapResult(w, Head(j), approval[j])
    BY <1>3, <1>7 DEF Answer
  <2> DEFINE o == ParsePromoted(w, Head(j))
  <2>3. x = Authorize(approval[j], Head(j), o)
    BY <1>3, <2>2 DEF BootstrapResult
  <2>. HIDE DEF o
  <2>4. /\ x = [decision |-> "pass", reasons |-> {}, snapshot |-> o.snapshot]
        /\ approval[j] = [head |-> Head(j), base |-> o.snapshot.base, paths |-> o.snapshot.paths]
    BY <1>3, <2>3 DEF Authorize
  <2>5. /\ x.decision = "pass" /\ x.reasons = {} /\ x.snapshot = o.snapshot
    BY <2>4
  <2>. HIDE DEF x
  <2>6. EvidenceHolds(Evidence(j), Head(j), result[j].snapshot.base, ActivationOf(j))'
    BY <1>1, <1>3, <1>4, <2>1, <2>2, <2>5
       DEF EvidenceHolds, Reparsed, Evidence, ActivationOf, SourceOf, Mode, Head
  <2>7. /\ result'[j].snapshot = x.snapshot /\ approval'[j] = approval[j]
        /\ SourceOf(j)' = SourceOf(j)
    BY <1>1, <1>3 DEF SourceOf
  <2>. QED
    BY <1>3, <1>5, <2>4, <2>5, <2>6, <2>7 DEF Earned, Mode, Head
<1>. QED
  BY <1>6, <1>7

\* A job that keeps its locals keeps what they rest on.
LEMMA GovernedStays ==
  ASSUME NEW j \in Jobs, Same(j), Governed(j),
         pc'[j] = pc[j] \/ pc'[j] \in Ended \/ (pc[j] \in Late /\ pc'[j] \in Late)
  PROVE  Governed(j)'
<1>1. /\ Earned(j)' = Earned(j) /\ Committed(j)' = Committed(j) /\ Passed(j)' = Passed(j)
      /\ Mode(j)' = Mode(j) /\ Head(j)' = Head(j)
  BY Stays, SameBodies DEF Mode, Head
<1>. QED
  BY <1>1 DEF Governed, Same, Ended, Late, Unwritten

LEMMA PermitStays ==
  ASSUME NEW j \in Jobs, Same(j), FilesKept, Owns(j, "permit", Permit(j))
  PROVE  Owns(j, "permit", Permit(j))'
<1>1. OutOf[j]["permit"] \in Places
  BY JobTypes DEF Kinds
<1>. QED
  BY <1>1, SameBodies DEF Owns, FilesKept, Disk!Durable

\* A job that does not move reports what it reported.
LEMMA ReportedStays ==
  ASSUME NEW j \in Jobs, Same(j), FilesKept, Reported(j), pc'[j] = pc[j], io'[j] = io[j]
  PROVE  Reported(j)'
<1>1. /\ Passed(j)' = Passed(j)
      /\ Owns(j, "evidence", Evidence(j)) => Owns(j, "evidence", Evidence(j))'
      /\ Owns(j, "receipt", Receipt(j)) => Owns(j, "receipt", Receipt(j))'
      /\ Owns(j, "permit", Permit(j)) => Owns(j, "permit", Permit(j))'
  BY SameBodies, OwnedStays, PermitStays
<1>. QED
  BY <1>1 DEF Reported

\* Files that were there before are still what their jobs decided.
LEMMA FilesSettle ==
  ASSUME Genuine,
         \A n \in Places : Disk!Exists(n)' =>
           Disk!Exists(n) /\ files'[n].by = files[n].by /\ files'[n].body = files[n].body,
         \A j \in Jobs :
           \/ \A n \in Places : Disk!Exists(n) => files[n].by # j
           \/ /\ Same(j)
              /\ pc[j] \notin Unwritten => pc'[j] \notin Unwritten
              /\ pc[j] \in Exporting => pc'[j] \in Exporting
  PROVE  FilesHold' /\ EvidenceIsGoverned'
<1>1. ASSUME NEW n \in Places, Disk!Exists(n)' PROVE FileHolds(n)'
  <2>1. /\ Disk!Exists(n) /\ files'[n].by = files[n].by /\ files'[n].body = files[n].body
        /\ FileHolds(n)
    BY <1>1 DEF Genuine, FilesHold
  <2>2. files[n].by \in Jobs
    BY <2>1 DEF Genuine, Inv, TypeOK, Disk!FilesTypeOK, Disk!Exists, Disk!Present, Disk!Absent
  <2>3. /\ Same(files[n].by)
        /\ pc[files[n].by] \notin Unwritten => pc'[files[n].by] \notin Unwritten
        /\ pc[files[n].by] \in Exporting => pc'[files[n].by] \in Exporting
    BY <2>1, <2>2
  <2>4. ASSUME NEW j \in Jobs, j = files[n].by, Same(j)
        PROVE  Evidence(j)' = Evidence(j)
    BY <2>4, SameBodies
  <2>5. PICK k \in Jobs : k = files[n].by
    BY <2>2
  <2>6. Evidence(k)' = Evidence(k) /\ k = files'[n].by
    BY <2>1, <2>3, <2>4, <2>5
  <2>. QED
    BY <2>1, <2>3, <2>5, <2>6 DEF FileHolds
<1>2. FilesHold'
  BY <1>1 DEF FilesHold
<1>3. EvidenceIsGoverned'
  BY DEF Genuine, EvidenceIsGoverned
<1>. QED
  BY <1>2, <1>3

\* A step that moves one job, without touching a file.
LEMMA GenuineMove ==
  ASSUME Genuine, Inv', NEW j \in Jobs, NEW next, pc' = [pc EXCEPT ![j] = next],
         UNCHANGED files, \A v \in Jobs \ {j} : Same(v) /\ io'[v] = io[v],
         Governed(j)', Reported(j)',
         \/ pc[j] \in Unwritten
         \/ Same(j) /\ next \notin Unwritten /\ (pc[j] \in Exporting => next \in Exporting)
  PROVE  Genuine'
<1>1. FilesKept
  BY DEF FilesKept
<1>2. \A v \in Jobs \ {j} : pc'[v] = pc[v]
  BY DEF Genuine, Inv, TypeOK
<1>3. ASSUME NEW v \in Jobs \ {j} PROVE Governed(v)' /\ Reported(v)'
  BY <1>1, <1>2, <1>3, GovernedStays, ReportedStays DEF Genuine, JobsHold
<1>4. JobsHold'
  BY <1>3 DEF JobsHold
<1>5. pc'[j] = next /\ (pc[j] \in Unwritten => \A n \in Places : Disk!Exists(n) => files[n].by # j)
  BY DEF Genuine, Inv, JobInv, Writing, TypeOK
<1>6. \A n \in Places : Disk!Exists(n)' =>
        Disk!Exists(n) /\ files'[n].by = files[n].by /\ files'[n].body = files[n].body
  BY DEF Disk!Exists
<1>7. FilesHold' /\ EvidenceIsGoverned'
  BY <1>2, <1>5, <1>6, FilesSettle
<1>. QED
  BY <1>4, <1>7 DEF Genuine

LEMMA GenuineHostFails ==
  ASSUME Genuine, Inv', HostFails
  PROVE  Genuine'
<1>1. Disk!PowerLoss /\ Disk!FilesTypeOK
  BY DEF HostFails, Genuine, Inv, TypeOK
<1>2. \A m \in Places : Disk!Durable(m) => files'[m] = files[m]
  BY <1>1, Disk!PowerLossEffect
<1>3. \A m \in Places : Disk!Exists(m)' =>
        Disk!Exists(m) /\ files'[m].by = files[m].by /\ files'[m].body = files[m].body
  BY <1>1, Disk!PowerLossContents
<1>4. FilesKept
  BY <1>2, <1>3 DEF FilesKept
<1>5. ASSUME NEW j \in Jobs
      PROVE  /\ Same(j) /\ io'[j] = io[j]
             /\ pc'[j] = IF pc[j] \in Ended THEN pc[j] ELSE "crashed"
  BY DEF HostFails, Same, locals
<1>6. ASSUME NEW j \in Jobs PROVE Governed(j)' /\ Reported(j)'
  <2>1. /\ Governed(j) /\ Reported(j) /\ Same(j) /\ io'[j] = io[j]
        /\ pc'[j] = pc[j] \/ pc'[j] \in Ended
    BY <1>5 DEF Genuine, JobsHold, Ended
  <2>2. Governed(j)'
    BY <2>1, GovernedStays
  <2>3. CASE pc'[j] = pc[j]
    BY <1>4, <2>1, <2>2, <2>3, ReportedStays
  <2>4. CASE pc'[j] = "crashed"
    BY <2>2, <2>4 DEF Reported
  <2>. QED
    BY <1>5, <2>3, <2>4
<1>7. FilesHold' /\ EvidenceIsGoverned'
  <2>1. \A j \in Jobs : /\ Same(j)
                        /\ pc[j] \notin Unwritten => pc'[j] \notin Unwritten
                        /\ pc[j] \in Exporting => pc'[j] \in Exporting
    BY <1>5 DEF Unwritten, Exporting
  <2>. QED
    BY <1>3, <2>1, FilesSettle
<1>. QED
  BY <1>6, <1>7 DEF Genuine, JobsHold

\* Statements before the first write.
LEMMA GenuineReading ==
  ASSUME Genuine, Inv', NEW j \in Jobs,
         \/ ReadPolicy(j) \/ ReadHead(j) \/ (\E named \in BOOLEAN : CheckMain(j, named))
         \/ CheckClean(j) \/ ReadCommitted(j)
         \/ (\E w \in Wires, exit \in {"pass", "fail", "error"} : Evaluate(j, w, exit))
  PROVE  Genuine'
<1>. USE DEF Check, Step, Goto, checkout, locals
<1>1. TypeOK /\ Governed(j) /\ Mode(j) \in Modes /\ Bound(j)
  BY JobTypes DEF Genuine, Inv, JobsHold, JobInv
<1>2. ASSUME NEW next \in Unwritten \cup {"record", "blocked"}, pc[j] \in Unwritten,
             pc' = [pc EXCEPT ![j] = next], UNCHANGED files,
             \A v \in Jobs \ {j} : Same(v) /\ io'[v] = io[v],
             next = "record" => io'[j] = "probe", Governed(j)'
      PROVE  Genuine'
  <2>1. Reported(j)'
    BY <1>1, <1>2 DEF Reported, Unwritten, TypeOK
  <2>. QED
    BY <1>2, <2>1, GenuineMove
<1>3. CASE ReadPolicy(j)
  <2> DEFINE found == IF Mode(j) = "attested" THEN tree.package ELSE tree.bootstrap
             ok == found # None /\ (Mode(j) = "bootstrap" => found = Head(j))
             next == IF ok THEN "head" ELSE "blocked"
  <2>1. /\ pc[j] = "policy" /\ pc' = [pc EXCEPT ![j] = next]
        /\ policy' = [policy EXCEPT ![j] = found]
        /\ UNCHANGED <<files, io, commit, origin, tree, revision, approval, result>>
    BY <1>3 DEF ReadPolicy
  <2>. HIDE DEF found
  <2>2. Governed(j)'
    BY <1>1, <2>1 DEF Governed, TypeOK, Passed, Mode, Head, Unwritten, Late
  <2>3. \A v \in Jobs \ {j} : Same(v) /\ io'[v] = io[v]
    BY <1>1, <2>1 DEF Same, TypeOK
  <2>. QED
    BY <1>2, <2>1, <2>2, <2>3 DEF Unwritten
<1>4. CASE ReadHead(j)
  <2>1. /\ pc[j] = "head" /\ pc' = [pc EXCEPT ![j] = "main"]
        /\ revision' = [revision EXCEPT ![j] = commit]
        /\ UNCHANGED <<files, io, commit, origin, tree, policy, approval, result>>
    BY <1>4 DEF ReadHead
  <2>2. Governed(j)'
    BY <1>1, <2>1 DEF Governed, TypeOK, Passed, Mode, Head, Unwritten, Late
  <2>3. \A v \in Jobs \ {j} : Same(v) /\ io'[v] = io[v]
    BY <1>1, <2>1 DEF Same, TypeOK
  <2>. QED
    BY <1>2, <2>1, <2>2, <2>3 DEF Unwritten
<1>5. CASE \E named \in BOOLEAN : CheckMain(j, named)
  <2>1. PICK next \in {"clean", "blocked"} :
          /\ pc[j] = "main" /\ pc' = [pc EXCEPT ![j] = next]
          /\ next = "clean" => origin = revision[j]
          /\ UNCHANGED <<files, io, commit, origin, tree, policy, revision, approval, result>>
    BY <1>5 DEF CheckMain
  <2>2. Governed(j)'
    BY <1>1, <2>1 DEF Governed, TypeOK, Passed, Mode, Head, Unwritten, Late
  <2>3. \A v \in Jobs \ {j} : Same(v) /\ io'[v] = io[v]
    BY <2>1 DEF Same
  <2>. QED
    BY <1>2, <2>1, <2>2, <2>3 DEF Unwritten
<1>6. CASE CheckClean(j)
  <2>1. PICK next \in {"evaluate", "committed", "blocked"} :
          /\ pc[j] = "clean" /\ pc' = [pc EXCEPT ![j] = next]
          /\ next = "evaluate" => Mode(j) = "attested"
          /\ UNCHANGED <<files, io, commit, origin, tree, policy, revision, approval, result>>
    BY <1>6 DEF CheckClean
  <2>2. Governed(j)'
    BY <1>1, <2>1 DEF Governed, TypeOK, Passed, Mode, Head, Unwritten, Late
  <2>3. \A v \in Jobs \ {j} : Same(v) /\ io'[v] = io[v]
    BY <2>1 DEF Same
  <2>. QED
    BY <1>2, <2>1, <2>2, <2>3 DEF Unwritten
<1>7. CASE ReadCommitted(j)
  <2>1. PICK next \in {"evaluate", "blocked"} :
          /\ pc[j] = "committed" /\ pc' = [pc EXCEPT ![j] = next]
          /\ approval' = [approval EXCEPT ![j] = Committed(j).attestations[Head(j)]]
          /\ next = "evaluate" => Committed(j).bootstrap = policy[j]
          /\ UNCHANGED <<files, io, commit, origin, tree, policy, revision, result>>
    BY <1>7 DEF ReadCommitted
  <2>2. Governed(j)'
    <3>1. Committed(j)' = Committed(j) /\ Mode(j)' = Mode(j) /\ Head(j)' = Head(j)
      BY <2>1 DEF Committed, Mode, Head
    <3>2. approval'[j] = Committed(j).attestations[Head(j)]
      BY <1>1, <2>1 DEF TypeOK
    <3>. QED
      BY <1>1, <2>1, <3>1, <3>2 DEF Governed, TypeOK, Passed, Unwritten, Late
  <2>3. \A v \in Jobs \ {j} : Same(v) /\ io'[v] = io[v]
    BY <1>1, <2>1 DEF Same, TypeOK
  <2>. QED
    BY <1>2, <2>1, <2>2, <2>3 DEF Unwritten
<1>8. CASE \E w \in Wires, exit \in {"pass", "fail", "error"} : Evaluate(j, w, exit)
  <2>1. PICK w \in Wires, exit \in {"pass", "fail", "error"} : Evaluate(j, w, exit)
    BY <1>8
  <2>2. PICK new : \E next \in {"record", "blocked"} :
          /\ pc[j] = "evaluate" /\ pc' = [pc EXCEPT ![j] = next]
          /\ result' = [result EXCEPT ![j] = new] /\ io' = [io EXCEPT ![j] = "probe"]
          /\ UNCHANGED <<files, commit, origin, tree, policy, revision, approval>>
    BY <2>1 DEF Evaluate
  <2>3. Passed(j)' => Earned(j)'
    BY <1>1, <2>1, <2>2, PassIsEarned DEF Governed, Unwritten
  <2>4. Governed(j)'
    <3>1. Committed(j)' = Committed(j) /\ Mode(j)' = Mode(j) /\ Head(j)' = Head(j)
      BY <2>2 DEF Committed, Mode, Head
    <3>. QED
      BY <1>1, <2>2, <2>3, <3>1 DEF Governed, TypeOK, Unwritten, Late
  <2>5. (\A v \in Jobs \ {j} : Same(v) /\ io'[v] = io[v]) /\ io'[j] = "probe"
    BY <1>1, <2>2 DEF Same, TypeOK, Disk!FilesTypeOK
  <2>. QED
    BY <1>2, <2>2, <2>4, <2>5 DEF Unwritten
<1>. QED
  BY <1>3, <1>4, <1>5, <1>6, <1>7, <1>8

\* The statements that answer a write, the gate, and the ends.
LEMMA GenuineAnswering ==
  ASSUME Genuine, Inv', NEW j \in Jobs,
         \/ EvidenceWritten(j) \/ ReceiptWritten(j) \/ PermitWritten(j)
         \/ (\E cloned \in BOOLEAN : PassGate(j, cloned)) \/ Raises(j) \/ Crash(j)
  PROVE  Genuine'
<1>. USE DEF Step, Goto, checkout, locals
<1>1. TypeOK /\ Disk!FilesTypeOK /\ Governed(j) /\ Reported(j) /\ JobInv(j)
  BY DEF Genuine, Inv, JobsHold, TypeOK
<1>2. /\ UNCHANGED files
      /\ \A v \in Jobs : Same(v)
      /\ \A v \in Jobs \ {j} : io'[v] = io[v]
  BY <1>1 DEF EvidenceWritten, ReceiptWritten, PermitWritten, Wrote, PassGate, Raises, Crash,
              Same, Disk!FilesTypeOK
<1>3. \E next \in {"receipt", "gate", "export", "recorded", "prepared", "blocked", "crashed"} :
        /\ pc' = [pc EXCEPT ![j] = next]
        /\ \/ pc[j] \in Unwritten /\ next \in {"blocked", "crashed"}
           \/ pc[j] \in Late /\ next \in {"blocked", "crashed"}
           \/ pc[j] = "record" /\ io[j] = "written" /\ next \in {"receipt", "recorded"}
           \/ pc[j] = "receipt" /\ next = "gate"
           \/ pc[j] = "gate" /\ next = "recorded"
           \/ pc[j] = "gate" /\ next = "export" /\ io'[j] = "probe"
           \/ pc[j] = "export" /\ io[j] = "written" /\ next = "prepared"
  <2>1. CASE EvidenceWritten(j) \/ ReceiptWritten(j) \/ PermitWritten(j)
    BY <2>1 DEF EvidenceWritten, ReceiptWritten, PermitWritten, Wrote, Late
  <2>2. CASE \E cloned \in BOOLEAN : PassGate(j, cloned)
    BY <1>1, <2>2 DEF PassGate, Disk!FilesTypeOK
  <2>3. CASE Raises(j) \/ Crash(j)
    BY <1>1, <2>3 DEF Raises, Crash, Late, TypeOK, Statements
  <2>. QED
    BY <2>1, <2>2, <2>3
<1>4. PICK next \in {"receipt", "gate", "export", "recorded", "prepared", "blocked", "crashed"} :
        /\ pc' = [pc EXCEPT ![j] = next]
        /\ \/ pc[j] \in Unwritten /\ next \in {"blocked", "crashed"}
           \/ pc[j] \in Late /\ next \in {"blocked", "crashed"}
           \/ pc[j] = "record" /\ io[j] = "written" /\ next \in {"receipt", "recorded"}
           \/ pc[j] = "receipt" /\ next = "gate"
           \/ pc[j] = "gate" /\ next = "recorded"
           \/ pc[j] = "gate" /\ next = "export" /\ io'[j] = "probe"
           \/ pc[j] = "export" /\ io[j] = "written" /\ next = "prepared"
  BY <1>3
<1>5. pc'[j] = next
  BY <1>1, <1>4 DEF TypeOK
<1>6. Governed(j)'
  <2>1. pc'[j] \in Ended \/ (pc[j] \in Late /\ pc'[j] \in Late)
    BY <1>4, <1>5 DEF Ended, Late
  <2>. QED
    BY <1>1, <1>2, <2>1, GovernedStays
<1>7. Reported(j)'
  <2>1. FilesKept
    BY <1>2 DEF FilesKept
  <2>2. /\ Passed(j)' = Passed(j)
        /\ Owns(j, "evidence", Evidence(j)) => Owns(j, "evidence", Evidence(j))'
        /\ Owns(j, "receipt", Receipt(j)) => Owns(j, "receipt", Receipt(j))'
        /\ Owns(j, "permit", Permit(j)) => Owns(j, "permit", Permit(j))'
    BY <1>2, <2>1, SameBodies, OwnedStays, PermitStays
  <2>3. next = "recorded" => Owns(j, "evidence", Evidence(j))
    BY <1>1, <1>4 DEF JobInv, Written, Unwritten, Late
  <2>4. next = "prepared" => /\ Passed(j)
                             /\ Owns(j, "evidence", Evidence(j))
                             /\ Owns(j, "receipt", Receipt(j))
                             /\ Owns(j, "permit", Permit(j))
    BY <1>1, <1>4 DEF JobInv, Written, Reported, Unwritten, Late
  <2>5. next = "export" => io'[j] = "probe"
    BY <1>4
  <2>. QED
    BY <1>5, <2>2, <2>3, <2>4, <2>5 DEF Reported
<1>8. next \notin Unwritten /\ (pc[j] \in Exporting => pc[j] \in Unwritten \/ next \in Exporting)
  BY <1>4 DEF Unwritten, Late, Exporting
<1>. QED
  BY <1>2, <1>4, <1>6, <1>7, <1>8, GenuineMove

\* One statement of _write_bound.
LEMMA GenuineWrite ==
  ASSUME Genuine, Inv', NEW j \in Jobs, NEW kind \in Kinds, NEW body,
         \/ pc[j] = "record" /\ kind = "evidence" /\ body = Evidence(j)
         \/ pc[j] = "receipt" /\ kind = "receipt" /\ body = Receipt(j)
         \/ pc[j] = "export" /\ kind = "permit" /\ body = Permit(j),
         Disk!WriteBound(j, OutOf[j][kind], body),
         UNCHANGED <<checkout, pc, locals>>
  PROVE  Genuine'
<1> DEFINE out == OutOf[j][kind]
<1>1. out \in Places
  BY JobTypes
<1>2. JobInv(j) /\ Disk!FilesTypeOK /\ TypeOK /\ Governed(j)
  BY DEF Genuine, Inv, TypeOK, JobsHold
<1>3. Disk!Holds(j, out)
  BY <1>2 DEF JobInv, Writing
<1>4. body \in EvidenceBodies \cup PermitBodies \cup ReceiptBodies
  BY <1>2, BodyTypes DEF Genuine, JobInv, Written, Late
<1>. HIDE DEF out
<1>5. /\ \A v \in Jobs \ {j} : io'[v] = io[v]
      /\ \A m \in Places : Disk!Durable(m) => files'[m] = files[m]
  BY <1>1, <1>2, <1>3, <1>4, Disk!WriteBoundEffect DEF out
<1>6. /\ \A m \in Places : Disk!Exists(m) =>
           Disk!Exists(m)' /\ files'[m].by = files[m].by /\ files'[m].body = files[m].body
      /\ \A m \in Places : Disk!Exists(m)' /\ ~Disk!Exists(m) =>
           m = out /\ files'[m].by = j /\ files'[m].body = body
      /\ io'[j] = "written" =>
           Disk!Durable(out)' /\ files'[out].by = j /\ files'[out].body = body
  BY <1>1, <1>2, <1>3, <1>4, Disk!WriteBoundContents DEF out
<1>7. \A v \in Jobs : Same(v) /\ pc'[v] = pc[v]
  BY DEF Same, locals
<1>8. FilesKept
  BY <1>5, <1>6 DEF FilesKept
<1>9. ASSUME NEW v \in Jobs PROVE Governed(v)' /\ Reported(v)'
  <2>1. Governed(v) /\ Reported(v) /\ Same(v) /\ pc'[v] = pc[v]
    BY <1>7 DEF Genuine, JobsHold
  <2>2. Governed(v)'
    BY <2>1, GovernedStays
  <2>3. CASE v # j
    BY <1>5, <1>8, <2>1, <2>2, <2>3, ReportedStays
  <2>4. CASE v = j
    <3>1. /\ Passed(j)' = Passed(j) /\ Permit(j)' = Permit(j)
          /\ Owns(j, "evidence", Evidence(j)) => Owns(j, "evidence", Evidence(j))'
          /\ Owns(j, "receipt", Receipt(j)) => Owns(j, "receipt", Receipt(j))'
          /\ Owns(j, "permit", Permit(j)) => Owns(j, "permit", Permit(j))'
      BY <1>7, <1>8, SameBodies, OwnedStays, PermitStays
    <3>2. pc[j] = "export" /\ io'[j] = "written" => Owns(j, "permit", Permit(j))'
      BY <1>6, <3>1 DEF Owns, out
    <3>. QED
      BY <2>1, <2>2, <2>4, <3>1, <3>2 DEF Reported
  <2>. QED
    BY <2>3, <2>4
<1>10. ASSUME NEW n \in Places, Disk!Exists(n)' PROVE FileHolds(n)'
  <2>1. CASE Disk!Exists(n)
    <3>1. /\ files'[n].by = files[n].by /\ files'[n].body = files[n].body
          /\ FileHolds(n)
      BY <1>6, <2>1 DEF Genuine, FilesHold
    <3>2. files[n].by \in Jobs
      BY <1>2, <2>1 DEF Disk!FilesTypeOK, Disk!Exists, Disk!Present, Disk!Absent
    <3>3. PICK k \in Jobs : k = files[n].by /\ k = files'[n].by
      BY <3>1, <3>2
    <3>4. Evidence(k)' = Evidence(k) /\ pc'[k] = pc[k]
      BY <1>7, SameBodies
    <3>. QED
      BY <3>1, <3>3, <3>4 DEF FileHolds
  <2>2. CASE ~Disk!Exists(n)
    <3>1. files'[n].by = j /\ files'[n].body = body
      BY <1>6, <1>10, <2>2
    <3>2. Evidence(j)' = Evidence(j) /\ pc'[j] = pc[j]
      BY <1>7, SameBodies
    <3>3. /\ body.kind = "evidence" => body = Evidence(j) /\ pc[j] = "record"
          /\ body.kind = "permit" => pc[j] = "export"
      BY DEF Evidence, Permit, Receipt
    <3>. QED
      BY <3>1, <3>2, <3>3 DEF FileHolds, Exporting, Unwritten
  <2>. QED
    BY <2>1, <2>2
<1>11. EvidenceIsGoverned'
  <2>1. SUFFICES ASSUME NEW n \in Places, Disk!Exists(n)', files'[n].body.kind = "evidence"
                 PROVE  LET e == files'[n].body  g == GovernanceOf[e.revision] IN
                        /\ e.revision \in Main
                        /\ e.mode = "bootstrap" /\ e.result.decision = "pass" =>
                             /\ g.bootstrap = e.head
                             /\ g.attestations[e.head] =
                                  [head |-> e.head, base |-> e.result.snapshot.base,
                                   paths |-> e.result.snapshot.paths]
    BY DEF EvidenceIsGoverned
  <2>2. CASE Disk!Exists(n)
    BY <1>6, <2>1, <2>2 DEF Genuine, EvidenceIsGoverned
  <2>3. CASE ~Disk!Exists(n)
    <3>1. files'[n].body = Evidence(j) /\ pc[j] = "record"
      BY <1>6, <2>1, <2>3 DEF Permit, Receipt
    <3>2. /\ Evidence(j).revision = revision[j] /\ Evidence(j).mode = Mode(j)
          /\ Evidence(j).result = result[j] /\ Evidence(j).head = Head(j)
      BY DEF Evidence
    <3>. QED
      BY <1>2, <3>1, <3>2 DEF Governed, Earned, Passed, Committed, Late
  <2>. QED
    BY <2>2, <2>3
<1>. QED
  BY <1>9, <1>10, <1>11 DEF Genuine, JobsHold, FilesHold

LEMMA GenuineInit == Init => Genuine
<1>. SUFFICES ASSUME Init PROVE Genuine
  OBVIOUS
<1>1. \A n \in Places : ~Disk!Exists(n)
  BY DEF Init, Disk!FilesInit, Disk!Exists, Disk!Absent
<1>2. \A j \in Jobs : pc[j] = "policy" /\ ~Passed(j)
  BY DEF Init, Passed, NoResult
<1>3. JobsHold
  BY <1>2 DEF JobsHold, Governed, Reported, Late, Unwritten
<1>. QED
  BY <1>1, <1>3, InitInv DEF Genuine, FilesHold, EvidenceIsGoverned

LEMMA GenuineStep == Genuine /\ [Next]_vars => Genuine'
<1>. SUFFICES ASSUME Genuine, [Next]_vars PROVE Genuine'
  OBVIOUS
<1>1. Inv'
  BY StepInv DEF Genuine
<1>2. ASSUME NEW j \in Jobs, Program(j) \/ Crash(j) PROVE Genuine'
  <2>1. CASE WriteEvidence(j)
    BY <1>1, <2>1, GenuineWrite DEF WriteEvidence, Write, Kinds
  <2>2. CASE WriteReceipt(j)
    BY <1>1, <2>2, GenuineWrite DEF WriteReceipt, Write, Kinds
  <2>3. CASE WritePermit(j)
    BY <1>1, <2>3, GenuineWrite DEF WritePermit, Write, Kinds
  <2>. QED
    BY <1>1, <1>2, <2>1, <2>2, <2>3, GenuineReading, GenuineAnswering DEF Program
<1>3. CASE HostFails
  BY <1>1, <1>3, GenuineHostFails
<1>4. CASE People \/ UNCHANGED vars
  <2>1. UNCHANGED <<files, io, pc, locals>>
    BY <1>4 DEF People, Fetch, Checkout, Edit, vars
  <2>2. FilesKept /\ \A j \in Jobs : Same(j) /\ pc'[j] = pc[j] /\ io'[j] = io[j]
    BY <2>1 DEF FilesKept, Same, locals
  <2>3. ASSUME NEW j \in Jobs PROVE Governed(j)' /\ Reported(j)'
    BY <2>2, GovernedStays, ReportedStays DEF Genuine, JobsHold
  <2>4. \A n \in Places : Disk!Exists(n)' =>
          Disk!Exists(n) /\ files'[n].by = files[n].by /\ files'[n].body = files[n].body
    BY <2>1 DEF Disk!Exists
  <2>5. FilesHold' /\ EvidenceIsGoverned'
    BY <2>2, <2>4, FilesSettle
  <2>. QED
    BY <1>1, <2>3, <2>5 DEF Genuine, JobsHold
<1>. QED
  BY <1>2, <1>3, <1>4 DEF Next

LEMMA GenuineInvariance == Spec => []Genuine
  BY GenuineInit, GenuineStep, PTL DEF Spec

\* Evidence names a revision of main, and a bootstrap PASS rests on what that very
\* revision activates and attests: for any edits, pulls and switches of the checkout
\* between the checks of any number of jobs.
THEOREM EvidenceGoverned == Spec => []EvidenceIsGoverned
<1>1. Genuine => EvidenceIsGoverned
  BY DEF Genuine
<1>. QED
  BY <1>1, GenuineInvariance, PTL

\* What a job says it prepared or recorded is durably there, and the three files it
\* prepared are a bundle that the publisher accepts.
THEOREM ReportsTrue == Spec => []ReportsAreTrue
<1>1. ASSUME Genuine PROVE ReportsAreTrue
  <2>1. ASSUME NEW j \in Jobs, pc[j] = "prepared"
        PROVE  /\ Owns(j, "permit", Permit(j)) /\ Owns(j, "evidence", Evidence(j))
               /\ Owns(j, "receipt", Receipt(j)) /\ Earned(j)
    BY <1>1, <2>1 DEF Genuine, JobsHold, Governed, Reported
  <2>2. ASSUME NEW j \in Jobs, Earned(j)
        PROVE  BundleHolds(Permit(j), Evidence(j), Receipt(j), ActivationOf(j))
    BY <2>2 DEF Earned, BundleHolds, Permit, Receipt, Evidence, ActivationOf
  <2>3. ASSUME NEW j \in Jobs, pc[j] = "recorded" PROVE Owns(j, "evidence", Evidence(j))
    BY <1>1, <2>3 DEF Genuine, JobsHold, Reported
  <2>. QED
    BY <2>1, <2>2, <2>3 DEF ReportsAreTrue
<1>. QED
  BY <1>1, GenuineInvariance, PTL

\* A file on disk: its job, and what that job decided.
LEMMA Authors ==
  ASSUME Genuine, NEW n \in Places, Disk!Exists(n)
  PROVE  /\ files[n].by \in Jobs
         /\ FileHolds(n)
         /\ files[n].body.kind = "permit" =>
              files[n].body = Permit(files[n].by) /\ Passed(files[n].by)
<1>1. files[n].by \in Jobs
  BY DEF Genuine, Inv, TypeOK, Disk!FilesTypeOK, Disk!Exists, Disk!Present, Disk!Absent
<1>. QED
  BY <1>1 DEF Genuine, FilesHold, Inv, PermitFollowsRecord

\* Any three files that the publisher accepts, from whichever jobs and directories,
\* are a PASS that a job earned and a permit that a job took through the ARB gate.
THEOREM BundlesGenuine == Spec => []AcceptedBundlesAreGenuine
<1>1. ASSUME Genuine PROVE AcceptedBundlesAreGenuine
  <2>1. SUFFICES ASSUME NEW p \in Places, NEW e \in Places, NEW r \in Places,
                        Readable(p), Readable(e), Readable(r), NEW a \in Activations,
                        BundleHolds(files[p].body, files[e].body, files[r].body, a)
                 PROVE  LET j == files[e].by  k == files[p].by
                            g == GovernanceOf[a.revision] IN
                        /\ Passed(j) /\ ActivationOf(j) = a
                        /\ Head(j) = files[p].body.head
                        /\ a.mode = "bootstrap" =>
                             /\ g.bootstrap = Head(j)
                             /\ g.attestations[Head(j)] =
                                  [head |-> Head(j), base |-> files[p].body.base,
                                   paths |-> result[j].snapshot.paths]
                        /\ pc[k] \in {"export", "prepared", "blocked", "crashed"}
                        /\ Permit(k) = files[p].body
    BY DEF AcceptedBundlesAreGenuine
  <2>2. PICK j \in Jobs : j = files[e].by
    BY <1>1, <2>1, Authors DEF Readable
  <2>3. PICK k \in Jobs : k = files[p].by
    BY <1>1, <2>1, Authors DEF Readable
  <2>4. /\ files[p].body.kind = "permit" /\ files[e].body.kind = "evidence"
        /\ EvidenceHolds(files[e].body, files[p].body.head, files[p].body.base, a)
    BY <2>1 DEF BundleHolds, EvidenceHolds
  <2>5. pc[k] \in Exporting /\ Permit(k) = files[p].body
    BY <1>1, <2>1, <2>3, <2>4, Authors DEF Readable, FileHolds
  <2>6. files[e].body = Evidence(j)
    BY <1>1, <2>1, <2>2, <2>4, Authors DEF Readable, FileHolds
  <2>7. /\ Mode(j) = a.mode /\ SourceOf(j) = a.source /\ revision[j] = a.revision
        /\ Head(j) = files[p].body.head
        /\ result[j].decision = "pass" /\ result[j].snapshot.base = files[p].body.base
    BY <2>4, <2>6 DEF EvidenceHolds, Evidence
  <2>8. ActivationOf(j) = a
    BY <2>7 DEF ActivationOf, Activations
  <2>9. ASSUME a.mode = "bootstrap"
        PROVE  LET g == GovernanceOf[a.revision] IN
               /\ g.bootstrap = Head(j)
               /\ g.attestations[Head(j)] =
                    [head |-> Head(j), base |-> files[p].body.base,
                     paths |-> result[j].snapshot.paths]
    <3>1. /\ Evidence(j).mode = "bootstrap" /\ Evidence(j).revision = a.revision
          /\ Evidence(j).head = Head(j) /\ Evidence(j).result = result[j]
      BY <2>7, <2>9 DEF Evidence
    <3>2. Disk!Exists(e) /\ EvidenceIsGoverned
      BY <1>1, <2>1 DEF Genuine, Readable
    <3>. QED
      BY <2>4, <2>6, <2>7, <3>1, <3>2 DEF EvidenceIsGoverned
  <2>. QED
    BY <2>2, <2>3, <2>5, <2>7, <2>8, <2>9 DEF Passed, Exporting
<1>. QED
  BY <1>1, GenuineInvariance, PTL

\* The rehearsal accepts what the publisher accepts in the attested mode, no more
\* and no less, for every file that any number of jobs may leave.
THEOREM PreviewsAgree == Spec => []PreviewAgrees
<1>1. ASSUME Genuine PROVE PreviewAgrees
  <2>1. SUFFICES ASSUME NEW p \in Places, Readable(p), files[p].body.kind = "permit",
                        NEW a \in Activations, a.mode = "attested",
                        NEW e \in Places, NEW r \in Places, Readable(e), Readable(r)
                 PROVE  PreviewHolds(files[p].body, files[e].body, files[r].body, a)
                          <=> BundleHolds(files[p].body, files[e].body, files[r].body, a)
    BY DEF PreviewAgrees
  <2>2. ASSUME PreviewHolds(files[p].body, files[e].body, files[r].body, a)
        PROVE  BundleHolds(files[p].body, files[e].body, files[r].body, a)
    <3>1. PICK j \in Jobs : j = files[e].by
      BY <1>1, <2>1, Authors DEF Readable
    <3>2. files[e].body.kind = "evidence" /\ files[e].body.result.decision = "pass"
      BY <2>2 DEF PreviewHolds
    <3>3. files[e].body = Evidence(j)
      BY <1>1, <2>1, <3>1, <3>2, Authors DEF Readable, FileHolds
    <3>4. Earned(j)
      <4>1. Passed(j)
        BY <3>2, <3>3 DEF Evidence, Passed
      <4>. QED
        BY <1>1, <4>1 DEF Genuine, JobsHold, Governed
    <3>5. /\ Evidence(j).head = Head(j) /\ Evidence(j).result = result[j]
          /\ Evidence(j).mode = Mode(j) /\ Evidence(j).source = SourceOf(j)
          /\ Evidence(j).revision = revision[j]
      BY DEF Evidence
    <3>6. /\ files[p].body.head = Head(j) /\ files[p].body.base = result[j].snapshot.base
          /\ Mode(j) = "attested" /\ SourceOf(j) = a.source /\ revision[j] = a.revision
      BY <2>2, <3>3, <3>5 DEF PreviewHolds
    <3>7. ActivationOf(j) = a
      BY <2>1, <3>6 DEF ActivationOf, Activations
    <3>8. /\ EvidenceHolds(files[e].body, files[p].body.head, files[p].body.base, a)
          /\ files[p].body.head # a.source
      BY <3>3, <3>4, <3>6, <3>7 DEF Earned
    <3>. QED
      BY <2>1, <2>2, <3>8 DEF PreviewHolds, BundleHolds
  <2>3. ASSUME BundleHolds(files[p].body, files[e].body, files[r].body, a)
        PROVE  PreviewHolds(files[p].body, files[e].body, files[r].body, a)
    <3> DEFINE head == files[p].body.head
               x == ParseAttested(files[e].body.result.raw, head)
               s == files[e].body.result.snapshot
    <3>1. EvidenceHolds(files[e].body, head, files[p].body.base, a)
      BY <2>3 DEF BundleHolds
    <3>2. /\ x.decision = "pass" /\ x.snapshot.base = files[p].body.base
          /\ files[e].body.head = head
          /\ files[e].body.result =
               [decision |-> "pass", reasons |-> {}, snapshot |-> x.snapshot,
                raw |-> files[e].body.result.raw]
      BY <2>1, <3>1 DEF EvidenceHolds, Reparsed
    <3>3. x.snapshot.state = "open" /\ x.snapshot.head = head
      BY <3>2 DEF ParseAttested, AttestedHolds, Snapshot, Rejected
    <3>. HIDE DEF x, head
    <3>4. /\ files[e].body.result.decision = "pass" /\ files[e].body.result.reasons = {}
          /\ s = x.snapshot
      BY <3>2
    <3>. QED
      BY <2>1, <2>3, <3>1, <3>2, <3>3, <3>4 DEF PreviewHolds, BundleHolds, EvidenceHolds, head
  <2>. QED
    BY <2>2, <2>3
<1>. QED
  BY <1>1, GenuineInvariance, PTL

-------------------------------------------------------------------------------
(* The ARB gate. *)

\* The runtime lists every governance document that a candidate changes.
WiresListChanges ==
  \A w \in Wires, p \in GdcPaths :
    Documents[w.manifest.head][p] # Documents[w.manifest.base][p] => p \in w.manifest.paths

\* A PASS speaks of the files that the runtime listed.
SnapshotPrinted(j) == \E w \in Wires : result[j].snapshot = Snapshot(w.manifest)

\* Permits, and jobs about to write one, are past the gate.
Gated ==
  /\ \A j \in Jobs : Passed(j) => SnapshotPrinted(j)
  /\ \A j \in Jobs : pc[j] = "export" => GateHeld(result[j].snapshot)
  /\ \A n \in Places :
       Disk!Exists(n) /\ files[n].body.kind = "permit" =>
         GateHeld(result[files[n].by].snapshot)

\* The result of a job changes only before it owns a file.
LEMMA ResultStays ==
  ASSUME Genuine, NEW j \in Jobs, [Next]_vars
  PROVE  \/ result'[j] = result[j]
         \/ /\ pc[j] = "evaluate" /\ pc'[j] # "export" /\ UNCHANGED files
            /\ \E w \in Wires, exit \in {"pass", "fail", "error"} : Evaluate(j, w, exit)
<1>1. TypeOK
  BY DEF Genuine, Inv
<1>2. ASSUME NEW v \in Jobs, NEW w \in Wires, NEW exit \in {"pass", "fail", "error"},
             Evaluate(v, w, exit)
      PROVE  \/ result'[j] = result[j]
             \/ v = j /\ pc[j] = "evaluate" /\ pc'[j] # "export" /\ UNCHANGED files
  BY <1>1, <1>2 DEF Evaluate, Check, Step, Goto, TypeOK
<1>3. ASSUME NEW v \in Jobs, Program(v) \/ Crash(v),
             ~\E w \in Wires, exit \in {"pass", "fail", "error"} : Evaluate(v, w, exit)
      PROVE  result' = result
  BY <1>3 DEF Program, Crash, ReadPolicy, ReadHead, CheckMain, CheckClean, ReadCommitted, Raises,
              WriteEvidence, WriteReceipt, WritePermit, Write, EvidenceWritten, ReceiptWritten,
              PermitWritten, Wrote, PassGate, locals
<1>4. CASE HostFails \/ People \/ UNCHANGED vars
  BY <1>4 DEF HostFails, People, Fetch, Checkout, Edit, vars, locals
<1>. QED
  BY <1>2, <1>3, <1>4 DEF Next

\* Only the gate lets a job export.
LEMMA ExportsAreGated ==
  ASSUME Genuine, NEW j \in Jobs, [Next]_vars, pc'[j] = "export"
  PROVE  pc[j] = "export" \/ GateHeld(result[j].snapshot)
<1>1. TypeOK /\ tree \in Trees
  BY DEF Genuine, Inv, TypeOK
<1>2. ASSUME NEW cloned \in BOOLEAN, PassGate(j, cloned)
      PROVE  pc'[j] = "export" => GateHeld(result[j].snapshot)
  <2>1. pc'[j] = "export" => Approved(result[j].snapshot, cloned)
    BY <1>1, <1>2 DEF PassGate, Goto, TypeOK
  <2>. QED
    BY <1>1, <2>1 DEF Approved, GateHeld
<1>3. ASSUME NEW v \in Jobs, Program(v) \/ Crash(v),
             ~\E cloned \in BOOLEAN : v = j /\ PassGate(v, cloned)
      PROVE  pc'[j] = "export" => pc[j] = "export"
  BY <1>1, <1>3
     DEF Program, Crash, ReadPolicy, ReadHead, CheckMain, CheckClean, ReadCommitted, Evaluate,
         Raises, WriteEvidence, WriteReceipt, WritePermit, Write, EvidenceWritten, ReceiptWritten,
         PermitWritten, Wrote, PassGate, Check, Step, Goto, TypeOK
<1>4. CASE HostFails \/ People \/ UNCHANGED vars
  BY <1>4 DEF HostFails, People, Fetch, Checkout, Edit, vars, Ended
<1>. QED
  BY <1>2, <1>3, <1>4 DEF Next

\* What job j is about to write.
Bodies(j, body) ==
  \/ pc[j] = "record" /\ body = Evidence(j)
  \/ pc[j] = "receipt" /\ body = Receipt(j)
  \/ pc[j] = "export" /\ body = Permit(j)

\* A step keeps the files that are there, and adds one that a job is about to write, and
\* that is not on disk yet.
LEMMA FilesAppear ==
  ASSUME Genuine, [Next]_vars
  PROVE  /\ FilesKept
         /\ \A n \in Places : Disk!Exists(n)' /\ ~Disk!Exists(n) =>
              /\ ~Disk!Durable(n)'
              /\ \E j \in Jobs : files'[n].by = j /\ Bodies(j, files'[n].body)
<1> DEFINE Appears == \A n \in Places : Disk!Exists(n)' /\ ~Disk!Exists(n) =>
                        /\ ~Disk!Durable(n)'
                        /\ \E j \in Jobs : files'[n].by = j /\ Bodies(j, files'[n].body)
<1>1. CASE UNCHANGED files
  BY <1>1 DEF Disk!Exists, FilesKept
<1>2. CASE HostFails
  BY <1>2, Disk!PowerLossEffect, Disk!PowerLossContents
     DEF HostFails, Genuine, Inv, TypeOK, FilesKept
<1>3. ASSUME NEW j \in Jobs, NEW kind \in Kinds, NEW body, Bodies(j, body),
             \/ pc[j] = "record" /\ kind = "evidence"
             \/ pc[j] = "receipt" /\ kind = "receipt"
             \/ pc[j] = "export" /\ kind = "permit",
             Disk!WriteBound(j, OutOf[j][kind], body)
      PROVE  FilesKept /\ Appears
  <2> DEFINE out == OutOf[j][kind]
  <2>1. out \in Places /\ JobInv(j) /\ Disk!FilesTypeOK
    BY JobTypes DEF Genuine, Inv, TypeOK
  <2>2. Disk!Holds(j, out)
    BY <1>3, <2>1 DEF JobInv, Writing
  <2>3. body \in EvidenceBodies \cup PermitBodies \cup ReceiptBodies
    BY <1>3, <2>1, BodyTypes DEF Genuine, JobInv, Written, Late, Bodies
  <2>. HIDE DEF out
  <2>4. \A m \in Places : Disk!Durable(m) => files'[m] = files[m]
    BY <1>3, <2>1, <2>2, <2>3, Disk!WriteBoundEffect DEF out
  <2>5. /\ \A m \in Places : Disk!Exists(m) =>
             Disk!Exists(m)' /\ files'[m].by = files[m].by /\ files'[m].body = files[m].body
        /\ \A m \in Places : Disk!Exists(m)' /\ ~Disk!Exists(m) =>
             m = out /\ files'[m].by = j /\ files'[m].body = body
    BY <1>3, <2>1, <2>2, <2>3, Disk!WriteBoundContents DEF out
  <2>6. \A m \in Places : Disk!Durable(m)' => Disk!Exists(m)
    BY <1>3, <2>1, <2>2, <2>3, Disk!WriteBoundDurable DEF out
  <2>. QED
    BY <1>3, <2>4, <2>5, <2>6 DEF FilesKept
<1>4. ASSUME NEW j \in Jobs, WriteEvidence(j) \/ WriteReceipt(j) \/ WritePermit(j)
      PROVE  FilesKept /\ Appears
  BY <1>3, <1>4 DEF WriteEvidence, WriteReceipt, WritePermit, Write, Kinds, Bodies
<1>5. ASSUME NEW j \in Jobs, Program(j) \/ Crash(j),
             ~WriteEvidence(j), ~WriteReceipt(j), ~WritePermit(j)
      PROVE  UNCHANGED files
  BY <1>5 DEF Program, Crash, ReadPolicy, ReadHead, CheckMain, CheckClean, ReadCommitted, Evaluate,
              Raises, EvidenceWritten, ReceiptWritten, PermitWritten, Wrote, PassGate
<1>6. CASE People \/ UNCHANGED vars
  BY <1>1, <1>6 DEF People, Fetch, Checkout, Edit, vars
<1>. QED
  BY <1>1, <1>2, <1>4, <1>5, <1>6 DEF Next

\* Only a job that exports adds a permit.
LEMMA PermitsAppear ==
  ASSUME Genuine, NEW n \in Places, [Next]_vars, Disk!Exists(n)', files'[n].body.kind = "permit"
  PROVE  \/ Disk!Exists(n) /\ files'[n].by = files[n].by /\ files'[n].body = files[n].body
         \/ files'[n].by \in Jobs /\ pc[files'[n].by] = "export"
<1>1. CASE Disk!Exists(n)
  BY <1>1, FilesAppear DEF FilesKept
<1>2. CASE ~Disk!Exists(n)
  <2>1. PICK j \in Jobs : files'[n].by = j /\ Bodies(j, files'[n].body)
    BY <1>2, FilesAppear
  <2>2. Evidence(j).kind # "permit" /\ Receipt(j).kind # "permit"
    BY DEF Evidence, Receipt
  <2>. QED
    BY <2>1, <2>2 DEF Bodies
<1>. QED
  BY <1>1, <1>2

LEMMA GatedStep ==
  ASSUME Genuine, Gated, [Next]_vars
  PROVE  Gated'
<1>1. ASSUME NEW j \in Jobs PROVE (Passed(j) => SnapshotPrinted(j))'
  <2>1. CASE result'[j] = result[j]
    BY <2>1 DEF Gated, Passed, SnapshotPrinted
  <2>2. ASSUME NEW w \in Wires, NEW exit \in {"pass", "fail", "error"}, Evaluate(j, w, exit)
        PROVE  (Passed(j) => SnapshotPrinted(j))'
    <3> DEFINE x == Answer(j, w, exit)
    <3>1. SUFFICES ASSUME Passed(j)' PROVE SnapshotPrinted(j)'
      OBVIOUS
    <3>2. /\ result'[j].decision = Judge(Head(j), x).decision
          /\ result'[j].snapshot = Judge(Head(j), x).snapshot
      BY <2>2 DEF Evaluate, Genuine, Inv, TypeOK
    <3>3. x # Rejected /\ Judge(Head(j), x) = x
      BY <3>1, <3>2 DEF Passed, Judge, Blocked
    <3>4. x.snapshot = Snapshot(w.manifest)
      <4>1. CASE x = ParseAttested(w, Head(j))
        BY <3>3, <4>1 DEF ParseAttested
      <4>2. CASE x = BootstrapResult(w, Head(j), approval[j])
        <5> DEFINE o == ParsePromoted(w, Head(j))
        <5>1. o.decision = "fail"
              /\ x = [decision |-> "pass", reasons |-> {}, snapshot |-> o.snapshot]
          BY <3>3, <4>2 DEF BootstrapResult, Authorize
        <5>2. o = [decision |-> w.verdict, reasons |-> w.evaluator \cup w.runtime,
                   snapshot |-> Snapshot(w.manifest)]
          BY <5>1 DEF ParsePromoted, Rejected
        <5>3. o.snapshot = Snapshot(w.manifest)
          BY <5>2
        <5>. HIDE DEF o, x
        <5>. QED
          BY <5>1, <5>3
      <4>. QED
        BY <3>3, <4>1, <4>2 DEF Answer
    <3>. QED
      BY <3>2, <3>3, <3>4 DEF SnapshotPrinted
  <2>. QED
    BY <2>1, <2>2, ResultStays
<1>2. ASSUME NEW j \in Jobs, pc'[j] = "export" PROVE GateHeld(result'[j].snapshot)
  BY <1>2, ResultStays, ExportsAreGated DEF Gated
<1>3. ASSUME NEW n \in Places, Disk!Exists(n)', files'[n].body.kind = "permit"
      PROVE  GateHeld(result'[files'[n].by].snapshot)
  <2>1. CASE Disk!Exists(n) /\ files'[n].by = files[n].by /\ files'[n].body = files[n].body
    <3>1. PICK k \in Jobs : k = files[n].by
      BY <2>1, Authors
    <3>2. GateHeld(result[k].snapshot)
      BY <1>3, <2>1, <3>1 DEF Gated
    <3>3. pc[k] # "evaluate"
      BY <2>1, <3>1 DEF Genuine, Inv, JobInv, Writing, Unwritten
    <3>. QED
      BY <2>1, <3>1, <3>2, <3>3, ResultStays
  <2>2. CASE files'[n].by \in Jobs /\ pc[files'[n].by] = "export"
    BY <2>2, ResultStays DEF Gated
  <2>. QED
    BY <1>3, <2>1, <2>2, PermitsAppear
<1>. QED
  BY <1>1, <1>2, <1>3 DEF Gated, GateHeld, Promotion

\* A gate that held of a PASS covers every promotion of its candidate, if the runtime
\* lists what the candidate changes.
LEMMA GateCovers ==
  ASSUME WiresListChanges, Genuine, Gated, NEW k \in Jobs, Passed(k),
         GateHeld(result[k].snapshot), NEW p \in GdcPaths, NEW base,
         base = result[k].snapshot.base, Documents[Head(k)][p].there,
         Promotion(Head(k), base, p)
  PROVE  \E record \in UNION {g.approvals : g \in Trees} :
           /\ record.head = Head(k) /\ record.document = Documents[Head(k)][p].id
           /\ record.version = Documents[Head(k)][p].version
<1> DEFINE s == result[k].snapshot
<1>1. s.head = Head(k) /\ s.base = base
  BY DEF Genuine, JobsHold, Governed, Earned
<1>2. PICK w \in Wires : s = Snapshot(w.manifest)
  BY DEF Gated, SnapshotPrinted
<1>3. s.head = w.manifest.head /\ s.base = w.manifest.base /\ s.paths = w.manifest.paths
  BY <1>2 DEF Snapshot
<1>. HIDE DEF s
<1>4. Documents[s.head][p] # Documents[s.base][p]
  BY <1>1 DEF Promotion
<1>5. p \in s.paths \cap GdcPaths
  BY <1>3, <1>4 DEF WiresListChanges
<1>6. PICK g \in Trees :
        [head |-> s.head, document |-> Documents[s.head][p].id,
         version |-> Documents[s.head][p].version] \in g.approvals
  BY <1>1, <1>5 DEF GateHeld, s
<1>. QED
  BY <1>1, <1>6

\* No permit promotes a document to a version that nobody approved at that head, if
\* the runtime lists the governance documents that a candidate changes: for any
\* number of jobs, and whoever edits the approvals meanwhile.
THEOREM PromotionsApproved ==
  ASSUME WiresListChanges
  PROVE  Spec => []PromotionsAreApproved
<1>1. Init => Gated
  <2> SUFFICES ASSUME Init PROVE Gated
    OBVIOUS
  <2>. QED
    BY DEF Init, Gated, Passed, NoResult, Disk!FilesInit, Disk!Exists, Disk!Absent
<1>2. Genuine /\ Gated /\ [Next]_vars => Gated'
  BY GatedStep
<1>3. Genuine /\ Gated => PromotionsAreApproved
  <2>1. SUFFICES ASSUME Genuine, Gated, NEW n \in Places, Disk!Exists(n),
                        files[n].body.kind = "permit", NEW p \in GdcPaths,
                        Documents[files[n].body.head][p].there,
                        Documents[files[n].body.head][p].approved,
                        /\ Documents[files[n].body.base][p].there
                        /\ Documents[files[n].body.base][p].approved
                        => Documents[files[n].body.base][p].version
                             # Documents[files[n].body.head][p].version
                 PROVE  \E record \in UNION {g.approvals : g \in Trees} :
                          /\ record.head = files[n].body.head
                          /\ record.document = Documents[files[n].body.head][p].id
                          /\ record.version = Documents[files[n].body.head][p].version
    BY DEF PromotionsAreApproved
  <2>2. PICK k \in Jobs : k = files[n].by
    BY <2>1, Authors
  <2>3. files[n].body = Permit(k) /\ Passed(k) /\ GateHeld(result[k].snapshot)
    BY <2>1, <2>2, Authors DEF Gated
  <2>4. files[n].body.head = Head(k) /\ files[n].body.base = result[k].snapshot.base
    BY <2>3 DEF Permit
  <2>5. Promotion(Head(k), files[n].body.base, p)
    BY <2>1, <2>4 DEF Promotion
  <2>. QED
    BY <2>1, <2>3, <2>4, <2>5, GateCovers
<1>. QED
  BY <1>1, <1>2, <1>3, GenuineInvariance, PTL DEF Spec

-------------------------------------------------------------------------------
(* Records filed in turn (PreparationRefinement). *)

\* A job that has written no longer changes what it wrote.
LEMMA DecidedStays ==
  ASSUME Genuine, [Next]_vars, NEW j \in Jobs, pc[j] \notin Unwritten
  PROVE  Same(j) /\ pc'[j] \notin Unwritten
<1> USE DEF Genuine, Inv, TypeOK, Step, Goto, Check, locals, Unwritten
<1>1. ASSUME NEW v \in Jobs,
             \/ ReadPolicy(v) \/ ReadHead(v) \/ (\E named \in BOOLEAN : CheckMain(v, named))
             \/ CheckClean(v) \/ ReadCommitted(v)
      PROVE  Same(j) /\ pc'[j] \notin Unwritten
  BY <1>1 DEF ReadPolicy, ReadHead, CheckMain, CheckClean, ReadCommitted, Same
<1>2. ASSUME NEW v \in Jobs, NEW w \in Wires, NEW exit \in {"pass", "fail", "error"},
             Evaluate(v, w, exit)
      PROVE  Same(j) /\ pc'[j] \notin Unwritten
  BY <1>2 DEF Evaluate, Same
<1>3. ASSUME NEW v \in Jobs,
             \/ WriteEvidence(v) \/ WriteReceipt(v) \/ WritePermit(v)
             \/ EvidenceWritten(v) \/ ReceiptWritten(v) \/ PermitWritten(v)
             \/ (\E cloned \in BOOLEAN : PassGate(v, cloned)) \/ Raises(v) \/ Crash(v)
      PROVE  Same(j) /\ pc'[j] \notin Unwritten
  BY <1>3 DEF WriteEvidence, WriteReceipt, WritePermit, Write, EvidenceWritten, ReceiptWritten,
              PermitWritten, Wrote, PassGate, Raises, Crash, Same
<1>4. CASE HostFails \/ People \/ UNCHANGED vars
  BY <1>4 DEF HostFails, People, Fetch, Checkout, Edit, vars, Same, Ended
<1>. QED
  BY <1>1, <1>2, <1>3, <1>4 DEF Next, Program

\* A receipt file, even a torn one, is that of a PASS whose evidence is on disk.
ReceiptsAreRecorded ==
  \A n \in Places, j \in Jobs :
    Disk!Exists(n) /\ files[n].body.kind = "receipt" /\ files[n].by = j =>
      Passed(j) /\ files[n].body = Receipt(j) /\ Owns(j, "evidence", Evidence(j))

LEMMA ReceiptsStep ==
  ASSUME Genuine, ReceiptsAreRecorded, [Next]_vars
  PROVE  ReceiptsAreRecorded'
<1>1. SUFFICES ASSUME NEW n \in Places, NEW j \in Jobs, Disk!Exists(n)',
                      files'[n].body.kind = "receipt", files'[n].by = j
               PROVE  /\ Passed(j)' /\ files'[n].body = Receipt(j)'
                      /\ Owns(j, "evidence", Evidence(j))'
  BY DEF ReceiptsAreRecorded
<1>2. /\ pc[j] \notin Unwritten /\ Passed(j) /\ files'[n].body = Receipt(j)
      /\ Owns(j, "evidence", Evidence(j))
  <2>1. CASE Disk!Exists(n)
    <3>1. files'[n].by = files[n].by /\ files'[n].body = files[n].body
      BY <1>1, <2>1, FilesAppear DEF FilesKept
    <3>. QED
      BY <1>1, <2>1, <3>1 DEF ReceiptsAreRecorded, Genuine, Inv, JobInv, Writing
  <2>2. CASE ~Disk!Exists(n)
    <3>1. Bodies(j, files'[n].body)
      BY <1>1, <2>2, FilesAppear
    <3>2. Evidence(j).kind # "receipt" /\ Permit(j).kind # "receipt"
      BY DEF Evidence, Permit
    <3>3. pc[j] = "receipt" /\ files'[n].body = Receipt(j)
      BY <1>1, <3>1, <3>2 DEF Bodies
    <3>. QED
      BY <3>3 DEF Genuine, Inv, JobInv, Written, Unwritten
  <2>. QED
    BY <2>1, <2>2
<1>. QED
  BY <1>2, DecidedStays, SameBodies, OwnedStays, FilesAppear

\* A job that reports its record as complete has a receipt for a PASS.
Complete(j) == pc[j] = "recorded" /\ Passed(j) => Owns(j, "receipt", Receipt(j))

OnFile == Genuine /\ ReceiptsAreRecorded /\ \A j \in Jobs : Complete(j)

\* Where a step may take a job.
LEMMA Moves ==
  ASSUME Genuine, [Next]_vars, NEW j \in Jobs
  PROVE  /\ pc[j] \in Ended => pc'[j] = pc[j]
         /\ files' # files => pc'[j] \in {pc[j], "crashed"}
         /\ pc[j] \in Unwritten => pc'[j] \in Unwritten \cup {"record", "blocked", "crashed"}
         /\ pc'[j] = "recorded" => \/ pc[j] \in {"recorded", "gate"}
                                   \/ pc[j] = "record" /\ ~Passed(j)
<1> USE DEF Genuine, Inv, TypeOK, Step, Goto, Check, locals, Unwritten, Ended
<1>1. ASSUME NEW v \in Jobs,
             \/ ReadPolicy(v) \/ ReadHead(v) \/ (\E named \in BOOLEAN : CheckMain(v, named))
             \/ CheckClean(v) \/ ReadCommitted(v)
             \/ (\E w \in Wires, exit \in {"pass", "fail", "error"} : Evaluate(v, w, exit))
      PROVE  /\ pc[v] \in Unwritten /\ UNCHANGED files
             /\ \E next \in Unwritten \cup {"record", "blocked"} : pc' = [pc EXCEPT ![v] = next]
  BY <1>1 DEF ReadPolicy, ReadHead, CheckMain, CheckClean, ReadCommitted, Evaluate
<1>2. ASSUME NEW v \in Jobs, WriteEvidence(v) \/ WriteReceipt(v) \/ WritePermit(v)
      PROVE  pc' = pc
  BY <1>2 DEF WriteEvidence, WriteReceipt, WritePermit, Write
<1>3. ASSUME NEW v \in Jobs, EvidenceWritten(v)
      PROVE  /\ pc[v] = "record" /\ UNCHANGED files
             /\ \E next \in {"receipt", "recorded", "blocked"} :
                  pc' = [pc EXCEPT ![v] = next] /\ (next = "recorded" => ~Passed(v))
  BY <1>3 DEF EvidenceWritten, Wrote
<1>4. ASSUME NEW v \in Jobs, ReceiptWritten(v) \/ PermitWritten(v)
      PROVE  /\ pc[v] \in {"receipt", "export"} /\ UNCHANGED files
             /\ \E next \in {"gate", "prepared", "blocked"} : pc' = [pc EXCEPT ![v] = next]
  BY <1>4 DEF ReceiptWritten, PermitWritten, Wrote
<1>5. ASSUME NEW v \in Jobs, NEW cloned \in BOOLEAN, PassGate(v, cloned)
      PROVE  /\ pc[v] = "gate" /\ UNCHANGED files
             /\ \E next \in {"export", "recorded"} : pc' = [pc EXCEPT ![v] = next]
  BY <1>5 DEF PassGate
<1>6. ASSUME NEW v \in Jobs, Raises(v) \/ Crash(v)
      PROVE  /\ pc[v] \notin Ended /\ UNCHANGED files
             /\ \E next \in {"blocked", "crashed"} : pc' = [pc EXCEPT ![v] = next]
  BY <1>6 DEF Raises, Crash
<1>7. CASE HostFails
  BY <1>7 DEF HostFails
<1>8. CASE People \/ UNCHANGED vars
  BY <1>8 DEF People, Fetch, Checkout, Edit, vars
<1>. QED
  BY <1>1, <1>2, <1>3, <1>4, <1>5, <1>6, <1>7, <1>8 DEF Next, Program

LEMMA CompleteStep ==
  ASSUME Genuine, [Next]_vars, NEW j \in Jobs, Complete(j)
  PROVE  Complete(j)'
<1>1. SUFFICES ASSUME pc'[j] = "recorded", Passed(j)'
               PROVE  Owns(j, "receipt", Receipt(j))'
  BY DEF Complete
<1>2. pc[j] \in {"recorded", "gate"} \/ (pc[j] = "record" /\ ~Passed(j))
  BY <1>1, Moves
<1>3. Same(j)
  BY <1>2, DecidedStays DEF Unwritten
<1>4. Owns(j, "receipt", Receipt(j))
  BY <1>1, <1>2, <1>3, SameBodies DEF Complete, Genuine, Inv, JobInv, Written
<1>. QED
  BY <1>3, <1>4, OwnedStays, FilesAppear

\* What is filed of a job is filed in turn, once it has decided.
LEMMA FiledInOrder ==
  ASSUME OnFile, NEW j \in Jobs
  PROVE  /\ FiledBy(j) \in {{}, {"evidence"}, {"evidence", "receipt"}, Kinds}
         /\ "receipt" \in FiledBy(j) => Passed(j)
         /\ pc[j] \in Unwritten => FiledBy(j) = {}
<1>1. /\ \A kind \in Kinds : OutOf[j][kind] \in Places
      /\ Evidence(j).kind = "evidence" /\ Receipt(j).kind = "receipt"
      /\ Permit(j).kind = "permit"
  BY JobTypes DEF Evidence, Receipt, Permit
<1>2. \A kind \in Kinds : \A body : Owns(j, kind, body) =>
        /\ Disk!Exists(OutOf[j][kind]) /\ files[OutOf[j][kind]].by = j
        /\ files[OutOf[j][kind]].body = body
  BY DEF Owns, Disk!Durable, Disk!Exists
<1>3. "receipt" \in FiledBy(j) => Passed(j) /\ "evidence" \in FiledBy(j)
  BY <1>1, <1>2 DEF FiledBy, Kinds, OnFile, ReceiptsAreRecorded
<1>4. "permit" \in FiledBy(j) => "evidence" \in FiledBy(j) /\ "receipt" \in FiledBy(j)
  BY <1>1, <1>2 DEF FiledBy, Kinds, OnFile, Genuine, Inv, PermitFollowsRecord
<1>5. pc[j] \in Unwritten => FiledBy(j) = {}
  BY <1>1, <1>2 DEF FiledBy, OnFile, Genuine, Inv, JobInv, Writing
<1>6. FiledBy(j) \subseteq Kinds
  BY DEF FiledBy
<1>. QED
  BY <1>3, <1>4, <1>5, <1>6 DEF Kinds

\* A step files at most one record of a job, and in its turn.
LEMMA FiledStep ==
  ASSUME OnFile, [Next]_vars, NEW j \in Jobs, pc[j] \notin Unwritten
  PROVE  \/ FiledBy(j)' = FiledBy(j)
         \/ /\ files' # files
            /\ pc[j] \notin {"recorded", "prepared"}
            /\ \E k \in Kinds : /\ FiledBy(j)' = FiledBy(j) \cup {k}
                                /\ FiledBy(j) = OnRecord!Before[k]
                                /\ k # "evidence" => Passed(j)
<1>1. Same(j) /\ FilesKept
  BY DecidedStays, FilesAppear DEF OnFile
<1>2. /\ Evidence(j)' = Evidence(j) /\ Receipt(j)' = Receipt(j) /\ Permit(j)' = Permit(j)
  BY <1>1, SameBodies
<1>3. FiledBy(j) \subseteq FiledBy(j)' /\ FiledBy(j)' \subseteq Kinds
  BY <1>1, OwnedStays, PermitStays DEF FiledBy
<1>4. ASSUME NEW kind \in Kinds, NEW body, Owns(j, kind, body)'
      PROVE  /\ Disk!Exists(OutOf[j][kind]) /\ files[OutOf[j][kind]].by = j
             /\ files[OutOf[j][kind]].body = body
  <2>1. PICK n \in Places : n = OutOf[j][kind]
    BY JobTypes
  <2>2. Disk!Durable(n)' /\ files'[n].by = j /\ files'[n].body = body
    BY <1>4, <2>1 DEF Owns
  <2>3. Disk!Exists(n)' /\ Disk!Exists(n)
    BY <2>2, FilesAppear DEF OnFile, Disk!Durable, Disk!Exists
  <2>. QED
    BY <1>1, <2>1, <2>2, <2>3 DEF FilesKept
<1>5. /\ Evidence(j).kind = "evidence" /\ Receipt(j).kind = "receipt"
      /\ Permit(j).kind = "permit" /\ \A kind \in Kinds : OutOf[j][kind] \in Places
  BY JobTypes DEF Evidence, Receipt, Permit
<1>6. "receipt" \in FiledBy(j)' => "evidence" \in FiledBy(j) /\ Passed(j)
  BY <1>2, <1>4, <1>5 DEF FiledBy, Kinds, OnFile, ReceiptsAreRecorded
<1>7. "permit" \in FiledBy(j)' =>
        /\ "receipt" \in FiledBy(j) /\ "evidence" \in FiledBy(j) /\ Passed(j)
        /\ pc[j] \in Exporting
  <2>1. SUFFICES ASSUME "permit" \in FiledBy(j)'
                 PROVE  /\ "receipt" \in FiledBy(j) /\ "evidence" \in FiledBy(j) /\ Passed(j)
                        /\ pc[j] \in Exporting
    OBVIOUS
  <2>2. Owns(j, "permit", Permit(j))'
    BY <2>1 DEF FiledBy
  <2>3. PICK n \in Places : n = OutOf[j]["permit"]
    BY <1>5 DEF Kinds
  <2>4. Disk!Exists(n) /\ files[n].by = j /\ files[n].body.kind = "permit"
    BY <1>2, <1>4, <1>5, <2>2, <2>3 DEF Kinds
  <2>. QED
    BY <2>4 DEF FiledBy, Kinds, OnFile, Genuine, Inv, PermitFollowsRecord, FilesHold, FileHolds
<1>8. UNCHANGED files => FiledBy(j)' = FiledBy(j)
  BY <1>2 DEF FiledBy, Owns, Disk!Durable
<1>9. /\ pc[j] \in {"recorded", "prepared"} => "evidence" \in FiledBy(j)
      /\ pc[j] = "recorded" /\ Passed(j) => "receipt" \in FiledBy(j)
      /\ pc[j] = "prepared" => Kinds \subseteq FiledBy(j)
  BY DEF OnFile, Genuine, JobsHold, Reported, Complete, FiledBy, Kinds
<1>10. FiledBy(j) \in {{}, {"evidence"}, {"evidence", "receipt"}, Kinds}
  BY FiledInOrder
<1>. QED
  BY <1>3, <1>6, <1>7, <1>8, <1>9, <1>10 DEF OnRecord!Before, Kinds, Exporting

EntriesTypeOK == [j \in Jobs |-> EntryOf(j)] \in [Jobs -> OnRecord!Entries]

LEMMA EntryTypes == EntriesTypeOK
  BY DEF EntriesTypeOK, EntryOf, OnRecord!Entries, OnRecord!Records, FiledBy, Kinds, ReportOf,
         Passed

\* An entry with one part replaced.
Entry(p, f, r) == [passed |-> p, filed |-> f, report |-> r]

LEMMA EntryWith ==
  ASSUME NEW x, NEW p, NEW f, NEW r, NEW z, x = Entry(p, f, r)
  PROVE  /\ [x EXCEPT !.passed = z] = Entry(z, f, r)
         /\ [x EXCEPT !.report = z] = Entry(p, f, z)
         /\ x.passed = p /\ x.filed = f /\ x.report = r
  BY DEF Entry

\* An entry before its job has decided.
LEMMA UndecidedEntry ==
  ASSUME OnFile, OnFile', [Next]_vars, NEW j \in Jobs, pc[j] \in Unwritten
  PROVE  \/ EntryOf(j)' = EntryOf(j)
         \/ OnRecord!Pass(EntryOf(j), EntryOf(j)')
         \/ OnRecord!Report(EntryOf(j), EntryOf(j)')
<1>1. ~Passed(j) /\ FiledBy(j) = {} /\ ReportOf(j) = "none"
  BY FiledInOrder DEF OnFile, Genuine, JobsHold, Governed, ReportOf, Unwritten
<1>2. FiledBy(j)' = {}
  <2>1. SUFFICES ASSUME NEW kind \in Kinds, NEW body, Owns(j, kind, body)' PROVE FALSE
    BY DEF FiledBy
  <2>2. PICK n \in Places : n = OutOf[j][kind]
    BY JobTypes
  <2>3. Disk!Exists(n)' /\ Disk!Exists(n) /\ files'[n].by = j
    BY <2>1, <2>2, FilesAppear DEF OnFile, Owns, Disk!Durable, Disk!Exists
  <2>4. files[n].by = j
    BY <2>3, FilesAppear DEF OnFile, FilesKept
  <2>. QED
    BY <2>3, <2>4 DEF OnFile, Genuine, Inv, JobInv, Writing
<1>3. pc'[j] \in Unwritten \cup {"record", "blocked", "crashed"}
  BY Moves DEF OnFile
<1>4. Passed(j)' => pc'[j] = "record"
  <2>1. ASSUME NEW w \in Wires, NEW exit \in {"pass", "fail", "error"}, Evaluate(j, w, exit),
               Passed(j)'
        PROVE  pc'[j] = "record"
    <3> DEFINE x == Answer(j, w, exit)
               record == Judge(Head(j), x)
    <3>1. result'[j].decision = record.decision
      BY <2>1 DEF Evaluate, OnFile, Genuine, Inv, TypeOK
    <3>2. record = x /\ record.decision = "pass"
      BY <2>1, <3>1 DEF Passed, Judge, Blocked
    <3>3. SinkAccepts(j, x, record)
      BY <3>2 DEF SinkAccepts
    <3>. HIDE DEF x, record
    <3>. QED
      BY <2>1, <3>3 DEF Evaluate, Check, Step, Goto, OnFile, Genuine, Inv, TypeOK, x, record
  <2>2. CASE result'[j] = result[j]
    BY <1>1, <2>2 DEF Passed
  <2>. QED
    BY <2>1, <2>2, ResultStays DEF OnFile
<1>5. ReportOf(j)' = IF pc'[j] \in {"blocked", "crashed"} THEN "failed" ELSE "none"
  BY <1>3 DEF ReportOf, Unwritten
<1> DEFINE x == EntryOf(j)
           y == EntryOf(j)'
<1>6. x = Entry(FALSE, {}, "none") /\ y = Entry(Passed(j)', {}, ReportOf(j)')
  BY <1>1, <1>2 DEF EntryOf, Entry, Passed
<1>7. \/ y = Entry(TRUE, {}, "none")
      \/ \E report \in {"none", "failed"} : y = Entry(FALSE, {}, report)
  BY <1>4, <1>5, <1>6 DEF Passed
<1>. HIDE DEF x, y
<1>8. /\ [x EXCEPT !.passed = TRUE] = Entry(TRUE, {}, "none")
      /\ \A report : [x EXCEPT !.report = report] = Entry(FALSE, {}, report)
      /\ x.passed = FALSE /\ x.filed = {} /\ x.report = "none"
  <2>1. PICK p, f, r : p = FALSE /\ f = {} /\ r = "none"
    OBVIOUS
  <2>2. x = Entry(p, f, r)
    BY <1>6, <2>1
  <2>3. ASSUME NEW z
        PROVE  /\ [x EXCEPT !.passed = z] = Entry(z, f, r)
               /\ [x EXCEPT !.report = z] = Entry(p, f, z)
               /\ x.passed = p /\ x.filed = f /\ x.report = r
    BY <2>2, EntryWith
  <2>. QED
    BY <2>1, <2>3
<1>9. y = x \/ OnRecord!Pass(x, y) \/ OnRecord!Report(x, y)
  BY <1>6, <1>7, <1>8 DEF OnRecord!Pass, OnRecord!Report
<1>. QED
  BY <1>9 DEF x, y

\* An entry afterwards.
LEMMA DecidedEntry ==
  ASSUME OnFile, OnFile', [Next]_vars, NEW j \in Jobs, pc[j] \notin Unwritten
  PROVE  \/ EntryOf(j)' = EntryOf(j)
         \/ OnRecord!File(EntryOf(j), EntryOf(j)')
         \/ OnRecord!Report(EntryOf(j), EntryOf(j)')
<1> DEFINE x == EntryOf(j)
           y == EntryOf(j)'
<1>1. Passed(j)' = Passed(j)
  BY DecidedStays, SameBodies DEF OnFile
<1>2. /\ x = Entry(Passed(j), FiledBy(j), ReportOf(j))
      /\ y = Entry(Passed(j), FiledBy(j)', ReportOf(j)')
  BY <1>1 DEF EntryOf, Entry
<1>3. CASE FiledBy(j)' = FiledBy(j)
  <2>1. /\ y = [x EXCEPT !.report = ReportOf(j)']
        /\ x.passed = Passed(j) /\ x.filed = FiledBy(j) /\ x.report = ReportOf(j)
    BY <1>2, <1>3, EntryWith
  <2>2. ReportOf(j) = "none" \/ ReportOf(j)' = ReportOf(j)
    BY Moves DEF OnFile, ReportOf, Ended
  <2>3. ReportOf(j)' = "prepared" => FiledBy(j) = Kinds
    BY <1>3 DEF ReportOf, OnFile, Genuine, JobsHold, Reported, FiledBy, Kinds
  <2>4. ReportOf(j)' = "recorded" =>
          FiledBy(j) = IF Passed(j) THEN {"evidence", "receipt"} ELSE {"evidence"}
    <3>1. SUFFICES ASSUME pc'[j] = "recorded"
                   PROVE  FiledBy(j) = IF Passed(j) THEN {"evidence", "receipt"}
                                       ELSE {"evidence"}
      BY DEF ReportOf
    <3>2. "evidence" \in FiledBy(j)' /\ (Passed(j)' => "receipt" \in FiledBy(j)')
      BY <3>1 DEF OnFile, Genuine, JobsHold, Reported, Complete, FiledBy, Kinds
    <3>3. "permit" \notin FiledBy(j)'
      <4>1. SUFFICES ASSUME Owns(j, "permit", Permit(j))' PROVE FALSE
        BY DEF FiledBy
      <4>2. PICK n \in Places : n = OutOf[j]["permit"]
        BY JobTypes DEF Kinds
      <4>3. (Disk!Exists(n) /\ files[n].by = j /\ files[n].body.kind = "permit")'
        BY <4>1, <4>2 DEF Owns, Disk!Durable, Disk!Exists, Permit
      <4>4. pc'[j] \in Exporting
        BY <4>3 DEF OnFile, Genuine, FilesHold, FileHolds
      <4>. QED
        BY <3>1, <4>4 DEF Exporting
    <3>4. "receipt" \in FiledBy(j) => Passed(j)
      BY FiledInOrder
    <3>5. FiledBy(j) \subseteq Kinds
      BY DEF FiledBy
    <3>. QED
      BY <1>1, <1>3, <3>2, <3>3, <3>4, <3>5 DEF Kinds
  <2>5. ReportOf(j)' \in {"none", "recorded", "prepared", "failed"}
    BY DEF ReportOf
  <2>6. CASE ReportOf(j)' = ReportOf(j)
    BY <1>2, <1>3, <2>6
  <2>7. CASE ReportOf(j) = "none" /\ ReportOf(j)' # "none"
    BY <1>2, <2>1, <2>3, <2>4, <2>5, <2>7 DEF OnRecord!Report, OnRecord!Records, Kinds
  <2>. QED
    BY <2>2, <2>6, <2>7
<1>4. CASE FiledBy(j)' # FiledBy(j)
  <2>1. /\ files' # files /\ pc[j] \notin {"recorded", "prepared"}
        /\ \E k \in Kinds : /\ FiledBy(j)' = FiledBy(j) \cup {k}
                            /\ FiledBy(j) = OnRecord!Before[k]
                            /\ k # "evidence" => Passed(j)
    BY <1>4, FiledStep
  <2>2. PICK k \in Kinds : /\ FiledBy(j)' = FiledBy(j) \cup {k}
                           /\ FiledBy(j) = OnRecord!Before[k]
                           /\ k # "evidence" => Passed(j)
    BY <2>1
  <2>3. ReportOf(j) \in {"none", "failed"} /\ ReportOf(j)' \in {ReportOf(j), "failed"}
    BY <2>1, Moves DEF OnFile, ReportOf
  <2>4. x.filed = FiledBy(j) /\ x.passed = Passed(j) /\ x.report = ReportOf(j)
    BY <1>2, EntryWith
  <2>5. y = [passed |-> x.passed, filed |-> x.filed \cup {k}, report |-> ReportOf(j)']
    BY <1>2, <2>2, <2>4 DEF Entry
  <2>. HIDE DEF x, y
  <2>6. OnRecord!File(x, y)
    BY <2>2, <2>3, <2>4, <2>5 DEF OnRecord!File, OnRecord!Records, Kinds
  <2>. QED
    BY <2>6 DEF x, y
<1>. QED
  BY <1>3, <1>4

\* Records are filed in turn, for good, and truly reported: for any number of jobs, any
\* shared paths, and any failures.
THEOREM FiledInTurn == Spec => FilesInTurn
<1>1. Init => OnFile /\ OnRecord!Init
  <2>. SUFFICES ASSUME Init PROVE OnFile /\ OnRecord!Init
    OBVIOUS
  <2>1. OnFile
    BY GenuineInit DEF Init, OnFile, ReceiptsAreRecorded, Complete, Disk!FilesInit,
       Disk!Exists, Disk!Absent
  <2>2. ASSUME NEW j \in Jobs PROVE EntryOf(j) = OnRecord!Blank
    BY <2>1, <2>2, FiledInOrder
       DEF Init, EntryOf, OnRecord!Blank, ReportOf, Passed, NoResult, Unwritten
  <2>. QED
    BY <2>1, <2>2 DEF OnRecord!Init
<1>2. OnFile /\ [Next]_vars => OnFile'
  BY GenuineStep, ReceiptsStep, CompleteStep DEF OnFile
<1>3. OnFile /\ OnFile' /\ [Next]_vars => [OnRecord!Next]_([j \in Jobs |-> EntryOf(j)])
  <2>. SUFFICES ASSUME OnFile, OnFile', [Next]_vars
                PROVE  OnRecord!Next
    OBVIOUS
  <2>1. \A j \in Jobs : \/ EntryOf(j)' = EntryOf(j)
                        \/ OnRecord!Change(EntryOf(j), EntryOf(j)')
    BY UndecidedEntry, DecidedEntry DEF OnRecord!Change
  <2>2. EntriesTypeOK'
    BY EntryTypes, PTL
  <2>. QED
    BY <2>1, <2>2 DEF EntriesTypeOK, OnRecord!Next
<1>. QED
  BY <1>1, <1>2, <1>3, PTL DEF Spec, FilesInTurn, OnRecord!Spec

-------------------------------------------------------------------------------
(* No job loops. *)

Stages == {"record", "receipt", "export"}

\* How many steps of its own a job has left, at most: one per statement ahead of it on the
\* longest way to the end, and those of the write it is in.
Ahead == [policy |-> 25, head |-> 24, main |-> 23, clean |-> 22, committed |-> 21,
          evaluate |-> 20, record |-> 14, receipt |-> 8, gate |-> 7, export |-> 1,
          prepared |-> 0, recorded |-> 0, blocked |-> 0, crashed |-> 0]

Left(j) == Ahead[pc[j]] + IF pc[j] \in Stages THEN Disk!Left[io[j]] ELSE 0

LEMMA LeftType ==
  ASSUME TypeOK, NEW j \in Jobs
  PROVE  Left(j) \in 0..25
<1>1. Disk!Left[io[j]] \in 0..5
  BY DEF TypeOK, Disk!FilesTypeOK, Disk!WriteSteps, Disk!Left
<1>2. /\ pc[j] \in Stages => Ahead[pc[j]] \in 0..14
      /\ Ahead[pc[j]] \in 0..25
  BY DEF TypeOK, Statements, Unwritten, Ended, Ahead, Stages
<1>. QED
  BY <1>1, <1>2 DEF Left

\* A step of job j to another statement.
Moved(j, next) ==
  /\ pc' = [pc EXCEPT ![j] = next]
  /\ \A k \in Jobs \ {j} : io'[k] = io[k]
  /\ next \in Stages => io'[j] = "probe"
  /\ Ahead[next] + (IF next \in Stages THEN 5 ELSE 0) < Ahead[pc[j]]

LEMMA MoveCounts ==
  ASSUME TypeOK, NEW j \in Jobs, NEW next \in Statements, Moved(j, next)
  PROVE  Left(j)' < Left(j) /\ \A k \in Jobs \ {j} : Left(k)' = Left(k)
<1>1. /\ Ahead[pc[j]] \in Nat /\ Ahead[next] \in Nat /\ Disk!Left["probe"] = 5
      /\ Disk!Left[io[j]] \in Nat
  BY DEF TypeOK, Statements, Unwritten, Ended, Ahead, Disk!FilesTypeOK, Disk!WriteSteps,
         Disk!Left
<1>2. pc'[j] = next /\ \A k \in Jobs \ {j} : pc'[k] = pc[k] /\ io'[k] = io[k]
  BY DEF TypeOK, Moved
<1>. QED
  BY <1>1, <1>2 DEF Left, Moved

LEMMA ProgramCounts ==
  ASSUME TypeOK, NEW j \in Jobs, Program(j)
  PROVE  Left(j)' < Left(j) /\ \A k \in Jobs \ {j} : Left(k)' = Left(k)
<1>1. ASSUME \/ ReadPolicy(j) \/ ReadHead(j) \/ (\E named \in BOOLEAN : CheckMain(j, named))
             \/ CheckClean(j) \/ ReadCommitted(j) \/ Raises(j)
      PROVE  \E next \in Statements : Moved(j, next)
  BY <1>1 DEF ReadPolicy, ReadHead, CheckMain, CheckClean, ReadCommitted, Raises, Check, Step,
     Goto, Moved, Ahead, Stages, Statements, Unwritten, Ended
<1>2. ASSUME NEW w \in Wires, NEW exit \in {"pass", "fail", "error"}, Evaluate(j, w, exit)
      PROVE  \E next \in Statements : Moved(j, next)
  <2>1. PICK next \in {"record", "blocked"} :
          pc[j] = "evaluate" /\ pc' = [pc EXCEPT ![j] = next]
    BY <1>2 DEF Evaluate, Check, Step, Goto
  <2>2. io'[j] = "probe" /\ \A k \in Jobs \ {j} : io'[k] = io[k]
    BY <1>2 DEF Evaluate, TypeOK, Disk!FilesTypeOK
  <2>3. Ahead[next] + (IF next \in Stages THEN 5 ELSE 0) < Ahead[pc[j]]
    BY <2>1 DEF Ahead, Stages
  <2>. QED
    BY <2>1, <2>2, <2>3 DEF Moved, Statements, Unwritten, Ended
<1>3. ASSUME \/ EvidenceWritten(j) \/ ReceiptWritten(j) \/ PermitWritten(j)
             \/ \E cloned \in BOOLEAN : PassGate(j, cloned)
      PROVE  \E next \in Statements : Moved(j, next)
  BY <1>3 DEF EvidenceWritten, ReceiptWritten, PermitWritten, PassGate, Wrote, Step, Goto,
     Moved, Ahead, Stages, Statements, Unwritten, Ended, TypeOK, Disk!FilesTypeOK
<1>4. CASE WriteEvidence(j) \/ WriteReceipt(j) \/ WritePermit(j)
  <2>1. /\ pc' = pc /\ pc[j] \in Stages
        /\ \E n, body : Disk!WriteBound(j, n, body)
    BY <1>4 DEF WriteEvidence, WriteReceipt, WritePermit, Write, Stages
  <2>2. /\ Disk!Left[io[j]] \in 0..5 /\ Disk!Left[io'[j]] \in 0..5
        /\ Disk!Left[io'[j]] < Disk!Left[io[j]]
        /\ \A k \in Jobs \ {j} : io'[k] = io[k]
    BY <2>1, Disk!WriteBoundCounts DEF TypeOK
  <2>3. Ahead[pc[j]] \in Nat
    BY <2>1 DEF Ahead, Stages
  <2>. QED
    BY <2>1, <2>2, <2>3 DEF Left
<1>. QED
  BY <1>1, <1>2, <1>3, <1>4, MoveCounts DEF Program

\* Nothing gives a job steps back: not the end that it comes to, nor what others do, the
\* host or people.
LEMMA NothingReturns ==
  ASSUME TypeOK, NEW k \in Jobs, (\E j \in Jobs : Crash(j)) \/ HostFails \/ People
  PROVE  Left(k)' <= Left(k)
<1>1. Left(k) \in 0..25
  BY LeftType
<1>2. io' = io
  BY DEF Crash, HostFails, People, Fetch, Checkout, Edit
<1>3. pc'[k] = pc[k] \/ pc'[k] = "crashed"
  BY DEF TypeOK, Crash, HostFails, People, Fetch, Checkout, Edit, Goto
<1>. QED
  BY <1>1, <1>2, <1>3 DEF Left, Ahead, Stages

\* No job loops: at most 25 steps of its own are ahead of it, each one that it takes uses
\* one up, and no one gives it back.  With fairness, it ends unless it gets stuck.
JobsAreCounted ==
  [][\A j \in Jobs : /\ Left(j) \in 0..25 /\ Left(j)' <= Left(j)
                     /\ Program(j) => Left(j)' < Left(j)]_vars

THEOREM JobsAdvance == Spec => JobsAreCounted
<1>1. TypeOK => \A j \in Jobs : Left(j) \in 0..25
  BY LeftType
<1>2. ASSUME TypeOK, (\A j \in Jobs : Left(j) \in 0..25)', Next
      PROVE  \A j \in Jobs : /\ Left(j) \in 0..25 /\ Left(j)' <= Left(j)
                             /\ Program(j) => Left(j)' < Left(j)
  <2>1. SUFFICES ASSUME NEW k \in Jobs
                 PROVE  Left(k)' <= Left(k) /\ (Program(k) => Left(k)' < Left(k))
    BY <1>2, LeftType
  <2>2. Left(k) \in 0..25 /\ Left(k)' \in 0..25
    BY <1>2, LeftType
  <2>3. Program(k) => Left(k)' < Left(k)
    BY <1>2, ProgramCounts
  <2>4. ASSUME NEW j \in Jobs, Program(j) PROVE Left(k)' <= Left(k)
    <3>1. CASE j = k
      BY <2>2, <2>3, <2>4, <3>1
    <3>2. CASE j # k
      BY <1>2, <2>2, <2>4, <3>2, ProgramCounts
    <3>. QED
      BY <3>1, <3>2
  <2>. QED
    BY <1>2, <2>3, <2>4, NothingReturns DEF Next
<1>. QED
  BY <1>1, <1>2, PreparationTypes, PTL DEF Spec, JobsAreCounted

-------------------------------------------------------------------------------
(* The publisher that reads these files (EndToEnd). *)

\* What a receipt or a permit that was read at some time still means.
ReceiptRead(m, body) ==
  /\ pc[m] \notin Unwritten /\ Passed(m) /\ body = Receipt(m)
  /\ Owns(m, "evidence", Evidence(m))
PermitRead(k, body) ==
  /\ pc[k] \notin Unwritten /\ Passed(k) /\ body = Permit(k)
  /\ Owns(k, "evidence", Evidence(k)) /\ Owns(k, "receipt", Receipt(k))
  /\ GateHeld(result[k].snapshot)

MeansSomething(body) ==
  /\ body.kind = "receipt" => \E m \in Jobs : ReceiptRead(m, body)
  /\ body.kind = "permit"  => \E k \in Jobs : PermitRead(k, body)

LEMMA GateStays ==
  ASSUME NEW k \in Jobs, result'[k] = result[k], GateHeld(result[k].snapshot)
  PROVE  GateHeld(result[k].snapshot)'
  BY DEF GateHeld, Promotion

LEMMA MeaningStays ==
  ASSUME Genuine, [Next]_vars, NEW body, MeansSomething(body)
  PROVE  MeansSomething(body)'
<1>1. ASSUME NEW m \in Jobs, ReceiptRead(m, body) PROVE ReceiptRead(m, body)'
  BY <1>1, DecidedStays, SameBodies, OwnedStays, FilesAppear DEF ReceiptRead
<1>2. ASSUME NEW k \in Jobs, PermitRead(k, body) PROVE PermitRead(k, body)'
  <2>1. Same(k) /\ pc'[k] \notin Unwritten /\ FilesKept
    BY <1>2, DecidedStays, FilesAppear DEF PermitRead
  <2>. QED
    BY <1>2, <2>1, SameBodies, OwnedStays, GateStays DEF PermitRead, Same
<1>. QED
  BY <1>1, <1>2 DEF MeansSomething

\* Whatever file is read, whole.
LEMMA ReadMeans ==
  ASSUME Genuine, Gated, ReceiptsAreRecorded, NEW n \in Places, Disk!Exists(n)
  PROVE  MeansSomething(files[n].body)
<1>1. PICK j \in Jobs : j = files[n].by
  BY Authors
<1>2. pc[j] \notin Unwritten
  BY <1>1 DEF Genuine, Inv, JobInv, Writing
<1>3. files[n].body.kind = "receipt" => ReceiptRead(j, files[n].body)
  BY <1>1, <1>2 DEF ReceiptsAreRecorded, ReceiptRead
<1>4. files[n].body.kind = "permit" => PermitRead(j, files[n].body)
  BY <1>1, <1>2 DEF Genuine, Inv, PermitFollowsRecord, Gated, PermitRead
<1>. QED
  BY <1>3, <1>4 DEF MeansSomething

\* A job's evidence on disk is governed.
LEMMA OwnedIsGoverned ==
  ASSUME Genuine, NEW m \in Jobs, Owns(m, "evidence", Evidence(m)), Passed(m)
  PROVE  /\ pc[m] \notin Unwritten /\ revision[m] \in Main
         /\ Mode(m) = "bootstrap" =>
              /\ GovernanceOf[revision[m]].bootstrap = Head(m)
              /\ GovernanceOf[revision[m]].attestations[Head(m)] =
                   [head |-> Head(m), base |-> result[m].snapshot.base,
                    paths |-> result[m].snapshot.paths]
<1>1. PICK n \in Places : n = OutOf[m]["evidence"]
  BY JobTypes DEF Kinds
<1>2. Disk!Exists(n) /\ files[n].by = m /\ files[n].body = Evidence(m)
  BY <1>1 DEF Owns, Disk!Durable, Disk!Exists
<1>3. /\ Evidence(m).kind = "evidence" /\ Evidence(m).mode = Mode(m)
      /\ Evidence(m).head = Head(m) /\ Evidence(m).revision = revision[m]
      /\ Evidence(m).result = result[m]
  BY DEF Evidence
<1>4. pc[m] \notin Unwritten
  BY <1>2 DEF Genuine, Inv, JobInv, Writing
<1>. QED
  BY <1>2, <1>3, <1>4 DEF Genuine, EvidenceIsGoverned, Passed

\* Inputs that mean what they say, and that the publisher accepts, make the activation
\* rest on evidence.
LEMMA AcceptedRests ==
  ASSUME Genuine, NEW a, NEW inputs, Accepts(a, inputs),
         \A kind \in Kinds : MeansSomething(inputs[kind])
  PROVE  RestsOnEvidence(a)
<1> DEFINE review == ReviewOf[a]
<1>1. /\ inputs["permit"].kind = "permit" /\ inputs["receipt"].kind = "receipt"
      /\ inputs["receipt"].evidence = inputs["evidence"]
      /\ EvidenceHolds(inputs["evidence"], a.head, a.base, review)
      /\ inputs["permit"] = review.permit /\ inputs["evidence"] = review.evidence
  BY DEF Accepts, BundleHolds, Kinds
<1>. HIDE DEF review
<1>2. PICK m \in Jobs : ReceiptRead(m, inputs["receipt"])
  BY <1>1 DEF MeansSomething, Kinds
<1>3. PICK k \in Jobs : PermitRead(k, inputs["permit"])
  BY <1>1 DEF MeansSomething, Kinds
<1>4. inputs["evidence"] = Evidence(m) /\ Passed(m) /\ Owns(m, "evidence", Evidence(m))
  BY <1>1, <1>2 DEF ReceiptRead, Receipt
<1>5. /\ Mode(m) = review.mode /\ SourceOf(m) = review.source
      /\ revision[m] = review.revision /\ Head(m) = a.head
      /\ result[m].snapshot.base = a.base
  BY <1>1, <1>4 DEF EvidenceHolds, Evidence
<1>6. EarnedFor(m, a)
  BY <1>4, <1>5, OwnedIsGoverned DEF EarnedFor, ActivationOf, review
<1>7. PermittedBy(k, a)
  <2>1. inputs["permit"].head = a.head /\ inputs["permit"].base = a.base
    BY DEF Accepts
  <2>. QED
    BY <1>1, <1>3, <2>1 DEF PermitRead, PermittedBy, Permit, review
<1>. QED
  BY <1>1, <1>4, <1>6, <1>7 DEF RestsOnEvidence, review

LEMMA RestsStays ==
  ASSUME Genuine, [Next]_vars, NEW a, RestsOnEvidence(a)
  PROVE  RestsOnEvidence(a)'
<1>1. PICK m \in Jobs : /\ EarnedFor(m, a) /\ ReviewOf[a].evidence = Evidence(m)
                        /\ Owns(m, "evidence", Evidence(m))
  BY DEF RestsOnEvidence
<1>2. PICK k \in Jobs : PermittedBy(k, a)
  BY DEF RestsOnEvidence
<1>3. Same(m) /\ Same(k) /\ FilesKept
  BY <1>1, <1>2, OwnedIsGoverned, DecidedStays, FilesAppear DEF EarnedFor, PermittedBy
<1>4. EarnedFor(m, a)' /\ ReviewOf[a].evidence = Evidence(m)'
      /\ Owns(m, "evidence", Evidence(m))'
  <2>1. Evidence(m)' = Evidence(m) /\ Passed(m)' = Passed(m) /\ ActivationOf(m)' = ActivationOf(m)
    BY <1>3, SameBodies DEF Same, ActivationOf, SourceOf
  <2>. QED
    BY <1>1, <1>3, <2>1, OwnedStays DEF EarnedFor, Same, Head
<1>5. PermittedBy(k, a)'
  BY <1>2, <1>3, SameBodies, OwnedStays, GateStays DEF PermittedBy, Same, Head
<1>. QED
  BY <1>4, <1>5 DEF RestsOnEvidence

LEMMA ActivationRests ==
  ASSUME Genuine, [Next]_vars, NEW i, NEW a, a = act'[i], RestsOnEvidence(a)
  PROVE  RestsOnEvidence(act[i])'
<1>1. RestsOnEvidence(a)'
  BY RestsStays
<1>2. \A m \in Jobs : EarnedFor(m, a)' = EarnedFor(m, act[i])'
  BY DEF EarnedFor
<1>3. \A k \in Jobs : PermittedBy(k, a)' = PermittedBy(k, act[i])'
  BY DEF PermittedBy
<1>4. ReviewOf[a].evidence = ReviewOf[act'[i]].evidence
  OBVIOUS
<1>. QED
  BY <1>1, <1>2, <1>3, <1>4 DEF RestsOnEvidence

-------------------------------------------------------------------------------
(* The composition: each part keeps what was proved of it alone. *)

LEMMA WholePart ==
  ASSUME [WholeNext]_<<vars, publisher, held>>
  PROVE  [Next]_vars /\ [Publisher!Next]_(Publisher!vars)
<1> DEFINE Quiet == UNCHANGED Publisher!vars
<1>1. ASSUME UNCHANGED publisher PROVE Quiet
  BY <1>1 DEF publisher, Publisher!vars, Publisher!world, Publisher!locals
<1>2. CASE Prepare
  BY <1>1, <1>2 DEF Prepare
<1>3. ASSUME NEW i \in Invocations, NEW kind \in Kinds, NEW n \in Places, ReadInput(i, kind, n)
      PROVE  UNCHANGED vars /\ Quiet
  BY <1>1, <1>3 DEF ReadInput
<1>4. ASSUME NEW i \in Invocations, Verify(i) PROVE UNCHANGED vars /\ Publisher!Next
  <2>1. PICK accepted \in BOOLEAN : Publisher!VerifyInputs(i, accepted)
    BY <1>4 DEF Verify
  <2>. QED
    BY <1>4, <2>1 DEF Verify, Publisher!Next, Publisher!Program
<1>5. ASSUME NEW i \in Invocations, Publish(i) PROVE UNCHANGED vars /\ Publisher!Next
  BY <1>5 DEF Publish, Publisher!Next
<1>6. CASE Around
  BY <1>6 DEF Around, Publisher!Next
<1>7. CASE UNCHANGED <<vars, publisher, held>>
  BY <1>1, <1>7
<1>. QED
  BY <1>2, <1>3, <1>4, <1>5, <1>6, <1>7 DEF WholeNext

\* The jobs beside a publisher behave as the jobs do, so that all that is proved of
\* PermitPreparation holds of them.
THEOREM JobsRunBeside == WholeSpec => Spec
<1>1. WholeInit => Init
  BY DEF WholeInit
<1>. QED
  BY <1>1, WholePart, PTL DEF WholeSpec, Spec

\* And the publisher beside jobs behaves as a publisher does, whose inputs are
\* accepted or not, so that all that is proved of ControlledPublisher holds of it.
THEOREM PublisherRunsBeside == WholeSpec => Publisher!Spec
<1>1. WholeInit => Publisher!Init
  BY DEF WholeInit
<1>. QED
  BY <1>1, WholePart, PTL DEF WholeSpec, Publisher!Spec

\* At most one check POST per candidate and state directory, and the abstract
\* publication of PublicationOnce, hold of the composition.
THEOREM WholePublishesOnce == WholeSpec => Publisher!PublishesOnce
  BY PublisherRunsBeside, Publisher!OnceAndTruthfully, EndToEndAssumption, PTL
     DEF EndToEndAssumption

-------------------------------------------------------------------------------
HeldType == held \in [Invocations -> [Kinds -> EvidenceBodies \cup PermitBodies
                                                 \cup ReceiptBodies \cup {None}]]

\* What is held of an invocation's inputs means something, and activations that got in
\* rest on it.
WholeInv ==
  /\ Genuine /\ Gated /\ ReceiptsAreRecorded /\ Publisher!Inv /\ HeldType
  /\ \A i \in Invocations, kind \in Kinds :
       held[i][kind] # None => MeansSomething(held[i][kind])
  /\ \A i \in Invocations : Publisher!Admitted(i) => RestsOnEvidence(act[i])

LEMMA WholeInitInv == WholeInit => WholeInv
<1>. SUFFICES ASSUME WholeInit PROVE WholeInv
  OBVIOUS
<1>1. Genuine /\ Publisher!Inv
  BY GenuineInit, Publisher!InitInv, EndToEndAssumption DEF WholeInit, EndToEndAssumption
<1>2. Gated /\ ReceiptsAreRecorded
  BY DEF WholeInit, Init, Gated, ReceiptsAreRecorded, Passed, NoResult, Disk!FilesInit,
         Disk!Exists, Disk!Absent
<1>3. HeldType /\ \A i \in Invocations, kind \in Kinds : held[i][kind] = None
  BY DEF WholeInit, HeldType
<1>4. \A i \in Invocations : ~Publisher!Admitted(i)
  BY DEF WholeInit, Publisher!Init, Publisher!Admitted, Publisher!Late, Publisher!TryStatements
<1>. QED
  BY <1>1, <1>2, <1>3, <1>4 DEF WholeInv

LEMMA WholeStep == WholeInv /\ [WholeNext]_<<vars, publisher, held>> => WholeInv'
<1>. SUFFICES ASSUME WholeInv, [WholeNext]_<<vars, publisher, held>> PROVE WholeInv'
  OBVIOUS
<1>1. [Next]_vars /\ [Publisher!Next]_(Publisher!vars)
  BY WholePart
<1>2. /\ Genuine /\ Gated /\ ReceiptsAreRecorded /\ Publisher!Inv /\ HeldType
      /\ \A i \in Invocations, kind \in Kinds :
           held[i][kind] # None => MeansSomething(held[i][kind])
      /\ \A i \in Invocations : Publisher!Admitted(i) => RestsOnEvidence(act[i])
  BY DEF WholeInv
<1>3. Genuine' /\ Gated' /\ ReceiptsAreRecorded'
  BY <1>1, <1>2, GenuineStep, GatedStep, ReceiptsStep
<1>4. Publisher!Inv'
  BY <1>1, <1>2, Publisher!NextInv, EndToEndAssumption DEF EndToEndAssumption
<1>5. CASE \E i \in Invocations, kind \in Kinds, n \in Places : ReadInput(i, kind, n)
  <2>1. PICK i \in Invocations, kind \in Kinds, n \in Places : ReadInput(i, kind, n)
    BY <1>5
  <2>2. /\ Disk!Exists(n) /\ held' = [held EXCEPT ![i][kind] = files[n].body]
        /\ UNCHANGED <<act, req, step>>
    BY <2>1 DEF ReadInput, Readable, publisher
  <2>3. /\ MeansSomething(files[n].body)
        /\ files[n].body \in EvidenceBodies \cup PermitBodies \cup ReceiptBodies
    BY <1>2, <2>2, ReadMeans
       DEF Genuine, Inv, TypeOK, Disk!FilesTypeOK, Disk!Exists, Disk!Present, Disk!Absent
  <2>4. HeldType'
    BY <1>2, <2>2, <2>3 DEF HeldType
  <2>5. ASSUME NEW v \in Invocations, NEW k \in Kinds, held'[v][k] # None
        PROVE  (MeansSomething(held[v][k]))'
    <3>1. PICK body : body = held'[v][k]
      OBVIOUS
    <3>2. MeansSomething(body)
      BY <1>2, <2>2, <2>3, <2>5, <3>1 DEF HeldType
    <3>. QED
      BY <1>1, <1>2, <3>1, <3>2, MeaningStays DEF MeansSomething, ReceiptRead, PermitRead
  <2>6. ASSUME NEW v \in Invocations, Publisher!Admitted(v)' PROVE RestsOnEvidence(act[v])'
    <3>1. PICK a : a = act[v] /\ a = act'[v]
      BY <2>2
    <3>2. RestsOnEvidence(a)
      BY <1>2, <2>2, <2>6, <3>1 DEF Publisher!Admitted
    <3>. QED
      BY <1>1, <1>2, <3>1, <3>2, ActivationRests
  <2>. QED
    BY <1>3, <1>4, <2>4, <2>5, <2>6 DEF WholeInv
<1>6. CASE held' = held
  <2>1. ASSUME NEW v \in Invocations, Publisher!Admitted(v)'
        PROVE  act'[v] = act[v] /\ RestsOnEvidence(act[v])
    <3>1. ASSUME NEW i \in Invocations, Verify(i)
          PROVE  act'[v] = act[v] /\ RestsOnEvidence(act[v])
      <4> DEFINE accept == (\A kind \in Kinds : held[i][kind] # None) /\ Accepts(act[i], held[i])
      <4>1. PICK accepted \in BOOLEAN : accepted = accept /\ Publisher!VerifyInputs(i, accepted)
        BY <3>1 DEF Verify
      <4>2. act'[v] = act[v] /\ (Publisher!Admitted(v) \/ (v = i /\ accepted))
        BY <1>2, <2>1, <4>1, Publisher!Admission, EndToEndAssumption DEF EndToEndAssumption
      <4>3. ASSUME v = i, accepted PROVE RestsOnEvidence(act[v])
        <5>1. PICK a, inputs : a = act[i] /\ inputs = held[i]
          OBVIOUS
        <5>2. Accepts(a, inputs) /\ \A kind \in Kinds : MeansSomething(inputs[kind])
          BY <1>2, <4>1, <4>3, <5>1
        <5>. QED
          BY <1>2, <4>3, <5>1, <5>2, AcceptedRests
      <4>. QED
        BY <1>2, <4>2, <4>3
    <3>2. ASSUME NEW i \in Invocations, Publish(i)
          PROVE  act'[v] = act[v] /\ Publisher!Admitted(v)
      BY <1>2, <2>1, <3>2, Publisher!AdmissionKept, EndToEndAssumption
         DEF EndToEndAssumption, Publish
    <3>3. ASSUME Prepare \/ Around \/ UNCHANGED <<vars, publisher, held>>
          PROVE  act'[v] = act[v] /\ Publisher!Admitted(v)
      <4>1. Publisher!HostFails \/ Publisher!World \/ UNCHANGED Publisher!vars
        BY <3>3 DEF Prepare, Around, publisher, Publisher!vars, Publisher!world, Publisher!locals
      <4>. QED
        BY <1>2, <2>1, <4>1, Publisher!NoneAdmitted, EndToEndAssumption DEF EndToEndAssumption
    <3>4. ASSUME NEW i \in Invocations, NEW kind \in Kinds, NEW n \in Places,
                 ReadInput(i, kind, n)
          PROVE  act'[v] = act[v] /\ Publisher!Admitted(v)
      BY <2>1, <3>4 DEF ReadInput, publisher, Publisher!Admitted
    <3>. QED
      BY <1>2, <3>1, <3>2, <3>3, <3>4 DEF WholeNext
  <2>2. ASSUME NEW v \in Invocations, Publisher!Admitted(v)' PROVE RestsOnEvidence(act[v])'
    <3>1. PICK a : a = act[v] /\ a = act'[v] /\ RestsOnEvidence(a)
      BY <2>1, <2>2
    <3>. QED
      BY <1>1, <1>2, <3>1, ActivationRests
  <2>3. ASSUME NEW v \in Invocations, NEW k \in Kinds, held'[v][k] # None
        PROVE  (MeansSomething(held[v][k]))'
    <3>1. PICK body : body = held'[v][k] /\ MeansSomething(body)
      BY <1>2, <1>6, <2>3
    <3>. QED
      BY <1>1, <1>2, <3>1, MeaningStays DEF MeansSomething, ReceiptRead, PermitRead
  <2>. QED
    BY <1>2, <1>3, <1>4, <1>6, <2>2, <2>3 DEF WholeInv, HeldType
<1>. QED
  BY <1>5, <1>6 DEF WholeNext, Prepare, Verify, Publish, Around

\* No check is posted but for a candidate that a job passed, at the commit and with the
\* runtime that the activation names, whose permit went through the ARB gate: for any
\* number of jobs, publishers, paths and activations, any inputs read at any time, and
\* any crashes between.
THEOREM ChecksRest == WholeSpec => []ChecksRestOnEvidence
<1>1. ASSUME WholeInv PROVE ChecksRestOnEvidence
  BY <1>1 DEF WholeInv, ChecksRestOnEvidence, Publisher!Admitted, Publisher!Posted, Publisher!Calls
<1>. QED
  BY <1>1, WholeInitInv, WholeStep, PTL DEF WholeSpec

\* What reaches GitHub promotes no governance document to a version that nobody
\* approved at that head, if the runtime lists the documents that a candidate changes:
\* the owner's approval carries from the gate of a job to the POST of a publisher.
THEOREM ChecksPromote ==
  ASSUME WiresListChanges
  PROVE  WholeSpec => []ChecksPromoteApproved
<1>1. ASSUME WholeInv PROVE ChecksPromoteApproved
  <2>1. SUFFICES ASSUME NEW i \in Invocations, NEW p \in GdcPaths, Publisher!Posted(i),
                        Documents[act[i].head][p].there,
                        Promotion(act[i].head, act[i].base, p)
                 PROVE  \E record \in UNION {g.approvals : g \in Trees} :
                          /\ record.head = act[i].head
                          /\ record.document = Documents[act[i].head][p].id
                          /\ record.version = Documents[act[i].head][p].version
    BY DEF ChecksPromoteApproved
  <2>2. RestsOnEvidence(act[i])
    BY <1>1, <2>1 DEF WholeInv, Publisher!Admitted, Publisher!Posted, Publisher!Calls
  <2>3. PICK k \in Jobs : PermittedBy(k, act[i])
    BY <2>2 DEF RestsOnEvidence
  <2>4. /\ Passed(k) /\ Head(k) = act[i].head /\ act[i].base = result[k].snapshot.base
        /\ GateHeld(result[k].snapshot)
    BY <2>3 DEF PermittedBy
  <2>5. Genuine /\ Gated
    BY <1>1 DEF WholeInv
  <2>. QED
    BY <2>1, <2>4, <2>5, GateCovers
<1>. QED
  BY <1>1, WholeInitInv, WholeStep, PTL DEF WholeSpec

===============================================================================
