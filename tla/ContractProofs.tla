----------------------------- MODULE ContractProofs -----------------------------
(***************************************************************************)
(* Proofs about ContractReader: for any candidates, files and reasons, and  *)
(* whatever the runtime printed.                                            *)
(***************************************************************************)
EXTENDS ContractReader, FiniteSetTheorems, TLAPS

\* What AttestedResult.parse lets pass as a PASS.
LEMMA AttestedPass ==
  ASSUME NEW r \in AttestedResult, NEW h \in Heads, ParseAttested(r, h).decision = "pass"
  PROVE  LET x == ParseAttested(r, h) IN
         /\ x.reasons = {}
         /\ x.snapshot.head = h
         /\ r.conclusion = "success"
         /\ OriginalReasons(r) \subseteq PrivilegeBlockers
         /\ OriginalReasons(r) # {} \/ r.original.protected \cup r.runtimeOnly # {} =>
              r.approval.record = [head |-> h, base |-> x.snapshot.base, paths |-> x.snapshot.paths]
<1> DEFINE x == ParseAttested(r, h)
<1>1. /\ AttestedHolds(r, h)
      /\ x = [decision |-> r.verdict, reasons |-> r.reasons, snapshot |-> Snapshot(r.manifest)]
  BY DEF ParseAttested, Rejected
<1>2. r.verdict = "pass" /\ r.reasons = {}
  BY <1>1 DEF AttestedHolds, FinalHolds, Verdict
<1>3. r.manifest \in Candidate /\ r.manifest.head = h
  BY <1>1 DEF AttestedHolds, AttestedResult
<1>4. CASE Resolved(r)
  <2>1. r.approval.record = r.manifest
    BY <1>1, <1>4 DEF Resolved, AttestedHolds, ApprovalFits, ApprovalHolds
  <2>2. r.manifest = [head |-> h, base |-> r.manifest.base, paths |-> r.manifest.paths]
    BY <1>3 DEF Candidate
  <2>. QED
    BY <1>1, <1>2, <1>3, <1>4, <2>1, <2>2 DEF Resolved, Eligible, Snapshot
<1>5. CASE ~Resolved(r)
  <2>1. OriginalReasons(r) = {}
    BY <1>1, <1>2, <1>5 DEF AttestedHolds, FinalHolds, ExpectedFinal, OriginalReasons
  <2>2. r.original.protected = {} /\ r.runtimeOnly = {}
    BY <1>1, <2>1 DEF AttestedHolds, OriginalHolds, OriginalReasons, RuntimeReasons
  <2>3. r.conclusion = "success"
    BY <1>1, <2>1 DEF AttestedHolds, OriginalHolds, EvaluationHolds, OriginalReasons,
       Qualification
  <2>. QED
    BY <1>1, <1>2, <1>3, <2>1, <2>2, <2>3 DEF Snapshot
<1>. QED
  BY <1>4, <1>5

\* What AttestedResult.parse lets pass as a FAIL.
LEMMA AttestedFail ==
  ASSUME NEW r \in AttestedResult, NEW h \in Heads, ParseAttested(r, h).decision = "fail"
  PROVE  /\ ParseAttested(r, h).reasons = OriginalReasons(r)
         /\ OriginalReasons(r) # {}
         /\ r.approval.status # "verified"
<1>1. /\ AttestedHolds(r, h)
      /\ ParseAttested(r, h) =
           [decision |-> r.verdict, reasons |-> r.reasons, snapshot |-> Snapshot(r.manifest)]
  BY DEF ParseAttested, Rejected
<1>2. r.verdict = "fail" /\ r.reasons # {}
  BY <1>1 DEF AttestedHolds, FinalHolds, Verdict
<1>3. ~Resolved(r)
  <2>1. Resolved(r) => r.final.reasons = {} /\ r.runtime = {}
    BY <1>1 DEF AttestedHolds, FinalHolds, ExpectedFinal, AttestedResult, Evaluation
  <2>. QED
    BY <1>1, <1>2, <2>1 DEF AttestedHolds, FinalHolds
<1>4. r.reasons = OriginalReasons(r)
  BY <1>1, <1>3 DEF AttestedHolds, FinalHolds, ExpectedFinal, OriginalReasons
<1>5. r.approval.status # "verified"
  BY <1>1, <1>3 DEF Resolved, AttestedHolds, ApprovalFits
<1>. QED
  BY <1>1, <1>2, <1>4, <1>5

\* What the bootstrap mode lets pass: never a FAIL.
LEMMA BootstrapPass ==
  ASSUME NEW r \in PromotedResult, NEW h \in Heads, NEW k, BootstrapResult(r, h, k) # Rejected
  PROVE  LET x == BootstrapResult(r, h, k) IN
         /\ x.decision = "pass"
         /\ x.reasons = {}
         /\ x.snapshot.head = h
         /\ r.conclusion = "success"
         /\ r.evaluator \cup r.runtime \subseteq PrivilegeBlockers
         /\ k = [head |-> h, base |-> x.snapshot.base, paths |-> x.snapshot.paths]
<1> DEFINE o == ParsePromoted(r, h)
<1>1. /\ o.decision = "fail" /\ r.conclusion = "success"
      /\ BootstrapResult(r, h, k) = Authorize(k, h, o)
  BY DEF BootstrapResult
<1>2. /\ PromotedHolds(r, h)
      /\ o = [decision |-> r.verdict, reasons |-> r.evaluator \cup r.runtime,
              snapshot |-> Snapshot(r.manifest)]
  BY <1>1 DEF ParsePromoted, Rejected
<1>3. /\ k = [head |-> h, base |-> o.snapshot.base, paths |-> o.snapshot.paths]
      /\ o.reasons \subseteq PrivilegeBlockers
      /\ Authorize(k, h, o) = [decision |-> "pass", reasons |-> {}, snapshot |-> o.snapshot]
  BY <1>1 DEF Authorize
<1>4. /\ o.reasons = r.evaluator \cup r.runtime
      /\ o.snapshot = Snapshot(r.manifest)
  BY <1>2
<1>5. o.snapshot.head = h
  BY <1>2, <1>4 DEF PromotedHolds, Snapshot
<1>6. BootstrapResult(r, h, k) = [decision |-> "pass", reasons |-> {}, snapshot |-> o.snapshot]
  BY <1>1, <1>3
<1> DEFINE x == BootstrapResult(r, h, k)
<1>7. x.decision = "pass" /\ x.reasons = {} /\ x.snapshot = o.snapshot
  BY <1>6
<1> HIDE DEF o, x
<1>8. /\ x.decision = "pass" /\ x.reasons = {} /\ x.snapshot.head = h
      /\ r.conclusion = "success"
      /\ r.evaluator \cup r.runtime \subseteq PrivilegeBlockers
      /\ k = [head |-> h, base |-> x.snapshot.base, paths |-> x.snapshot.paths]
  BY <1>1, <1>3, <1>4, <1>5, <1>7
<1>. QED
  BY <1>8 DEF x

-------------------------------------------------------------------------------
\* Nothing but the answer changes, and the answer is what Parse makes of the rest.
Inv == /\ wire \in AttestedResult \cup PromotedResult
       /\ request \in Heads
       /\ answer \in {Unread, Parse(wire)}

LEMMA Kinds ==
  /\ \A r \in AttestedResult : r.kind = "attested"
  /\ \A r \in PromotedResult : r.kind = "promoted"
  BY DEF AttestedResult, PromotedResult

LEMMA Invariance == Spec => []Inv
<1>1. Init => Inv
  BY WireAssumption DEF Init, Inv
<1>2. Inv /\ [Next]_vars => Inv'
  BY DEF Inv, Next, Read, vars, Parse
<1>. QED
  BY <1>1, <1>2, PTL DEF Spec

\* For every result a runtime may print: the authority passes a candidate only if it
\* is qualified, failed on nothing but privilege, and, as soon as it touched a
\* protected file or failed, is attested at its exact head, base and files.
THEOREM PassEarned == Spec => []PassIsEarned
<1>1. Inv => PassIsEarned
  <2>1. SUFFICES ASSUME Inv, answer.decision = "pass" PROVE PassIsEarned
    BY DEF PassIsEarned
  <2>2. answer = Parse(wire)
    BY <2>1 DEF Inv, Unread
  <2>3. CASE wire \in AttestedResult
    BY <2>1, <2>2, <2>3, AttestedPass, Kinds DEF Parse, PassIsEarned, Failures, Attested, Inv
  <2>4. CASE wire \in PromotedResult
    <3>1. BootstrapResult(wire, request, record) = answer /\ answer # Rejected
      BY <2>1, <2>2, <2>4, Kinds DEF Parse, Rejected
    <3>. QED
      BY <2>1, <2>4, <3>1, BootstrapPass, Kinds DEF PassIsEarned, Failures, Attested, Inv
  <2>. QED
    BY <2>1, <2>3, <2>4 DEF Inv
<1>. QED
  BY <1>1, Invariance, PTL

\* For every result a runtime may print: a FAIL is passed on with every reason of the
\* original evaluation, and there was no attestation that resolves it.
THEOREM FailuresKept == Spec => []FailuresSurvive
<1>1. Inv => FailuresSurvive
  <2>1. SUFFICES ASSUME Inv, answer.decision = "fail" PROVE FailuresSurvive
    BY DEF FailuresSurvive
  <2>2. answer = Parse(wire)
    BY <2>1 DEF Inv, Unread
  <2>3. wire \in AttestedResult
    <3>1. CASE wire \in PromotedResult
      BY <2>1, <2>2, <3>1, BootstrapPass, Kinds DEF Parse, Rejected, Inv
    <3>. QED
      BY <2>1, <3>1 DEF Inv
  <2>. QED
    BY <2>1, <2>2, <2>3, AttestedFail, Kinds DEF Parse, FailuresSurvive, Failures, Inv
<1>. QED
  BY <1>1, Invariance, PTL

-------------------------------------------------------------------------------
(* The runtime's honest results. *)

\* Reading whole pages until the records are exhausted takes what the parser expects.
LEMMA PagesRead ==
  ASSUME NEW size \in Nat \ {0}, NEW records \in Nat \ {0}
  PROVE  LET pages == CHOOSE p \in 1..records :
                        p * size >= records /\ (p - 1) * size < records IN
         pages \in Nat /\ pages > 0 /\ pages = (records + size - 1) \div size
<1> DEFINE enough(p) == p * size >= records /\ (p - 1) * size < records
           q == (records + size - 1) \div size
<1>1. /\ q \in Nat
      /\ q * size <= records + size - 1 /\ records + size - 1 < (q + 1) * size
  OBVIOUS
<1>. HIDE DEF q
<1>2. (q + 1) * size = q * size + size /\ (q - 1) * size = q * size - size
  BY <1>1
<1>3. q * size \in Nat
  BY <1>1
<1>4. enough(q)
  BY <1>1, <1>2, <1>3
<1>5. q > 0
  <2>1. q = 0 => q * size = 0
    OBVIOUS
  <2>. QED
    BY <1>1, <1>4, <2>1
<1>6. q <= records
  <2>1. (q - 1) * size >= q - 1
    <3>1. q - 1 \in Nat
      BY <1>1, <1>5
    <3>2. \A a \in Nat, b \in Nat \ {0} : a * b >= a
      OBVIOUS
    <3>. QED
      BY <3>1, <3>2
  <2>2. (q - 1) * size \in Int
    BY <1>1
  <2>. QED
    BY <1>1, <1>4, <2>1, <2>2
<1>7. ASSUME NEW p \in 1..records, enough(p) PROVE p = q
  <2>1. \A a, b \in Nat : a < b => a * size <= (b - 1) * size
    <3>1. SUFFICES ASSUME NEW a \in Nat, NEW b \in Nat, a < b
                   PROVE  a * size <= (b - 1) * size
      OBVIOUS
    <3>2. PICK d \in Nat : b - 1 = a + d
      BY <3>1, b - 1 - a \in Nat
    <3>3. (a + d) * size = a * size + d * size /\ d * size \in Nat /\ a * size \in Nat
      OBVIOUS
    <3>. QED
      BY <3>2, <3>3
  <2>2. /\ p \in Nat /\ p * size \in Int /\ (p - 1) * size \in Int
        /\ q * size \in Int /\ (q - 1) * size \in Int
    BY <1>1
  <2>3. ~(p < q) /\ ~(q < p)
    BY <1>1, <1>4, <1>7, <2>1, <2>2
  <2>. QED
    BY <1>1, <2>2, <2>3
<1>8. (CHOOSE p \in 1..records : enough(p)) = q
  <2>1. q \in 1..records
    BY <1>1, <1>5, <1>6
  <2>. QED
    BY <1>4, <1>7, <2>1
<1>. QED
  BY <1>1, <1>5, <1>8 DEF q

\* Records that fit on so many pages are read in no more of them.
LEMMA PagesFit ==
  ASSUME NEW size \in Nat \ {0}, NEW records \in Nat \ {0}, NEW limit \in Nat,
         records <= limit * size
  PROVE  (records + size - 1) \div size <= limit
<1> DEFINE q == (records + size - 1) \div size
<1>1. q \in Nat /\ q * size <= records + size - 1
  OBVIOUS
<1>. HIDE DEF q
<1>2. SUFFICES ASSUME limit < q PROVE FALSE
  BY <1>1 DEF q
<1>3. PICK d \in Nat : q = (limit + 1) + d
  BY <1>1, <1>2, q - (limit + 1) \in Nat
<1>4. /\ q * size = limit * size + size + d * size
      /\ limit * size \in Nat /\ d * size \in Nat
  BY <1>3
<1>. QED
  BY <1>1, <1>4

\* What fits into the lists fits on the pages.
LEMMA ListedFits ==
  ASSUME NEW records \in Nat, records <= MaxListed
  PROVE  records <= MaxPages * PageSize
<1> DEFINE all == MaxPages * PageSize
<1>1. all \in Nat /\ MaxListed <= all /\ MaxListed \in Nat
  BY PageAssumption DEF PageAssumption
<1>. HIDE DEF all
<1>2. records <= all
  BY <1>1
<1>. QED
  BY <1>2 DEF all

\* A result the runtime prints of a candidate that fits into the lists is well-formed and
\* consistent.
LEMMA HonestHolds ==
  ASSUME NEW f \in Facts, Listed(f.c.paths), Listed(Printed(f).original.reasons)
  PROVE  AttestedHolds(Printed(f), f.c.head)
<1> DEFINE c         == f.c
           r         == Printed(f)
           qualified == f.conclusion = "success"
           missing   == IF f.protected = {} THEN {} ELSE {"privileged-validation-missing"}
           failures  == missing \cup f.others \cup (IF qualified THEN {} ELSE {Unqualified})
           critical  == RuntimeReasons(f.runtimeOnly)
           touched   == f.protected \cup f.runtimeOnly # {}
           lookup    == qualified /\ touched /\ f.others = {}
           resolved  == lookup /\ f.found
           records   == Cardinality(c.paths) - f.renames
           pages     == CHOOSE p \in 1..records :
                          p * PageSize >= records /\ (p - 1) * PageSize < records
           first     == [head |-> c.head, base |-> c.base, protected |-> f.protected,
                         requires |-> f.protected # {}, privileged |-> "not_required",
                         qualification |-> IF qualified THEN "pass" ELSE "fail",
                         reasons |-> failures, verdict |-> Verdict(failures), sound |-> TRUE]
           second    == IF resolved
                        THEN [first EXCEPT !.reasons = {}, !.verdict = "pass",
                                !.privileged = IF f.protected = {} THEN "not_required" ELSE "pass"]
                        ELSE first
           remaining == IF resolved THEN {} ELSE critical
           approval  == [status |-> IF resolved THEN "verified" ELSE IF lookup THEN "missing"
                                    ELSE IF touched THEN "not_attempted" ELSE "not_required",
                         record |-> IF resolved THEN c ELSE NoRecord, sound |-> TRUE]
<1>1. /\ c \in Candidate /\ c.paths # {} /\ c.base # c.head
      /\ f.conclusion \in {"success", "failure"} /\ f.found \in BOOLEAN
      /\ f.protected \cup f.runtimeOnly \subseteq c.paths
      /\ f.protected \cap f.runtimeOnly = {}
      /\ f.others \subseteq OtherReasons
      /\ f.renames \in 0..Cardinality(Paths) /\ 2 * f.renames <= Cardinality(c.paths)
  BY DEF Facts
<1>2. /\ r.sound /\ r.head = c.head /\ r.base = c.base /\ r.manifest = c
      /\ r.conclusion = f.conclusion /\ r.runtimeOnly = f.runtimeOnly
      /\ r.counts = [records |-> records, touched |-> Cardinality(c.paths), pages |-> pages]
      /\ r.original = first /\ r.originalRuntime = critical
      /\ r.originalVerdict = Verdict(failures \cup critical)
      /\ r.approval = approval /\ r.final = second /\ r.runtime = remaining
      /\ r.reasons = second.reasons \cup remaining
      /\ r.verdict = Verdict(second.reasons \cup remaining)
  BY DEF Printed
<1>3. CountsHold(Cardinality(r.manifest.paths), r.counts)
  <2>1. Cardinality(c.paths) \in Nat /\ Cardinality(c.paths) # 0
    <3>1. IsFiniteSet(c.paths)
      BY <1>1, FactsAssumption, FS_Subset DEF FactsAssumption, Candidate
    <3>. QED
      BY <1>1, <3>1, FS_CardinalityType, FS_EmptySet
  <2>2. f.renames \in Nat
    <3>1. Cardinality(Paths) \in Nat
      BY FactsAssumption, FS_CardinalityType DEF FactsAssumption
    <3>. QED
      BY <1>1, <3>1
  <2>3. records \in Nat \ {0} /\ Cardinality(c.paths) <= 2 * records
        /\ records <= Cardinality(c.paths) /\ Cardinality(c.paths) <= MaxListed
    BY <1>1, <2>1, <2>2 DEF Listed
  <2>4. pages \in Nat /\ pages > 0 /\ pages = (records + PageSize - 1) \div PageSize
    BY <2>3, PagesRead, PageAssumption DEF PageAssumption
  <2>5. pages <= MaxPages
    <3>1. records \in Nat /\ records <= MaxListed
      <4>. HIDE DEF records
      <4>. QED
        BY <2>1, <2>3, PageAssumption DEF PageAssumption
    <3>2. records <= MaxPages * PageSize
      <4>. HIDE DEF records
      <4>. QED
        BY <3>1, ListedFits
    <3>3. (records + PageSize - 1) \div PageSize <= MaxPages
      <4>. HIDE DEF records
      <4>. QED
        BY <2>3, <3>2, PagesFit, PageAssumption DEF PageAssumption
    <3>. QED
      BY <2>4, <3>3
  <2>6. /\ r.counts.records = records /\ r.counts.touched = Cardinality(c.paths)
        /\ r.counts.pages = pages /\ r.manifest.paths = c.paths
    BY <1>2
  <2>. HIDE DEF records, pages, r, c
  <2>. QED
    BY <2>1, <2>3, <2>4, <2>5, <2>6, PageAssumption DEF CountsHold, PageAssumption
<1>4. /\ OriginalReasons(r) = failures \cup critical
      /\ "privileged-validation-missing" \in failures <=> f.protected # {}
      /\ qualified <=> Unqualified \notin failures
      /\ resolved <=> Resolved(r)
      /\ lookup <=> Eligible(r)
  <2>1. OriginalReasons(r) = failures \cup critical
    BY <1>2 DEF OriginalReasons
  <2>2. "privileged-validation-missing" \in failures <=> f.protected # {}
    BY <1>1, FactsAssumption DEF FactsAssumption, PrivilegeBlockers, Unqualified
  <2>3. qualified <=> Unqualified \notin failures
    BY <1>1, FactsAssumption DEF FactsAssumption, PrivilegeBlockers, Unqualified
  <2>4. lookup <=> Eligible(r)
    <3>1. failures \cup critical # {} /\ failures \cup critical \subseteq PrivilegeBlockers /\ qualified
            <=> lookup
      BY <1>1, FactsAssumption
         DEF FactsAssumption, PrivilegeBlockers, Unqualified, RuntimeReasons
    <3>. QED
      BY <1>2, <2>1, <3>1 DEF Eligible
  <2>5. resolved <=> Resolved(r)
    BY <1>2, <2>4 DEF Resolved
  <2>. QED
    BY <2>1, <2>2, <2>3, <2>4, <2>5
<1>5. Qualification(r) = (IF qualified THEN "pass" ELSE "fail")
  BY <1>2 DEF Qualification
<1>6. /\ first.head = c.head /\ first.base = c.base /\ first.protected = f.protected
      /\ first.requires = (f.protected # {}) /\ first.privileged = "not_required"
      /\ first.qualification = Qualification(r) /\ first.reasons = failures
      /\ first.verdict = Verdict(failures) /\ first.sound
  BY <1>5
<1>7. EvaluationHolds(first, c, Qualification(r))
  <2>1. Listed(first.reasons)
    BY <1>2
  <2>. QED
    BY <1>1, <1>4, <1>5, <1>6, <2>1 DEF EvaluationHolds
<1>8. OriginalHolds(r)
  <2>. HIDE DEF r, first, failures, critical
  <2>1. r.originalRuntime = RuntimeReasons(r.runtimeOnly)
    BY <1>2 DEF critical
  <2>. QED
    BY <1>1, <1>2, <1>4, <1>6, <1>7, <2>1 DEF OriginalHolds
<1>9. ApprovalFits(r)
  <2>1. approval.sound /\ approval.record = (IF resolved THEN c ELSE NoRecord)
        /\ approval.status = (IF resolved THEN "verified" ELSE IF lookup THEN "missing"
                              ELSE IF touched THEN "not_attempted" ELSE "not_required")
    OBVIOUS
  <2>2. CASE lookup
    BY <1>2, <1>4, <2>1, <2>2 DEF ApprovalFits, ApprovalHolds
  <2>3. CASE ~lookup
    <3>1. approval = [status |-> IF f.protected \cup f.runtimeOnly = {}
                                 THEN "not_required" ELSE "not_attempted",
                      record |-> NoRecord, sound |-> TRUE]
      BY <2>3
    <3>. QED
      BY <1>2, <1>4, <1>6, <2>3, <3>1 DEF ApprovalFits
  <2>. QED
    BY <2>2, <2>3
<1>10. FinalHolds(r)
  <2>1. second = ExpectedFinal(r)
    <3>1. CASE resolved
      <4> DEFINE privileged == IF f.protected # {} THEN "pass" ELSE "not_required"
      <4>1. second = [first EXCEPT !.privileged = privileged, !.reasons = {}, !.verdict = "pass"]
        <5>1. (IF f.protected = {} THEN "not_required" ELSE "pass") = privileged
          OBVIOUS
        <5>. HIDE DEF privileged
        <5>2. second = [first EXCEPT !.reasons = {}, !.verdict = "pass", !.privileged = privileged]
          BY <3>1, <5>1
        <5>3. \A u, p : [u EXCEPT !.reasons = {}, !.verdict = "pass", !.privileged = p]
                         = [u EXCEPT !.privileged = p, !.reasons = {}, !.verdict = "pass"]
          OBVIOUS
        <5>. HIDE DEF first, second
        <5>. QED
          BY <5>2, <5>3
      <4>2. ExpectedFinal(r) =
              [first EXCEPT !.privileged = privileged, !.reasons = {}, !.verdict = "pass"]
        <5>1. r.original = first /\ r.original.protected = f.protected /\ Resolved(r)
          BY <1>2, <1>4, <1>6, <3>1
        <5>. HIDE DEF r, first, resolved
        <5>. QED
          BY <5>1 DEF ExpectedFinal
      <4>. QED
        BY <4>1, <4>2
    <3>2. CASE ~resolved
      BY <1>2, <1>4, <3>2 DEF ExpectedFinal
    <3>. QED
      BY <3>1, <3>2
  <2>2. EvaluationHolds(second, c, Qualification(r))
    <3>1. CASE resolved
      <4>1. /\ second.head = c.head /\ second.base = c.base /\ second.protected = f.protected
            /\ second.requires = (f.protected # {}) /\ second.sound
            /\ second.qualification = Qualification(r) /\ second.reasons = {}
            /\ second.verdict = "pass"
        BY <1>6, <3>1
      <4>2. Listed(second.reasons)
        <5>1. Listed({})
          BY FS_EmptySet, PageAssumption DEF Listed, PageAssumption
        <5>. QED
          BY <4>1, <5>1
      <4>. QED
        BY <1>1, <1>5, <3>1, <4>1, <4>2 DEF EvaluationHolds, Verdict
    <3>2. CASE ~resolved
      BY <1>7, <3>2
    <3>. QED
      BY <3>1, <3>2
  <2>. HIDE DEF r, second
  <2>. QED
    BY <1>2, <1>4, <2>1, <2>2 DEF FinalHolds
<1>. HIDE DEF r
<1>11. AttestedHolds(r, c.head)
  BY <1>1, <1>2, <1>3, <1>8, <1>9, <1>10 DEF AttestedHolds, Listed
<1>. QED
  BY <1>11 DEF r

\* For any limits that agree with each other (MaxListed <= MaxPages * PageSize, as 2000
\* files, 20 pages and 100 per page do) the strict parser keeps the verdict of every honest
\* result within MaxListed files and reasons, and refuses the others: no combination of
\* renames and pages is turned away.
THEOREM HonestyIsUnderstood == Spec => []HonestResultsAreRead
<1>1. Inv => HonestResultsAreRead
  <2>1. SUFFICES ASSUME Inv, answer # Unread, wire.kind = "attested", wire.head = request,
                        FactsOf(wire) \in Facts, wire = Printed(FactsOf(wire))
                 PROVE  IF Listed(wire.manifest.paths) /\ Listed(wire.original.reasons)
                        THEN answer.decision = wire.verdict
                        ELSE answer = Rejected
    BY DEF HonestResultsAreRead
  <2>2. answer = ParseAttested(wire, request)
    BY <2>1 DEF Inv, Parse
  <2>3. CASE Listed(wire.manifest.paths) /\ Listed(wire.original.reasons)
    <3>1. FactsOf(wire).c = wire.manifest
      BY DEF FactsOf
    <3>2. AttestedHolds(wire, FactsOf(wire).c.head)
      BY <2>1, <2>3, <3>1, HonestHolds
    <3>3. FactsOf(wire).c.head = request
      BY <2>1, <3>2 DEF AttestedHolds
    <3>. QED
      BY <2>2, <2>3, <3>2, <3>3 DEF ParseAttested
  <2>4. CASE ~Listed(wire.manifest.paths) \/ ~Listed(wire.original.reasons)
    BY <2>2, <2>4 DEF ParseAttested, AttestedHolds, OriginalHolds, EvaluationHolds
  <2>. QED
    BY <2>3, <2>4
<1>. QED
  BY <1>1, Invariance, PTL

===============================================================================
