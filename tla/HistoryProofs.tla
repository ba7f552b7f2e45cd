----------------------------- MODULE HistoryProofs -----------------------------
(***************************************************************************)
(* Proofs about GovernanceHistory: for any number of pull requests, of any  *)
(* contents, however they are pushed, checked and merged.                   *)
(***************************************************************************)
EXTENDS GovernanceHistory, TLAPS

\* What a workflow run that was not forgotten says of its branch and of the commit of
\* main it was merged with.
RunHolds(q) ==
  ci[q] # NoRun =>
    /\ ci[q].base \in fork[q]..Latest
    /\ ci[q].tree = MergeWith(q, ci[q].base)
    /\ ci[q].verdict = "passed" =>
         MaintenanceHolds(ci[q].tree) /\ AppendsOnly(main[ci[q].base], ci[q].tree)

RunsHold == \A q \in Requests : RunHolds(q)

Inv ==
  /\ TypeOK
  /\ RunsHold
  /\ MainIsMaintained
  /\ AttestationsArePermanent

\* Git merges trees into a tree.
LEMMA MergedIsTree ==
  ASSUME NEW o \in Tree, NEW a \in Tree, NEW b \in Tree
  PROVE  Merged(o, a, b) \in Tree
BY DEF Merged, Pick, Tree

\* A branch that contains what it is merged with is taken over as it is.
LEMMA MergedIsBranch ==
  ASSUME NEW o \in Tree, NEW b \in Tree
  PROVE  Merged(o, o, b) = b
BY DEF Merged, Pick, Tree

\* Commits of main are trees, and so is what a request merges with one of them.
LEMMA MergeTypes ==
  ASSUME TypeOK, NEW q \in Requests, fork[q] # 0, NEW i \in 1..Latest
  PROVE  /\ fork[q] \in 1..Latest /\ tip[q] \in Tree
         /\ main[i] \in Tree /\ main[fork[q]] \in Tree
         /\ MergeWith(q, i) \in Tree
<1>1. fork[q] \in 1..Latest /\ tip[q] \in Tree
  BY DEF TypeOK, Latest
<1>2. main[i] \in Tree /\ main[fork[q]] \in Tree
  BY <1>1 DEF TypeOK, Latest
<1>. QED
  BY <1>1, <1>2, MergedIsTree DEF MergeWith

LEMMA InitInv == Init => Inv
<1> SUFFICES ASSUME Init PROVE Inv
  OBVIOUS
<1>1. PICK t \in Proposals : main = <<t>> /\ MaintenanceHolds(t)
  BY DEF Init
<1>2. t \in Tree
  BY HistoryAssumption DEF HistoryAssumption
<1>3. TypeOK
  BY <1>1, <1>2 DEF Init, TypeOK
<1>4. RunsHold
  BY DEF Init, RunsHold, RunHolds
<1>5. MainIsMaintained /\ AttestationsArePermanent
  BY <1>1 DEF MainIsMaintained, AttestationsArePermanent, Latest
<1>. QED
  BY <1>3, <1>4, <1>5 DEF Inv

\* Everything but a merge leaves main alone.
LEMMA MainUnchanged ==
  ASSUME Inv, UNCHANGED main
  PROVE  MainIsMaintained' /\ AttestationsArePermanent'
BY DEF Inv, MainIsMaintained, AttestationsArePermanent, Latest

LEMMA PushInv ==
  ASSUME Inv, NEW q \in Requests, NEW i \in 1..Latest, NEW t \in Proposals, Push(q, i, t)
  PROVE  Inv'
<1>1. t \in Tree
  BY HistoryAssumption DEF HistoryAssumption
<1>2. i \in 0..Len(main) /\ i # 0
  BY DEF Inv, TypeOK, Latest
<1>3. TypeOK'
  BY <1>1, <1>2 DEF Push, Unchecked, Inv, TypeOK, WorkflowRuns
<1>4. RunsHold'
  <2> SUFFICES ASSUME NEW r \in Requests PROVE RunHolds(r)'
    BY DEF RunsHold
  <2>1. CASE r = q
    BY <2>1 DEF Push, Unchecked, Inv, TypeOK, RunHolds
  <2>2. CASE r # q
    BY <2>2 DEF Push, Unchecked, Inv, TypeOK, RunsHold, RunHolds, MergeWith, Latest
  <2>. QED
    BY <2>1, <2>2
<1>. QED
  BY <1>3, <1>4, MainUnchanged DEF Push, Inv

LEMMA StartInv ==
  ASSUME Inv, NEW q \in Requests, StartWorkflow(q)
  PROVE  Inv'
<1> DEFINE run == [base |-> Latest, tree |-> MergeWith(q, Latest), verdict |-> "running"]
<1>1. /\ fork[q] # 0 /\ UNCHANGED <<main, fork, tip>>
      /\ ci' = [ci EXCEPT ![q] = run]
  BY DEF StartWorkflow
<1>2. Latest \in 1..Latest /\ Latest \in Nat \ {0}
  BY DEF Inv, TypeOK, Latest
<1>3. run \in WorkflowRuns
  BY <1>1, <1>2, MergeTypes DEF Inv, WorkflowRuns
<1>4. TypeOK'
  BY <1>1, <1>3 DEF Inv, TypeOK
<1>5. RunsHold'
  <2> SUFFICES ASSUME NEW r \in Requests PROVE RunHolds(r)'
    BY DEF RunsHold
  <2>1. CASE r = q
    <3>1. ci'[q] = run
      BY <1>1 DEF Inv, TypeOK
    <3>2. fork[q] \in 0..Latest
      BY DEF Inv, TypeOK, Latest
    <3>. QED
      BY <1>1, <1>2, <2>1, <3>1, <3>2 DEF RunHolds, MergeWith, Latest
  <2>2. CASE r # q
    BY <1>1, <2>2 DEF Inv, TypeOK, RunsHold, RunHolds, MergeWith, Latest
  <2>. QED
    BY <2>1, <2>2
<1>. QED
  BY <1>1, <1>4, <1>5, MainUnchanged DEF Inv

LEMMA FoundationInv ==
  ASSUME Inv, NEW q \in Requests, Foundation(q)
  PROVE  Inv'
<1> DEFINE run == ci[q]
           holds == MaintenanceHolds(run.tree) /\ AppendsOnly(main[run.base], run.tree)
           verdict == IF holds THEN "passed" ELSE "failed"
<1>1. /\ run \in WorkflowRuns /\ run # NoRun /\ fork[q] # 0
      /\ UNCHANGED <<main, fork, tip>>
      /\ ci' = [ci EXCEPT ![q].verdict = verdict]
  BY DEF Foundation, Inv, TypeOK, NoRun
<1>2. ci'[q] = [base |-> run.base, tree |-> run.tree, verdict |-> verdict]
  BY <1>1 DEF Inv, TypeOK, WorkflowRuns
<1>3. TypeOK'
  BY <1>1, <1>2 DEF Inv, TypeOK, WorkflowRuns
<1>4. RunsHold'
  <2> SUFFICES ASSUME NEW r \in Requests PROVE RunHolds(r)'
    BY DEF RunsHold
  <2>1. CASE r = q
    <3>1. RunHolds(q)
      BY DEF Inv, RunsHold
    <3>. QED
      BY <1>1, <1>2, <2>1, <3>1 DEF RunHolds, MergeWith, Latest
  <2>2. CASE r # q
    BY <1>1, <2>2 DEF Inv, TypeOK, RunsHold, RunHolds, MergeWith, Latest
  <2>. QED
    BY <2>1, <2>2
<1>. QED
  BY <1>1, <1>3, <1>4, MainUnchanged DEF Inv

\* The strict rule at work: what is merged is what was verified against the tip.
LEMMA MergeInv ==
  ASSUME Inv, NEW q \in Requests, Merge(q)
  PROVE  Inv'
<1> DEFINE new == MergeWith(q, Latest)
<1>1. /\ fork[q] = Latest /\ fork[q] # 0 /\ ci[q].verdict = "passed"
      /\ main' = Append(main, new)
      /\ fork' = [fork EXCEPT ![q] = 0] /\ tip' = [tip EXCEPT ![q] = None]
      /\ ci' = [ci EXCEPT ![q] = NoRun]
  BY DEF Merge, UpToDate, Unchecked
<1>2. Latest \in 1..Latest /\ Latest \in Nat
  BY DEF Inv, TypeOK, Latest
<1>3. new \in Tree /\ main[Latest] \in Tree
  BY <1>1, <1>2, MergeTypes DEF Inv
<1>4. MaintenanceHolds(new) /\ AppendsOnly(main[Latest], new)
  <2>1. ci[q] # NoRun /\ RunHolds(q)
    BY <1>1 DEF NoRun, Inv, RunsHold
  <2>2. ci[q].base = Latest
    BY <1>1, <1>2, <2>1 DEF RunHolds
  <2>. QED
    BY <1>1, <2>1, <2>2 DEF RunHolds
<1>5. /\ Latest' = Latest + 1
      /\ main'[Latest'] = new
      /\ \A i \in 1..Latest : main'[i] = main[i]
  BY <1>1, <1>3 DEF Inv, TypeOK, Latest
<1>6. TypeOK'
  <2>1. main' \in Seq(Tree) /\ Len(main') > 0
    BY <1>1, <1>2, <1>3, <1>5 DEF Inv, TypeOK, Latest
  <2>2. fork' \in [Requests -> 0..Len(main')]
    BY <1>1, <1>2, <1>5 DEF Inv, TypeOK, Latest
  <2>. QED
    BY <1>1, <2>1, <2>2 DEF Inv, TypeOK
<1>7. RunsHold'
  <2> SUFFICES ASSUME NEW r \in Requests PROVE RunHolds(r)'
    BY DEF RunsHold
  <2>1. CASE r = q
    BY <1>1, <2>1 DEF Inv, TypeOK, RunHolds
  <2>2. CASE r # q /\ ci[r] # NoRun
    <3>1. RunHolds(r) /\ fork[r] # 0
      BY <2>2 DEF Inv, TypeOK, RunsHold
    <3>2. fork[r] \in 1..Latest /\ ci[r].base \in 1..Latest /\ ci[r].base \in fork[r]..Latest
      BY <1>2, <2>2, <3>1, MergeTypes DEF Inv, RunHolds
    <3>3. ci'[r] = ci[r] /\ fork'[r] = fork[r] /\ tip'[r] = tip[r]
      BY <1>1, <2>2 DEF Inv, TypeOK
    <3>4. ci[r].base \in fork[r]..Latest'
      BY <1>2, <1>5, <3>2
    <3>5. main'[fork[r]] = main[fork[r]] /\ main'[ci[r].base] = main[ci[r].base]
      BY <1>5, <3>2
    <3>. QED
      BY <2>2, <3>1, <3>3, <3>4, <3>5 DEF RunHolds, MergeWith
  <2>3. CASE r # q /\ ci[r] = NoRun
    BY <1>1, <2>3 DEF Inv, TypeOK, RunHolds
  <2>. QED
    BY <2>1, <2>2, <2>3
<1>8. MainIsMaintained'
  <2>1. ASSUME NEW i \in 1..Latest' PROVE MaintenanceHolds(main'[i])
    <3>1. i \in 1..Latest \/ i = Latest'
      BY <1>2, <1>5
    <3>. QED
      BY <1>4, <1>5, <3>1 DEF Inv, MainIsMaintained
  <2>. QED
    BY <2>1 DEF MainIsMaintained, MaintenanceHolds, PolicyLoads, FileHolds, CandidateAttested
<1>9. AttestationsArePermanent'
  <2> SUFFICES ASSUME NEW i \in 1..Latest', NEW j \in 1..Latest', NEW h \in Heads,
                      i <= j, main'[i].files[h] # None
               PROVE  main'[j].files[h] = main'[i].files[h]
    BY DEF AttestationsArePermanent
  <2>1. CASE j \in 1..Latest
    <3>1. i \in 1..Latest
      BY <1>2, <1>5, <2>1
    <3>. QED
      BY <1>5, <2>1, <3>1 DEF Inv, AttestationsArePermanent
  <2>2. CASE j = Latest' /\ i = Latest'
    BY <2>2
  <2>3. CASE j = Latest' /\ i \in 1..Latest
    <3>1. i <= Latest /\ main[i].files[h] # None
      BY <1>2, <1>5, <2>3
    <3>2. main[Latest].files[h] = main[i].files[h]
      BY <1>2, <2>3, <3>1 DEF Inv, AttestationsArePermanent
    <3>. QED
      BY <1>4, <1>5, <2>3, <3>1, <3>2 DEF AppendsOnly
  <2>4. (j \in 1..Latest \/ j = Latest') /\ (i \in 1..Latest \/ i = Latest')
    BY <1>2, <1>5
  <2>. QED
    BY <2>1, <2>2, <2>3, <2>4
<1>. QED
  BY <1>6, <1>7, <1>8, <1>9 DEF Inv

LEMMA Invariance == Spec => []Inv
<1>1. Inv /\ [Next]_vars => Inv'
  <2>1. ASSUME Inv, Next PROVE Inv'
    BY <2>1, PushInv, StartInv, FoundationInv, MergeInv DEF Next
  <2>2. ASSUME Inv, UNCHANGED vars PROVE Inv'
    BY <2>2, MainUnchanged
    DEF vars, Inv, TypeOK, RunsHold, RunHolds, MergeWith, Latest
  <2>. QED
    BY <2>1, <2>2
<1>. QED
  BY InitInv, <1>1, PTL DEF Spec

-------------------------------------------------------------------------------
\* However many requests are pushed, verified against some main and merged: every commit
\* of main passes verify_privileged_maintenance.py, so a commit that arms the bootstrap
\* for a head also attests it.
THEOREM MainStaysMaintained == Spec => []MainIsMaintained
<1>1. Inv => MainIsMaintained
  BY DEF Inv
<1>. QED
  BY <1>1, Invariance, PTL

\* What verify_privileged_attestation_history.py checks of one change holds of the whole
\* history: an attestation is never altered or removed again.
THEOREM HistoryIsAppendOnly == Spec => []AttestationsArePermanent
<1>1. Inv => AttestationsArePermanent
  BY DEF Inv
<1>. QED
  BY <1>1, Invariance, PTL

\* Requests that are open have a branch, and only these are checked; main is a sequence of
\* trees, however branches are merged.
THEOREM HistoryTypes == Spec => []TypeOK
<1>1. Inv => TypeOK
  BY DEF Inv
<1>. QED
  BY <1>1, Invariance, PTL

===============================================================================
