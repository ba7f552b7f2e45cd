--------------------------- MODULE GovernanceHistory ---------------------------
(***************************************************************************)
(* How governance/ of the Authority changes: pull requests against main,    *)
(* checked by the "Authority Foundation" workflow                           *)
(* (verify_privileged_maintenance.py, then                                  *)
(* verify_privileged_attestation_history.py) on the merge commit GitHub made*)
(* when the workflow was triggered, and squashed onto main by whoever gets  *)
(* there first.                                                             *)
(*                                                                         *)
(* A tree is what Git merges region by region: the lines of the maintenance *)
(* policy that change, and one file per privileged attestation.             *)
(***************************************************************************)
EXTENDS Naturals, Sequences

CONSTANTS
  Requests,   \* pull requests of the Authority
  Heads,      \* candidate heads, and names of attestation files
  Pulls,      \* pull requests of Codex
  None,       \* absent
  Proposals,  \* trees a branch may hold
  MaxMain     \* bound of the model: commits of main

Attestation == [sound: BOOLEAN, head: Heads, pull: Pulls]

\* bootstrap of privileged-maintenance.json.
Bootstrap == [enabled: BOOLEAN, candidate: [head: Heads, pull: Pulls] \cup {None}]

\* state, bootstrap, permanent_runtime.state and
\* claims.privileged_governance_maintenance_path_proven of that file, and the others.
Tree == [state: {"staged-disabled", "bootstrap-proof", "permanent-runtime"},
         bootstrap: Bootstrap, permanent: {"not-implemented", "promoted"},
         proven: BOOLEAN, files: [Heads -> Attestation \cup {None}]]

ASSUME HistoryAssumption ==
  /\ None \notin Attestation
  /\ Proposals \subseteq Tree
  /\ MaxMain \in Nat

VARIABLES
  main,  \* the trees of main's commits, oldest first
  fork,  \* per pull request: the last commit of main its branch contains; 0 if not open
  tip,   \* the tree of its branch, while it is open
  ci     \* its latest workflow run: the commit of main that was merged, the merge, the verdict

vars == <<main, fork, tip, ci>>

NoRun == [verdict |-> "none"]
WorkflowRuns == [base: Nat \ {0}, tree: Tree, verdict: {"running", "passed", "failed"}]

TypeOK ==
  /\ main \in Seq(Tree) /\ Len(main) > 0
  /\ fork \in [Requests -> 0..Len(main)]
  /\ tip \in [Requests -> Tree \cup {None}]
  /\ ci \in [Requests -> WorkflowRuns \cup {NoRun}]
  /\ \A q \in Requests : IF fork[q] = 0 THEN ci[q] = NoRun /\ tip[q] = None
                         ELSE tip[q] \in Tree

-------------------------------------------------------------------------------
(* The verifiers. *)

\* load_maintenance_policy
PolicyLoads(t) ==
  /\ IF t.bootstrap.enabled
     THEN /\ t.state = "bootstrap-proof" /\ t.permanent = "not-implemented"
          /\ t.bootstrap.candidate # None
     ELSE /\ t.bootstrap.candidate = None
          /\ t.state = (IF t.permanent = "promoted" THEN "permanent-runtime"
                           ELSE "staged-disabled")
  /\ t.proven => ~t.bootstrap.enabled /\ t.permanent = "promoted"

\* PrivilegedValidationAttestation.load, and the file is named after the head.
FileHolds(t, h) == t.files[h] # None => t.files[h].sound /\ t.files[h].head = h

\* An enabled bootstrap has the attestation of its head, for its pull request.
CandidateAttested(t) ==
  t.bootstrap.enabled =>
    LET c == t.bootstrap.candidate IN t.files[c.head] # None /\ t.files[c.head].pull = c.pull

\* verify_privileged_maintenance.py
MaintenanceHolds(t) ==
  /\ PolicyLoads(t)
  /\ \A h \in Heads : FileHolds(t, h)
  /\ CandidateAttested(t)

\* A modified file passes as well.
AppendsOnly_OrModifies(base, t) == \A h \in Heads : base.files[h] # None => t.files[h] # None

\* verify_privileged_attestation_history.py: every difference in a *.json between the
\* merge base and HEAD is an addition.
AppendsOnly(base, t) == \A h \in Heads : base.files[h] # None => t.files[h] = base.files[h]

-------------------------------------------------------------------------------
(* Git. *)

\* Three-way merge of a region that holds o in the common ancestor: what b changed is
\* unchanged in a, or changed to the same.
Agree(o, a, b) == b # o => a \in {o, b}
Pick(o, a, b) == IF b = o THEN a ELSE b

\* And of trees.
Policies == {"state", "bootstrap", "permanent", "proven"}
Mergeable(o, a, b) ==
  /\ \A r \in Policies : Agree(o[r], a[r], b[r])
  /\ \A h \in Heads : Agree(o.files[h], a.files[h], b.files[h])
Merged(o, a, b) ==
  [state |-> Pick(o.state, a.state, b.state),
   bootstrap |-> Pick(o.bootstrap, a.bootstrap, b.bootstrap),
   permanent |-> Pick(o.permanent, a.permanent, b.permanent),
   proven |-> Pick(o.proven, a.proven, b.proven),
   files |-> [h \in Heads |-> Pick(o.files[h], a.files[h], b.files[h])]]

Latest == Len(main)

\* Request q's branch, merged with commit i of main.
MergesWith(q, i) == Mergeable(main[fork[q]], main[i], tip[q])
MergeWith(q, i) == Merged(main[fork[q]], main[i], tip[q])

-------------------------------------------------------------------------------
Init ==
  /\ main \in {<<t>> : t \in {x \in Proposals : MaintenanceHolds(x)}}
  /\ fork = [q \in Requests |-> 0]
  /\ tip = [q \in Requests |-> None]
  /\ ci = [q \in Requests |-> NoRun]

\* The checks of an earlier push count for this one.
Unchecked_Kept(q) == ci

Unchecked(q) == [ci EXCEPT ![q] = NoRun]

\* A branch is pushed, rebased or brought up to date: earlier checks do not count.
Push(q, i, t) ==
  /\ fork' = [fork EXCEPT ![q] = i]
  /\ tip' = [tip EXCEPT ![q] = t]
  /\ ci' = Unchecked(q)
  /\ UNCHANGED main

\* on: pull_request.  GitHub merges the branch with main as it is then.
StartWorkflow(q) ==
  /\ fork[q] # 0
  /\ MergesWith(q, Latest)
  /\ ci' = [ci EXCEPT ![q] =
              [base |-> Latest, tree |-> MergeWith(q, Latest), verdict |-> "running"]]
  /\ UNCHANGED <<main, fork, tip>>

\* The verifiers run, some time later; merge-base origin/main HEAD is the commit of
\* main that was merged, however far main has moved.
Foundation(q) ==
  LET run == ci[q] IN
  /\ run.verdict = "running"
  /\ ci' = [ci EXCEPT ![q].verdict =
              IF MaintenanceHolds(run.tree) /\ AppendsOnly(main[run.base], run.tree)
              THEN "passed" ELSE "failed"]
  /\ UNCHANGED <<main, fork, tip>>

\* A branch that merges without conflict is good enough.
UpToDate_OrMergeable(q) == MergesWith(q, Latest)

\* strict_required_status_checks_policy
UpToDate(q) == fork[q] = Latest

\* The request is squashed onto main: required check, pull request, squash only.
Merge(q) ==
  /\ fork[q] # 0 /\ Latest < MaxMain
  /\ ci[q].verdict = "passed"
  /\ UpToDate(q)
  /\ main' = Append(main, MergeWith(q, Latest))
  /\ fork' = [fork EXCEPT ![q] = 0]
  /\ tip' = [tip EXCEPT ![q] = None]
  /\ ci' = Unchecked(q)

Next ==
  \E q \in Requests :
    \/ \E i \in 1..Latest, t \in Proposals : Push(q, i, t)
    \/ StartWorkflow(q)
    \/ Foundation(q)
    \/ Merge(q)

Spec == Init /\ [][Next]_vars

-------------------------------------------------------------------------------
(* Properties. *)

\* Every commit of main passes its own verification, though what was verified is a
\* merge with some earlier main, while other requests were merged: in particular no
\* commit arms the bootstrap for a head that it does not attest.
MainIsMaintained == \A i \in 1..Latest : MaintenanceHolds(main[i])

\* An attestation that was ever on main is on main for good, unchanged: a job that
\* pins any later commit reads the same one.
AttestationsArePermanent ==
  \A i, j \in 1..Latest, h \in Heads :
    i <= j /\ main[i].files[h] # None => main[j].files[h] = main[i].files[h]

===============================================================================
