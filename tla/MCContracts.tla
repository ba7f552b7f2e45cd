------------------------------ MODULE MCContracts ------------------------------
(***************************************************************************)
(* An instance of ContractReader for TLC: everything an honest runtime      *)
(* prints about a candidate, and what a few lies per field make of it.      *)
(***************************************************************************)
EXTENDS ContractReader

CONSTANTS h1, h2, b1, f1, f2, f3, f4, f5, other

\* Changes of one file up to one more than is accepted.
Manifests == {{f1}, {f2}, {f1, f2}, {f1, f2, f3}, {f1, f2, f3, f4}, {f1, f2, f3, f4, f5}}
Small(r) == Cardinality(r.manifest.paths) <= 2

HonestFacts ==
  UNION {{f \in [c: {[head |-> h1, base |-> b1, paths |-> m]}, protected: SUBSET m,
                 runtimeOnly: SUBSET m, others: SUBSET OtherReasons,
                 conclusion: {"success", "failure"}, found: BOOLEAN,
                 renames: 0..(Cardinality(m) \div 2)] :
            f.protected \cap f.runtimeOnly = {}} : m \in Manifests}

HonestResults == {Printed(f) : f \in HonestFacts}

\* What may be told of the final evaluation, the reasons and the approval of r.
Finals(r, i) == <<r.final, r.original,
                  [r.original EXCEPT !.reasons = {}, !.verdict = "pass"]>>[i]

ReasonsOf(r, i) == <<r.reasons, r.original.reasons, {}>>[i]

ApprovalOf(r, i) ==
  LET c == r.manifest
      verified(k) == [status |-> "verified", record |-> k, sound |-> TRUE]
  IN <<r.approval, [status |-> "missing", record |-> NoRecord, sound |-> TRUE], verified(c),
       verified([c EXCEPT !.paths = {f1}]), verified([c EXCEPT !.head = h2])>>[i]

\* Lie 1 on every field is the truth.
LyingWires ==
  {[r EXCEPT !.final = Finals(r, i), !.reasons = ReasonsOf(r, j),
             !.approval = ApprovalOf(r, k), !.runtime = IF quiet THEN {} ELSE r.runtime,
             !.verdict = verdict, !.conclusion = conclusion] :
     r \in {h \in HonestResults : Small(h)}, i, j \in 1..3, k \in 1..5, quiet \in BOOLEAN,
     verdict \in {"pass", "fail"}, conclusion \in {"success", "failure"}}

PromotedWires ==
  [kind: {"promoted"}, sound: {TRUE}, head: {h1, h2},
   manifest: [head: {h1}, base: {b1}, paths: {{f1}, {f2}, {f1, f2}}],
   conclusion: {"success", "failure"}, evaluator: SUBSET {"privileged-validation-missing", other},
   runtime: {{}, {"runtime-critical-mutation"}}, verdict: {"pass", "fail"}, facts: BOOLEAN]

AllWires == HonestResults \cup LyingWires \cup PromotedWires

SomeRecords == {[head |-> h1, base |-> b1, paths |-> {f1, f2}],
                [head |-> h2, base |-> b1, paths |-> {f1, f2}], NoRecord}
===============================================================================
