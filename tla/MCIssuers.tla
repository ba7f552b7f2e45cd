------------------------------ MODULE MCIssuers ------------------------------
(***************************************************************************)
(* Instances of LegacyIssuers for TLC.                                     *)
(***************************************************************************)
EXTENDS LegacyIssuers, TLC

CONSTANTS j1, j2, h1, h2, b1, doc, code, other, c1, c2

Whole(h) == [head |-> h, base |-> b1, paths |-> {doc, code}]

\* c1 has the bootstrap disarmed, c2 arms it for h1; both are merged.
Disarmed == [bootstrap |-> None, attestations |-> [h \in {h1, h2} |-> NoRecord]]
Armed == [bootstrap |-> h1, attestations |-> [h \in {h1, h2} |-> Whole(h1)]]
TwoTrees == {Disarmed, Armed}
TwoCommits == (c1 :> Disarmed) @@ (c2 :> Armed)

Printed1(paths, evaluator, runtime) ==
  [kind |-> "promoted", sound |-> TRUE, head |-> h1,
   manifest |-> [Whole(h1) EXCEPT !.paths = paths], conclusion |-> "success",
   evaluator |-> evaluator, runtime |-> runtime,
   verdict |-> Verdict(evaluator \cup runtime), facts |-> TRUE]

Unprivileged == "privileged-validation-missing"

\* h1 passes, fails on privilege only, also when it has grown a file since it was
\* attested, or fails on something else, too.
SomeWires == {Printed1({doc, code}, {}, {}),
              Printed1({doc, code}, {Unprivileged}, {"runtime-critical-mutation"}),
              Printed1({doc}, {Unprivileged}, {}),
              Printed1({doc, code}, {Unprivileged, other}, {})}

Job(program) == [program |-> program, head |-> h1]

\* One run of each program, into the same files.
BothPrograms == (j1 :> Job("proof")) @@ (j2 :> Job("privileged"))
SamePlaces == [j \in {j1, j2} |-> [evidence |-> "evidence", permit |-> "permit"]]

==============================================================================
