------------------------------ MODULE MCEndToEnd ------------------------------
(***************************************************************************)
(* An instance of EndToEnd for TLC: one bootstrap job, one publisher.       *)
(***************************************************************************)
EXTENDS EndToEnd, TLC

CONSTANTS j1, h1, b1, doc, gdc, v1, v2, r1, collector, c1, i1, e1, q1

Whole == [head |-> h1, base |-> b1, paths |-> {doc}]

\* The candidate raises an approved document to v2, which the owner approved.
DocumentsOfCodex ==
  [c \in {h1, b1} |-> [p \in {doc} |-> [there |-> TRUE, approved |-> TRUE, id |-> gdc,
                                        version |-> IF c = b1 THEN v1 ELSE v2]]]
Armed == [package |-> r1, bootstrap |-> h1, attestations |-> [h \in {h1} |-> Whole],
          approvals |-> {[head |-> h1, document |-> gdc, version |-> v2]}]

\* The same tree before that approval.
Unapproved == [Armed EXCEPT !.approvals = {}]
BothTrees == {Armed, Unapproved}

OneCommit == [c \in {c1} |-> Armed]

Failing == [kind |-> "promoted", sound |-> TRUE, head |-> h1, manifest |-> Whole,
            conclusion |-> "success", evaluator |-> {"privileged-validation-missing"},
            runtime |-> {}, verdict |-> "fail", facts |-> TRUE]
OneWire == {Failing}

BootstrapJob == [j \in {j1} |-> [mode |-> "bootstrap", head |-> h1]]
OnePlace == [j \in {j1} |-> [kind \in Kinds |-> kind]]

OneInvocation == [i \in {i1} |-> e1]
Candidates == [head: {h1}, base: {b1}, run: {q1}, opens: {0}, closes: {1, 2}]
ReadyPull == {[head |-> h1, base |-> b1, open |-> TRUE, draft |-> FALSE]}

\* What the job leaves if it passes.
Record == [decision |-> "pass", reasons |-> {}, snapshot |-> Snapshot(Whole), raw |-> Failing]
ExportedPermit ==
  [kind |-> "permit", head |-> h1, base |-> b1, source |-> collector, revision |-> c1]
ExportedEvidence ==
  [kind |-> "evidence", mode |-> "bootstrap", head |-> h1, revision |-> c1,
   source |-> collector, result |-> Record, approval |-> Whole, activation |-> h1]
ExportedReceipt == [kind |-> "receipt", mode |-> "bootstrap", evidence |-> ExportedEvidence,
                    raw |-> Failing, permit |-> ExportedPermit]

\* One activation names these files as what they are, the other the same files as those
\* of an attested publication.
Named == [a \in Candidates |->
            [mode |-> IF a.closes = 1 THEN "bootstrap" ELSE "attested",
             source |-> IF a.closes = 1 THEN collector ELSE r1,
             revision |-> c1, permit |-> ExportedPermit, evidence |-> ExportedEvidence,
             receipt |-> ExportedReceipt]]

===============================================================================
