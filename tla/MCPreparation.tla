----------------------------- MODULE MCPreparation -----------------------------
(***************************************************************************)
(* Instances of PermitPreparation, PublicationBundles and                  *)
(* PreparationRefinement for TLC.                                          *)
(***************************************************************************)
EXTENDS PublicationBundles, PreparationRefinement, TLC

CONSTANTS j1, j2, h1, h2, b1, doc, code, gdc, v1, v2, r1, collector, c1, c2, c3, other

\* Main went from c1 to c2; c3 was never merged.
MergedCommits == {c1, c2}

\* Both candidates raise an approved document to v2.
DocumentsOfCodex ==
  [c \in {h1, h2, b1} |->
     [p \in {doc} |-> [there |-> TRUE, approved |-> TRUE, id |-> gdc,
                       version |-> IF c = b1 THEN v1 ELSE v2]]]

Whole(h) == [head |-> h, base |-> b1, paths |-> {doc, code}]

\* The owner approved h1's version of the document, never h2's.
Disabled == [package |-> None, bootstrap |-> None,
             attestations |-> [h \in {h1, h2} |-> NoRecord], approvals |-> {}]
Promoted == [Disabled EXCEPT !.package = r1,
               !.approvals = {[head |-> h1, document |-> gdc, version |-> v2]}]
Armed == [Promoted EXCEPT !.bootstrap = h1,
            !.attestations = [h \in {h1, h2} |-> Whole(h)]]
Proposed == [Armed EXCEPT !.package = h2, !.bootstrap = h2]

AllTrees == {Disabled, Promoted, Armed, Proposed}

\* c1 promotes the runtime, c2 arms the bootstrap, c3 would arm it for h2.
History == (c1 :> Promoted) @@ (c2 :> Armed) @@ (c3 :> Proposed)

\* What the runtimes print of a candidate that touches both files: facts f of the
\* attested runtime, failures of the promoted one.
Attested(h, protected, conclusion, found) ==
  Printed([c |-> Whole(h), protected |-> protected, runtimeOnly |-> {}, others |-> {},
           conclusion |-> conclusion, found |-> found, renames |-> 0])

PromotedPrints(h, reasons) ==
  [kind |-> "promoted", sound |-> TRUE, head |-> h, manifest |-> Whole(h),
   conclusion |-> "success", evaluator |-> reasons, runtime |-> {},
   verdict |-> Verdict(reasons), facts |-> TRUE]

Unprivileged == "privileged-validation-missing"

\* h1 passes, is unqualified or is not understood; h2 passes.
SomeWires == {Attested(h1, {}, "success", FALSE), Attested(h1, {}, "failure", FALSE),
              Attested(h2, {}, "success", FALSE),
              PromotedPrints(h1, {Unprivileged}), PromotedPrints(h1, {Unprivileged, other}),
              PromotedPrints(h2, {Unprivileged})}

Job(mode, h) == [mode |-> mode, head |-> h]
InDirectory(e, r, p) == [evidence |-> e, receipt |-> r, permit |-> p]

\* The same files for both jobs.
SamePlaces == [j \in {j1, j2} |-> InDirectory("evidence", "receipt", "permit")]

\* One of each mode, and files that are mixed up afterwards.
BothModes == (j1 :> Job("attested", h1)) @@ (j2 :> Job("bootstrap", h1))
OwnPlaces == (j1 :> InDirectory("evidence", "receipt", "permit"))
             @@ (j2 :> InDirectory("evidence2", "receipt2", "permit2"))

\* The candidate the owner approved, and the one nobody did.
OneApproved == (j1 :> Job("attested", h1)) @@ (j2 :> Job("bootstrap", h2))
ApprovedTree == [Armed EXCEPT !.bootstrap = h2]
ApprovedTrees == {ApprovedTree}
ApprovedHistory == (c1 :> ApprovedTree)

\* Main moves from the promotion of the runtime to the arming; c3 arms it, too, but is
\* never merged.
TwoTrees == {Promoted, Armed}
ThreeCommits == (c1 :> Promoted) @@ (c2 :> Armed) @@ (c3 :> Armed)

\* One attested job.
AttestedJob == (j1 :> Job("attested", h1))
OnePlace == (j1 :> InDirectory("evidence", "receipt", "permit"))
===============================================================================
