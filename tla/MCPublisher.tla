----------------------------- MODULE MCPublisher -----------------------------
(***************************************************************************)
(* Instances of ControlledPublisher for TLC.                               *)
(***************************************************************************)
EXTENDS PublisherRefinement, TLC

CONSTANTS p1, p2, e1, h1, h2, b1, b2, q1, q2

Ready(h, b) == [head |-> h, base |-> b, open |-> TRUE, draft |-> FALSE]

Activation(h, b, opens, closes) ==
  [head |-> h, base |-> b, run |-> q1, opens |-> opens, closes |-> closes]

\* Everybody starts from the one designated export.
OneExport == [p \in Invocations |-> e1]

\* One candidate on one base.
OneActivation == {Activation(h1, b1, 0, 1)}

\* The activation is renewed for the same head after main has moved; the windows do not
\* overlap.  The pull request is ready throughout, on the old base and then on the new.
Renewals == {Activation(h1, b1, 0, 1), Activation(h1, b2, 1, 2)}
AlwaysReady == {Ready(h1, b1), Ready(h1, b2)}

\* A pull request that is ready, moved to another head, overtaken by main,
\* turned back into a draft, or closed.
AnyPull == {Ready(h1, b1), Ready(h2, b1), Ready(h1, b2),
            [Ready(h1, b1) EXCEPT !.draft = TRUE],
            [Ready(h1, b1) EXCEPT !.open = FALSE]}

Interchangeable == Permutations(Invocations)

==============================================================================
