---------------------------- MODULE MCProofPublisher ----------------------------
(***************************************************************************)
(* Instances of ProofPublisher for TLC.                                    *)
(***************************************************************************)
EXTENDS ProofPublisher

CONSTANTS p1, h1, h2, b1, b2, s1, s2

\* The permit of the proof, and one that differs from it in each respect.
Promoted == [sound |-> TRUE, decision |-> "pass", recorded |-> TRUE,
             head |-> h1, base |-> b1, source |-> s1]
SomePermits == {Promoted,
                [Promoted EXCEPT !.sound = FALSE],
                [Promoted EXCEPT !.decision = "fail"],
                [Promoted EXCEPT !.recorded = FALSE],
                [Promoted EXCEPT !.head = h2],
                [Promoted EXCEPT !.base = b2],
                [Promoted EXCEPT !.base = h1],
                [Promoted EXCEPT !.source = s2]}

\* Disarmed; bound to the permit; to one that was not decided so; to another one of
\* the same head; and what Config.load refuses.
Disarmed == [sound |-> TRUE, mode |-> "disabled", source |-> None, blobs |-> None,
             head |-> None, digest |-> None]
Armed(x) == [sound |-> TRUE, mode |-> "proof", source |-> s1, blobs |-> "exact",
             head |-> h1, digest |-> x]
SomeConfigs == {Disarmed, Armed(Promoted), Armed([Promoted EXCEPT !.decision = "fail"]),
                Armed([Promoted EXCEPT !.base = b2]),
                [Armed(Promoted) EXCEPT !.mode = "disabled"],
                [Armed(Promoted) EXCEPT !.blobs = None],
                [Armed(Promoted) EXCEPT !.sound = FALSE]}

Ready(h, b) == [head |-> h, base |-> b, open |-> TRUE]
AnyPull == {Ready(h1, b1), Ready(h2, b1), Ready(h1, b2),
            [Ready(h1, b1) EXCEPT !.open = FALSE]}

==============================================================================
