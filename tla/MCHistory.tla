------------------------------- MODULE MCHistory -------------------------------
(***************************************************************************)
(* An instance of GovernanceHistory for TLC.                               *)
(***************************************************************************)
EXTENDS GovernanceHistory, TLC

CONSTANTS q1, q2, h1, h2, n1, n2

AnyRequest == Permutations({q1, q2})

Of(h, n) == [sound |-> TRUE, head |-> h, pull |-> n]
Off == [enabled |-> FALSE, candidate |-> None]
For(h, n) == [enabled |-> TRUE, candidate |-> [head |-> h, pull |-> n]]

Policy(state, bootstrap, permanent, proven, at1, at2) ==
  [state |-> state, bootstrap |-> bootstrap, permanent |-> permanent, proven |-> proven,
   files |-> (h1 :> at1) @@ (h2 :> at2)]

\* The life of the policy, and one step away from it in each respect.
Staged(at1, at2) == Policy("staged-disabled", Off, "not-implemented", FALSE, at1, at2)
Armed(at1) == Policy("bootstrap-proof", For(h1, n1), "not-implemented", FALSE, at1, None)
Permanent(proven, at1) ==
  Policy("permanent-runtime", Off, "promoted", proven, at1, None)

SomeProposals ==
  {Staged(None, None), Staged(Of(h1, n1), None), Staged(Of(h1, n2), None),
   Staged(None, Of(h1, n1)), Armed(None), Armed(Of(h1, n1)),
   Permanent(FALSE, Of(h1, n1)), Permanent(TRUE, Of(h1, n1))}

===============================================================================
