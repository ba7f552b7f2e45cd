----------------------------- MODULE ContractReader -----------------------------
(***************************************************************************)
(* Reading one result: whatever a runtime printed, for whatever request and *)
(* tracked attestation, becomes an answer.                                  *)
(***************************************************************************)
EXTENDS RuntimeContracts

CONSTANTS Wires,   \* results that may be printed
          Records  \* attestations that may be on record

ASSUME WireAssumption == /\ Wires \subseteq AttestedResult \cup PromotedResult
                         /\ Records \subseteq Candidate \cup {NoRecord}

\* A change has finitely many files; no other failure goes by a privileged name.
ASSUME FactsAssumption == /\ IsFiniteSet(Paths)
                          /\ OtherReasons \cap (PrivilegeBlockers \cup {Unqualified}) = {}

VARIABLES wire,     \* what the runtime printed
          request,  \* the candidate that was asked for
          record,   \* the attestation committed for it, read by the bootstrap mode
          answer    \* what the authority makes of it

vars == <<wire, request, record, answer>>

Unread == [decision |-> "unread"]

Init ==
  /\ wire \in Wires
  /\ request \in Heads
  /\ record \in Records
  /\ answer = Unread

Parse(r) == IF r.kind = "attested" THEN ParseAttested(r, request)
            ELSE BootstrapResult(r, request, record)

Read == /\ answer = Unread
        /\ answer' = Parse(wire)
        /\ UNCHANGED <<wire, request, record>>

Next == Read

Spec == Init /\ [][Next]_vars

-------------------------------------------------------------------------------
\* All failures the evaluator and the runtime saw before any approval.
Failures(r) == IF r.kind = "attested" THEN OriginalReasons(r)
               ELSE r.evaluator \cup r.runtime

\* The attestation that may resolve them.
Attested(r) == IF r.kind = "attested" THEN r.approval.record ELSE record

\* A PASS is never the runtime's word alone: the candidate is qualified, it failed
\* on nothing but privilege, and if it failed, or touched anything protected, the
\* attestation is for this head, this base and exactly these files.
PassIsEarned ==
  answer.decision = "pass" =>
    /\ answer.reasons = {}
    /\ answer.snapshot.head = request
    /\ wire.conclusion = "success"
    /\ Failures(wire) \subseteq PrivilegeBlockers
    /\ \/ Failures(wire) # {}
       \/ wire.kind = "attested" /\ wire.original.protected \cup wire.runtimeOnly # {}
       => Attested(wire) = [head |-> request, base |-> answer.snapshot.base,
                            paths |-> answer.snapshot.paths]

\* A FAIL loses none of its reasons on the way: it is the original one, and no
\* exact attestation of a qualified candidate resolves it.
FailuresSurvive ==
  answer.decision = "fail" =>
    /\ answer.reasons = Failures(wire)
    /\ answer.reasons # {}
    /\ wire.approval.status # "verified"

-------------------------------------------------------------------------------
\* What the pinned runtime prints about the requested candidate is understood: the strict
\* parser keeps the verdict of every honest result whose files and reasons fit into its
\* lists, renames, whole and partial pages included, and it cuts none short: one that does
\* not fit is refused.  The bound on the pages never turns a result away by itself.
HonestResultsAreRead ==
  /\ answer # Unread
  /\ wire.kind = "attested" /\ wire.head = request
  /\ FactsOf(wire) \in Facts /\ wire = Printed(FactsOf(wire))
  => IF Listed(wire.manifest.paths) /\ Listed(wire.original.reasons)
     THEN answer.decision = wire.verdict
     ELSE answer = Rejected

===============================================================================
