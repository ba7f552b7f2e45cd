------------------------------- MODULE EndToEnd -------------------------------
(***************************************************************************)
(* From the operator's jobs to the check on GitHub.  The controlled         *)
(* publisher (ControlledPublisher, with all that is proved of it) runs      *)
(* beside the jobs, people and checkout of PermitPreparation, possibly on   *)
(* another host, and reads three of their output files: execute in          *)
(* controlled_publisher.py.                                                *)
(*                                                                         *)
(* The jobs' variables keep their names; of the publisher's, files, io and  *)
(* pc are journal, jio and step here.                                      *)
(***************************************************************************)
EXTENDS PublicationBundles

CONSTANTS
  Invocations, Exports, ExportOf, Runs, Configurations, Unarmed, PullStates, MaxTime,
             \* see ControlledPublisher, where Configurations is Activations
             \* and Unarmed is Disabled
  ReviewOf   \* what an activation names besides the candidate: mode, runtime_package,
             \* authority_service_source_revision and the digests of three files

VARIABLES
  journal, jio, armed, now, pull, latest, req, step,
  act, token, attempted, known, revoked, failed,  \* see ControlledPublisher
  held       \* permit_raw, evidence_raw and receipt_raw: what was read, or None

Publisher == INSTANCE PublisherProofs
               WITH files <- journal, io <- jio, pc <- step,
                    Activations <- Configurations, Disabled <- Unarmed

Reviews == [mode: Modes, source: Sources, revision: Revisions, permit: PermitBodies,
            evidence: EvidenceBodies, receipt: ReceiptBodies]

ASSUME EndToEndAssumption ==
  /\ Publisher!PublisherAssumption
  /\ ReviewOf \in [Configurations -> Reviews]

publisher == <<journal, jio, armed, now, pull, latest, req, step,
               act, token, attempted, known, revoked, failed>>

-------------------------------------------------------------------------------
\* The digests of the activation decide alone, whatever the bundle says of its
\* revision and runtime.
Accepts_ByDigest(a, inputs) ==
  LET review == ReviewOf[a] IN
  /\ \A kind \in Kinds : inputs[kind] = review[kind]
  /\ inputs.permit.head = a.head /\ inputs.permit.base = a.base

\* verify_bundle accepts the three inputs for the activation, their candidate is its
\* candidate, and they are the ones that its digests name.
Accepts(a, inputs) ==
  LET review == ReviewOf[a] IN
  /\ BundleHolds(inputs.permit, inputs.evidence, inputs.receipt, review)
  /\ inputs.permit.head = a.head /\ inputs.permit.base = a.base
  /\ \A kind \in Kinds : inputs[kind] = review[kind]

\* The order in which the inputs are read.
Before == [permit |-> {}, evidence |-> {"permit"}, receipt |-> {"permit", "evidence"}]

\* read_regular, of one path after the other: files that jobs may still be writing.
ReadInput(i, kind, n) ==
  /\ step[i] = "inputs" /\ held[i][kind] = None
  /\ \A earlier \in Before[kind] : held[i][earlier] # None
  /\ Readable(n)
  /\ held' = [held EXCEPT ![i][kind] = files[n].body]
  /\ UNCHANGED <<vars, publisher>>

\* The inputs are accepted or not; one that could not be read is not.
Verify(i) ==
  /\ Publisher!VerifyInputs(i, (\A kind \in Kinds : held[i][kind] # None)
                              /\ Accepts(act[i], held[i]))
  /\ UNCHANGED <<vars, held>>

\* Any other step of the publisher, GitHub, the clock and the operators.
Publish(i) ==
  /\ \/ \E h \in Heads : Publisher!Execute(i, h)
     \/ step[i] # "inputs" /\ Publisher!Program(i)
     \/ Publisher!Crash(i)
     \/ Publisher!GitHub(i)
  /\ UNCHANGED <<vars, held>>

Around == (Publisher!HostFails \/ Publisher!World) /\ UNCHANGED <<vars, held>>

\* A step of a job, or of people, or a power loss where the jobs run.
Prepare == Next /\ UNCHANGED <<publisher, held>>

WholeInit == Init /\ Publisher!Init /\ held = [i \in Invocations |-> [kind \in Kinds |-> None]]

WholeNext ==
  \/ Prepare
  \/ \E i \in Invocations :
       \/ \E kind \in Kinds, n \in Places : ReadInput(i, kind, n)
       \/ Verify(i)
       \/ Publish(i)
  \/ Around

WholeSpec == WholeInit /\ [][WholeNext]_<<vars, publisher, held>>

-------------------------------------------------------------------------------
\* Some tree approved what snapshot s promotes.
GateHeld(s) ==
  \E g \in Trees : \A p \in s.paths \cap GdcPaths :
    LET document == Documents[s.head][p] IN
    document.there /\ Promotion(s.head, s.base, p) =>
      [head |-> s.head, document |-> document.id, version |-> document.version] \in g.approvals

\* Job m came to a PASS of a's candidate, in the mode, with the runtime and at the
\* commit of main that a names, which activates and attests it where that is needed.
EarnedFor(m, a) ==
  LET review == ReviewOf[a]  g == GovernanceOf[review.revision] IN
  /\ Passed(m)
  /\ ActivationOf(m) = [mode |-> review.mode, source |-> review.source,
                        revision |-> review.revision]
  /\ review.revision \in Main
  /\ Head(m) = a.head /\ result[m].snapshot.base = a.base
  /\ review.mode = "bootstrap" =>
       /\ g.bootstrap = a.head
       /\ g.attestations[a.head] = [head |-> a.head, base |-> a.base,
                                    paths |-> result[m].snapshot.paths]

\* Job k took the permit of that candidate through the ARB gate.
PermittedBy(k, a) ==
  /\ Passed(k) /\ Permit(k) = ReviewOf[a].permit
  /\ Head(k) = a.head /\ result[k].snapshot.base = a.base
  /\ Owns(k, "evidence", Evidence(k)) /\ Owns(k, "receipt", Receipt(k))
  /\ GateHeld(result[k].snapshot)

\* A job earned the evidence of activation a, still on disk, and its permit was taken
\* through the gate.
RestsOnEvidence(a) ==
  /\ \E m \in Jobs : /\ EarnedFor(m, a)
                     /\ ReviewOf[a].evidence = Evidence(m)
                     /\ Owns(m, "evidence", Evidence(m))
  /\ \E k \in Jobs : PermittedBy(k, a)

\* A check is on its way to GitHub only for an activation that rests on evidence:
\* whatever files the operator supplies, whenever they are read, and whatever crashed
\* meanwhile.
ChecksRestOnEvidence ==
  \A i \in Invocations : Publisher!Posted(i) => RestsOnEvidence(act[i])

\* Nor is one for a candidate that promotes a governance document to a version which
\* nobody approved at its head.
ChecksPromoteApproved ==
  \A i \in Invocations, p \in GdcPaths :
    Publisher!Posted(i) /\ Documents[act[i].head][p].there
      /\ Promotion(act[i].head, act[i].base, p) =>
      \E record \in UNION {g.approvals : g \in Trees} :
        /\ record.head = act[i].head
        /\ record.document = Documents[act[i].head][p].id
        /\ record.version = Documents[act[i].head][p].version

===============================================================================
