--------------------------- MODULE PublicationBundles ---------------------------
(***************************************************************************)
(* verify_bundle (controlled_evidence.py): the publisher reads three files  *)
(* an operator points it to, from whichever jobs and directories, and       *)
(* accepts them only as one whole, for one reviewed activation.             *)
(***************************************************************************)
EXTENDS PermitPreparation

\* The part of an activation that a bundle is checked against: mode, runtime_package
\* and authority_revision.
Activations == [mode: Modes, source: Sources, revision: Main]

\* The output that is retained, read again by the contract of its mode.
Reparsed(e, head) ==
  IF e.mode = "attested" THEN ParseAttested(e.result.raw, head)
  ELSE BootstrapResult(e.result.raw, head, e.approval)

\* The evidence is not tied to the activation's revision.
EvidenceHolds_AnyRevision(e, head, base, a) ==
  /\ e.kind = "evidence"
  /\ e.mode = a.mode /\ e.source = a.source
  /\ e.result.raw # NoRaw
  /\ e.mode = "bootstrap" => e.source = Collector /\ e.activation = head
  /\ LET x == Reparsed(e, head) IN
     /\ x.decision = "pass" /\ x.reasons = {} /\ x.snapshot.base = base
     /\ e.head = head
     /\ e.result = [decision |-> "pass", reasons |-> {}, snapshot |-> x.snapshot,
                    raw |-> e.result.raw]

\* The evidence is that of a PASS of this candidate under the activation, and its
\* record says no more than the runtime's own output.
EvidenceHolds(e, head, base, a) ==
  /\ e.kind = "evidence"
  /\ e.mode = a.mode /\ e.source = a.source /\ e.revision = a.revision
  /\ e.result.raw # NoRaw
  /\ e.mode = "bootstrap" => e.source = Collector /\ e.activation = head
  /\ LET x == Reparsed(e, head) IN
     /\ x.decision = "pass" /\ x.reasons = {} /\ x.snapshot.base = base
     /\ e.head = head
     /\ e.result = [decision |-> "pass", reasons |-> {}, snapshot |-> x.snapshot,
                    raw |-> e.result.raw]

\* The authority revision of the activation is not looked at.
BundleHolds_AnyRevision(p, e, r, a) ==
  /\ p.kind = "permit"
  /\ p.source = a.source /\ p.head # a.source
  /\ r.kind = "receipt"
  /\ r.mode = a.mode /\ r.permit = p /\ r.evidence = e
  /\ EvidenceHolds_AnyRevision(e, p.head, p.base, a)
  /\ r.raw = e.result.raw

\* verify_bundle(permit, evidence, receipt) for activation a.
BundleHolds(p, e, r, a) ==
  /\ p.kind = "permit"
  /\ p.revision = a.revision /\ p.source = a.source /\ p.head # a.source
  /\ r.kind = "receipt"
  /\ r.mode = a.mode /\ r.permit = p /\ r.evidence = e
  /\ EvidenceHolds(e, p.head, p.base, a)
  /\ r.raw = e.result.raw

-------------------------------------------------------------------------------
(* preview_attested_permit (attested_preview.py): what an operator rehearses offline.  *)

\* The kinds of evidence and receipt are not looked at.
PreviewHolds_AnyKind(p, e, r, a) ==
  /\ p.kind = "permit" /\ p.revision = a.revision /\ p.source = a.source
  /\ e.kind = "evidence" /\ r.kind = "receipt"
  /\ r.permit = p /\ r.evidence = e
  /\ e.revision = a.revision /\ e.source = a.source
  /\ e.result.raw # NoRaw /\ r.raw = e.result.raw
  /\ e.result.decision = "pass" /\ e.result.reasons = {}
  /\ e.result.snapshot.state = "open"
  /\ e.head = p.head /\ e.result.snapshot.head = p.head /\ e.result.snapshot.base = p.base

\* The links of the three files and the decision record, taken at its word: the
\* runtime's output is not read again.
PreviewHolds(p, e, r, a) ==
  /\ p.kind = "permit" /\ p.revision = a.revision /\ p.source = a.source
  /\ e.kind = "evidence" /\ e.mode = "attested"
  /\ r.kind = "receipt" /\ r.mode = "attested"
  /\ r.permit = p /\ r.evidence = e
  /\ e.revision = a.revision /\ e.source = a.source
  /\ e.result.raw # NoRaw /\ r.raw = e.result.raw
  /\ e.result.decision = "pass" /\ e.result.reasons = {}
  /\ e.result.snapshot.state = "open"
  /\ e.head = p.head /\ e.result.snapshot.head = p.head /\ e.result.snapshot.base = p.base

-------------------------------------------------------------------------------
\* The activation under which a job's bundle is to be published.
ActivationOf(j) == [mode |-> Mode(j), source |-> SourceOf(j), revision |-> revision[j]]

-------------------------------------------------------------------------------
Readable(n) == Disk!Exists(n) /\ files[n].whole

\* Whatever three files are put together: if they are accepted for an activation,
\* a job passed this candidate in that mode, with that runtime, at that revision of
\* the service, which activates and attests it where the bootstrap mode needs it;
\* and a job got the very permit through the ARB gate, and prepared it for export.
AcceptedBundlesAreGenuine ==
  \A p, e, r \in {n \in Places : Readable(n)}, a \in Activations :
    BundleHolds(files[p].body, files[e].body, files[r].body, a) =>
      LET j == files[e].by  k == files[p].by  g == GovernanceOf[a.revision] IN
      /\ Passed(j) /\ ActivationOf(j) = a
      /\ Head(j) = files[p].body.head
      /\ a.mode = "bootstrap" =>
           /\ g.bootstrap = Head(j)
           /\ g.attestations[Head(j)] = [head |-> Head(j), base |-> files[p].body.base,
                                         paths |-> result[j].snapshot.paths]
      /\ pc[k] \in {"export", "prepared", "blocked", "crashed"} /\ Permit(k) = files[p].body

\* A rehearsal succeeds for exactly the bundles that the publisher will accept in the
\* attested mode, although it reads less of them.
PreviewAgrees ==
  \A p \in {n \in Places : Readable(n) /\ files[n].body.kind = "permit"},
     a \in {x \in Activations : x.mode = "attested"} :
    \A e, r \in {n \in Places : Readable(n)} :
      PreviewHolds(files[p].body, files[e].body, files[r].body, a)
        <=> BundleHolds(files[p].body, files[e].body, files[r].body, a)

\* What a job reports is so: a prepared permit is on disk with the evidence and the
\* receipt that the publisher will accept with it, and evidence that was reported
\* as recorded is on disk.
ReportsAreTrue ==
  \A j \in Jobs :
    /\ pc[j] = "prepared" =>
         /\ Owns(j, "permit", Permit(j))
         /\ Owns(j, "evidence", Evidence(j))
         /\ Owns(j, "receipt", Receipt(j))
         /\ BundleHolds(Permit(j), Evidence(j), Receipt(j), ActivationOf(j))
    /\ pc[j] = "recorded" => Owns(j, "evidence", Evidence(j))

===============================================================================
