------------------------- MODULE PreparationRefinement -------------------------
(***************************************************************************)
(* Permit preparation implements PermitOnRecord: a record of a job is filed *)
(* when its file is the job's own, whole and on disk, at the path the job   *)
(* was told; a report is the way in which the program ended.                *)
(***************************************************************************)
EXTENDS PermitPreparation

FiledBy(j) ==
  {k \in Kinds : \/ k = "evidence" /\ Owns(j, k, Evidence(j))
                 \/ k = "receipt"  /\ Owns(j, k, Receipt(j))
                 \/ k = "permit"   /\ Owns(j, k, Permit(j))}

ReportOf(j) == IF pc[j] \in {"blocked", "crashed"} THEN "failed"
               ELSE IF pc[j] \in {"recorded", "prepared"} THEN pc[j]
               ELSE "none"

EntryOf(j) == [passed |-> Passed(j), filed |-> FiledBy(j), report |-> ReportOf(j)]

OnRecord == INSTANCE PermitOnRecord WITH entry <- [j \in Jobs |-> EntryOf(j)]

\* Whatever shares its paths, crashes or loses power: every behaviour of the jobs is one
\* of the abstract filing of records, each in its turn, for good, and truly reported.
FilesInTurn == OnRecord!Spec

===============================================================================
