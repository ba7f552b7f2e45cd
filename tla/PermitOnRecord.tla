---------------------------- MODULE PermitOnRecord ----------------------------
(***************************************************************************)
(* What issue_controlled_permit.py promises of each of its jobs, with no     *)
(* checkout, paths or statements in sight: records are filed for good and    *)
(* in order, evidence before receipt before permit; only a PASS gets a       *)
(* receipt; a verdict stands once it is filed; and what a job reports is     *)
(* true of what is filed, and stays true.                                    *)
(***************************************************************************)
CONSTANT Jobs

VARIABLE entry

Records == {"evidence", "receipt", "permit"}

Entries == [passed: BOOLEAN, filed: SUBSET Records,
            report: {"none", "recorded", "prepared", "failed"}]

Blank == [passed |-> FALSE, filed |-> {}, report |-> "none"]

Init == entry = [j \in Jobs |-> Blank]

-------------------------------------------------------------------------------
(* What may become of the entry x of one job; y is the entry afterwards. *)

\* The runtime's verdict comes before any record of it.
Pass(x, y) == /\ ~x.passed /\ x.filed = {} /\ x.report = "none"
              /\ y = [x EXCEPT !.passed = TRUE]

\* The records that must be there before a record is.
Before == [evidence |-> {}, receipt |-> {"evidence"}, permit |-> {"evidence", "receipt"}]

\* A record reaches the disk: in its turn, also of a job that has failed meanwhile, but
\* never after a report of success; a power loss may save it and end the job at once.
File(x, y) ==
  /\ x.report \in {"none", "failed"}
  /\ \E k \in Records :
       /\ x.filed = Before[k]
       /\ k # "evidence" => x.passed
       /\ \E report \in {x.report, "failed"} :
            y = [passed |-> x.passed, filed |-> x.filed \cup {k}, report |-> report]

\* The job ends: everything is prepared; or the record of its verdict is complete, and
\* there is no permit and never will be; or it failed.
Report(x, y) ==
  /\ x.report = "none"
  /\ \E report \in {"prepared", "recorded", "failed"} :
       /\ report = "prepared" => x.filed = Records
       /\ report = "recorded" =>
            x.filed = IF x.passed THEN {"evidence", "receipt"} ELSE {"evidence"}
       /\ y = [x EXCEPT !.report = report]

Change(x, y) == Pass(x, y) \/ File(x, y) \/ Report(x, y)

\* A power loss may decide the fate of several jobs at once.
Next == /\ entry' \in [Jobs -> Entries]
        /\ \A j \in Jobs : entry'[j] = entry[j] \/ Change(entry[j], entry'[j])

Spec == Init /\ [][Next]_entry

===============================================================================
