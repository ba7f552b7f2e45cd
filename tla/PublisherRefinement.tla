-------------------------- MODULE PublisherRefinement --------------------------
(***************************************************************************)
(* The controlled publisher implements PublicationOnce: a slot is a head in *)
(* an export's state directory, reserved and settled when the journal       *)
(* record is on disk, posted when the request left an invocation.           *)
(***************************************************************************)
EXTENDS ControlledPublisher

Slots == Exports \X Heads

Record(s, kind) == [kind |-> kind, export |-> s[1], head |-> s[2]]

PostersOf(s) == {p \in Invocations : Posted(p) /\ NameOf(p, "attempt") = Record(s, "attempt")}

Landed(s) == \E p \in PostersOf(s) : req[p]["check"] = "applied"

VerdictOf(s) == IF Journal!Durable(Record(s, "outcome"))
                THEN files[Record(s, "outcome")].body.status
                ELSE "none"

SlotOf(s) == [reserved |-> Journal!Durable(Record(s, "attempt")),
              posters  |-> PostersOf(s),
              landed   |-> Landed(s),
              verdict  |-> VerdictOf(s)]

Once == INSTANCE PublicationOnce
          WITH Posters <- Invocations, slot <- [s \in Slots |-> SlotOf(s)]

\* Every behaviour of the program, with concurrent, crashing and renewed
\* invocations, is one of the abstract once-only publication.
PublishesOnce == Once!Spec

===============================================================================
