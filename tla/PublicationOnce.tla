---------------------------- MODULE PublicationOnce ----------------------------
(***************************************************************************)
(* What the controlled publisher promises of a candidate in a state         *)
(* directory (a slot), with no invocations, files or network in sight:      *)
(* nothing is posted before the slot is reserved, at most one poster ever   *)
(* posts, nothing is posted after a verdict, and the verdict, given once,   *)
(* is true of what GitHub holds.                                            *)
(***************************************************************************)
CONSTANTS Slots, Posters

VARIABLE slot

Verdicts == {"published", "published_cleanup_failed",
             "publication_uncertain", "blocked_before_check_post"}

SlotStates == [reserved: BOOLEAN, posters: SUBSET Posters, landed: BOOLEAN,
               verdict: Verdicts \cup {"none"}]

Fresh == [reserved |-> FALSE, posters |-> {}, landed |-> FALSE, verdict |-> "none"]

Init == slot = [s \in Slots |-> Fresh]

-------------------------------------------------------------------------------
(* What may become of one slot x; y is the slot afterwards. *)

Reserve(x, y) == ~x.reserved /\ y = [x EXCEPT !.reserved = TRUE]

Post(x, y) == /\ x.reserved
              /\ x.posters = {}
              /\ x.verdict = "none"
              /\ \E p \in Posters : y = [x EXCEPT !.posters = {p}]

Land(x, y) == x.posters # {} /\ y = [x EXCEPT !.landed = TRUE]

\* A verdict is pronounced once and must be true when it is.
Truthful(x, v) ==
  /\ v \in {"published", "published_cleanup_failed"} => x.landed
  /\ v = "blocked_before_check_post" => x.posters = {}

Settle(x, y) == /\ x.reserved
                /\ x.verdict = "none"
                /\ \E v \in Verdicts : Truthful(x, v) /\ y = [x EXCEPT !.verdict = v]

Change(x, y) == Reserve(x, y) \/ Post(x, y) \/ Land(x, y) \/ Settle(x, y)

\* A power loss may decide the fate of several slots at once.
Next == /\ slot' \in [Slots -> SlotStates]
        /\ \A s \in Slots : slot'[s] = slot[s] \/ Change(slot[s], slot'[s])

Spec == Init /\ [][Next]_slot

===============================================================================
