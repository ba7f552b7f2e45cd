---------------------------- MODULE PublisherProofs ----------------------------
(***************************************************************************)
(* Proofs about ControlledPublisher, for any number of invocations, exports,*)
(* heads, activations and clock values: its invariants, and that it         *)
(* implements PublicationOnce.                                              *)
(***************************************************************************)
EXTENDS PublisherRefinement, TLAPS

\* The two records an invocation writes.
AttemptBody(p) == [kind |-> "attempt", activation |-> act[p]]
OutcomeBody(p) ==
  [kind |-> "outcome", activation |-> act[p], status |-> Status(p),
   attempted |-> attempted[p], check |-> known[p], revoked |-> revoked[p]]

-------------------------------------------------------------------------------
(* The inductive invariant. *)

\* Before the reservation, and after it.
Early == {"start", "inputs", "entered", "reserve"}
Late  == TryStatements \cup {"finally", "revoking", "settle"}

\* An invocation that is under way, or that ever used a credential, holds an
\* activation and keeps it.
Loaded == \A p \in Invocations :
            \/ pc[p] \in Late \cup {"inputs", "entered", "reserve", "published"}
            \/ \E c \in Calls : req[p][c] # "unsent"
            => act[p] \in Activations

\* Nothing was sent before the reservation.
NothingSent == \A p \in Invocations : pc[p] \in Early =>
                 \A c \in Calls : req[p][c] = "unsent"

\* What an invocation writes is its own while it writes it.
Writing == \A p \in Invocations :
             /\ pc[p] = "reserve" => Journal!Holds(p, NameOf(p, "attempt"))
             /\ pc[p] = "settle"  => Journal!Holds(p, NameOf(p, "outcome"))

\* The reservation is on disk from the first use of a credential on.
ReservedSoon == \A p \in Invocations :
                  pc[p] \in Late \/ (\E c \in Calls : req[p][c] # "unsent") => Reserved(p)

Inv == TypeOK /\ Loaded /\ NothingSent /\ Writing /\ ReservedSoon

-------------------------------------------------------------------------------
LEMMA StatusType == ASSUME NEW p PROVE Status(p) \in Statuses
  BY DEF Status, Statuses

LEMMA NameType ==
  ASSUME NEW p \in Invocations, act[p] \in Activations,
         NEW kind \in {"attempt", "outcome"}
  PROVE  NameOf(p, kind) \in Names
  BY PublisherAssumption DEF PublisherAssumption, NameOf, Names

\* What becomes of a call is recorded with that call only.
LEMMA ReqType ==
  ASSUME req \in [Invocations -> [Calls -> CallStates]],
         NEW p \in Invocations, NEW c \in Calls, NEW s \in CallStates,
         req' = [req EXCEPT ![p][c] = s]
  PROVE  /\ req' \in [Invocations -> [Calls -> CallStates]]
         /\ \A v \in Invocations \ {p} : req'[v] = req[v]
         /\ \A d \in Calls \ {c} : req'[p][d] = req[p][d]
  OBVIOUS

LEMMA InitInv == Init => Inv
  BY PublisherAssumption
  DEF PublisherAssumption, Init, Inv, TypeOK, Loaded, NothingSent, Writing,
      ReservedSoon, Early, Late, Statements, TryStatements, Ended, Calls, CallStates,
      Journal!FilesInit, Journal!FilesTypeOK, Journal!Holds, Journal!WriteSteps

\* The two stages that write: the attempt, and the outcome.
LEMMA WriteStages ==
  ASSUME Inv, NEW p \in Invocations, WriteAttempt(p) \/ WriteOutcome(p)
  PROVE  Inv'
<1>1. PICK kind \in {"attempt", "outcome"}, body \in Attempts \cup Outcomes :
        /\ Journal!WriteBound(p, NameOf(p, kind), body)
        /\ kind = "attempt" => pc[p] = "reserve"
        /\ kind = "outcome" => pc[p] = "settle"
  <2>1. pc[p] \in {"reserve", "settle"} /\ act[p] \in Activations
    BY DEF WriteAttempt, WriteOutcome, Inv, Loaded, Late
  <2>2. AttemptBody(p) \in Attempts /\ OutcomeBody(p) \in Outcomes
    BY <2>1, StatusType DEF AttemptBody, OutcomeBody, Attempts, Outcomes, Inv, TypeOK
  <2>. QED
    BY <2>2 DEF WriteAttempt, WriteOutcome, AttemptBody, OutcomeBody
<1>2. UNCHANGED <<world, req, pc, locals>>
  BY DEF WriteAttempt, WriteOutcome
<1>3. PICK n \in Names : n = NameOf(p, kind)
  <2>. act[p] \in Activations
    BY <1>1 DEF Inv, Loaded, Late
  <2>. QED
    BY NameType
<1>4. Journal!Holds(p, n) /\ Journal!FilesTypeOK /\ Journal!WriteBound(p, n, body)
  BY <1>1, <1>3 DEF Inv, Writing, TypeOK
<1>5. /\ Journal!FilesTypeOK'
      /\ Journal!Holds(p, n)'
      /\ \A m \in Names : m # n \/ Journal!Durable(m) => files'[m] = files[m]
  BY <1>4, Journal!WriteBoundEffect
<1>6. ASSUME NEW v \in Invocations \ {p}, NEW m \in Names, Journal!Holds(v, m)
      PROVE  Journal!Holds(v, m)'
  BY <1>4, <1>6, Journal!HoldsStable
<1>7. TypeOK'
  BY <1>2, <1>5 DEF Inv, TypeOK, world, locals
<1>8. Loaded' /\ NothingSent'
  BY <1>2 DEF Inv, Loaded, NothingSent, locals
<1>9. ASSUME NEW v \in Invocations, NEW k \in {"attempt", "outcome"},
             pc[v] = (IF k = "attempt" THEN "reserve" ELSE "settle")
      PROVE  Journal!Holds(v, NameOf(v, k))'
  <2>1. PICK m \in Names : m = NameOf(v, k)
    BY <1>9, NameType DEF Inv, Loaded, Late
  <2>2. m = NameOf(v, k)'
    BY <1>2, <2>1 DEF NameOf, locals
  <2>3. Journal!Holds(v, m)
    BY <1>9, <2>1 DEF Inv, Writing
  <2>4. CASE v = p
    BY <1>1, <1>3, <1>5, <1>9, <2>1, <2>2, <2>4
  <2>5. CASE v # p
    BY <1>6, <2>2, <2>3, <2>5
  <2>. QED
    BY <2>4, <2>5
<1>10. Writing'
  BY <1>2, <1>9 DEF Writing
<1>11. ReservedSoon'
  <2>1. SUFFICES ASSUME NEW v \in Invocations,
                        pc[v] \in Late \/ \E c \in Calls : req[v][c] # "unsent"
                 PROVE  Reserved(v)'
    BY <1>2 DEF ReservedSoon
  <2>2. Reserved(v) /\ NameOf(v, "attempt") \in Names
    BY <2>1, NameType DEF Inv, ReservedSoon, Loaded
  <2>. QED
    BY <1>2, <1>5, <2>2 DEF Reserved, AttemptOf, NameOf, Journal!Durable, locals
<1>. QED
  BY <1>7, <1>8, <1>10, <1>11 DEF Inv

\* A step of one invocation after its reservation that writes no file.
LEMMA LateMove ==
  ASSUME Inv, TypeOK', NEW p \in Invocations, NEW next \in Late \cup Ended,
         pc[p] \in Late, pc' = [pc EXCEPT ![p] = next], UNCHANGED <<files, act>>,
         \A v \in Invocations \ {p} : io'[v] = io[v] /\ req'[v] = req[v],
         next = "settle" => io'[p] = "probe"
  PROVE  Inv'
<1>1. Loaded'
  BY DEF Inv, TypeOK, Loaded
<1>2. NothingSent'
  BY DEF Inv, TypeOK, NothingSent, Late, Early, Ended, TryStatements
<1>3. Writing'
  <2>1. ASSUME NEW v \in Invocations \ {p} PROVE pc'[v] = pc[v] /\ io'[v] = io[v]
    BY DEF Inv, TypeOK
  <2>2. pc'[p] = next /\ next # "reserve"
    BY DEF Inv, TypeOK, Late, Ended, TryStatements
  <2>. QED
    BY <2>1, <2>2 DEF Inv, Writing, Journal!Holds, Journal!Durable, NameOf
<1>4. ReservedSoon'
  <2>1. ASSUME NEW v \in Invocations, Reserved(v) PROVE Reserved(v)'
    BY <2>1 DEF Reserved, AttemptOf, NameOf, Journal!Durable
  <2>2. Reserved(p)
    BY DEF Inv, ReservedSoon
  <2>3. ASSUME NEW v \in Invocations \ {p} PROVE pc'[v] = pc[v] /\ req'[v] = req[v]
    BY DEF Inv, TypeOK
  <2>. QED
    BY <2>1, <2>2, <2>3 DEF Inv, ReservedSoon
<1>. QED
  BY <1>1, <1>2, <1>3, <1>4 DEF Inv

\* Whatever takes place after the reservation and writes no file is a LateMove.
LEMMA LateStages ==
  ASSUME Inv, NEW p \in Invocations,
         \/ MakeJwt(p) \/ PreflightApp(p) \/ IssueToken(p)
         \/ \E usable, exact \in BOOLEAN : ReceiveToken(p, usable, exact)
         \/ Qualify(p) \/ ReadPull(p) \/ Recheck(p) \/ PostCheck(p)
         \/ \E valid, interrupted \in BOOLEAN : ReceiveCheck(p, valid, interrupted)
         \/ TryRaises(p) \/ SkipRevocation(p) \/ RevokeToken(p) \/ Revoked(p)
         \/ RevocationRaises(p) \/ Finish(p)
  PROVE  Inv'
<1>1. TypeOK'
  <2> USE DEF Inv, TypeOK, Step, Goto, Set, Statements, TryStatements, Ended,
              Calls, CallStates, locals, world, Journal!FilesTypeOK, Journal!WriteSteps
  <2>1. CASE MakeJwt(p)
    BY <2>1 DEF MakeJwt
  <2>2. CASE PreflightApp(p)
    BY <2>2 DEF PreflightApp
  <2>3. CASE IssueToken(p) \/ PostCheck(p) \/ RevokeToken(p)
    <3>1. PICK c \in Calls : req' = [req EXCEPT ![p][c] = "sent"]
      BY <2>3 DEF IssueToken, PostCheck, RevokeToken, Send
    <3>2. req' \in [Invocations -> [Calls -> CallStates]]
      BY <3>1, "sent" \in CallStates, ReqType DEF TypeOK, Inv
    <3>. QED
      BY <2>3, <3>2 DEF IssueToken, PostCheck, RevokeToken, Send
  <2>4. ASSUME NEW usable \in BOOLEAN, NEW exact \in BOOLEAN, ReceiveToken(p, usable, exact)
        PROVE  TypeOK'
    <3>1. req' \in [Invocations -> [Calls -> CallStates]]
      <4>1. CASE UNCHANGED req
        BY <4>1
      <4>2. CASE Deliver(p, "token")
        BY <4>2, "token" \in Calls, "delivered" \in CallStates, ReqType DEF Deliver
      <4>. QED
        BY <2>4, <4>1, <4>2 DEF ReceiveToken
    <3>2. token' \in [Invocations -> BOOLEAN]
      BY <2>4 DEF ReceiveToken, TokenKept
    <3>3. pc' \in [Invocations -> Statements] /\ failed' \in [Invocations -> BOOLEAN]
      BY <2>4 DEF ReceiveToken
    <3>. QED
      BY <2>4, <3>1, <3>2, <3>3 DEF ReceiveToken
  <2>5. CASE Qualify(p) \/ ReadPull(p)
    BY <2>5 DEF Qualify, ReadPull, Checked
  <2>6. CASE Recheck(p)
    BY <2>6 DEF Recheck, Checked, MarkAttempted
  <2>7. ASSUME NEW valid \in BOOLEAN, NEW interrupted \in BOOLEAN,
               ReceiveCheck(p, valid, interrupted)
        PROVE  TypeOK'
    BY <2>7 DEF ReceiveCheck
  <2>8. CASE TryRaises(p)
    BY <2>8 DEF TryRaises
  <2>9. CASE SkipRevocation(p) \/ Revoked(p) \/ RevocationRaises(p)
    BY <2>9 DEF SkipRevocation, Revoked, RevocationRaises
  <2>10. CASE Finish(p)
    BY <2>10 DEF Finish
  <2>. QED
    BY <2>1, <2>2, <2>3, <2>4, <2>5, <2>6, <2>7, <2>8, <2>9, <2>10
<1>2. PICK next \in Late \cup Ended :
        /\ pc[p] \in Late /\ pc' = [pc EXCEPT ![p] = next]
        /\ next = "settle" => io'[p] = "probe"
  <2> USE DEF Inv, TypeOK, Step, Goto, Late, TryStatements, Ended, Journal!FilesTypeOK
  <2>1. CASE MakeJwt(p) \/ PreflightApp(p)
    BY <2>1 DEF MakeJwt, PreflightApp
  <2>2. CASE IssueToken(p) \/ PostCheck(p) \/ RevokeToken(p)
    BY <2>2 DEF IssueToken, PostCheck, RevokeToken, Send
  <2>3. CASE \/ \E usable, exact \in BOOLEAN : ReceiveToken(p, usable, exact)
             \/ \E valid, interrupted \in BOOLEAN : ReceiveCheck(p, valid, interrupted)
    BY <2>3 DEF ReceiveToken, ReceiveCheck
  <2>4. CASE Qualify(p) \/ ReadPull(p) \/ Recheck(p)
    BY <2>4 DEF Qualify, ReadPull, Recheck, Checked
  <2>5. CASE TryRaises(p)
    BY <2>5 DEF TryRaises, Raises
  <2>6. CASE SkipRevocation(p) \/ Revoked(p) \/ RevocationRaises(p)
    BY <2>6 DEF SkipRevocation, Revoked, RevocationRaises
  <2>7. CASE Finish(p)
    <3>1. CASE Succeeds(p)
      BY <2>7, <3>1, "published" \in Late \cup Ended DEF Finish
    <3>2. CASE ~Succeeds(p)
      BY <2>7, <3>2, "stopped" \in Late \cup Ended DEF Finish
    <3>. QED
      BY <3>1, <3>2
  <2>. QED
    BY <2>1, <2>2, <2>3, <2>4, <2>5, <2>6, <2>7
<1>3. /\ UNCHANGED <<files, act>>
      /\ \A v \in Invocations \ {p} : io'[v] = io[v] /\ req'[v] = req[v]
  <2> USE DEF Inv, TypeOK, locals, Journal!FilesTypeOK
  <2>1. CASE MakeJwt(p) \/ PreflightApp(p) \/ Finish(p)
    BY <2>1 DEF MakeJwt, PreflightApp, Finish
  <2>2. CASE IssueToken(p) \/ PostCheck(p) \/ RevokeToken(p)
    BY <2>2 DEF IssueToken, PostCheck, RevokeToken, Send
  <2>3. CASE \/ \E usable, exact \in BOOLEAN : ReceiveToken(p, usable, exact)
             \/ \E valid, interrupted \in BOOLEAN : ReceiveCheck(p, valid, interrupted)
    BY <2>3 DEF ReceiveToken, ReceiveCheck, Deliver
  <2>4. CASE Qualify(p) \/ ReadPull(p) \/ Recheck(p) \/ TryRaises(p)
    BY <2>4 DEF Qualify, ReadPull, Recheck, Checked, TryRaises
  <2>5. CASE SkipRevocation(p) \/ Revoked(p) \/ RevocationRaises(p)
    BY <2>5 DEF SkipRevocation, Revoked, RevocationRaises
  <2>. QED
    BY <2>1, <2>2, <2>3, <2>4, <2>5
<1>. QED
  BY <1>1, <1>2, <1>3, LateMove

\* Up to the reservation nothing is sent and the activation is loaded once.
LEMMA EarlyStages ==
  ASSUME Inv, NEW p \in Invocations,
         \/ \E h \in Heads : Execute(p, h)
         \/ \E accepted \in BOOLEAN : VerifyInputs(p, accepted)
         \/ \E intact \in BOOLEAN : EnterPublish(p, intact)
         \/ AttemptWritten(p)
  PROVE  Inv'
<1> USE DEF Inv, TypeOK, Journal!FilesTypeOK, Goto, Step, Early, Late, TryStatements,
            Ended, Statements, locals, world
<1> DEFINE Quiet ==
      /\ UNCHANGED <<files, req>>
      /\ \A v \in Invocations \ {p} : io'[v] = io[v] /\ pc'[v] = pc[v] /\ act'[v] = act[v]
      /\ act'[p] = act[p] \/ (pc[p] = "start" /\ act'[p] \in Activations)
      /\ pc[p] \in Early
      /\ pc'[p] \in {"inputs", "entered", "reserve", "key", "stopped"}
<1>1. Quiet
  <2>1. ASSUME NEW h \in Heads, Execute(p, h) PROVE Quiet
    BY <2>1, PublisherAssumption DEF Execute, PublisherAssumption
  <2>2. ASSUME NEW intact \in BOOLEAN, EnterPublish(p, intact) PROVE Quiet
    BY <2>2 DEF EnterPublish
  <2>3. ASSUME NEW accepted \in BOOLEAN, VerifyInputs(p, accepted) PROVE Quiet
    BY <2>3 DEF VerifyInputs
  <2>4. CASE AttemptWritten(p)
    BY <2>4 DEF AttemptWritten
  <2>. QED
    BY <2>1, <2>2, <2>3, <2>4
<1>2. TypeOK'
  <2>1. ASSUME NEW h \in Heads, Execute(p, h) PROVE TypeOK'
    BY <2>1, PublisherAssumption DEF Execute, PublisherAssumption
  <2>2. ASSUME NEW intact \in BOOLEAN, EnterPublish(p, intact) PROVE TypeOK'
    BY <2>2 DEF EnterPublish, Journal!WriteSteps
  <2>3. ASSUME NEW accepted \in BOOLEAN, VerifyInputs(p, accepted) PROVE TypeOK'
    BY <2>3 DEF VerifyInputs
  <2>4. CASE AttemptWritten(p)
    BY <2>4 DEF AttemptWritten
  <2>. QED
    BY <2>1, <2>2, <2>3, <2>4
<1>3. /\ pc'[p] = "inputs" => act'[p] \in Activations
      /\ pc'[p] = "entered" => pc[p] = "inputs" /\ act'[p] = act[p]
  BY PublisherAssumption
  DEF PublisherAssumption, Execute, VerifyInputs, EnterPublish, AttemptWritten
<1>4. pc'[p] = "reserve" => pc[p] = "entered" /\ io'[p] = "probe"
  BY DEF Execute, VerifyInputs, EnterPublish, AttemptWritten
<1>5. pc'[p] = "key" => pc[p] = "reserve" /\ io[p] = "written"
  BY DEF Execute, VerifyInputs, EnterPublish, AttemptWritten
<1> HIDE DEF TypeOK
<1>6. Loaded'
  BY <1>1, <1>3, <1>4, <1>5 DEF Loaded, NothingSent
<1>7. NothingSent'
  BY <1>1 DEF NothingSent
<1>8. Writing'
  BY <1>1, <1>4 DEF Writing, Journal!Holds, Journal!Durable, NameOf
<1>9. ReservedSoon'
  <2>1. ASSUME NEW v \in Invocations \ {p} PROVE Reserved(v) => Reserved(v)'
    BY <1>1 DEF Reserved, AttemptOf, NameOf, Journal!Durable
  <2>2. pc'[p] = "key" => Reserved(p)'
    <3>1. pc'[p] = "key" => Reserved(p)
      BY <1>5 DEF Writing, Journal!Holds, Reserved, AttemptOf
    <3>2. pc'[p] = "key" => act'[p] = act[p]
      BY <1>1, <1>5
    <3>. QED
      BY <1>1, <3>1, <3>2 DEF Reserved, AttemptOf, NameOf, Journal!Durable
  <2>3. \A c \in Calls : req'[p][c] = "unsent"
    BY <1>1 DEF NothingSent
  <2>. QED
    BY <1>1, <2>1, <2>2, <2>3 DEF ReservedSoon
<1>. QED
  BY <1>2, <1>6, <1>7, <1>8, <1>9

\* Nothing outside the program can create, spoil or need a reservation.
LEMMA Outside ==
  ASSUME Inv, \/ World
              \/ \E p \in Invocations : Crash(p) \/ GitHub(p)
              \/ HostFails
  PROVE  Inv'
<1>1. CASE World
  <2>1. UNCHANGED <<files, io, req, pc, locals>>
    BY <1>1 DEF World, Tick, Rearm, PullChanges, QualificationChanges
  <2>2. TypeOK'
    <3>1. CASE Tick
      BY <3>1, PublisherAssumption
      DEF PublisherAssumption, Tick, Inv, TypeOK, locals, Journal!FilesTypeOK
    <3>2. CASE \E e \in Exports, a \in Activations \cup {Disabled} : Rearm(e, a)
      BY <3>2 DEF Rearm, Inv, TypeOK, locals, Journal!FilesTypeOK
    <3>3. CASE \E s \in PullStates : PullChanges(s)
      BY <3>3 DEF PullChanges, Inv, TypeOK, locals, Journal!FilesTypeOK
    <3>4. CASE \E h \in Heads, r \in Runs \cup {"none"} : QualificationChanges(h, r)
      BY <3>4 DEF QualificationChanges, Inv, TypeOK, locals, Journal!FilesTypeOK
    <3>. QED
      BY <1>1, <3>1, <3>2, <3>3, <3>4 DEF World
  <2>. QED
    BY <2>1, <2>2
    DEF Inv, Loaded, NothingSent, Writing, ReservedSoon, Reserved, AttemptOf, NameOf,
        Journal!Holds, Journal!Durable, locals
<1>2. ASSUME NEW p \in Invocations, GitHub(p) PROVE Inv'
  <2>1. PICK c \in Calls, s \in {"applied", "refused"} :
          req[p][c] = "sent" /\ req' = [req EXCEPT ![p][c] = s]
    BY <1>2 DEF GitHub, GitHubApplies, GitHubRefuses
  <2>2. UNCHANGED <<files, io, world, pc, locals>>
    BY <1>2 DEF GitHub, GitHubApplies, GitHubRefuses
  <2>3. /\ req' \in [Invocations -> [Calls -> CallStates]]
        /\ \A v \in Invocations \ {p} : req'[v] = req[v]
    BY <2>1, s \in CallStates, ReqType DEF Inv, TypeOK, CallStates
  <2>4. TypeOK'
    BY <2>2, <2>3 DEF Inv, TypeOK, world, locals, Journal!FilesTypeOK
  <2>5. act[p] \in Activations /\ Reserved(p) /\ pc[p] \notin Early
    BY <2>1 DEF Inv, Loaded, ReservedSoon, NothingSent
  <2>6. Loaded' /\ NothingSent'
    BY <2>2, <2>3, <2>5 DEF Inv, Loaded, NothingSent, locals
  <2>7. Writing' /\ ReservedSoon'
    BY <2>2, <2>3, <2>5
    DEF Inv, Writing, ReservedSoon, Reserved, AttemptOf, NameOf,
        Journal!Holds, Journal!Durable, locals
  <2>. QED
    BY <2>4, <2>6, <2>7 DEF Inv
<1>3. ASSUME NEW p \in Invocations, Crash(p) PROVE Inv'
  <2>1. /\ UNCHANGED <<files, io, world, req, locals>>
        /\ pc' = [pc EXCEPT ![p] = "crashed"]
        /\ pc[p] # "start"
    BY <1>3 DEF Crash, Goto, Running
  <2>2. TypeOK'
    BY <2>1 DEF Inv, TypeOK, Journal!FilesTypeOK, Statements, Ended, world, locals
  <2>3. \A v \in Invocations : pc'[v] = "crashed" \/ pc'[v] = pc[v]
    BY <2>1 DEF Inv, TypeOK
  <2>4. Loaded' /\ NothingSent'
    BY <2>1, <2>3 DEF Inv, Loaded, NothingSent, Early, Late, TryStatements, locals
  <2>5. Writing' /\ ReservedSoon'
    BY <2>1, <2>3
    DEF Inv, Writing, ReservedSoon, Reserved, AttemptOf, NameOf, Late, TryStatements,
        Journal!Holds, Journal!Durable, locals
  <2>. QED
    BY <2>2, <2>4, <2>5 DEF Inv
<1>4. CASE HostFails
  <2>1. /\ files' \in [Names -> Journal!Present \cup {Journal!Absent}]
        /\ \A m \in Names : Journal!Durable(m) => files'[m] = files[m]
    BY <1>4, Journal!PowerLossEffect DEF HostFails, Inv, TypeOK
  <2>2. UNCHANGED <<io, world, req, locals>>
    BY <1>4 DEF HostFails
  <2>3. \A v \in Invocations : pc'[v] \in {"start", "published", "stopped", "crashed"}
                               /\ (pc'[v] = "crashed" \/ pc'[v] = pc[v])
    BY <1>4 DEF HostFails, Running, Ended, Inv, TypeOK
  <2>4. TypeOK'
    BY <1>4, <2>1, <2>2
    DEF HostFails, Inv, TypeOK, Journal!FilesTypeOK, world, locals, Statements, Ended
  <2>5. Loaded' /\ NothingSent'
    BY <2>2, <2>3 DEF Inv, Loaded, NothingSent, Late, TryStatements, Early, locals
  <2>6. Writing'
    BY <2>3 DEF Writing
  <2>7. ReservedSoon'
    <3>1. ASSUME NEW v \in Invocations, \E c \in Calls : req[v][c] # "unsent"
          PROVE  Reserved(v)'
      BY <2>1, <2>2, <3>1, NameType
      DEF Inv, Loaded, ReservedSoon, Reserved, AttemptOf, NameOf, Journal!Durable, locals
    <3>. QED
      BY <2>2, <2>3, <3>1 DEF ReservedSoon, Late, TryStatements
  <2>. QED
    BY <2>4, <2>5, <2>6, <2>7 DEF Inv
<1>. QED
  BY <1>1, <1>2, <1>3, <1>4

LEMMA NextInv == Inv /\ [Next]_vars => Inv'
<1>1. ASSUME Inv, Next PROVE Inv'
  BY <1>1, EarlyStages, WriteStages, LateStages, Outside DEF Next, Program
<1>2. ASSUME Inv, UNCHANGED vars PROVE Inv'
  BY <1>2 DEF vars, world, locals, Inv, TypeOK, Loaded, NothingSent, Writing,
     ReservedSoon, Reserved, AttemptOf, NameOf, Journal!FilesTypeOK, Journal!Holds,
     Journal!Durable
<1>. QED
  BY <1>1, <1>2

LEMMA Invariance == Spec => []Inv
  BY InitInv, NextInv, PTL DEF Spec

-------------------------------------------------------------------------------
(* Theorems. *)

\* Whatever runs, crashes or loses power, the state keeps its shape: in
\* particular the journal only ever holds attempt and outcome records with one of
\* the four statuses _publish derives.
THEOREM TypeCorrect == Spec => []TypeOK
<1>1. Inv => TypeOK
  BY DEF Inv
<1>. QED
  BY <1>1, Invariance, PTL

\* No access token is requested and no check is posted unless the invocation's
\* own attempt record is on disk (controlled_publisher.py reserves before side
\* effects), and no crash or power loss can take that record away afterwards.
THEOREM ReservationFirst == Spec => []CredentialsNeedReservation
<1>1. Inv => CredentialsNeedReservation
  BY DEF Inv, ReservedSoon, CredentialsNeedReservation, Posted, Calls
<1>. QED
  BY <1>1, Invariance, PTL

\* For any number of invocations, however they interleave, crash or are renewed,
\* one state directory sends at most one check POST for a candidate: both posters
\* would own the one durable attempt record.
THEOREM OncePerCandidate == Spec => []AtMostOneCheckPost
<1>1. Inv => AtMostOneCheckPost
  <2>1. SUFFICES ASSUME Inv, NEW p \in Invocations, NEW q \in Invocations,
                        Posted(p), Posted(q), NameOf(p, "attempt") = NameOf(q, "attempt")
                 PROVE  p = q
    BY DEF AtMostOneCheckPost, NameOf
  <2>2. Reserved(p) /\ Reserved(q)
    BY <2>1 DEF Inv, ReservedSoon, Posted, Calls
  <2>. QED
    BY <2>1, <2>2 DEF Reserved, AttemptOf
<1>. QED
  BY <1>1, Invariance, PTL

\* Every step, of any invocation, a failing host included, leaves durable records
\* alone and never hands an existing record to another writer.
LEMMA StepAppends ==
  ASSUME Inv, [Next]_vars
  PROVE  \A n \in Names :
           /\ Journal!Durable(n) => files'[n] = files[n]
           /\ Journal!Exists(n) /\ Journal!Exists(n)' => files'[n].by = files[n].by
<1>1. ASSUME NEW p \in Invocations, WriteAttempt(p) \/ WriteOutcome(p), NEW m \in Names
      PROVE  /\ Journal!Durable(m) => files'[m] = files[m]
             /\ Journal!Exists(m) /\ Journal!Exists(m)' => files'[m].by = files[m].by
  <2>1. pc[p] \in {"reserve", "settle"} /\ act[p] \in Activations
    BY <1>1 DEF WriteAttempt, WriteOutcome, Inv, Loaded, Late
  <2>2. AttemptBody(p) \in Attempts /\ OutcomeBody(p) \in Outcomes
    BY <2>1, StatusType DEF AttemptBody, OutcomeBody, Attempts, Outcomes, Inv, TypeOK
  <2>3. PICK n \in Names, body \in Attempts \cup Outcomes :
          Journal!WriteBound(p, n, body) /\ Journal!Holds(p, n)
    BY <1>1, <2>1, <2>2, NameType
    DEF WriteAttempt, WriteOutcome, AttemptBody, OutcomeBody, Inv, Writing
  <2>4. Journal!FilesTypeOK
    BY DEF Inv, TypeOK
  <2>5. /\ \A k \in Names : k # n \/ Journal!Durable(k) => files'[k] = files[k]
        /\ Journal!Exists(n) => files'[n].by = files[n].by
    BY <2>3, <2>4, Journal!WriteBoundEffect
  <2>. QED
    BY <2>5
<1>2. CASE HostFails
  BY <1>2, Journal!PowerLossEffect DEF HostFails, Inv, TypeOK
<1>3. CASE UNCHANGED files
  BY <1>3
<1>4. ASSUME Next PROVE UNCHANGED files \/ HostFails
                        \/ \E p \in Invocations : WriteAttempt(p) \/ WriteOutcome(p)
  <2>1. ASSUME NEW p \in Invocations, Program(p)
        PROVE  UNCHANGED files \/ WriteAttempt(p) \/ WriteOutcome(p)
    BY <2>1 DEF Program, VerifyInputs, EnterPublish, AttemptWritten, MakeJwt, PreflightApp,
       IssueToken, ReceiveToken, Qualify, ReadPull, Recheck, PostCheck, ReceiveCheck,
       TryRaises, SkipRevocation, RevokeToken, Revoked, RevocationRaises, Finish,
       Send, Checked
  <2>2. ASSUME NEW p \in Invocations,
               \/ \E h \in Heads : Execute(p, h)
               \/ Crash(p) \/ GitHub(p)
        PROVE  UNCHANGED files
    BY <2>2 DEF Execute, Crash, GitHub, GitHubApplies, GitHubRefuses
  <2>3. World => UNCHANGED files
    BY DEF World, Tick, Rearm, PullChanges, QualificationChanges
  <2>. QED
    BY <1>4, <2>1, <2>2, <2>3 DEF Next
<1>. QED
  BY <1>1, <1>2, <1>3, <1>4 DEF vars

\* The journal of attempts and outcomes is append only: once a record's directory
\* entry is on disk it is never truncated, rewritten, removed or replaced.
THEOREM AppendOnly == Spec => JournalIsAppendOnly
<1>1. Inv /\ [Next]_vars =>
        [\A n \in Names :
          /\ Journal!Durable(n) => files'[n] = files[n]
          /\ Journal!Exists(n) /\ Journal!Exists(n)' => files'[n].by = files[n].by]_vars
  BY StepAppends
<1>. QED
  BY <1>1, Invariance, PTL DEF Spec, JournalIsAppendOnly

-------------------------------------------------------------------------------
(* What the locals say of GitHub, and the outcomes of the locals. *)

\* Statements that come before the POST, and those that hold the token.
BeforePost == (Early \cup TryStatements) \ {"posting"}
UnderToken == {"qualify", "readpr", "recheck", "post", "posting"}

RequestsHold(p) ==
  /\ token[p] <=> req[p]["token"] = "delivered"
  /\ pc[p] \in Early \cup {"key", "preflight", "issue"} => req[p]["token"] = "unsent"
  /\ pc[p] \in UnderToken => token[p]
  /\ pc[p] \in BeforePost => ~Posted(p) /\ ~known[p]
  /\ pc[p] \in {"post", "posting"} => attempted[p]
  /\ Posted(p) => attempted[p] /\ token[p]
  /\ known[p] => req[p]["check"] = "applied"
  /\ pc[p] \in Early \cup TryStatements \cup {"finally"} =>
       req[p]["revoke"] = "unsent" /\ ~revoked[p]
  /\ revoked[p] => req[p]["revoke"] = "applied"
  /\ pc[p] = "revoking" \/ (pc[p] \in {"settle", "published", "stopped"} /\ token[p]) =>
       req[p]["revoke"] # "unsent"

\* An outcome on file is its writer's, who has nothing left to do but to settle.
RecordHolds(n) ==
  LET p == files[n].by IN
  /\ n = NameOf(p, "outcome")
  /\ files[n].body = OutcomeBody(p)
  /\ pc[p] \in {"settle"} \cup Ended
  /\ Reserved(p)

RecordsHold == \A n \in Names : n.kind = "outcome" /\ Journal!Exists(n) => RecordHolds(n)

\* Success was decided with the outcome on disk.
SuccessHolds(p) ==
  pc[p] = "published" => /\ known[p] /\ revoked[p] /\ ~failed[p]
                         /\ Journal!Durable(NameOf(p, "outcome"))
                         /\ OutcomeOf(p).by = p

Truth == /\ Inv
         /\ \A p \in Invocations : RequestsHold(p) /\ SuccessHolds(p)
         /\ RecordsHold

\* What belongs to invocation q is as before.
LocalsSame(q) == /\ act'[q] = act[q] /\ token'[q] = token[q] /\ attempted'[q] = attempted[q]
                 /\ known'[q] = known[q] /\ revoked'[q] = revoked[q] /\ failed'[q] = failed[q]
Same(q) == pc'[q] = pc[q] /\ req'[q] = req[q] /\ LocalsSame(q)

\* A step of p that writes no file keeps what is said of p and touches nobody else;
\* once p settles it changes its locals no more.
Settled == {"settle"} \cup Ended
Move(p) ==
  /\ RequestsHold(p)'
  /\ \A q \in Invocations \ {p} : Same(q)
  /\ UNCHANGED files
  /\ pc[p] \in Settled => pc'[p] \in Settled /\ LocalsSame(p)
  /\ pc'[p] = "published" => pc[p] = "published" \/ (pc[p] = "settle" /\ Succeeds(p))

LEMMA OthersKeep ==
  ASSUME NEW q \in Invocations, RequestsHold(q), Same(q)
  PROVE  RequestsHold(q)'
  BY DEF Same, LocalsSame, RequestsHold, Posted

\* Up to the reservation, in the try block, and after it.
LEMMA EarlyMoves ==
  ASSUME Inv, NEW p \in Invocations, RequestsHold(p),
         \/ \E h \in Heads : Execute(p, h)
         \/ \E accepted \in BOOLEAN : VerifyInputs(p, accepted)
         \/ \E intact \in BOOLEAN : EnterPublish(p, intact)
         \/ AttemptWritten(p) \/ MakeJwt(p) \/ PreflightApp(p)
         \/ Crash(p)
  PROVE  Move(p)
<1> USE DEF Inv, TypeOK, Move, Same, LocalsSame, RequestsHold, Posted, Settled, BeforePost,
        UnderToken, Early, TryStatements, Ended, Step, Goto, locals, world, Calls
<1>1. ASSUME NEW h \in Heads, Execute(p, h) PROVE Move(p)
  BY <1>1 DEF Execute
<1>2. ASSUME NEW intact \in BOOLEAN, EnterPublish(p, intact) PROVE Move(p)
  BY <1>2 DEF EnterPublish
<1>3. CASE AttemptWritten(p) \/ MakeJwt(p) \/ PreflightApp(p)
  BY <1>3 DEF AttemptWritten, MakeJwt, PreflightApp
<1>4. CASE Crash(p)
  BY <1>4 DEF Crash, Running
<1>5. ASSUME NEW accepted \in BOOLEAN, VerifyInputs(p, accepted) PROVE Move(p)
  BY <1>5 DEF VerifyInputs
<1>. QED
  BY <1>1, <1>2, <1>3, <1>4, <1>5

LEMMA TryMoves ==
  ASSUME Inv, NEW p \in Invocations, RequestsHold(p),
         \/ IssueToken(p)
         \/ \E usable, exact \in BOOLEAN : ReceiveToken(p, usable, exact)
         \/ Qualify(p) \/ ReadPull(p) \/ Recheck(p) \/ PostCheck(p)
         \/ \E valid, interrupted \in BOOLEAN : ReceiveCheck(p, valid, interrupted)
         \/ TryRaises(p)
  PROVE  Move(p)
<1> USE DEF Inv, TypeOK, Move, Same, LocalsSame, RequestsHold, Posted, Settled, BeforePost,
        UnderToken, Early, TryStatements, Ended, Step, Goto, Send, locals, world, Calls,
        CallStates
<1>1. CASE IssueToken(p)
  BY <1>1 DEF IssueToken
<1>2. ASSUME NEW usable \in BOOLEAN, NEW exact \in BOOLEAN, ReceiveToken(p, usable, exact)
      PROVE  Move(p)
  BY <1>2 DEF ReceiveToken, TokenKept, Deliver, Set
<1>3. CASE Qualify(p) \/ ReadPull(p)
  BY <1>3 DEF Qualify, ReadPull, Checked, Set
<1>4. CASE Recheck(p)
  BY <1>4 DEF Recheck, Checked, MarkAttempted, Set
<1>5. CASE PostCheck(p)
  BY <1>5 DEF PostCheck
<1>6. ASSUME NEW valid \in BOOLEAN, NEW interrupted \in BOOLEAN, ReceiveCheck(p, valid, interrupted)
      PROVE  Move(p)
  BY <1>6 DEF ReceiveCheck
<1>7. CASE TryRaises(p)
  BY <1>7 DEF TryRaises, Raises, Set
<1>. QED
  BY <1>1, <1>2, <1>3, <1>4, <1>5, <1>6, <1>7

LEMMA LastMoves ==
  ASSUME Inv, NEW p \in Invocations, RequestsHold(p),
         \/ SkipRevocation(p) \/ RevokeToken(p) \/ Revoked(p) \/ RevocationRaises(p)
         \/ Finish(p) \/ GitHub(p)
  PROVE  Move(p)
<1> USE DEF Inv, TypeOK, Move, Same, LocalsSame, RequestsHold, Posted, Settled, BeforePost,
        UnderToken, Early, TryStatements, Ended, Step, Goto, Send, Set, locals, world, Calls,
        CallStates
<1>1. CASE SkipRevocation(p) \/ RevokeToken(p)
  BY <1>1 DEF SkipRevocation, RevokeToken
<1>2. CASE Revoked(p) \/ RevocationRaises(p)
  BY <1>2 DEF Revoked, RevocationRaises
<1>3. CASE Finish(p)
  BY <1>3 DEF Finish
<1>4. CASE GitHub(p)
  <2>1. PICK c \in Calls, s \in {"applied", "refused"} :
          req[p][c] = "sent" /\ req' = [req EXCEPT ![p][c] = s]
    BY <1>4 DEF GitHub, GitHubApplies, GitHubRefuses
  <2>2. UNCHANGED <<files, io, world, pc, locals>>
    BY <1>4 DEF GitHub, GitHubApplies, GitHubRefuses
  <2>. QED
    BY <2>1, <2>2
<1>. QED
  BY <1>1, <1>2, <1>3, <1>4

\* A reservation, and a record on disk, outlive any step.
LEMMA ReservedStays ==
  ASSUME NEW q \in Invocations, act'[q] = act[q], Reserved(q),
         NameOf(q, "attempt") \in Names,
         \A m \in Names : Journal!Durable(m) => files'[m] = files[m]
  PROVE  Reserved(q)'
<1>1. PICK m \in Names : m = NameOf(q, "attempt")
  OBVIOUS
<1>. QED
  BY <1>1 DEF Reserved, AttemptOf, NameOf, Journal!Durable

LEMMA MoveKeeps ==
  ASSUME Truth, NEW p \in Invocations, Move(p)
  PROVE  /\ \A q \in Invocations : RequestsHold(q)' /\ SuccessHolds(q)'
         /\ RecordsHold'
<1>1. ASSUME NEW q \in Invocations PROVE RequestsHold(q)'
  BY OthersKeep DEF Truth, Move
<1>2. ASSUME NEW q \in Invocations, pc[q] \in Settled
      PROVE  pc'[q] \in Settled /\ LocalsSame(q)
  BY <1>2 DEF Move, Same
<1>3. RecordsHold'
  <2>1. SUFFICES ASSUME NEW n \in Names, n.kind = "outcome", Journal!Exists(n)'
                 PROVE  RecordHolds(n)'
    BY DEF RecordsHold
  <2>2. files' = files /\ RecordHolds(n)
    BY <2>1 DEF Truth, RecordsHold, Move, Journal!Exists
  <2>3. PICK q \in Invocations : q = files[n].by
    BY <2>1, <2>2 DEF Truth, Inv, TypeOK, Journal!FilesTypeOK, Journal!Exists,
       Journal!Present, Journal!Absent
  <2>4. pc'[q] \in Settled /\ LocalsSame(q)
    BY <1>2, <2>2, <2>3 DEF RecordHolds, Settled
  <2>. QED
    BY <2>2, <2>3, <2>4
    DEF RecordHolds, LocalsSame, OutcomeBody, Status, NameOf, Reserved, AttemptOf,
        Journal!Durable, Settled
<1>4. ASSUME NEW q \in Invocations PROVE SuccessHolds(q)'
  <2>1. SUFFICES ASSUME pc'[q] = "published"
                 PROVE  /\ known'[q] /\ revoked'[q] /\ ~failed'[q]
                        /\ Journal!Durable(NameOf(q, "outcome"))'
                        /\ OutcomeOf(q)'.by = q
    BY DEF SuccessHolds
  <2>2. pc[q] = "published" \/ (pc[q] = "settle" /\ Succeeds(q))
    BY <2>1 DEF Move, Same
  <2>3. LocalsSame(q) /\ files' = files
    BY <1>2, <2>2 DEF Settled, Ended, Move
  <2>4. /\ known[q] /\ revoked[q] /\ ~failed[q]
        /\ Journal!Durable(NameOf(q, "outcome")) /\ OutcomeOf(q).by = q
    <3>1. CASE pc[q] = "published"
      BY <3>1 DEF Truth, SuccessHolds
    <3>2. CASE pc[q] = "settle" /\ Succeeds(q)
      <4>1. known[q] /\ revoked[q] /\ ~failed[q] /\ io[q] = "written"
        BY <3>2 DEF Succeeds, Status
      <4>. QED
        BY <3>2, <4>1 DEF Truth, Inv, Writing, Journal!Holds, OutcomeOf
    <3>. QED
      BY <2>2, <3>1, <3>2
  <2>. QED
    BY <2>3, <2>4 DEF LocalsSame, OutcomeOf, NameOf, Journal!Durable
<1>. QED
  BY <1>1, <1>3, <1>4

\* A writer adds its own record, for what its locals say, and spoils no other.
LEMMA WritesKeep ==
  ASSUME Truth, NEW p \in Invocations, WriteAttempt(p) \/ WriteOutcome(p)
  PROVE  /\ \A q \in Invocations : RequestsHold(q)' /\ SuccessHolds(q)'
         /\ RecordsHold'
<1>1. pc[p] \in {"reserve", "settle"} /\ act[p] \in Activations
  BY DEF WriteAttempt, WriteOutcome, Truth, Inv, Loaded, Late
<1>2. AttemptBody(p) \in Attempts /\ OutcomeBody(p) \in Outcomes
  BY <1>1, StatusType DEF AttemptBody, OutcomeBody, Attempts, Outcomes, Truth, Inv, TypeOK
<1>3. PICK n \in Names, body \in Attempts \cup Outcomes :
        /\ Journal!WriteBound(p, n, body) /\ Journal!Holds(p, n)
        /\ n.kind = "outcome" =>
             n = NameOf(p, "outcome") /\ body = OutcomeBody(p) /\ pc[p] = "settle"
  BY <1>1, <1>2, NameType
  DEF WriteAttempt, WriteOutcome, AttemptBody, OutcomeBody, Truth, Inv, Writing, NameOf
<1>4. Journal!FilesTypeOK
  BY DEF Truth, Inv, TypeOK
<1>5. /\ \A m \in Names : Journal!Durable(m) => files'[m] = files[m]
      /\ Journal!FilesTypeOK'
  BY <1>3, <1>4, Journal!WriteBoundEffect
<1>6. /\ \A m \in Names : Journal!Exists(m) =>
           files'[m].by = files[m].by /\ files'[m].body = files[m].body
      /\ \A m \in Names : Journal!Exists(m)' /\ ~Journal!Exists(m) =>
           m = n /\ files'[m].by = p /\ files'[m].body = body
  BY <1>3, <1>4, Journal!WriteBoundContents
<1>7. \A q \in Invocations : Same(q)
  BY DEF WriteAttempt, WriteOutcome, Same, LocalsSame, locals
<1>8. \A q \in Invocations : RequestsHold(q)'
  BY <1>7, OthersKeep DEF Truth
<1>9. RecordsHold'
  <2>1. SUFFICES ASSUME NEW m \in Names, m.kind = "outcome", Journal!Exists(m)'
                 PROVE  RecordHolds(m)'
    BY DEF RecordsHold
  <2>2. PICK q \in Invocations : q = files'[m].by
    BY <1>5, <2>1 DEF Journal!FilesTypeOK, Journal!Exists, Journal!Present, Journal!Absent
  <2>3. /\ m = NameOf(q, "outcome") /\ files'[m].body = OutcomeBody(q)
        /\ pc[q] \in {"settle"} \cup Ended /\ Reserved(q)
    <3>1. CASE Journal!Exists(m)
      BY <1>6, <2>1, <2>2, <3>1 DEF Truth, RecordsHold, RecordHolds
    <3>2. CASE ~Journal!Exists(m)
      <4>1. m = n /\ q = p /\ files'[m].body = body
        BY <1>6, <2>1, <2>2, <3>2
      <4>. QED
        BY <1>3, <2>1, <4>1 DEF Truth, Inv, ReservedSoon, Late
    <3>. QED
      BY <3>1, <3>2
  <2>4. NameOf(q, "attempt") \in Names
    BY <2>3 DEF Names, NameOf
  <2>5. Reserved(q)'
    BY <1>5, <1>7, <2>3, <2>4, ReservedStays DEF Same, LocalsSame
  <2>. QED
    BY <1>7, <2>2, <2>3, <2>5
    DEF RecordHolds, Same, LocalsSame, OutcomeBody, Status, NameOf
<1>10. ASSUME NEW q \in Invocations PROVE SuccessHolds(q)'
  <2>1. CASE pc[q] = "published"
    <3>1. PICK m \in Names : m = NameOf(q, "outcome")
      BY <2>1, NameType DEF Truth, Inv, Loaded
    <3>2. /\ known[q] /\ revoked[q] /\ ~failed[q]
          /\ Journal!Durable(m) /\ files[m].by = q
      BY <2>1, <3>1 DEF Truth, SuccessHolds, OutcomeOf
    <3>3. files'[m] = files[m] /\ m = NameOf(q, "outcome")'
      BY <1>5, <1>7, <3>1, <3>2 DEF Same, LocalsSame, NameOf
    <3>4. Journal!Durable(m)' /\ known'[q] /\ revoked'[q] /\ ~failed'[q]
      BY <1>7, <3>2, <3>3 DEF Same, LocalsSame, Journal!Durable
    <3>. QED
      BY <3>2, <3>3, <3>4 DEF SuccessHolds, OutcomeOf, Journal!Durable
  <2>2. CASE pc[q] # "published"
    BY <1>7, <2>2 DEF Same, SuccessHolds
  <2>. QED
    BY <2>1, <2>2
<1>. QED
  BY <1>8, <1>9, <1>10

\* A power loss takes records away and adds none.
LEMMA HostFailsKeeps ==
  ASSUME Truth, HostFails
  PROVE  /\ \A q \in Invocations : RequestsHold(q)' /\ SuccessHolds(q)'
         /\ RecordsHold'
<1>1. /\ \A m \in Names : Journal!Durable(m) => files'[m] = files[m]
      /\ \A m \in Names : Journal!Exists(m)' =>
           /\ Journal!Exists(m)
           /\ files'[m].by = files[m].by /\ files'[m].body = files[m].body
  BY Journal!PowerLossEffect, Journal!PowerLossContents DEF HostFails, Truth, Inv, TypeOK
<1>2. \A q \in Invocations : LocalsSame(q) /\ req'[q] = req[q]
  BY DEF HostFails, LocalsSame, locals
<1>3. \A q \in Invocations :
        \/ pc'[q] = "crashed" /\ pc[q] \notin {"start", "published", "stopped"}
        \/ pc'[q] = pc[q] /\ pc[q] \in {"start"} \cup Ended
  BY DEF HostFails, Running, Ended, Truth, Inv, TypeOK
<1>4. ASSUME NEW q \in Invocations PROVE RequestsHold(q)'
  <2>1. RequestsHold(q)
    BY DEF Truth
  <2>. QED
    BY <1>2, <1>3, <2>1
    DEF RequestsHold, LocalsSame, Posted, Early, BeforePost, UnderToken, TryStatements, Ended
<1>5. RecordsHold'
  <2>1. SUFFICES ASSUME NEW m \in Names, m.kind = "outcome", Journal!Exists(m)'
                 PROVE  RecordHolds(m)'
    BY DEF RecordsHold
  <2>2. Journal!Exists(m) /\ RecordHolds(m)
    BY <1>1, <2>1 DEF Truth, RecordsHold
  <2>3. PICK q \in Invocations : q = files[m].by
    BY <2>2 DEF Truth, Inv, TypeOK, Journal!FilesTypeOK, Journal!Exists, Journal!Present,
       Journal!Absent
  <2>4. NameOf(q, "attempt") \in Names
    BY <2>2, <2>3 DEF RecordHolds, Names, NameOf
  <2>5. Reserved(q)'
    BY <1>1, <1>2, <2>2, <2>3, <2>4, ReservedStays DEF RecordHolds, LocalsSame
  <2>6. pc'[q] \in {"settle"} \cup Ended
    BY <1>3, <2>2, <2>3 DEF RecordHolds, Ended
  <2>. QED
    BY <1>1, <1>2, <2>1, <2>2, <2>3, <2>5, <2>6
    DEF RecordHolds, LocalsSame, OutcomeBody, Status, NameOf
<1>6. ASSUME NEW q \in Invocations PROVE SuccessHolds(q)'
  <2>1. SUFFICES ASSUME pc'[q] = "published" PROVE SuccessHolds(q)'
    BY DEF SuccessHolds
  <2>2. pc[q] = "published"
    BY <1>3, <2>1
  <2>3. PICK m \in Names : m = NameOf(q, "outcome")
    BY <2>2, NameType DEF Truth, Inv, Loaded
  <2>. QED
    BY <1>1, <1>2, <2>2, <2>3
    DEF Truth, SuccessHolds, OutcomeOf, Journal!Durable, LocalsSame, NameOf
<1>. QED
  BY <1>4, <1>5, <1>6

LEMMA NextTruth == Truth /\ [Next]_vars => Truth'
<1>1. ASSUME Truth, [Next]_vars PROVE Inv'
  BY <1>1, NextInv DEF Truth
<1>2. ASSUME Truth, Next PROVE Truth'
  <2>1. ASSUME NEW p \in Invocations, Move(p) PROVE Truth'
    BY <1>1, <1>2, <2>1, MoveKeeps DEF Truth
  <2>2. ASSUME NEW p \in Invocations, WriteAttempt(p) \/ WriteOutcome(p) PROVE Truth'
    BY <1>1, <1>2, <2>2, WritesKeep DEF Truth
  <2>3. CASE HostFails
    BY <1>1, <1>2, <2>3, HostFailsKeeps DEF Truth
  <2>4. CASE World
    <3>1. UNCHANGED <<files, io, req, pc, locals>>
      BY <2>4 DEF World, Tick, Rearm, PullChanges, QualificationChanges
    <3>. QED
      BY <1>1, <1>2, <3>1
      DEF Truth, RequestsHold, RecordsHold, RecordHolds, SuccessHolds, Posted, OutcomeBody,
          OutcomeOf, AttemptOf, Reserved, NameOf, Status, Journal!Exists, Journal!Durable,
          locals
  <2>5. ASSUME NEW p \in Invocations,
               \/ \E h \in Heads : Execute(p, h)
               \/ Program(p) \/ Crash(p) \/ GitHub(p)
        PROVE  Move(p) \/ WriteAttempt(p) \/ WriteOutcome(p)
    <3>1. Inv /\ RequestsHold(p)
      BY <1>2 DEF Truth
    <3>. QED
      BY <2>5, <3>1, EarlyMoves, TryMoves, LastMoves DEF Program
  <2>. QED
    BY <1>2, <2>1, <2>2, <2>3, <2>4, <2>5 DEF Next
<1>3. ASSUME Truth, UNCHANGED vars PROVE Truth'
  BY <1>1, <1>3
  DEF Truth, RequestsHold, RecordsHold, RecordHolds, SuccessHolds, Posted, OutcomeBody,
      OutcomeOf, AttemptOf, Reserved, NameOf, Status, Journal!Exists, Journal!Durable,
      vars, locals
<1>. QED
  BY <1>2, <1>3

LEMMA InitTruth == Init => Truth
<1>1. Init => Inv
  BY InitInv
<1>. QED
  BY <1>1
  DEF Init, Truth, RequestsHold, RecordsHold, SuccessHolds, Posted, BeforePost, UnderToken,
      Early, TryStatements, Calls, Journal!FilesInit, Journal!Exists, Journal!Absent

LEMMA Truthful == Spec => []Truth
  BY InitTruth, NextTruth, PTL DEF Spec

\* An invocation that received a token and was not killed has sent the DELETE by
\* the time it settles, whatever failed since (_publish, finally).
THEOREM TokensReturned == Spec => []TokensAreReturned
<1>1. Truth => TokensAreReturned
  BY DEF Truth, RequestsHold, TokensAreReturned
<1>. QED
  BY <1>1, Truthful, PTL

\* Exit 0 of the controlled publisher means what the operator reads into it: the
\* outcome is on disk and says published, the check exists, the token is gone.
THEOREM SuccessProven == Spec => []SuccessIsProven
<1>1. Truth => SuccessIsProven
  <2>1. SUFFICES ASSUME Truth, NEW p \in Invocations, pc[p] = "published"
                 PROVE  /\ Journal!Durable(NameOf(p, "outcome")) /\ OutcomeOf(p).by = p
                        /\ OutcomeOf(p).body.status = "published"
                        /\ req[p]["check"] = "applied" /\ ~TokenLive(p)
    BY DEF SuccessIsProven
  <2>2. /\ known[p] /\ revoked[p] /\ ~failed[p]
        /\ Journal!Durable(NameOf(p, "outcome")) /\ OutcomeOf(p).by = p
    BY <2>1 DEF Truth, SuccessHolds
  <2>3. req[p]["check"] = "applied" /\ req[p]["revoke"] = "applied"
    BY <2>1, <2>2 DEF Truth, RequestsHold
  <2>4. PICK n \in Names : n = NameOf(p, "outcome")
    BY <2>1, NameType DEF Truth, Inv, Loaded
  <2>5. OutcomeOf(p).body = OutcomeBody(p)
    BY <2>1, <2>2, <2>4
    DEF Truth, RecordsHold, RecordHolds, OutcomeOf, NameOf, Journal!Exists, Journal!Durable
  <2>. QED
    BY <2>2, <2>3, <2>5 DEF OutcomeBody, Status, TokenLive
<1>. QED
  BY <1>1, Truthful, PTL

\* What an outcome record says of GitHub is so, for whoever reads the journal
\* later: of its own invocation, and, when it says that nothing was posted, of every
\* invocation of the candidate in that directory.
THEOREM OutcomesTruthful == Spec => []OutcomeTruthful
<1>1. Truth => OutcomeTruthful
  <2>1. SUFFICES ASSUME Truth, NEW n \in Names, n.kind = "outcome", Journal!Exists(n),
                        NEW p, p = files[n].by, NEW record, record = files[n].body
                 PROVE  /\ record.status = "published" =>
                             /\ req[p]["check"] = "applied" /\ req[p]["token"] = "delivered"
                             /\ ~TokenLive(p)
                        /\ record.check => req[p]["check"] = "applied"
                        /\ record.revoked => req[p]["revoke"] = "applied"
                        /\ record.status = "blocked_before_check_post" =>
                             \A q \in Invocations : Posted(q) => NameOf(q, "outcome") # n
    BY DEF OutcomeTruthful
  <2>2. p \in Invocations
    BY <2>1 DEF Truth, Inv, TypeOK, Journal!FilesTypeOK, Journal!Exists, Journal!Present,
       Journal!Absent
  <2>3. n = NameOf(p, "outcome") /\ record = OutcomeBody(p) /\ Reserved(p)
    BY <2>1 DEF Truth, RecordsHold, RecordHolds
  <2>4. RequestsHold(p)
    BY <2>1, <2>2 DEF Truth
  <2>5. record.status = "published" => known[p] /\ revoked[p]
    BY <2>3 DEF OutcomeBody, Status
  <2>6. record.status = "blocked_before_check_post" => ~attempted[p]
    BY <2>3, <2>4 DEF OutcomeBody, Status, RequestsHold, Posted
  <2>7. ASSUME NEW q \in Invocations, Posted(q), NameOf(q, "outcome") = n
        PROVE  q = p
    <3>1. Reserved(q)
      BY <2>1, <2>7 DEF Truth, Inv, ReservedSoon, Posted, Calls
    <3>2. NameOf(q, "attempt") = NameOf(p, "attempt")
      BY <2>3, <2>7 DEF NameOf
    <3>. QED
      BY <2>3, <3>1, <3>2 DEF Reserved, AttemptOf
  <2>8. Posted(p) => attempted[p]
    BY <2>4 DEF RequestsHold
  <2>9. known[p] => req[p]["check"] = "applied" /\ req[p]["token"] = "delivered"
    BY <2>4 DEF RequestsHold, Posted
  <2>10. revoked[p] => req[p]["revoke"] = "applied"
    BY <2>4 DEF RequestsHold
  <2>. QED
    BY <2>3, <2>5, <2>6, <2>7, <2>8, <2>9, <2>10 DEF OutcomeBody, TokenLive
<1>. QED
  BY <1>1, Truthful, PTL

-------------------------------------------------------------------------------
(* The refinement: each step changes a slot as PublicationOnce allows. *)

\* What may become of p's check request in a step that writes no file.
CheckFate(p) ==
  /\ Posted(p) => act'[p] = act[p]
  /\ \/ req'[p]["check"] = req[p]["check"]
     \/ pc[p] = "post" /\ act'[p] = act[p] /\ req'[p]["check"] = "sent"
     \/ req[p]["check"] = "sent" /\ req'[p]["check"] \in {"applied", "refused"}

LEMMA Fates ==
  ASSUME Inv, NEW p \in Invocations,
         \/ \E h \in Heads : Execute(p, h)
         \/ Program(p) /\ ~WriteAttempt(p) /\ ~WriteOutcome(p)
         \/ Crash(p) \/ GitHub(p)
  PROVE  CheckFate(p)
<1> USE DEF Inv, TypeOK, NothingSent, Early, CheckFate, Posted, Calls, CallStates, Step, Goto,
        Send, locals, world
<1>1. CASE \E h \in Heads : Execute(p, h)
  BY <1>1 DEF Execute
<1>2. CASE Program(p) /\ ~WriteAttempt(p) /\ ~WriteOutcome(p)
  <2>1. CASE IssueToken(p) \/ RevokeToken(p) \/ PostCheck(p)
    BY <2>1 DEF IssueToken, RevokeToken, PostCheck
  <2>2. ASSUME NEW usable \in BOOLEAN, NEW exact \in BOOLEAN, ReceiveToken(p, usable, exact)
        PROVE  CheckFate(p)
    BY <2>2 DEF ReceiveToken, Deliver
  <2>3. CASE UNCHANGED <<req, act>>
    BY <2>3
  <2>. QED
    BY <1>2, <2>1, <2>2, <2>3
    DEF Program, VerifyInputs, EnterPublish, AttemptWritten, MakeJwt, PreflightApp, Qualify,
        ReadPull, Recheck, ReceiveCheck, TryRaises, SkipRevocation, Revoked, RevocationRaises, Finish,
        Checked
<1>3. CASE Crash(p)
  BY <1>3 DEF Crash
<1>4. CASE GitHub(p)
  <2>1. PICK c \in Calls, x \in {"applied", "refused"} :
          req[p][c] = "sent" /\ req' = [req EXCEPT ![p][c] = x]
    BY <1>4 DEF GitHub, GitHubApplies, GitHubRefuses
  <2>2. UNCHANGED act
    BY <1>4 DEF GitHub, GitHubApplies, GitHubRefuses
  <2>. QED
    BY <2>1, <2>2
<1>. QED
  BY <1>1, <1>2, <1>3, <1>4

\* A candidate has one reservation, so one owner.
LEMMA OneOwner ==
  ASSUME NEW p \in Invocations, NEW q \in Invocations, Reserved(p), Reserved(q),
         NameOf(p, "attempt") = NameOf(q, "attempt")
  PROVE  p = q
  BY DEF Reserved, AttemptOf

\* A check only comes into being while the token it was sent with is live.
LEMMA Landing ==
  ASSUME Inv, NEW p \in Invocations, NEW q \in Invocations,
         \/ \E h \in Heads : Execute(q, h)
         \/ Program(q) \/ Crash(q) \/ GitHub(q),
         req[p]["check"] # "applied", req'[p]["check"] = "applied"
  PROVE  TokenLive(p)
<1> USE DEF Inv, TypeOK, Calls, CallStates, locals, world
<1>1. CASE Program(q)
  <2>1. CASE IssueToken(q) \/ RevokeToken(q) \/ PostCheck(q)
    BY <2>1 DEF IssueToken, RevokeToken, PostCheck, Send
  <2>2. ASSUME NEW usable \in BOOLEAN, NEW exact \in BOOLEAN, ReceiveToken(q, usable, exact)
        PROVE  FALSE
    BY <2>2 DEF ReceiveToken, Deliver
  <2>3. CASE UNCHANGED req
    BY <2>3
  <2>. QED
    BY <1>1, <2>1, <2>2, <2>3
    DEF Program, VerifyInputs, EnterPublish, WriteAttempt, AttemptWritten, MakeJwt, PreflightApp,
        Qualify, ReadPull, Recheck, ReceiveCheck, TryRaises, SkipRevocation, Revoked,
        RevocationRaises, WriteOutcome, Finish, Checked
<1>2. CASE Crash(q) \/ \E h \in Heads : Execute(q, h)
  BY <1>2 DEF Crash, Execute
<1>3. CASE GitHub(q)
  <2>1. PICK c \in Calls : GitHubApplies(q, c) \/ GitHubRefuses(q, c)
    BY <1>3 DEF GitHub
  <2>2. GitHubApplies(q, c) /\ q = p /\ c = "check"
    BY <2>1 DEF GitHubApplies, GitHubRefuses
  <2>. QED
    BY <2>2 DEF GitHubApplies
<1>. QED
  BY <1>1, <1>2, <1>3

\* A step changes the check of one invocation at most: that of the one that acts, or whose
\* request GitHub answers.
LEMMA CheckSteps ==
  ASSUME Truth, [Next]_vars, NEW p \in Invocations
  PROVE  /\ CheckFate(p) \/ req'[p]["check"] = req[p]["check"]
         /\ req[p]["check"] # "applied" /\ req'[p]["check"] = "applied" => TokenLive(p)
<1>1. CASE HostFails \/ World \/ UNCHANGED vars
  BY <1>1 DEF HostFails, World, Tick, Rearm, PullChanges, QualificationChanges, vars
<1>2. ASSUME NEW q \in Invocations, \/ \E h \in Heads : Execute(q, h)
                                    \/ Program(q) \/ Crash(q) \/ GitHub(q)
      PROVE  /\ CheckFate(p) \/ req'[p]["check"] = req[p]["check"]
             /\ req[p]["check"] # "applied" /\ req'[p]["check"] = "applied" => TokenLive(p)
  <2>1. Inv /\ RequestsHold(q)
    BY DEF Truth
  <2>2. CASE WriteAttempt(q) \/ WriteOutcome(q)
    BY <2>2 DEF WriteAttempt, WriteOutcome
  <2>3. CASE ~WriteAttempt(q) /\ ~WriteOutcome(q)
    <3>1. q # p => Same(p)
      BY <1>2, <2>1, <2>3, EarlyMoves, TryMoves, LastMoves DEF Program, Move
    <3>2. q = p => CheckFate(p)
      BY <1>2, <2>1, <2>3, Fates
    <3>. QED
      BY <1>2, <2>1, <3>1, <3>2, Landing DEF Same
  <2>. QED
    BY <2>2, <2>3
<1>. QED
  BY <1>1, <1>2 DEF Next

\* The reconciliation that follows a conclusive outcome is over: the reservation keeps
\* other invocations of the candidate from posting, and a request that is still on its way
\* carries a token that is dead (_publish, the attempt record, finally and the outcome).
THEOREM ConclusiveIsFinal == Spec => ConclusiveOutcomesAreFinal
<1>1. ASSUME Truth, [Next]_vars, NEW n \in Names, Conclusive(n), NEW p \in Invocations,
             Posted(p)', NameOf(p, "outcome")' = n
      PROVE  req'[p]["check"] \in {req[p]["check"], "refused"}
  <2>1. SUFFICES ASSUME req'[p]["check"] # req[p]["check"] PROVE req'[p]["check"] = "refused"
    OBVIOUS
  <2>2. /\ act'[p] = act[p]
        /\ \/ pc[p] = "post"
           \/ req[p]["check"] = "sent" /\ req'[p]["check"] \in {"applied", "refused"}
    BY <1>1, <2>1, CheckSteps DEF CheckFate, Posted
  <2>3. NameOf(p, "outcome") = n
    BY <1>1, <2>2 DEF NameOf
  <2>4. PICK o \in Invocations : o = files[n].by
    BY <1>1 DEF Conclusive, Truth, Inv, TypeOK, Journal!FilesTypeOK, Journal!Exists,
       Journal!Present, Journal!Absent
  <2>5. /\ n = NameOf(o, "outcome") /\ files[n].body = OutcomeBody(o)
        /\ pc[o] \in {"settle"} \cup Ended /\ Reserved(o)
    BY <1>1, <2>4 DEF Conclusive, Truth, RecordsHold, RecordHolds
  <2>6. Reserved(p)
    BY <1>1, <2>2 DEF Truth, Inv, ReservedSoon, Posted, Calls, Late, TryStatements
  <2>7. p = o
    <3>1. NameOf(p, "attempt") = NameOf(o, "attempt")
      BY <2>3, <2>5 DEF NameOf
    <3>. QED
      BY <2>5, <2>6, <3>1, OneOwner
  <2>8. req[p]["check"] = "sent" /\ req'[p]["check"] \in {"applied", "refused"}
    BY <2>2, <2>5, <2>7 DEF Ended
  <2>9. ~TokenLive(p)
    <3>1. RequestsHold(p) /\ Posted(p)
      BY <1>1, <2>8 DEF Truth, Posted
    <3>2. Status(p) = "publication_uncertain"
      BY <2>8, <3>1 DEF RequestsHold, Status
    <3>3. revoked[p]
      BY <1>1, <2>5, <2>7, <3>2 DEF Conclusive, OutcomeBody
    <3>. QED
      BY <3>1, <3>3 DEF RequestsHold, TokenLive
  <2>. QED
    BY <1>1, <2>8, <2>9, CheckSteps
<1>2. Truth /\ [Next]_vars =>
        [\A n \in Names : Conclusive(n) =>
           \A p \in Invocations :
             Posted(p)' /\ NameOf(p, "outcome")' = n =>
               req'[p]["check"] \in {req[p]["check"], "refused"}]_vars
  BY <1>1
<1>. QED
  BY <1>2, Truthful, PTL DEF Spec, ConclusiveOutcomesAreFinal

LEMMA RecordNames ==
  ASSUME NEW s \in Slots, NEW kind \in {"attempt", "outcome"}
  PROVE  /\ Record(s, kind) \in Names
         /\ \A p \in Invocations :
              NameOf(p, "attempt") = Record(s, "attempt") <=>
              NameOf(p, "outcome") = Record(s, "outcome")
  BY DEF Slots, Record, Names, NameOf

\* An outcome on file is that of the owner of the reservation.
LEMMA OutcomeOwner ==
  ASSUME Truth, NEW s \in Slots, Journal!Exists(Record(s, "outcome"))
  PROVE  \E q \in Invocations :
           /\ NameOf(q, "attempt") = Record(s, "attempt")
           /\ files[Record(s, "outcome")].body = OutcomeBody(q)
           /\ pc[q] \in {"settle"} \cup Ended
           /\ Reserved(q)
<1>1. PICK n \in Names : n = Record(s, "outcome") /\ n.kind = "outcome"
  BY RecordNames DEF Record
<1>2. PICK q \in Invocations : q = files[n].by
  BY <1>1 DEF Truth, Inv, TypeOK, Journal!FilesTypeOK, Journal!Exists, Journal!Present,
     Journal!Absent
<1>3. RecordHolds(n)
  BY <1>1 DEF Truth, RecordsHold
<1>. QED
  BY <1>1, <1>2, <1>3, RecordNames DEF RecordHolds

SlotsTypeOK == \A s \in Slots : SlotOf(s) \in Once!SlotStates

Taken(s) == Journal!Durable(Record(s, "attempt"))

LEMMA SlotTypes == Truth => SlotsTypeOK
<1> SUFFICES ASSUME Truth, NEW s \in Slots
             PROVE  SlotOf(s) \in Once!SlotStates
  BY DEF SlotsTypeOK
<1>1. VerdictOf(s) \in Once!Verdicts \cup {"none"}
  <2>1. CASE ~Journal!Durable(Record(s, "outcome"))
    BY <2>1 DEF VerdictOf
  <2>2. CASE Journal!Durable(Record(s, "outcome"))
    <3>1. PICK q \in Invocations : files[Record(s, "outcome")].body = OutcomeBody(q)
      BY <2>2, OutcomeOwner DEF Journal!Durable, Journal!Exists
    <3>. QED
      BY <2>2, <3>1, StatusType DEF VerdictOf, OutcomeBody, Statuses, Once!Verdicts
  <2>. QED
    BY <2>1, <2>2
<1>2. PostersOf(s) \in SUBSET Invocations
  BY DEF PostersOf
<1>3. Landed(s) \in BOOLEAN /\ Journal!Durable(Record(s, "attempt")) \in BOOLEAN
  BY DEF Landed, Journal!Durable
<1>. QED
  BY <1>1, <1>2, <1>3 DEF SlotOf, Once!SlotStates

\* How the four parts of a slot change, and what the slot then did.
Slot(t, ps, l, v) == [reserved |-> t, posters |-> ps, landed |-> l, verdict |-> v]

\* A slot with one part replaced.
LEMMA SlotWith ==
  ASSUME NEW x, NEW t, NEW ps, NEW l, NEW v, NEW z, x = Slot(t, ps, l, v)
  PROVE  /\ [x EXCEPT !.reserved = z] = Slot(z, ps, l, v)
         /\ [x EXCEPT !.posters = z] = Slot(t, z, l, v)
         /\ [x EXCEPT !.landed = z] = Slot(t, ps, z, v)
         /\ [x EXCEPT !.verdict = z] = Slot(t, ps, l, z)
         /\ x.reserved = t /\ x.posters = ps /\ x.landed = l /\ x.verdict = v
  BY DEF Slot

SlotChanges(t, ps, l, v, t1, ps1, l1, v1) ==
  \/ t1 = t /\ ps1 = ps /\ l1 = l /\ v1 = v
  \/ t = FALSE /\ t1 = TRUE /\ ps1 = ps /\ l1 = l /\ v1 = v
  \/ /\ t1 = t /\ t = TRUE /\ ps = {} /\ v = "none"
     /\ (\E p \in Invocations : ps1 = {p}) /\ l1 = l /\ v1 = v
  \/ t1 = t /\ ps # {} /\ ps1 = ps /\ l1 = TRUE /\ v1 = v
  \/ /\ t1 = t /\ t = TRUE /\ v = "none" /\ v1 \in Once!Verdicts
     /\ v1 \in {"published", "published_cleanup_failed"} => l = TRUE
     /\ v1 = "blocked_before_check_post" => ps = {}
     /\ ps1 = ps /\ l1 = l

LEMMA SlotChange ==
  ASSUME NEW t, NEW ps, NEW l, NEW v, NEW t1, NEW ps1, NEW l1, NEW v1,
         SlotChanges(t, ps, l, v, t1, ps1, l1, v1)
  PROVE  \/ Slot(t1, ps1, l1, v1) = Slot(t, ps, l, v)
         \/ Once!Change(Slot(t, ps, l, v), Slot(t1, ps1, l1, v1))
<1>1. PICK x, y : x = Slot(t, ps, l, v) /\ y = Slot(t1, ps1, l1, v1)
  OBVIOUS
<1>2. /\ x.reserved = t /\ x.posters = ps /\ x.landed = l /\ x.verdict = v
      /\ \A z : /\ [x EXCEPT !.reserved = z] = Slot(z, ps, l, v)
               /\ [x EXCEPT !.posters = z] = Slot(t, z, l, v)
               /\ [x EXCEPT !.landed = z] = Slot(t, ps, z, v)
               /\ [x EXCEPT !.verdict = z] = Slot(t, ps, l, z)
  BY <1>1, SlotWith
<1>3. CASE t1 = t /\ ps1 = ps /\ l1 = l /\ v1 = v
  BY <1>3
<1>4. CASE t = FALSE /\ t1 = TRUE /\ ps1 = ps /\ l1 = l /\ v1 = v
  BY <1>1, <1>2, <1>4 DEF Once!Change, Once!Reserve
<1>5. CASE /\ t1 = t /\ t = TRUE /\ ps = {} /\ v = "none"
           /\ (\E p \in Invocations : ps1 = {p}) /\ l1 = l /\ v1 = v
  <2>1. PICK p \in Invocations : ps1 = {p}
    BY <1>5
  <2>2. y = [x EXCEPT !.posters = {p}]
    <3>1. t1 = t /\ l1 = l /\ v1 = v
      BY <1>5
    <3>. QED
      BY <1>1, <1>2, <2>1, <3>1
  <2>3. Once!Post(x, y)
    BY <1>2, <1>5, <2>2 DEF Once!Post
  <2>. QED
    BY <1>1, <2>3 DEF Once!Change
<1>6. CASE t1 = t /\ ps # {} /\ ps1 = ps /\ l1 = TRUE /\ v1 = v
  BY <1>1, <1>2, <1>6 DEF Once!Change, Once!Land
<1>7. CASE /\ t1 = t /\ t = TRUE /\ v = "none" /\ v1 \in Once!Verdicts
           /\ v1 \in {"published", "published_cleanup_failed"} => l = TRUE
           /\ v1 = "blocked_before_check_post" => ps = {}
           /\ ps1 = ps /\ l1 = l
  <2>1. y = [x EXCEPT !.verdict = v1]
    <3>1. t1 = t /\ ps1 = ps /\ l1 = l
      BY <1>7
    <3>. QED
      BY <1>1, <1>2, <3>1
  <2>2. Once!Truthful(x, v1)
    BY <1>2, <1>7 DEF Once!Truthful
  <2>3. Once!Settle(x, y)
    BY <1>2, <1>7, <2>1, <2>2 DEF Once!Settle
  <2>. QED
    BY <1>1, <2>3 DEF Once!Change
<1>. QED
  BY <1>3, <1>4, <1>5, <1>6, <1>7 DEF SlotChanges

\* What slot s did in a step.
Changed(s) == SlotChanges(Taken(s), PostersOf(s), Landed(s), VerdictOf(s),
                          Taken(s)', PostersOf(s)', Landed(s)', VerdictOf(s)')

LEMMA ChangedSlot ==
  ASSUME NEW s \in Slots, Changed(s)
  PROVE  SlotOf(s)' = SlotOf(s) \/ Once!Change(SlotOf(s), SlotOf(s)')
<1>1. /\ SlotOf(s) = Slot(Taken(s), PostersOf(s), Landed(s), VerdictOf(s))
      /\ SlotOf(s)' = Slot(Taken(s)', PostersOf(s)', Landed(s)', VerdictOf(s)')
  BY DEF SlotOf, Slot, Taken
<1>2. \/ Slot(Taken(s)', PostersOf(s)', Landed(s)', VerdictOf(s)')
           = Slot(Taken(s), PostersOf(s), Landed(s), VerdictOf(s))
      \/ Once!Change(Slot(Taken(s), PostersOf(s), Landed(s), VerdictOf(s)),
                     Slot(Taken(s)', PostersOf(s)', Landed(s)', VerdictOf(s)'))
  BY SlotChange DEF Changed
<1>. QED
  BY <1>1, <1>2

LEMMA SlotBooleans ==
  /\ \A s \in Slots : Taken(s) \in BOOLEAN /\ Landed(s) \in BOOLEAN
  /\ \A s \in Slots : Taken(s)' \in BOOLEAN /\ Landed(s)' \in BOOLEAN
  BY DEF Taken, Landed, Journal!Durable

\* A step that writes no file: at most the POST of one slot, or its landing.
LEMMA SlotMove ==
  ASSUME Truth, NEW p \in Invocations, Move(p), CheckFate(p), NEW s \in Slots
  PROVE  Changed(s)
<1> DEFINE a == Record(s, "attempt")
<1>1. UNCHANGED <<Taken(s), VerdictOf(s)>>
  BY DEF Move, Taken, VerdictOf, Journal!Durable
<1>2. ASSUME NEW q \in Invocations \ {p}
      PROVE  /\ q \in PostersOf(s)' <=> q \in PostersOf(s)
             /\ req'[q] = req[q]
  BY DEF Move, Same, LocalsSame, PostersOf, Posted, NameOf
<1>3. CASE req'[p]["check"] = req[p]["check"]
  <2>1. p \in PostersOf(s)' <=> p \in PostersOf(s)
    BY <1>3 DEF CheckFate, PostersOf, Posted, NameOf
  <2>2. PostersOf(s)' = PostersOf(s)
    BY <1>2, <2>1 DEF PostersOf
  <2>3. UNCHANGED Landed(s)
    BY <1>2, <1>3, <2>2 DEF Landed, PostersOf
  <2>. QED
    BY <1>1, <2>2, <2>3, SlotBooleans DEF Changed, SlotChanges
<1>4. CASE pc[p] = "post" /\ act'[p] = act[p] /\ req'[p]["check"] = "sent"
  <2>1. ~Posted(p) /\ Reserved(p)
    BY <1>4 DEF Truth, RequestsHold, BeforePost, TryStatements, Inv, ReservedSoon, Late
  <2>2. CASE NameOf(p, "attempt") # a
    <3>1. PostersOf(s)' = PostersOf(s) /\ p \notin PostersOf(s)
      BY <1>2, <1>4, <2>2 DEF PostersOf, NameOf
    <3>2. UNCHANGED Landed(s)
      BY <1>2, <3>1 DEF Landed, PostersOf
    <3>. QED
      BY <1>1, <3>1, <3>2, SlotBooleans DEF Changed, SlotChanges
  <2>3. CASE NameOf(p, "attempt") = a
    <3>1. PostersOf(s) = {}
      <4>1. SUFFICES ASSUME NEW q \in PostersOf(s) PROVE FALSE
        OBVIOUS
      <4>2. q \in Invocations /\ Posted(q) /\ NameOf(q, "attempt") = NameOf(p, "attempt")
        BY <2>3 DEF PostersOf
      <4>3. Reserved(q)
        BY <4>2 DEF Truth, Inv, ReservedSoon, Posted, Calls
      <4>. QED
        BY <2>1, <4>2, <4>3, OneOwner
    <3>2. PostersOf(s)' = {p}
      BY <1>2, <1>4, <2>3, <3>1 DEF PostersOf, Posted, NameOf
    <3>3. Taken(s)
      BY <2>1, <2>3 DEF Taken, Reserved
    <3>4. VerdictOf(s) = "none"
      <4>1. SUFFICES ASSUME Journal!Durable(Record(s, "outcome")) PROVE FALSE
        BY DEF VerdictOf
      <4>2. PICK q \in Invocations : /\ NameOf(q, "attempt") = a
                                     /\ pc[q] \in {"settle"} \cup Ended
                                     /\ Reserved(q)
        BY <4>1, OutcomeOwner DEF Journal!Durable, Journal!Exists
      <4>. QED
        BY <1>4, <2>1, <2>3, <4>2, OneOwner DEF Ended
    <3>5. ~Landed(s) /\ ~Landed(s)'
      BY <1>4, <3>1, <3>2 DEF Landed
    <3>6. UNCHANGED Landed(s)
      BY <3>5 DEF Landed
    <3>. QED
      BY <1>1, <3>1, <3>2, <3>3, <3>4, <3>6, SlotBooleans DEF Changed, SlotChanges
  <2>. QED
    BY <2>2, <2>3
<1>5. CASE req[p]["check"] = "sent" /\ req'[p]["check"] \in {"applied", "refused"}
  <2>1. Posted(p) /\ Posted(p)' /\ act'[p] = act[p]
    BY <1>5 DEF Posted, CheckFate
  <2>2. PostersOf(s)' = PostersOf(s)
    BY <1>2, <2>1 DEF PostersOf, NameOf
  <2>3. Landed(s) => Landed(s)'
    <3>1. SUFFICES ASSUME NEW q \in PostersOf(s), req[q]["check"] = "applied"
                   PROVE  Landed(s)'
      BY DEF Landed
    <3>2. q \in Invocations \ {p}
      BY <1>5, <3>1 DEF PostersOf
    <3>. QED
      BY <1>2, <2>2, <3>1, <3>2 DEF Landed
  <2>4. CASE ~Landed(s)' \/ Landed(s)
    <3>1. UNCHANGED Landed(s)
      BY <2>3, <2>4 DEF Landed
    <3>. QED
      BY <1>1, <2>2, <3>1, SlotBooleans DEF Changed, SlotChanges
  <2>5. CASE Landed(s)' /\ ~Landed(s)
    <3>1. PostersOf(s) # {}
      BY <2>2, <2>5 DEF Landed
    <3>. QED
      BY <1>1, <2>2, <2>5, <3>1, SlotBooleans DEF Changed, SlotChanges
  <2>. QED
    BY <2>4, <2>5
<1>. QED
  BY <1>3, <1>4, <1>5 DEF CheckFate

\* A step of the files: a slot is reserved, or it gets its verdict.
LEMMA SlotWrite ==
  ASSUME Truth, Truth', UNCHANGED <<req, locals>>, NEW s \in Slots,
         \A m \in Names : Journal!Durable(m) => files'[m] = files[m],
         \A m \in Names : Journal!Durable(m)' => Journal!Exists(m)
  PROVE  Changed(s)
<1>1. PICK a \in Names, o \in Names :
        a = Record(s, "attempt") /\ o = Record(s, "outcome") /\ o.kind = "outcome"
  BY RecordNames DEF Record
<1>2. PostersOf(s)' = PostersOf(s)
  BY DEF PostersOf, Posted, NameOf, locals
<1>3. UNCHANGED Landed(s)
  BY <1>2 DEF Landed
<1>4. Journal!Exists(o) => Journal!Durable(a)
  <2>1. SUFFICES ASSUME Journal!Exists(o) PROVE Journal!Durable(a)
    OBVIOUS
  <2>2. PICK q \in Invocations : NameOf(q, "attempt") = a /\ Reserved(q)
    BY <1>1, <2>1, OutcomeOwner
  <2>. QED
    BY <2>2 DEF Reserved
<1>5. CASE Journal!Durable(o) \/ ~Journal!Durable(o)'
  <2>1. UNCHANGED VerdictOf(s)
    BY <1>1, <1>5 DEF VerdictOf, Journal!Durable
  <2>2. CASE Journal!Durable(a) \/ ~Journal!Durable(a)'
    <3>1. UNCHANGED Taken(s)
      BY <1>1, <2>2 DEF Taken, Journal!Durable
    <3>. QED
      BY <1>2, <1>3, <2>1, <3>1, SlotBooleans DEF Changed, SlotChanges
  <2>3. CASE ~Journal!Durable(a) /\ Journal!Durable(a)'
    <3>1. ~Taken(s) /\ Taken(s)'
      BY <1>1, <2>3 DEF Taken, Journal!Durable
    <3>. QED
      BY <1>2, <1>3, <2>1, <3>1, SlotBooleans DEF Changed, SlotChanges
  <2>. QED
    BY <2>2, <2>3
<1>6. CASE ~Journal!Durable(o) /\ Journal!Durable(o)'
  <2>1. Journal!Durable(a) /\ files'[a] = files[a]
    BY <1>4, <1>6
  <2>2. PICK q \in Invocations : /\ NameOf(q, "attempt") = a
                                 /\ files'[o].body = OutcomeBody(q)
                                 /\ files'[a].by = q
    <3>1. RecordHolds(o)' /\ Journal!Exists(o)'
      BY <1>1, <1>6 DEF Truth, RecordsHold, Journal!Exists, Journal!Durable
    <3>2. PICK q \in Invocations : q = files'[o].by
      BY <3>1 DEF Truth, Inv, TypeOK, Journal!FilesTypeOK, Journal!Exists,
         Journal!Present, Journal!Absent
    <3>3. o = NameOf(q, "outcome") /\ files'[o].body = OutcomeBody(q)
      BY <3>1, <3>2 DEF RecordHolds, NameOf, OutcomeBody, Status, locals
    <3>4. NameOf(q, "attempt") = a
      BY <1>1, <3>3, RecordNames
    <3>5. files'[a].by = q
      BY <3>1, <3>2, <3>4 DEF RecordHolds, Reserved, AttemptOf, NameOf, locals
    <3>. QED
      BY <3>3, <3>4, <3>5
  <2>3. RequestsHold(q)
    BY DEF Truth
  <2>4. \A v \in PostersOf(s) : v = q
    <3>1. ASSUME NEW v \in PostersOf(s) PROVE v = q
      <4>1. v \in Invocations /\ Reserved(v) /\ NameOf(v, "attempt") = a
        BY <1>1 DEF PostersOf, Truth, Inv, ReservedSoon, Posted, Calls
      <4>. QED
        BY <2>1, <2>2, <4>1 DEF Reserved, AttemptOf
    <3>. QED
      BY <3>1
  <2>5. Status(q) \in {"published", "published_cleanup_failed"} => Landed(s)
    <3>1. SUFFICES ASSUME known[q] PROVE Landed(s)
      BY DEF Status
    <3>2. req[q]["check"] = "applied" /\ q \in PostersOf(s)
      BY <1>1, <2>2, <2>3, <3>1 DEF RequestsHold, PostersOf, Posted
    <3>. QED
      BY <3>2 DEF Landed
  <2>6. Status(q) = "blocked_before_check_post" => PostersOf(s) = {}
    <3>1. SUFFICES ASSUME Status(q) = "blocked_before_check_post", NEW v \in PostersOf(s)
                   PROVE  FALSE
      OBVIOUS
    <3>2. ~attempted[q]
      BY <2>3, <3>1 DEF Status, RequestsHold, Posted
    <3>3. Posted(q)
      BY <2>4 DEF PostersOf
    <3>. QED
      BY <2>3, <3>2, <3>3 DEF RequestsHold
  <2>7. Taken(s) /\ UNCHANGED Taken(s)
    BY <1>1, <2>1 DEF Taken, Journal!Durable
  <2>8. VerdictOf(s) = "none"
    BY <1>1, <1>6 DEF VerdictOf
  <2>9. VerdictOf(s)' = Status(q)
    <3>1. Journal!Durable(Record(s, "outcome"))' /\ Record(s, "outcome")' = o
      BY <1>1, <1>6 DEF Record, Journal!Durable
    <3>. QED
      BY <2>2, <3>1 DEF VerdictOf, OutcomeBody
  <2>10. Status(q) \in Once!Verdicts
    BY StatusType DEF Statuses, Once!Verdicts
  <2>. QED
    BY <1>2, <1>3, <2>5, <2>6, <2>7, <2>8, <2>9, <2>10, SlotBooleans DEF Changed, SlotChanges
<1>. QED
  BY <1>5, <1>6

LEMMA OnceInit == Init => Once!Init
<1>1. SUFFICES ASSUME Init, NEW s \in Slots PROVE SlotOf(s) = Once!Fresh
  BY DEF Once!Init
<1>2. Record(s, "attempt") \in Names /\ Record(s, "outcome") \in Names
  BY RecordNames
<1>3. PostersOf(s) = {}
  BY <1>1 DEF Init, PostersOf, Posted, Calls
<1>. QED
  BY <1>1, <1>2, <1>3
  DEF Init, SlotOf, Landed, VerdictOf, Once!Fresh, Journal!FilesInit, Journal!Durable, Journal!Absent

LEMMA OnceNext == Truth /\ Truth' /\ [Next]_vars => [Once!Next]_([s \in Slots |-> SlotOf(s)])
<1>1. ASSUME Truth, Truth', Next, NEW s \in Slots
      PROVE  SlotOf(s)' = SlotOf(s) \/ Once!Change(SlotOf(s), SlotOf(s)')
  <2>1. ASSUME NEW p \in Invocations, WriteAttempt(p) \/ WriteOutcome(p)
        PROVE  SlotOf(s)' = SlotOf(s) \/ Once!Change(SlotOf(s), SlotOf(s)')
    <3>1. pc[p] \in {"reserve", "settle"} /\ act[p] \in Activations
      BY <1>1, <2>1 DEF WriteAttempt, WriteOutcome, Truth, Inv, Loaded, Late
    <3>2. AttemptBody(p) \in Attempts /\ OutcomeBody(p) \in Outcomes
      BY <1>1, <3>1, StatusType
      DEF AttemptBody, OutcomeBody, Attempts, Outcomes, Truth, Inv, TypeOK
    <3>3. PICK n \in Names, body \in Attempts \cup Outcomes :
            Journal!WriteBound(p, n, body) /\ Journal!Holds(p, n)
      BY <1>1, <2>1, <3>1, <3>2, NameType
      DEF WriteAttempt, WriteOutcome, AttemptBody, OutcomeBody, Truth, Inv, Writing
    <3>4. Journal!FilesTypeOK
      BY <1>1 DEF Truth, Inv, TypeOK
    <3>5. /\ \A m \in Names : Journal!Durable(m) => files'[m] = files[m]
          /\ \A m \in Names : Journal!Durable(m)' => Journal!Exists(m)
      BY <3>3, <3>4, Journal!WriteBoundEffect, Journal!WriteBoundDurable
    <3>6. UNCHANGED <<req, locals>>
      BY <2>1 DEF WriteAttempt, WriteOutcome
    <3>. QED
      BY <1>1, <3>5, <3>6, SlotWrite, ChangedSlot
  <2>2. CASE HostFails
    <3>1. /\ \A m \in Names : Journal!Durable(m) => files'[m] = files[m]
          /\ \A m \in Names : Journal!Exists(m)' => Journal!Exists(m)
      BY <1>1, <2>2, Journal!PowerLossEffect, Journal!PowerLossContents
      DEF HostFails, Truth, Inv, TypeOK
    <3>2. \A m \in Names : Journal!Durable(m)' => Journal!Exists(m)
      BY <3>1 DEF Journal!Durable, Journal!Exists
    <3>3. UNCHANGED <<req, locals>>
      BY <2>2 DEF HostFails
    <3>. QED
      BY <1>1, <3>1, <3>2, <3>3, SlotWrite, ChangedSlot
  <2>3. CASE World
    <3>1. UNCHANGED <<files, req, locals>>
      BY <2>3 DEF World, Tick, Rearm, PullChanges, QualificationChanges
    <3>. QED
      BY <3>1 DEF SlotOf, Landed, VerdictOf, PostersOf, Posted, NameOf, Journal!Durable, locals
  <2>4. ASSUME NEW p \in Invocations,
               \/ \E h \in Heads : Execute(p, h)
               \/ Program(p) /\ ~WriteAttempt(p) /\ ~WriteOutcome(p)
               \/ Crash(p) \/ GitHub(p)
        PROVE  SlotOf(s)' = SlotOf(s) \/ Once!Change(SlotOf(s), SlotOf(s)')
    <3>1. Inv /\ RequestsHold(p)
      BY <1>1 DEF Truth
    <3>2. Move(p)
      BY <2>4, <3>1, EarlyMoves, TryMoves, LastMoves DEF Program
    <3>3. CheckFate(p)
      BY <2>4, <3>1, Fates
    <3>. QED
      BY <1>1, <3>2, <3>3, SlotMove, ChangedSlot
  <2>. QED
    BY <1>1, <2>1, <2>2, <2>3, <2>4 DEF Next
<1>2. ASSUME Truth, Truth', Next PROVE Once!Next
  <2>1. SlotsTypeOK'
    BY <1>2, SlotTypes, PTL
  <2>. QED
    BY <1>1, <1>2, <2>1 DEF SlotsTypeOK, Once!Next
<1>3. UNCHANGED vars => UNCHANGED [s \in Slots |-> SlotOf(s)]
  BY DEF vars, locals, SlotOf, Landed, VerdictOf, PostersOf, Posted, NameOf, Journal!Durable
<1>. QED
  BY <1>2, <1>3

\* The controlled publisher, with files, races, crashes, power losses and a network
\* that answers late or never, implements PublicationOnce.
THEOREM OnceAndTruthfully == Spec => PublishesOnce
  BY OnceInit, OnceNext, Truthful, PTL DEF Spec, Once!Spec, PublishesOnce

-------------------------------------------------------------------------------
(* Candidates that are never live. *)

\* The statements that come behind the reading of the pull request, and behind the
\* reading of the qualification.
BehindPull == {"recheck", "post", "posting"}
BehindQualification == BehindPull \cup {"readpr"}

Ready(a) == pull = [head |-> a.head, base |-> a.base, open |-> TRUE, draft |-> FALSE]

\* No invocation under activation a has got to one of the statements, or has posted.
Barred(a, statements) ==
  \A p \in Invocations : act[p] = a => pc[p] \notin statements /\ ~Posted(p)

LEMMA BarredStep ==
  ASSUME Inv, [Next]_vars, NEW a \in Activations,
         NEW S, Barred(a, S),
         \/ S = BehindPull /\ ~Ready(a)
         \/ S = BehindQualification /\ latest[a.head] # a.run
  PROVE  Barred(a, S)'
<1> DEFINE Stays(p) == act'[p] = a => pc'[p] \notin S /\ req'[p]["check"] = "unsent"
           Untouched(q) == pc'[q] = pc[q] /\ req'[q] = req[q] /\ act'[q] = act[q]
<1> USE DEF Barred, Posted, Inv, TypeOK, world, locals, Goto, Step, Calls
<1> {"post", "posting"} \subseteq S /\ S \subseteq BehindQualification
  BY DEF BehindPull, BehindQualification
<1>1. ASSUME NEW p \in Invocations,
             \/ \E h \in Heads : Execute(p, h)
             \/ \E accepted \in BOOLEAN : VerifyInputs(p, accepted)
             \/ \E intact \in BOOLEAN : EnterPublish(p, intact)
             \/ WriteAttempt(p) \/ AttemptWritten(p) \/ MakeJwt(p) \/ PreflightApp(p)
      PROVE  Stays(p) /\ \A q \in Invocations \ {p} : Untouched(q)
  BY <1>1 DEF Execute, VerifyInputs, EnterPublish, WriteAttempt, AttemptWritten, MakeJwt,
     PreflightApp, NothingSent, Early, BehindPull, BehindQualification
<1>2. ASSUME NEW p \in Invocations,
             IssueToken(p) \/ PostCheck(p) \/ RevokeToken(p)
      PROVE  Stays(p) /\ \A q \in Invocations \ {p} : Untouched(q)
  BY <1>2 DEF IssueToken, PostCheck, RevokeToken, Send, BehindPull, BehindQualification
<1>3. ASSUME NEW p \in Invocations,
             \/ \E usable, exact \in BOOLEAN : ReceiveToken(p, usable, exact)
             \/ \E valid, interrupted \in BOOLEAN : ReceiveCheck(p, valid, interrupted)
      PROVE  Stays(p) /\ \A q \in Invocations \ {p} : Untouched(q)
  BY <1>3 DEF ReceiveToken, ReceiveCheck, Deliver, BehindPull, BehindQualification
<1>4. ASSUME NEW p \in Invocations, Qualify(p) \/ ReadPull(p) \/ Recheck(p)
      PROVE  Stays(p) /\ \A q \in Invocations \ {p} : Untouched(q)
  <2>1. ASSUME act[p] = a, PullMatches(a) PROVE Ready(a)
    BY <2>1, PublisherAssumption DEF PublisherAssumption, PullMatches, Ready
  <2>. QED
    BY <1>4, <2>1 DEF Qualify, ReadPull, Recheck, Checked, QualificationHolds,
       MarkAttempted, BehindPull, BehindQualification
<1>5. ASSUME NEW p \in Invocations,
             \/ TryRaises(p) \/ SkipRevocation(p) \/ Revoked(p) \/ RevocationRaises(p)
             \/ WriteOutcome(p) \/ Finish(p) \/ Crash(p)
      PROVE  Stays(p) /\ \A q \in Invocations \ {p} : Untouched(q)
  BY <1>5 DEF TryRaises, SkipRevocation, Revoked, RevocationRaises, WriteOutcome, Finish,
     Crash, BehindPull, BehindQualification
<1>6. ASSUME NEW p \in Invocations, GitHub(p)
      PROVE  Stays(p) /\ \A q \in Invocations \ {p} : Untouched(q)
  BY <1>6 DEF GitHub, GitHubApplies, GitHubRefuses
<1>7. ASSUME HostFails \/ World \/ UNCHANGED vars
      PROVE  Barred(a, S)'
  BY <1>7 DEF HostFails, World, Tick, Rearm, PullChanges, QualificationChanges, vars,
     BehindPull, BehindQualification
<1>8. ASSUME NEW p \in Invocations,
             (\E h \in Heads : Execute(p, h)) \/ Program(p) \/ Crash(p) \/ GitHub(p)
      PROVE  Stays(p) /\ \A q \in Invocations \ {p} : Untouched(q)
  BY <1>1, <1>2, <1>3, <1>4, <1>5, <1>6, <1>8 DEF Program
<1>9. ASSUME NEW p \in Invocations, Stays(p), \A q \in Invocations \ {p} : Untouched(q)
      PROVE  Barred(a, S)'
  BY <1>9
<1>. QED
  BY <1>7, <1>8, <1>9 DEF Next

\* An activation whose pull request is never open, ready and at its head and base, or whose
\* qualification is never the latest one, posts nothing: both are read again under the
\* token, and nothing read before is taken for it.
THEOREM OnlyLiveCandidates == Spec => OnlyLiveCandidatesArePosted
<1>1. ASSUME NEW a \in Activations
      PROVE  Spec /\ []~Ready(a) => [](\A p \in Invocations : Posted(p) => act[p] # a)
  <2>1. Init => Barred(a, BehindPull)
    BY DEF Init, Barred, BehindPull, Posted, Calls
  <2>2. Barred(a, BehindPull) => \A p \in Invocations : Posted(p) => act[p] # a
    BY DEF Barred
  <2>3. Inv /\ [Next]_vars /\ Barred(a, BehindPull) /\ ~Ready(a) => Barred(a, BehindPull)'
    BY BarredStep
  <2>. QED
    BY <2>1, <2>2, <2>3, Invariance, PTL DEF Spec
<1>2. ASSUME NEW a \in Activations
      PROVE  Spec /\ [](latest[a.head] # a.run) =>
               [](\A p \in Invocations : Posted(p) => act[p] # a)
  <2>1. Init => Barred(a, BehindQualification)
    BY DEF Init, Barred, BehindPull, BehindQualification, Posted, Calls
  <2>2. Barred(a, BehindQualification) => \A p \in Invocations : Posted(p) => act[p] # a
    BY DEF Barred
  <2>3. Inv /\ [Next]_vars /\ Barred(a, BehindQualification) /\ latest[a.head] # a.run
          => Barred(a, BehindQualification)'
    BY BarredStep
  <2>. QED
    BY <2>1, <2>2, <2>3, Invariance, PTL DEF Spec
<1>. QED
  BY <1>1, <1>2 DEF OnlyLiveCandidatesArePosted, Ready

-------------------------------------------------------------------------------
(* Getting in, for those who verify the inputs (EndToEnd). *)

\* The inputs of invocation p were accepted, as its statement or its requests show.
Admitted(p) == \/ pc[p] \in Late \cup {"entered", "reserve", "published"}
               \/ \E c \in Calls : req[p][c] # "unsent"

\* No step of an invocation but the verification of its inputs admits it, and none
\* changes the activation of one that is admitted.
LEMMA AdmissionKept ==
  ASSUME Inv, NEW p \in Invocations, NEW q \in Invocations, Admitted(q)',
         \/ \E h \in Heads : Execute(p, h)
         \/ pc[p] # "inputs" /\ Program(p)
         \/ Crash(p) \/ GitHub(p)
  PROVE  Admitted(q) /\ act'[q] = act[q]
<1> DEFINE Untouched(v) == pc'[v] = pc[v] /\ req'[v] = req[v] /\ act'[v] = act[v]
           Kept == /\ Admitted(p)' => Admitted(p) /\ act'[p] = act[p]
                   /\ \A v \in Invocations \ {p} : Untouched(v)
<1>. SUFFICES Kept
  BY DEF Admitted
<1> USE DEF Admitted, Inv, TypeOK, world, locals, Goto, Step, Calls
<1>1. ASSUME NEW h \in Heads, Execute(p, h) PROVE Kept
  BY <1>1 DEF Execute, NothingSent, Early, Late, TryStatements
<1>2. ASSUME \/ \E intact \in BOOLEAN : EnterPublish(p, intact)
             \/ WriteAttempt(p) \/ AttemptWritten(p) \/ MakeJwt(p) \/ PreflightApp(p)
      PROVE  Kept
  BY <1>2 DEF EnterPublish, WriteAttempt, AttemptWritten, MakeJwt, PreflightApp, Late,
     TryStatements
<1>3. CASE IssueToken(p) \/ PostCheck(p) \/ RevokeToken(p)
  BY <1>3 DEF IssueToken, PostCheck, RevokeToken, Send, Late, TryStatements
<1>4. ASSUME \/ \E usable, exact \in BOOLEAN : ReceiveToken(p, usable, exact)
             \/ \E valid, interrupted \in BOOLEAN : ReceiveCheck(p, valid, interrupted)
      PROVE  Kept
  BY <1>4 DEF ReceiveToken, ReceiveCheck, Deliver, Late, TryStatements
<1>5. CASE Qualify(p) \/ ReadPull(p) \/ Recheck(p)
  BY <1>5 DEF Qualify, ReadPull, Recheck, Checked, Late, TryStatements
<1>6. CASE \/ TryRaises(p) \/ SkipRevocation(p) \/ Revoked(p) \/ RevocationRaises(p)
           \/ WriteOutcome(p) \/ Finish(p) \/ Crash(p)
  BY <1>6 DEF TryRaises, Raises, SkipRevocation, Revoked, RevocationRaises, WriteOutcome,
     Finish, Crash, Late, TryStatements
<1>7. CASE GitHub(p)
  BY <1>7 DEF GitHub, GitHubApplies, GitHubRefuses, CallStates
<1>8. ASSUME pc[p] # "inputs", NEW accepted \in BOOLEAN, VerifyInputs(p, accepted) PROVE FALSE
  BY <1>8 DEF VerifyInputs
<1>. HIDE DEF Kept, Admitted, Inv, TypeOK, world, locals, Goto, Step, Calls
<1>. QED
  BY <1>1, <1>2, <1>3, <1>4, <1>5, <1>6, <1>7, <1>8 DEF Program

\* A verification admits its own invocation, and only if it accepts.
LEMMA Admission ==
  ASSUME Inv, NEW p \in Invocations, NEW accepted \in BOOLEAN, VerifyInputs(p, accepted),
         NEW q \in Invocations, Admitted(q)'
  PROVE  act'[q] = act[q] /\ (Admitted(q) \/ (q = p /\ accepted))
  BY DEF VerifyInputs, Admitted, Inv, TypeOK, NothingSent, Early, Late, TryStatements, locals,
     Goto, Step

\* Nor does anything else admit one.
LEMMA NoneAdmitted ==
  ASSUME Inv, NEW q \in Invocations, Admitted(q)', HostFails \/ World \/ UNCHANGED vars
  PROVE  Admitted(q) /\ act'[q] = act[q]
  BY DEF Admitted, Inv, TypeOK, HostFails, World, Tick, Rearm, PullChanges, QualificationChanges,
     vars, world, locals, Late, TryStatements, Running, Ended

-------------------------------------------------------------------------------
(* No invocation loops. *)

\* How many steps of its own an invocation has left, at most: one per statement ahead of
\* it on the longest way to the end, and those of the write it is in.
Ahead == [start |-> 26, inputs |-> 25, entered |-> 24, reserve |-> 18, key |-> 17,
          preflight |-> 16, issue |-> 15, issuing |-> 14, qualify |-> 13, readpr |-> 12,
          recheck |-> 11, post |-> 10, posting |-> 9, finally |-> 8, revoking |-> 7,
          settle |-> 1, published |-> 0, stopped |-> 0, crashed |-> 0]

Left(p) == Ahead[pc[p]] + IF pc[p] \in {"reserve", "settle"} THEN Journal!Left[io[p]] ELSE 0

LEMMA LeftType ==
  ASSUME TypeOK, NEW p \in Invocations
  PROVE  Left(p) \in 0..26
<1>1. Journal!Left[io[p]] \in 0..5
  BY DEF TypeOK, Journal!FilesTypeOK, Journal!WriteSteps, Journal!Left
<1>2. /\ pc[p] \in {"reserve", "settle"} => Ahead[pc[p]] \in 0..18
      /\ Ahead[pc[p]] \in 0..26
  BY DEF TypeOK, Statements, TryStatements, Ended, Ahead
<1>. QED
  BY <1>1, <1>2 DEF Left

\* A step to another statement.
LEMMA MoveCounts ==
  ASSUME TypeOK, NEW p \in Invocations, NEW next \in Statements, pc' = [pc EXCEPT ![p] = next],
         next \in {"reserve", "settle"} => io' = [io EXCEPT ![p] = "probe"],
         next \notin {"reserve", "settle"} => io' = io,
         Ahead[next] + (IF next \in {"reserve", "settle"} THEN 5 ELSE 0) < Ahead[pc[p]]
  PROVE  Left(p)' < Left(p) /\ \A q \in Invocations \ {p} : Left(q)' = Left(q)
<1>1. Ahead[pc[p]] \in Nat /\ Ahead[next] \in Nat /\ Journal!Left["probe"] = 5
      /\ Journal!Left[io[p]] \in Nat
  BY DEF TypeOK, Statements, TryStatements, Ended, Ahead, Journal!FilesTypeOK,
         Journal!WriteSteps, Journal!Left
<1>2. pc'[p] = next /\ \A q \in Invocations \ {p} : pc'[q] = pc[q] /\ io'[q] = io[q]
  BY DEF TypeOK, Journal!FilesTypeOK
<1>3. next \in {"reserve", "settle"} => io'[p] = "probe"
  BY DEF TypeOK, Journal!FilesTypeOK
<1>. QED
  BY <1>1, <1>2, <1>3 DEF Left

LEMMA ProgramCounts ==
  ASSUME TypeOK, NEW p \in Invocations, Program(p)
  PROVE  Left(p)' < Left(p) /\ \A q \in Invocations \ {p} : Left(q)' = Left(q)
<1> DEFINE Moved(next) ==
      /\ pc' = [pc EXCEPT ![p] = next]
      /\ next \in {"reserve", "settle"} => io' = [io EXCEPT ![p] = "probe"]
      /\ next \notin {"reserve", "settle"} => io' = io
      /\ Ahead[next] + (IF next \in {"reserve", "settle"} THEN 5 ELSE 0) < Ahead[pc[p]]
<1>1. ASSUME \/ \E accepted \in BOOLEAN : VerifyInputs(p, accepted)
             \/ \E intact \in BOOLEAN : EnterPublish(p, intact)
             \/ AttemptWritten(p) \/ MakeJwt(p) \/ PreflightApp(p) \/ IssueToken(p)
             \/ \E usable, exact \in BOOLEAN : ReceiveToken(p, usable, exact)
      PROVE  \E next \in Statements : Moved(next)
  BY <1>1 DEF VerifyInputs, EnterPublish, AttemptWritten, MakeJwt, PreflightApp, IssueToken,
     ReceiveToken, Send, Step, Goto, Ahead, Statements, TryStatements, Ended
<1>2. ASSUME \/ Qualify(p) \/ ReadPull(p) \/ Recheck(p) \/ PostCheck(p)
             \/ \E valid, interrupted \in BOOLEAN : ReceiveCheck(p, valid, interrupted)
      PROVE  \E next \in Statements : Moved(next)
  BY <1>2 DEF Qualify, ReadPull, Recheck, Checked, PostCheck, ReceiveCheck, Send, Step, Goto,
     Ahead, Statements, TryStatements, Ended
<1>3. CASE TryRaises(p)
  <2>1. Moved("finally")
    BY <1>3 DEF TryRaises, Raises, Goto, TryStatements, Ahead
  <2>. QED
    BY <2>1, MoveCounts DEF Statements
<1>4. ASSUME \/ SkipRevocation(p) \/ RevokeToken(p) \/ Revoked(p) \/ RevocationRaises(p)
             \/ Finish(p)
      PROVE  \E next \in Statements : Moved(next)
  BY <1>4 DEF SkipRevocation, RevokeToken, Revoked, RevocationRaises, Finish, Send, Step, Goto,
     Ahead, Statements, TryStatements, Ended
<1>5. CASE WriteAttempt(p) \/ WriteOutcome(p)
  <2>1. /\ pc' = pc /\ pc[p] \in {"reserve", "settle"}
        /\ \E n, body : Journal!WriteBound(p, n, body)
    BY <1>5 DEF WriteAttempt, WriteOutcome
  <2>2. /\ Journal!Left[io[p]] \in 0..5 /\ Journal!Left[io'[p]] \in 0..5
        /\ Journal!Left[io'[p]] < Journal!Left[io[p]]
        /\ \A q \in Invocations \ {p} : io'[q] = io[q]
    BY <2>1, Journal!WriteBoundCounts DEF TypeOK
  <2>3. Ahead[pc[p]] \in Nat
    BY <2>1 DEF Ahead
  <2>. QED
    BY <2>1, <2>2, <2>3 DEF Left
<1>. HIDE DEF Moved
<1>6. ASSUME NEW next \in Statements, Moved(next)
      PROVE  Left(p)' < Left(p) /\ \A q \in Invocations \ {p} : Left(q)' = Left(q)
  BY <1>6, MoveCounts DEF Moved
<1>. QED
  BY <1>1, <1>2, <1>3, <1>4, <1>5, <1>6 DEF Program

\* Nothing gives an invocation steps back: not the end that it comes to, nor what others
\* do, GitHub or the host.
LEMMA NothingReturns ==
  ASSUME TypeOK, NEW q \in Invocations,
         \/ \E p \in Invocations : (\E h \in Heads : Execute(p, h)) \/ Crash(p) \/ GitHub(p)
         \/ HostFails \/ World \/ UNCHANGED vars
  PROVE  Left(q)' <= Left(q)
<1>1. Left(q) \in 0..26
  BY LeftType
<1>2. io' = io
  BY DEF Execute, Crash, GitHub, GitHubApplies, GitHubRefuses, HostFails, World, Tick, Rearm,
         PullChanges, QualificationChanges, vars
<1>3. \/ pc'[q] = pc[q]
      \/ pc'[q] \in {"stopped", "crashed"}
      \/ pc[q] = "start" /\ pc'[q] = "inputs"
  BY DEF TypeOK, Execute, Crash, GitHub, GitHubApplies, GitHubRefuses, HostFails, World, Tick,
         Rearm, PullChanges, QualificationChanges, vars, Goto
<1>. QED
  BY <1>1, <1>2, <1>3 DEF Left, Ahead

\* No invocation loops: at most 26 steps of its own are ahead of it, each one that it takes
\* uses one up, and no one gives it back.  With fairness, it ends unless it gets stuck.
StepsAreCounted ==
  [][\A p \in Invocations : /\ Left(p) \in 0..26 /\ Left(p)' <= Left(p)
                            /\ Program(p) => Left(p)' < Left(p)]_vars

THEOREM InvocationsAdvance == Spec => StepsAreCounted
<1>1. TypeOK => \A p \in Invocations : Left(p) \in 0..26
  BY LeftType
<1>2. ASSUME TypeOK, (\A p \in Invocations : Left(p) \in 0..26)', Next
      PROVE  \A p \in Invocations : /\ Left(p) \in 0..26 /\ Left(p)' <= Left(p)
                                    /\ Program(p) => Left(p)' < Left(p)
  <2>1. SUFFICES ASSUME NEW q \in Invocations
                 PROVE  Left(q)' <= Left(q) /\ (Program(q) => Left(q)' < Left(q))
    BY <1>2, LeftType
  <2>2. Left(q) \in 0..26 /\ Left(q)' \in 0..26
    BY <1>2, LeftType
  <2>3. Program(q) => Left(q)' < Left(q)
    BY <1>2, ProgramCounts
  <2>4. ASSUME NEW p \in Invocations, Program(p) PROVE Left(q)' <= Left(q)
    <3>1. CASE p = q
      BY <2>2, <2>3, <2>4, <3>1
    <3>2. CASE p # q
      BY <1>2, <2>2, <2>4, <3>2, ProgramCounts
    <3>. QED
      BY <3>1, <3>2
  <2>. QED
    BY <1>2, <2>3, <2>4, NothingReturns DEF Next
<1>. QED
  BY <1>1, <1>2, TypeCorrect, PTL DEF Spec, StepsAreCounted

===============================================================================
