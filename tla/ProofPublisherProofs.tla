-------------------------- MODULE ProofPublisherProofs --------------------------
(***************************************************************************)
(* Proofs about ProofPublisher, for any number of invocations, permits and  *)
(* configurations: what it posts and what it leaves behind is decided by an *)
(* invocation's own statements, whatever GitHub and the operator do.        *)
(***************************************************************************)
EXTENDS ProofPublisher, TLAPS

\* Invocation p passed every gate with what it holds.
Passed(p) == /\ config[p] \in Configs /\ permit[p] \in Permits /\ Loads(config[p])
             /\ PermitLoads(permit[p], config[p]) /\ Bound(config[p], permit[p])

\* What a statement finds in the locals,
LocalsHold(p) ==
  /\ pc[p] = "load" => config[p] \in Configs /\ Loads(config[p])
  /\ pc[p] = "gates" => /\ config[p] \in Configs /\ permit[p] \in Permits /\ Loads(config[p])
                        /\ PermitLoads(permit[p], config[p])
  /\ pc[p] \in (Preparing \ {"load", "gates"}) \cup UnderToken \cup {"again"} => Passed(p)
  /\ Posted(p) => Passed(p)

\* and in what became of its requests.
Unsent(p, calls) == \A c \in calls : req[p][c] = "unsent"

RequestsHold(p) ==
  /\ pc[p] \in {"start"} \cup Preparing => Unsent(p, {"check", "revoke", "again"})
  /\ pc[p] \in {"start"} \cup (Preparing \ {"issuing"}) => Unsent(p, {"token"})
  /\ pc[p] = "issuing" => req[p]["token"] # "delivered"
  /\ pc[p] \in UnderToken => Unsent(p, {"again"})
  /\ pc[p] \in {"readpr", "post"} => Unsent(p, {"check", "revoke"})
  /\ pc[p] \in {"posting", "revoke"} => Unsent(p, {"revoke"})
  /\ pc[p] \in {"revoke", "revoking"} => req[p]["check"] = "delivered"
  /\ pc[p] = "revoking" => ~Unsent(p, {"revoke"})
  /\ pc[p] = "again" => Unsent(p, {"again"})
  /\ pc[p] = "retrying" => ~Unsent(p, {"again"})
  /\ pc[p] = "published" => req[p]["check"] = "delivered" /\ req[p]["revoke"] = "applied"
  /\ pc[p] = "stopped" => ~Unsent(p, {"again"}) \/ req[p]["token"] # "delivered"

InvocationHolds(p) == LocalsHold(p) /\ RequestsHold(p)

Inv == TypeOK /\ \A p \in Invocations : InvocationHolds(p)

LEMMA InitInv == Init => Inv
  BY DEF Init, Inv, TypeOK, InvocationHolds, LocalsHold, RequestsHold, Unsent, Posted,
     Calls, CallStates, Statements, Preparing, UnderToken, Ended

-------------------------------------------------------------------------------
(* An invocation minds its own locals and requests. *)

\* What belongs to invocation q is as before.
Same(q) == pc'[q] = pc[q] /\ req'[q] = req[q] /\ config'[q] = config[q] /\ permit'[q] = permit[q]

LEMMA OthersHold ==
  ASSUME NEW q \in Invocations, InvocationHolds(q), Same(q)
  PROVE  InvocationHolds(q)'
  BY DEF Same, InvocationHolds, LocalsHold, RequestsHold, Passed, Posted, Unsent

\* Statements that send nothing.
LEMMA QuietMove ==
  ASSUME Inv, NEW p \in Invocations,
         \/ LoadConfig(p)
         \/ \E x \in Permits, h \in Heads : LoadPermit(p, x, h)
         \/ PassGates(p)
         \/ \E ok \in BOOLEAN : VerifyExport(p, ok) \/ MakeJwt(p, ok) \/ PreflightApp(p, ok)
         \/ ReadPull(p)
         \/ Revoked(p)
         \/ Raises(p)
         \/ RaisesUnderToken(p)
         \/ Finish(p)
         \/ Kill(p)
  PROVE  TypeOK' /\ InvocationHolds(p)' /\ \A q \in Invocations \ {p} : Same(q)
<1> USE DEF Inv, TypeOK, InvocationHolds, LocalsHold, RequestsHold, Same, Step, Check, Goto,
        Statements, Preparing, UnderToken, Ended, world, locals, Posted, Unsent
<1>1. CASE LoadConfig(p)
  BY <1>1 DEF LoadConfig
<1>2. ASSUME NEW x \in Permits, NEW h \in Heads, LoadPermit(p, x, h)
      PROVE  TypeOK' /\ InvocationHolds(p)' /\ \A q \in Invocations \ {p} : Same(q)
  BY <1>2 DEF LoadPermit, PermitLoads
<1>3. CASE PassGates(p)
  BY <1>3 DEF PassGates, Passed
<1>4. ASSUME NEW ok \in BOOLEAN, VerifyExport(p, ok) \/ MakeJwt(p, ok) \/ PreflightApp(p, ok)
      PROVE  TypeOK' /\ InvocationHolds(p)' /\ \A q \in Invocations \ {p} : Same(q)
  BY <1>4 DEF VerifyExport, MakeJwt, PreflightApp, Passed
<1>5. CASE ReadPull(p)
  BY <1>5 DEF ReadPull, Passed
<1>6. CASE Revoked(p)
  BY <1>6 DEF Revoked, Proven, Passed
<1>7. CASE Raises(p)
  BY <1>7 DEF Raises, Passed
<1>8. CASE RaisesUnderToken(p)
  BY <1>8 DEF RaisesUnderToken, Cleanup, Passed
<1>9. CASE Finish(p)
  BY <1>9 DEF Finish, Passed
<1>10. CASE Kill(p)
  BY <1>10 DEF Kill, Passed
<1>. QED
  BY <1>1, <1>2, <1>3, <1>4, <1>5, <1>6, <1>7, <1>8, <1>9, <1>10

\* Requests that leave, and answers that arrive.
LEMMA RequestMove ==
  ASSUME Inv, NEW p \in Invocations,
         \/ IssueToken(p)
         \/ \E exact \in BOOLEAN : ReceiveToken(p, exact)
         \/ PostCheck(p)
         \/ \E valid \in BOOLEAN : ReceiveCheck(p, valid)
         \/ RevokeToken(p)
         \/ RevokeAgain(p)
         \/ \E c \in Calls : GitHubApplies(p, c) \/ GitHubRefuses(p, c)
  PROVE  TypeOK' /\ InvocationHolds(p)' /\ \A q \in Invocations \ {p} : Same(q)
<1> USE DEF Inv, TypeOK, InvocationHolds, LocalsHold, RequestsHold, Same, Step, Goto, Send,
        Statements, Preparing, UnderToken, Ended, world, locals, Posted, Unsent, Passed,
        Calls, CallStates
<1>1. CASE IssueToken(p)
  BY <1>1 DEF IssueToken
<1>2. ASSUME NEW exact \in BOOLEAN, ReceiveToken(p, exact)
      PROVE  TypeOK' /\ InvocationHolds(p)' /\ \A q \in Invocations \ {p} : Same(q)
  BY <1>2 DEF ReceiveToken
<1>3. CASE PostCheck(p)
  BY <1>3 DEF PostCheck
<1>4. ASSUME NEW valid \in BOOLEAN, ReceiveCheck(p, valid)
      PROVE  TypeOK' /\ InvocationHolds(p)' /\ \A q \in Invocations \ {p} : Same(q)
  BY <1>4 DEF ReceiveCheck
<1>5. CASE RevokeToken(p)
  BY <1>5 DEF RevokeToken
<1>6. CASE RevokeAgain(p)
  BY <1>6 DEF RevokeAgain
<1>7. ASSUME NEW c \in Calls, GitHubApplies(p, c) \/ GitHubRefuses(p, c)
      PROVE  TypeOK' /\ InvocationHolds(p)' /\ \A q \in Invocations \ {p} : Same(q)
  <2>1. UNCHANGED <<world, pc, locals>>
    BY <1>7 DEF GitHubApplies, GitHubRefuses
  <2>2. /\ req' \in [Invocations -> [Calls -> CallStates]]
        /\ \A q \in Invocations \ {p} : req'[q] = req[q]
    BY <1>7 DEF GitHubApplies, GitHubRefuses
  <2>3. \A d \in Calls : \/ req'[p][d] = req[p][d]
                         \/ req[p][d] = "sent" /\ req'[p][d] \in {"applied", "refused"}
    BY <1>7 DEF GitHubApplies, GitHubRefuses
  <2>4. TypeOK' /\ \A q \in Invocations \ {p} : Same(q)
    BY <2>1, <2>2
  <2>5. LocalsHold(p)'
    BY <2>1, <2>3
  <2>6. RequestsHold(p)'
    BY <2>1, <2>3
  <2>. QED
    BY <2>4, <2>5, <2>6
<1>. QED
  BY <1>1, <1>2, <1>3, <1>4, <1>5, <1>6, <1>7

LEMMA NextInv == Inv /\ [Next]_vars => Inv'
<1>1. ASSUME Inv, NEW p \in Invocations,
             TypeOK' /\ InvocationHolds(p)' /\ \A q \in Invocations \ {p} : Same(q)
      PROVE  Inv'
  <2>1. \A q \in Invocations \ {p} : InvocationHolds(q)'
    BY <1>1, OthersHold DEF Inv
  <2>. QED
    BY <1>1, <2>1 DEF Inv
<1>2. ASSUME Inv, World \/ UNCHANGED vars PROVE Inv'
  <2>1. TypeOK'
    BY <1>2 DEF Inv, TypeOK, World, Export, PullChanges, vars, world, locals
  <2>2. \A q \in Invocations : Same(q)
    BY <1>2 DEF World, Export, PullChanges, Same, vars, world, locals
  <2>. QED
    BY <1>2, <2>1, <2>2, OthersHold DEF Inv
<1>. QED
  BY <1>1, <1>2, QuietMove, RequestMove DEF Next, Program

LEMMA Invariance == Spec => []Inv
  BY InitInv, NextInv, PTL DEF Spec

-------------------------------------------------------------------------------
(* Theorems. *)

\* Whatever configurations and permits an operator supplies, the locals and the requests of
\* an invocation keep their shapes.
THEOREM ProofTypes == Spec => []TypeOK
  BY Invariance, PTL DEF Inv

\* Invocation p, if it may still post or did, does not work from a configuration that
\* promotes x.
Unpromoted(p, x) ==
  pc[p] \in Preparing \cup {"readpr", "post"} \/ Posted(p) => ~Promotes(config[p], x)

LEMMA UnpromotedStep ==
  ASSUME Inv, [Next]_vars, NEW p \in Invocations, NEW x \in Permits, Unpromoted(p, x),
         pc[p] = "start" => ~Promotes(exported, x)
  PROVE  Unpromoted(p, x)'
<1> USE DEF Unpromoted, Posted, world, locals, Step, Goto, Check
<1> DEFINE Keeps == /\ config'[p] = config[p]
                    /\ pc'[p] \in Preparing \cup {"readpr", "post"} =>
                         pc[p] \in Preparing \cup {"readpr", "post"}
                    /\ Posted(p)' => Posted(p) \/ pc[p] = "post"
<1>1. ASSUME Program(p), ~LoadConfig(p) PROVE Keeps
  <2> USE DEF Inv, TypeOK, Calls, Preparing
  <2>1. CASE \E y \in Permits, h \in Heads : LoadPermit(p, y, h)
    BY <2>1 DEF LoadPermit
  <2>2. CASE \/ PassGates(p)
             \/ \E ok \in BOOLEAN : VerifyExport(p, ok) \/ MakeJwt(p, ok) \/ PreflightApp(p, ok)
    BY <2>2 DEF PassGates, VerifyExport, MakeJwt, PreflightApp
  <2>3. CASE IssueToken(p) \/ PostCheck(p) \/ RevokeToken(p) \/ RevokeAgain(p)
    BY <2>3 DEF IssueToken, PostCheck, RevokeToken, RevokeAgain, Send
  <2>4. CASE \E ok \in BOOLEAN : ReceiveToken(p, ok) \/ ReceiveCheck(p, ok)
    BY <2>4 DEF ReceiveToken, ReceiveCheck
  <2>5. CASE ReadPull(p) \/ Revoked(p) \/ Raises(p) \/ RaisesUnderToken(p) \/ Finish(p)
    BY <2>5 DEF ReadPull, Revoked, Raises, RaisesUnderToken, Finish, Cleanup
  <2>. QED
    BY <1>1, <2>1, <2>2, <2>3, <2>4, <2>5 DEF Program
<1>2. ASSUME LoadConfig(p) PROVE config'[p] = exported /\ ~Promotes(exported, x)
  BY <1>2 DEF LoadConfig, Inv, TypeOK
<1>3. ASSUME Kill(p) \/ \E c \in Calls : GitHubApplies(p, c) \/ GitHubRefuses(p, c)
      PROVE  Keeps
  BY <1>3 DEF Kill, GitHubApplies, GitHubRefuses, Inv, TypeOK, Calls, Preparing
<1>4. ASSUME Keeps \/ (config'[p] = exported /\ ~Promotes(exported, x)) PROVE Unpromoted(p, x)'
  BY <1>4 DEF Promotes
<1>5. ASSUME NEW q \in Invocations \ {p},
             Program(q) \/ Kill(q) \/ \E c \in Calls : GitHubApplies(q, c) \/ GitHubRefuses(q, c)
      PROVE  Unpromoted(p, x)'
  <2>1. Same(p)
    BY <1>5, QuietMove, RequestMove DEF Program
  <2>. QED
    BY <2>1 DEF Same, Promotes
<1>6. CASE World \/ UNCHANGED vars
  BY <1>6 DEF World, Export, PullChanges, vars, Promotes
<1>. QED
  BY <1>1, <1>2, <1>3, <1>4, <1>5, <1>6 DEF Next

\* What an invocation posts is an evidenced PASS that the configuration it loaded names by
\* digest, head and source; and it loaded what was in the export before it had begun.  So
\* no permit is posted that the export did not promote by then, whatever it is rearmed with.
THEOREM OnlyPromotedPermits == Spec => OnlyPromotedPermitsArePosted
<1>1. ASSUME Inv, NEW p \in Invocations, Posted(p)
      PROVE  Promotes(config[p], permit[p]) /\ Earned(permit[p])
  BY <1>1 DEF Inv, InvocationHolds, LocalsHold, Passed, PermitLoads, Bound, Promotes, Earned
<1>2. ASSUME NEW p \in Invocations, NEW x \in Permits
      PROVE  Spec /\ ([](pc[p] = "start" => ~Promotes(exported, x)) \/ ~Earned(x))
               => [](Posted(p) => permit[p] # x)
  <2>1. Init => Unpromoted(p, x)
    BY DEF Init, Unpromoted, Posted, Calls, Preparing
  <2>2. /\ Inv /\ [Next]_vars /\ Unpromoted(p, x)
        /\ pc[p] = "start" => ~Promotes(exported, x)
        => Unpromoted(p, x)'
    BY UnpromotedStep
  <2>3. Inv /\ Unpromoted(p, x) => (Posted(p) => permit[p] # x)
    BY <1>1 DEF Unpromoted
  <2>4. CASE Earned(x)
    BY <2>1, <2>2, <2>3, <2>4, Invariance, PTL DEF Spec
  <2>5. CASE ~Earned(x)
    <3>1. Inv => (Posted(p) => permit[p] # x)
      BY <1>1, <2>5
    <3>. QED
      BY <3>1, Invariance, PTL
  <2>. QED
    BY <2>4, <2>5
<1>. QED
  BY <1>2 DEF OnlyPromotedPermitsArePosted

\* A report of success means a check that was answered and a token that is dead, however
\* late GitHub applies what it was sent.
THEOREM ReportsAreProven == Spec => []ReportIsProven
<1>1. Inv => ReportIsProven
  BY DEF Inv, InvocationHolds, RequestsHold, ReportIsProven, TokenLive
<1>. QED
  BY <1>1, Invariance, PTL

\* No invocation that ends by itself forgets a token that publish held.
THEOREM TokensGoBack == Spec => []HeldTokensAreReturned
<1>1. Inv => HeldTokensAreReturned
  BY DEF Inv, InvocationHolds, RequestsHold, Unsent, HeldTokensAreReturned, LeftAlone
<1>. QED
  BY <1>1, Invariance, PTL

\* No invocation that holds permit x has got as far as the POST.
Unposted(x) == \A p \in Invocations :
                 permit[p] = x => pc[p] \notin {"post", "posting"} /\ ~Posted(p)

LEMMA UnpostedStep ==
  ASSUME Inv, [Next]_vars, NEW x \in Permits, Unposted(x),
         ~(pull.open /\ pull.head = x.head /\ pull.base = x.base)
  PROVE  Unposted(x)'
<1> USE DEF Unposted, Posted, world, locals, Step, Goto, Check
<1>1. ASSUME NEW p \in Invocations,
             Program(p) \/ Kill(p) \/ \E c \in Calls : GitHubApplies(p, c) \/ GitHubRefuses(p, c)
      PROVE  \A q \in Invocations \ {p} : Same(q)
  BY <1>1, QuietMove, RequestMove DEF Program
<1>2. ASSUME NEW p \in Invocations, Program(p)
      PROVE  permit'[p] = x => pc'[p] \notin {"post", "posting"} /\ req'[p]["check"] = "unsent"
  <2> USE DEF Inv, TypeOK, Calls
  <2>1. ASSUME NEW y \in Permits, NEW h \in Heads, LoadPermit(p, y, h)
        PROVE  pc'[p] \notin {"post", "posting"} /\ req'[p]["check"] = "unsent"
    BY <2>1 DEF LoadPermit, InvocationHolds, RequestsHold, Unsent, Preparing
  <2>2. CASE ReadPull(p)
    BY <2>2 DEF ReadPull, PullMatches
  <2>3. CASE LoadConfig(p)
    BY <2>3 DEF LoadConfig
  <2>4. CASE \/ PassGates(p)
             \/ \E ok \in BOOLEAN : VerifyExport(p, ok) \/ MakeJwt(p, ok) \/ PreflightApp(p, ok)
    BY <2>4 DEF PassGates, VerifyExport, MakeJwt, PreflightApp
  <2>5. CASE IssueToken(p) \/ PostCheck(p) \/ RevokeToken(p) \/ RevokeAgain(p)
    BY <2>5 DEF IssueToken, PostCheck, RevokeToken, RevokeAgain, Send
  <2>6. CASE \E ok \in BOOLEAN : ReceiveToken(p, ok) \/ ReceiveCheck(p, ok)
    BY <2>6 DEF ReceiveToken, ReceiveCheck
  <2>7. CASE Revoked(p) \/ Raises(p) \/ RaisesUnderToken(p) \/ Finish(p)
    BY <2>7 DEF Revoked, Raises, RaisesUnderToken, Finish, Cleanup
  <2>. QED
    BY <1>2, <2>1, <2>2, <2>3, <2>4, <2>5, <2>6, <2>7 DEF Program
<1>3. ASSUME NEW p \in Invocations,
             Kill(p) \/ \E c \in Calls : GitHubApplies(p, c) \/ GitHubRefuses(p, c)
      PROVE  permit'[p] = x => pc'[p] \notin {"post", "posting"} /\ req'[p]["check"] = "unsent"
  BY <1>3 DEF Kill, GitHubApplies, GitHubRefuses, Inv, TypeOK, Calls
<1>4. CASE World \/ UNCHANGED vars
  BY <1>4 DEF World, Export, PullChanges, vars
<1>. QED
  BY <1>1, <1>2, <1>3, <1>4 DEF Next, Same

\* A permit whose pull request is never open at its head and base is never posted: each
\* invocation reads the pull request under its token, and what it holds stays the same.
THEOREM OnlyOpenCandidates == Spec => OnlyOpenCandidatesArePosted
<1>1. ASSUME NEW x \in Permits
      PROVE  Spec /\ []~(pull.open /\ pull.head = x.head /\ pull.base = x.base)
               => [](\A p \in Invocations : Posted(p) => permit[p] # x)
  <2>1. Init => Unposted(x)
    BY DEF Init, Unposted, Posted, Calls
  <2>2. Unposted(x) => \A p \in Invocations : Posted(p) => permit[p] # x
    BY DEF Unposted
  <2>3. Inv /\ [Next]_vars /\ Unposted(x)
          /\ ~(pull.open /\ pull.head = x.head /\ pull.base = x.base) => Unposted(x)'
    BY UnpostedStep
  <2>. QED
    BY <2>1, <2>2, <2>3, Invariance, PTL DEF Spec
<1>. QED
  BY <1>1 DEF OnlyOpenCandidatesArePosted

-------------------------------------------------------------------------------
(* No invocation loops. *)

\* How many statements an invocation has ahead of it, on the longest way to the end.
Ahead == [start |-> 15, load |-> 14, gates |-> 13, export |-> 12, key |-> 11, preflight |-> 10,
          issue |-> 9, issuing |-> 8, readpr |-> 7, post |-> 6, posting |-> 5, revoke |-> 4,
          revoking |-> 3, again |-> 2, retrying |-> 1,
          published |-> 0, stopped |-> 0, killed |-> 0]

\* No invocation loops: at most 15 steps of its own are ahead of it, the cleanup included,
\* each one that it takes uses one up, and no one gives it back.  With fairness, it ends
\* unless it gets stuck.
StepsAreCounted ==
  [][\A p \in Invocations : /\ Ahead[pc[p]] \in 0..15
                            /\ Ahead[pc'[p]] <= Ahead[pc[p]]
                            /\ Program(p) => Ahead[pc'[p]] < Ahead[pc[p]]]_vars

THEOREM InvocationsAdvance == Spec => StepsAreCounted
<1>1. ASSUME TypeOK, NEW p \in Invocations
      PROVE  Ahead[pc[p]] \in 0..15
  BY <1>1 DEF TypeOK, Statements, Preparing, UnderToken, Ended, Ahead
<1>2. ASSUME TypeOK, NEW p \in Invocations, Program(p)
      PROVE  /\ Ahead[pc'[p]] \in 0..15 /\ Ahead[pc'[p]] < Ahead[pc[p]]
             /\ \A q \in Invocations \ {p} : pc'[q] = pc[q]
  <2>1. \E next : /\ pc' = [pc EXCEPT ![p] = next]
                 /\ Ahead[next] \in 0..15 /\ Ahead[next] < Ahead[pc[p]]
    <3>1. CASE \/ LoadConfig(p) \/ PassGates(p) \/ IssueToken(p) \/ ReadPull(p) \/ PostCheck(p)
               \/ \E x \in Permits, h \in Heads : LoadPermit(p, x, h)
               \/ \E ok \in BOOLEAN : VerifyExport(p, ok) \/ MakeJwt(p, ok) \/ PreflightApp(p, ok)
      BY <3>1 DEF LoadConfig, PassGates, IssueToken, ReadPull, PostCheck, LoadPermit,
         VerifyExport, MakeJwt, PreflightApp, Send, Check, Step, Goto, Ahead
    <3>2. CASE \/ RevokeToken(p) \/ Revoked(p) \/ RevokeAgain(p) \/ Finish(p)
               \/ \E exact \in BOOLEAN : ReceiveToken(p, exact)
               \/ \E valid \in BOOLEAN : ReceiveCheck(p, valid)
      BY <3>2 DEF RevokeToken, Revoked, RevokeAgain, Finish, ReceiveToken, ReceiveCheck, Send,
         Step, Goto, Ahead
    <3>3. CASE Raises(p) \/ RaisesUnderToken(p)
      BY <3>3 DEF Raises, RaisesUnderToken, Cleanup, Preparing, UnderToken, Goto, Ahead
    <3>. QED
      BY <1>2, <3>1, <3>2, <3>3 DEF Program
  <2>. QED
    BY <1>2, <2>1 DEF TypeOK
<1>3. ASSUME TypeOK, Next, NEW q \in Invocations, ~Program(q)
      PROVE  Ahead[pc'[q]] <= Ahead[pc[q]]
  <2>1. Ahead[pc[q]] \in 0..15 /\ Ahead["killed"] = 0
    BY <1>1, <1>3 DEF Ahead
  <2>2. pc'[q] = pc[q] \/ pc'[q] = "killed"
    <3>1. ASSUME NEW p \in Invocations, Program(p) PROVE pc'[q] = pc[q]
      BY <1>2, <1>3, <3>1
    <3>2. ASSUME World \/ \E p \in Invocations : \/ Kill(p)
                                                 \/ \E c \in Calls : \/ GitHubApplies(p, c)
                                                                     \/ GitHubRefuses(p, c)
          PROVE  pc'[q] = pc[q] \/ pc'[q] = "killed"
      BY <1>3, <3>2 DEF TypeOK, World, Export, PullChanges, Kill, Goto, GitHubApplies,
         GitHubRefuses
    <3>. QED
      BY <1>3, <3>1, <3>2 DEF Next
  <2>. QED
    BY <2>1, <2>2
<1>4. TypeOK /\ Next => \A p \in Invocations : /\ Ahead[pc[p]] \in 0..15
                                               /\ Ahead[pc'[p]] <= Ahead[pc[p]]
                                               /\ Program(p) => Ahead[pc'[p]] < Ahead[pc[p]]
  <2>1. SUFFICES ASSUME TypeOK, Next, NEW p \in Invocations, Program(p)
                 PROVE  Ahead[pc'[p]] <= Ahead[pc[p]]
    BY <1>1, <1>2, <1>3
  <2>. QED
    BY <2>1, <1>1, <1>2
<1>. QED
  BY <1>4, ProofTypes, PTL DEF Spec, StepsAreCounted

===============================================================================
