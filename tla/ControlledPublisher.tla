-------------------------- MODULE ControlledPublisher --------------------------
(***************************************************************************)
(* The controlled publisher (controlled_publisher.py): invocations of the  *)
(* program run from designated exports, reserve a candidate in the export's *)
(* publication-state directory, take a GitHub App token, re-read the        *)
(* qualification and the pull request, POST one success check, revoke the   *)
(* token and write the outcome.                                             *)
(*                                                                         *)
(* Several invocations may run at once; each may crash, be interrupted or   *)
(* lose power at any step.  A request that was sent may be applied by       *)
(* GitHub now, later, after the client gave up, or never.                   *)
(***************************************************************************)
EXTENDS Integers, FiniteSets

CONSTANTS
  Invocations,  \* runs of the program
  Exports,      \* designated exports, each with its own state directory
  ExportOf,     \* the export an invocation was started from
  Heads,        \* head commits of the pull request
  Bases,        \* commits of main
  Runs,         \* ids of Governance Qualification check runs
  Activations,  \* reviewed activations: [head, base, run, opens, closes]
  Disabled,     \* governance/controlled-publication.json with state disabled
  PullStates,   \* states the pull request goes through
  MaxTime       \* bound on the clock

ASSUME PublisherAssumption ==
  /\ ExportOf \in [Invocations -> Exports]
  /\ Activations \subseteq [head: Heads, base: Bases, run: Runs,
                            opens: Nat, closes: Nat]
  /\ Disabled \notin Activations
  /\ PullStates \subseteq [head: Heads, base: Bases, open: BOOLEAN, draft: BOOLEAN]
  /\ MaxTime \in Nat

VARIABLES
  files, io,    \* the state directories, see BoundFiles
  armed,        \* the configuration each export carries
  now,          \* UTC
  pull,         \* GitHub: the pull request
  latest,       \* GitHub: latest successful qualification run of a head, or "none"
  req,          \* GitHub: what became of each mutation an invocation sent
  pc,           \* the statement an invocation is about to execute
  act,          \* local a: the activation it loaded
  token,        \* local token is a usable string
  attempted,    \* local attempted
  known,        \* local check_id is not None
  revoked,      \* local revoked
  failed        \* local failure is not None

locals == <<act, token, attempted, known, revoked, failed>>
world  == <<armed, now, pull, latest>>
vars   == <<files, io, world, req, pc, locals>>

-------------------------------------------------------------------------------
Statuses == {"published", "published_cleanup_failed",
             "publication_uncertain", "blocked_before_check_post"}

\* The two journal records of a candidate.
Attempts == [kind: {"attempt"}, activation: Activations]
Outcomes == [kind: {"outcome"}, activation: Activations, status: Statuses,
             attempted: BOOLEAN, check: BOOLEAN, revoked: BOOLEAN]

Names == [kind: {"attempt", "outcome"}, export: Exports, head: Heads]

Journal == INSTANCE BoundFiles
             WITH Names <- Names, Writers <- Invocations,
                  Bodies <- Attempts \cup Outcomes

\* key = digest({repository, pull_request, head_sha}) under the export's
\* publication-state directory: neither the base nor the activation is in it.
NameOf(p, kind) == [kind |-> kind, export |-> ExportOf[p], head |-> act[p].head]

Calls == {"token", "check", "revoke"}
\* "delivered": applied, and the answer reached the client in usable form.
CallStates == {"unsent", "sent", "applied", "delivered", "refused"}

\* Statements inside the try block, before and after the reservation, and ends.
TryStatements == {"key", "preflight", "issue", "issuing", "qualify", "readpr",
                  "recheck", "post", "posting"}
Ended == {"published", "stopped", "crashed"}
Statements == {"start", "inputs", "entered", "reserve", "finally", "revoking", "settle"}
                \cup TryStatements \cup Ended
Running(p) == pc[p] \notin Ended \cup {"start"}

TypeOK ==
  /\ Journal!FilesTypeOK
  /\ armed \in [Exports -> Activations \cup {Disabled}]
  /\ now \in 0..MaxTime
  /\ pull \in PullStates
  /\ latest \in [Heads -> Runs \cup {"none"}]
  /\ req \in [Invocations -> [Calls -> CallStates]]
  /\ pc \in [Invocations -> Statements]
  /\ act \in [Invocations -> Activations \cup {Disabled}]
  /\ token \in [Invocations -> BOOLEAN]
  /\ attempted \in [Invocations -> BOOLEAN]
  /\ known \in [Invocations -> BOOLEAN]
  /\ revoked \in [Invocations -> BOOLEAN]
  /\ failed \in [Invocations -> BOOLEAN]

Init ==
  /\ Journal!FilesInit
  /\ armed \in [Exports -> Activations \cup {Disabled}]
  /\ now = 0
  /\ pull \in PullStates
  /\ latest \in [Heads -> Runs \cup {"none"}]
  /\ req = [p \in Invocations |-> [c \in Calls |-> "unsent"]]
  /\ pc = [p \in Invocations |-> "start"]
  /\ act = [p \in Invocations |-> Disabled]
  /\ token = [p \in Invocations |-> FALSE]
  /\ attempted = [p \in Invocations |-> FALSE]
  /\ known = [p \in Invocations |-> FALSE]
  /\ revoked = [p \in Invocations |-> FALSE]
  /\ failed = [p \in Invocations |-> FALSE]

-------------------------------------------------------------------------------
Goto(p, next) == pc' = [pc EXCEPT ![p] = next]
Step(p, here, next) == pc[p] = here /\ Goto(p, next)
Set(flag, p) == flag' = [flag EXCEPT ![p] = TRUE]

\* _fresh(a): not_before <= now < expires_at.
Fresh(a) == a.opens <= now /\ now < a.closes

\* execute(write=True): the export's configuration is loaded, and the operator confirms
\* its head.
Execute(p, confirmed) ==
  LET a == armed[ExportOf[p]] IN
  /\ pc[p] = "start"
  /\ IF a # Disabled /\ confirmed = a.head /\ Fresh(a)
     THEN Goto(p, "inputs") /\ act' = [act EXCEPT ![p] = a]
     ELSE Goto(p, "stopped") /\ UNCHANGED act
  /\ UNCHANGED <<files, io, world, req, token, attempted, known, revoked, failed>>

\* The operator's permit, evidence and receipt are accepted: a bundle that holds, of the
\* candidate and the digests of the loaded activation.  EndToEnd says which are.
VerifyInputs(p, accepted) ==
  /\ Step(p, "inputs", IF accepted THEN "entered" ELSE "stopped")
  /\ UNCHANGED <<files, io, world, req, locals>>

\* Only an outcome on file keeps another invocation out.
EnterPublish_Unreserved(p, intact) ==
  /\ pc[p] = "entered"
  /\ Goto(p, IF intact /\ Fresh(act[p]) /\ ~Journal!Exists(NameOf(p, "outcome"))
             THEN "key" ELSE "stopped")
  /\ UNCHANGED <<files, io, world, req, locals>>

\* _publish up to the reservation: _fresh, verify_export and the directory
\* checks (intact), and no outcome on file.
EnterPublish(p, intact) ==
  /\ pc[p] = "entered"
  /\ IF intact /\ Fresh(act[p]) /\ ~Journal!Exists(NameOf(p, "outcome"))
     THEN Goto(p, "reserve") /\ io' = [io EXCEPT ![p] = "probe"]
     ELSE Goto(p, "stopped") /\ UNCHANGED io
  /\ UNCHANGED <<files, world, req, locals>>

\* _write_bound(attempt_path, attempt), statement by statement.
WriteAttempt(p) ==
  /\ pc[p] = "reserve"
  /\ Journal!WriteBound(p, NameOf(p, "attempt"),
                        [kind |-> "attempt", activation |-> act[p]])
  /\ UNCHANGED <<world, req, pc, locals>>

\* It returned, or raised: then nothing else is done.
AttemptWritten(p) ==
  /\ \/ io[p] = "written" /\ Step(p, "reserve", "key")
     \/ io[p] = "failed" /\ Step(p, "reserve", "stopped")
  /\ UNCHANGED <<files, io, world, req, locals>>

MakeJwt(p) ==
  /\ Step(p, "key", "preflight")
  /\ UNCHANGED <<files, io, world, req, locals>>

PreflightApp(p) ==
  /\ Step(p, "preflight", "issue")
  /\ UNCHANGED <<files, io, world, req, locals>>

\* The client puts call c on the wire.
Send(p, c, here, next) ==
  /\ Step(p, here, next)
  /\ req' = [req EXCEPT ![p][c] = "sent"]
  /\ UNCHANGED <<files, io, world, locals>>

IssueToken(p) == Send(p, "token", "issue", "issuing")

\* A usable answer to call c reaches the client.
Deliver(p, c) == req' = [req EXCEPT ![p][c] = "delivered"]

\* The token is kept only when its permissions are exact.
TokenKept_IfExact(usable, exact) == usable /\ exact

\* token = issued.get("token") precedes both requirements on it.
TokenKept(usable, exact) == usable

\* The answer to POST access_tokens: a token that is usable or not, with the
\* exact permissions or not.
ReceiveToken(p, usable, exact) ==
  /\ req[p]["token"] = "applied"
  /\ IF usable THEN Deliver(p, "token") ELSE UNCHANGED req
  /\ token' = [token EXCEPT ![p] = TokenKept(usable, exact)]
  /\ IF usable /\ exact
     THEN Step(p, "issuing", "qualify") /\ UNCHANGED failed
     ELSE Step(p, "issuing", "finally") /\ Set(failed, p)
  /\ UNCHANGED <<files, io, world, act, attempted, known, revoked>>

\* _qualification: the latest successful run of the head is the evidenced one.
QualificationHolds(a) == latest[a.head] = a.run

\* verify_candidate_pr without the base commit.
PullMatches_AnyBase(a) == /\ pull.open
                          /\ ~pull.draft
                          /\ pull.head = a.head

\* draft is False and verify_candidate_pr.
PullMatches(a) == /\ pull.open
                  /\ ~pull.draft
                  /\ pull.head = a.head
                  /\ pull.base = a.base

\* A statement that must find something to hold, or raises.
Checked(p, holds, here, next) ==
  /\ pc[p] = here
  /\ IF holds THEN Goto(p, next) /\ UNCHANGED failed
              ELSE Goto(p, "finally") /\ Set(failed, p)
  /\ UNCHANGED <<files, io, world, req, act, token, known, revoked>>

Qualify(p) ==
  /\ Checked(p, QualificationHolds(act[p]), "qualify", "readpr")
  /\ UNCHANGED attempted

ReadPull(p) ==
  /\ Checked(p, PullMatches(act[p]), "readpr", "recheck")
  /\ UNCHANGED attempted

\* attempted = True only once the POST returned.
MarkAttempted_Late(p) == UNCHANGED attempted

MarkAttempted(p) == Set(attempted, p)

\* _fresh again, then attempted = True just before the POST.
Recheck(p) ==
  /\ Checked(p, Fresh(act[p]), "recheck", "post")
  /\ IF Fresh(act[p]) THEN MarkAttempted(p) ELSE UNCHANGED attempted

PostCheck(p) == Send(p, "check", "post", "posting")

\* The answer to POST check-runs, which verify_check accepts or not; an
\* interrupt may still arrive once check_id is bound.
ReceiveCheck(p, valid, interrupted) ==
  /\ req[p]["check"] = "applied"
  /\ Step(p, "posting", "finally")
  /\ known' = [known EXCEPT ![p] = valid]
  /\ failed' = [failed EXCEPT ![p] = ~valid \/ interrupted]
  /\ UNCHANGED <<files, io, world, req, act, token, attempted, revoked>>

\* The key, an answer that is an error, a lost answer (timeout 20 s) or an
\* interrupt: except BaseException.
Raises_WithoutTimeout(p) == pc[p] \in TryStatements \ {"issuing", "posting"}

Raises(p) == pc[p] \in TryStatements

TryRaises(p) ==
  /\ Raises(p)
  /\ Goto(p, "finally")
  /\ Set(failed, p)
  /\ UNCHANGED <<files, io, world, req, act, token, attempted, known, revoked>>

\* finally: DELETE /installation/token, when a token is known.
SkipRevocation(p) ==
  /\ ~token[p]
  /\ Step(p, "finally", "settle")
  /\ io' = [io EXCEPT ![p] = "probe"]
  /\ UNCHANGED <<files, world, req, locals>>

RevokeToken(p) == token[p] /\ Send(p, "revoke", "finally", "revoking")

\* The DELETE returned 204.
Revoked(p) ==
  /\ req[p]["revoke"] = "applied"
  /\ Step(p, "revoking", "settle")
  /\ io' = [io EXCEPT ![p] = "probe"]
  /\ Set(revoked, p)
  /\ UNCHANGED <<files, world, req, act, token, attempted, known, failed>>

\* The token is taken for revoked as soon as its DELETE is sent.
RevocationRaises_Optimistic(p) ==
  /\ Step(p, "revoking", "settle")
  /\ io' = [io EXCEPT ![p] = "probe"]
  /\ Set(revoked, p)
  /\ Set(failed, p)
  /\ UNCHANGED <<files, world, req, act, token, attempted, known>>

\* It raised: refused, timed out, or interrupted.
RevocationRaises(p) ==
  /\ Step(p, "revoking", "settle")
  /\ io' = [io EXCEPT ![p] = "probe"]
  /\ Set(failed, p)
  /\ UNCHANGED <<files, world, req, act, token, attempted, known, revoked>>

\* A check that was verified is published, whatever became of the token.
Status_IgnoresCleanup(p) ==
  IF known[p] THEN "published"
  ELSE IF attempted[p] THEN "publication_uncertain"
  ELSE "blocked_before_check_post"

\* A lost answer gets a status no reader of the journal knows.
Status_Unlisted(p) ==
  IF known[p] /\ revoked[p] /\ ~failed[p] THEN "published"
  ELSE IF known[p] THEN "published_cleanup_failed"
  ELSE IF attempted[p] THEN "posted"
  ELSE "blocked_before_check_post"

\* The conditional expression that derives status.
Status(p) ==
  IF known[p] /\ revoked[p] /\ ~failed[p] THEN "published"
  ELSE IF known[p] THEN "published_cleanup_failed"
  ELSE IF attempted[p] THEN "publication_uncertain"
  ELSE "blocked_before_check_post"

WriteOutcome(p) ==
  /\ pc[p] = "settle"
  /\ Journal!WriteBound(p, NameOf(p, "outcome"),
       [kind |-> "outcome", activation |-> act[p], status |-> Status(p),
        attempted |-> attempted[p], check |-> known[p], revoked |-> revoked[p]])
  /\ UNCHANGED <<world, req, pc, locals>>

\* Success is decided without waiting for the outcome to be on file.
Succeeds_Unwritten(p) == ~failed[p] /\ Status(p) = "published"

Succeeds(p) == io[p] = "written" /\ ~failed[p] /\ Status(p) = "published"

\* The outcome is written, or its write raised; _publish returns or raises.
Finish(p) ==
  /\ io[p] \in {"written", "failed"}
  /\ Step(p, "settle", IF Succeeds(p) THEN "published" ELSE "stopped")
  /\ UNCHANGED <<files, io, world, req, locals>>

\* Killed, or interrupted where nothing catches it.
Crash(p) ==
  /\ Running(p)
  /\ Goto(p, "crashed")
  /\ UNCHANGED <<files, io, world, req, locals>>

\* The host loses power: every invocation stops, unsynced files may be lost.
HostFails ==
  /\ Journal!PowerLoss
  /\ pc' = [p \in Invocations |-> IF Running(p) THEN "crashed" ELSE pc[p]]
  /\ UNCHANGED <<io, world, req, locals>>

-------------------------------------------------------------------------------
(* GitHub, the clock and the operator. *)

TokenLive(p) == /\ req[p]["token"] \in {"applied", "delivered"}
                /\ req[p]["revoke"] # "applied"

\* A request takes effect, possibly long after the client gave up on it.
GitHubApplies(p, c) ==
  /\ req[p][c] = "sent"
  /\ c = "check" => TokenLive(p)
  /\ req' = [req EXCEPT ![p][c] = "applied"]
  /\ UNCHANGED <<files, io, world, pc, locals>>

GitHubRefuses(p, c) ==
  /\ req[p][c] = "sent"
  /\ req' = [req EXCEPT ![p][c] = "refused"]
  /\ UNCHANGED <<files, io, world, pc, locals>>

Tick ==
  /\ now < MaxTime
  /\ now' = now + 1
  /\ UNCHANGED <<files, io, armed, pull, latest, req, pc, locals>>

\* A reviewed change of controlled-publication.json reaches an export: a first
\* or renewed activation, or its disarming.
Rearm(e, a) ==
  /\ a # armed[e]
  /\ armed' = [armed EXCEPT ![e] = a]
  /\ UNCHANGED <<files, io, now, pull, latest, req, pc, locals>>

\* Pushes, merges to main, draft toggles, closing and reopening.
PullChanges(s) ==
  /\ s # pull
  /\ pull' = s
  /\ UNCHANGED <<files, io, armed, now, latest, req, pc, locals>>

\* The qualification of a head is rerun, fails or is removed.
QualificationChanges(h, r) ==
  /\ r # latest[h]
  /\ latest' = [latest EXCEPT ![h] = r]
  /\ UNCHANGED <<files, io, armed, now, pull, req, pc, locals>>

-------------------------------------------------------------------------------
\* What an invocation does once it was started.
Program(p) ==
  \/ \E accepted \in BOOLEAN : VerifyInputs(p, accepted)
  \/ \E intact \in BOOLEAN : EnterPublish(p, intact)
  \/ WriteAttempt(p)
  \/ AttemptWritten(p)
  \/ MakeJwt(p)
  \/ PreflightApp(p)
  \/ IssueToken(p)
  \/ \E usable, exact \in BOOLEAN : ReceiveToken(p, usable, exact)
  \/ Qualify(p)
  \/ ReadPull(p)
  \/ Recheck(p)
  \/ PostCheck(p)
  \/ \E valid, interrupted \in BOOLEAN : ReceiveCheck(p, valid, interrupted)
  \/ TryRaises(p)
  \/ SkipRevocation(p)
  \/ RevokeToken(p)
  \/ Revoked(p)
  \/ RevocationRaises(p)
  \/ WriteOutcome(p)
  \/ Finish(p)

GitHub(p) == \E c \in Calls : GitHubApplies(p, c) \/ GitHubRefuses(p, c)

World ==
  \/ Tick
  \/ \E e \in Exports, a \in Activations \cup {Disabled} : Rearm(e, a)
  \/ \E s \in PullStates : PullChanges(s)
  \/ \E h \in Heads, r \in Runs \cup {"none"} : QualificationChanges(h, r)

Next ==
  \/ \E p \in Invocations :
       \/ \E h \in Heads : Execute(p, h)
       \/ Program(p)
       \/ Crash(p)
       \/ GitHub(p)
  \/ HostFails
  \/ World

Spec == Init /\ [][Next]_vars

\* Every call of the program returns or times out, and the host schedules it;
\* nothing is assumed of operators, GitHub or the clock.
Fairness == \A p \in Invocations : WF_vars(Program(p))

FairSpec == Spec /\ Fairness

-------------------------------------------------------------------------------
(* Properties. *)

AttemptOf(p) == files[NameOf(p, "attempt")]
OutcomeOf(p) == files[NameOf(p, "outcome")]

\* p's own reservation of its candidate is on disk.
Reserved(p) == /\ Journal!Durable(NameOf(p, "attempt"))
               /\ AttemptOf(p).by = p

Posted(p) == req[p]["check"] # "unsent"

\* One candidate, one state directory: at most one check POST is ever sent,
\* whatever runs concurrently, crashes, loses power, is renewed or repeated.
AtMostOneCheckPost ==
  \A p, q \in Invocations :
    Posted(p) /\ Posted(q) /\ ExportOf[p] = ExportOf[q] /\ act[p].head = act[q].head => p = q

\* A token is requested, and a check posted, only under the invocation's own
\* reservation, on disk; the reservation outlives crashes and power losses.
CredentialsNeedReservation ==
  \A p \in Invocations : req[p]["token"] # "unsent" \/ Posted(p) => Reserved(p)

\* What a complete outcome record says of GitHub is true: published means the
\* check exists and the token is gone, a known check exists, "blocked" means no
\* check was or will be posted for the candidate from this directory.
OutcomeTruthful ==
  \A n \in Names :
    n.kind = "outcome" /\ Journal!Exists(n) /\ files[n].whole =>
      LET p == files[n].by  record == files[n].body IN
      /\ record.status = "published" =>
           req[p]["check"] = "applied" /\ req[p]["token"] = "delivered" /\ ~TokenLive(p)
      /\ record.check => req[p]["check"] = "applied"
      /\ record.revoked => req[p]["revoke"] = "applied"
      /\ record.status = "blocked_before_check_post" =>
           \A q \in Invocations : Posted(q) => NameOf(q, "outcome") # n

\* The program exits with success only when all of it is so: the outcome is on
\* disk, it says published, the check exists, the token is gone.
SuccessIsProven ==
  \A p \in Invocations :
    pc[p] = "published" =>
      /\ Journal!Durable(NameOf(p, "outcome"))
      /\ OutcomeOf(p).by = p
      /\ OutcomeOf(p).body.status = "published"
      /\ req[p]["check"] = "applied"
      /\ ~TokenLive(p)

\* An invocation that received a token and was not killed has tried to revoke
\* it by the time it writes its outcome, whatever failed in between.
TokensAreReturned ==
  \A p \in Invocations :
    /\ pc[p] \in {"settle", "published", "stopped"}
    /\ req[p]["token"] = "delivered"
    => req[p]["revoke"] # "unsent"

\* A journal record never changes again once its directory entry is on disk,
\* and a record still being written only ever changes hands by vanishing.
JournalIsAppendOnly ==
  [][\A n \in Names :
       /\ Journal!Durable(n) => files'[n] = files[n]
       /\ Journal!Exists(n) /\ Journal!Exists(n)' => files'[n].by = files[n].by]_vars

\* A whole outcome on file that leaves nothing open: it knows the check, never attempted
\* it, or knows that the token is gone.
Conclusive(n) == /\ n.kind = "outcome" /\ Journal!Exists(n) /\ files[n].whole
                 /\ files[n].body.status # "publication_uncertain" \/ files[n].body.revoked

\* Whoever reconciles a conclusive outcome with GitHub may trust what he sees there: no
\* check of the candidate is sent or comes into being any more, neither by the request
\* whose answer was lost, applied late, nor by a concurrent invocation or one under a
\* renewed activation.
ConclusiveOutcomesAreFinal ==
  [][\A n \in Names : Conclusive(n) =>
       \A p \in Invocations :
         Posted(p)' /\ NameOf(p, "outcome")' = n =>
           req'[p]["check"] \in {req[p]["check"], "refused"}]_vars

\* A candidate whose pull request is never open, ready and at the activated head
\* and base, or whose evidenced qualification is never the latest, is never
\* posted under that activation.
OnlyLiveCandidatesArePosted ==
  \A a \in Activations :
    LET ready == pull = [head |-> a.head, base |-> a.base, open |-> TRUE, draft |-> FALSE]
    IN  ([]~ready \/ [](latest[a.head] # a.run)) =>
          [](\A p \in Invocations : Posted(p) => act[p] # a)

\* Every invocation that was let in comes to an end: no network call, refusal or
\* write error leaves it hanging.
InvocationsEnd ==
  \A p \in Invocations : Running(p) ~> pc[p] \in Ended

===============================================================================
