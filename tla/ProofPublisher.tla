---------------------------- MODULE ProofPublisher ----------------------------
(***************************************************************************)
(* The first publisher (github_app_publisher.py), kept disarmed: it posts   *)
(* one success check for the one permit that a proof configuration names,   *)
(* with no journal.  It shares the transport with ControlledPublisher; its  *)
(* configuration, its permit and its cleanup are its own.                   *)
(*                                                                         *)
(* Invocations may run at once; each may be killed at any step.  A request  *)
(* that was sent may be applied by GitHub now, later, or never.             *)
(***************************************************************************)
EXTENDS Naturals, FiniteSets

CONSTANTS
  Invocations,  \* runs of main with --write
  Heads,        \* head commits of the pull request
  Bases,        \* commits of main
  Sources,      \* revisions of the authority service
  Permits,      \* permit files an operator may supply; a digest is the permit
  Configs,      \* config.json of the export, over time
  None,         \* absent
  PullStates    \* states the pull request goes through

\* A permit file; "sound" stands for its keys, versions and fixed values.
Permit == [sound: BOOLEAN, decision: {"pass", "fail"}, recorded: BOOLEAN,
           head: Heads, base: Heads \cup Bases, source: Sources]

Config == [sound: BOOLEAN, mode: {"disabled", "proof"}, source: Sources \cup {None},
           blobs: {"exact", None}, head: Heads \cup {None}, digest: Permit \cup {None}]

ASSUME ProofAssumption ==
  /\ Permits \subseteq Permit
  /\ Configs \subseteq Config
  /\ PullStates \subseteq [head: Heads, base: Bases, open: BOOLEAN]

VARIABLES
  exported,  \* the configuration file of the export
  pull,      \* GitHub: the pull request
  req,       \* GitHub: what became of each mutation an invocation sent
  pc,        \* the statement an invocation is about to execute
  config,    \* local config
  permit     \* local permit

world  == <<exported, pull>>
locals == <<config, permit>>
vars   == <<world, req, pc, locals>>

Calls == {"token", "check", "revoke", "again"}
\* "delivered": applied, and the answer reached the client in usable form;
\* "inexact": so did a token, but with other permissions.
CallStates == {"unsent", "sent", "applied", "delivered", "inexact", "refused"}

\* Before the token, under it, and ends.
Preparing == {"load", "gates", "export", "key", "preflight", "issue", "issuing"}
UnderToken == {"readpr", "post", "posting", "revoke", "revoking"}
Ended == {"published", "stopped", "killed"}
Statements == {"start", "again", "retrying"} \cup Preparing \cup UnderToken \cup Ended

TypeOK ==
  /\ exported \in Configs
  /\ pull \in PullStates
  /\ req \in [Invocations -> [Calls -> CallStates]]
  /\ pc \in [Invocations -> Statements]
  /\ config \in [Invocations -> Configs \cup {None}]
  /\ permit \in [Invocations -> Permits \cup {None}]

Init ==
  /\ exported \in Configs
  /\ pull \in PullStates
  /\ req = [p \in Invocations |-> [c \in Calls |-> "unsent"]]
  /\ pc = [p \in Invocations |-> "start"]
  /\ config = [p \in Invocations |-> None]
  /\ permit = [p \in Invocations |-> None]

-------------------------------------------------------------------------------
Goto(p, next) == pc' = [pc EXCEPT ![p] = next]
Step(p, here, next) == pc[p] = here /\ Goto(p, next)
Check(p, holds, here, next) ==
  /\ Step(p, here, IF holds THEN next ELSE "stopped")
  /\ UNCHANGED <<world, req, locals>>

\* Config.load: disabled carries no identity at all, proof carries all of them.
Loads(c) ==
  /\ c.sound
  /\ IF c.mode = "disabled"
     THEN c.source = None /\ c.blobs = None /\ c.head = None /\ c.digest = None
     ELSE c.source # None /\ c.blobs # None /\ c.head # None /\ c.digest # None

LoadConfig(p) ==
  /\ Step(p, "start", IF Loads(exported) THEN "load" ELSE "stopped")
  /\ config' = [config EXCEPT ![p] = exported]
  /\ UNCHANGED <<world, req, permit>>

\* load_permit
PermitLoads(x, c) ==
  /\ x.sound
  /\ x.decision = "pass" /\ x.recorded
  /\ x.head # x.base
  /\ c.source # None => x.source = c.source

\* main: the permit, a mode that is not disabled, and the operator's confirmation
\* of a head.
LoadPermit(p, x, confirmed) ==
  /\ Step(p, "load", IF /\ PermitLoads(x, config[p])
                        /\ config[p].mode # "disabled"
                        /\ confirmed = x.head
                     THEN "gates" ELSE "stopped")
  /\ permit' = [permit EXCEPT ![p] = x]
  /\ UNCHANGED <<world, req, config>>

\* The head is enough.
Bound_HeadOnly(c, x) == c.mode = "proof" /\ c.source = x.source /\ c.head = x.head

\* publish: the configuration is bound to this source, head and digest.
Bound(c, x) == /\ c.mode = "proof"
               /\ c.source = x.source
               /\ c.head = x.head
               /\ c.digest = x

PassGates(p) == Check(p, Bound(config[p], permit[p]), "gates", "export")

\* verify_exported_publisher; make_jwt; preflight_app.
VerifyExport(p, intact) == Check(p, intact, "export", "key")
MakeJwt(p, readable) == Check(p, readable, "key", "preflight")
PreflightApp(p, matches) == Check(p, matches, "preflight", "issue")

Send(p, c, here, next) ==
  /\ Step(p, here, next)
  /\ req' = [req EXCEPT ![p][c] = "sent"]
  /\ UNCHANGED <<world, locals>>

\* issue_token
IssueToken(p) == Send(p, "token", "issue", "issuing")

\* Its answer: a usable token, with the exact permissions or not.  It raises before
\* publish has the token, so no cleanup follows.
ReceiveToken(p, exact) ==
  /\ req[p]["token"] = "applied"
  /\ Step(p, "issuing", IF exact THEN "readpr" ELSE "stopped")
  /\ req' = [req EXCEPT ![p]["token"] = IF exact THEN "delivered" ELSE "inexact"]
  /\ UNCHANGED <<world, locals>>

\* The pull request is not read again.
PullMatches_Unread(x) == TRUE

\* verify_candidate_pr; a draft is good enough.
PullMatches(x) == pull.open /\ pull.head = x.head /\ pull.base = x.base

ReadPull(p) ==
  /\ Step(p, "readpr", IF PullMatches(permit[p]) THEN "post" ELSE "again")
  /\ UNCHANGED <<world, req, locals>>

PostCheck(p) == Send(p, "check", "post", "posting")

\* The answer to the POST, which verify_check accepts or not.
ReceiveCheck(p, valid) ==
  /\ req[p]["check"] = "applied"
  /\ Step(p, "posting", IF valid THEN "revoke" ELSE "again")
  /\ req' = [req EXCEPT ![p]["check"] = "delivered"]
  /\ UNCHANGED <<world, locals>>

RevokeToken(p) == Send(p, "revoke", "revoke", "revoking")

\* The DELETE is not waited for.
Proven_Unanswered(p) == req[p]["revoke"] # "refused"

\* It returned 204.
Proven(p) == req[p]["revoke"] = "applied"

Revoked(p) ==
  /\ Proven(p)
  /\ Step(p, "revoking", "published")
  /\ UNCHANGED <<world, req, locals>>

\* Errors before there is a token simply end the run.
Raises(p) ==
  /\ pc[p] \in {"start"} \cup Preparing
  /\ Goto(p, "stopped")
  /\ UNCHANGED <<world, req, locals>>

\* A failed attempt leaves the token alone.
Cleanup_Forgotten == "stopped"

\* The exception escapes, and nothing ends the run.
Cleanup_Escapes == "raising"

Cleanup == "again"

\* Under the token anything that raises, the DELETE included, leads to finally,
RaisesUnderToken(p) ==
  /\ pc[p] \in UnderToken
  /\ Goto(p, Cleanup)
  /\ UNCHANGED <<world, req, locals>>

\* which sends a DELETE, whose outcome does not matter.
RevokeAgain(p) == Send(p, "again", "again", "retrying")

\* The cleanup is over once GitHub says that the token is gone.
Finish_WhenRevoked(p) ==
  /\ req[p]["again"] = "applied"
  /\ Step(p, "retrying", "stopped")
  /\ UNCHANGED <<world, req, locals>>

\* An answer, an error or a timeout.
Finish(p) ==
  /\ Step(p, "retrying", "stopped")
  /\ UNCHANGED <<world, req, locals>>

Kill(p) ==
  /\ pc[p] \notin Ended
  /\ Goto(p, "killed")
  /\ UNCHANGED <<world, req, locals>>

-------------------------------------------------------------------------------
(* GitHub and the operator. *)

TokenLive(p) == /\ req[p]["token"] \in {"applied", "delivered", "inexact"}
                /\ req[p]["revoke"] # "applied"
                /\ req[p]["again"] # "applied"

GitHubApplies(p, c) ==
  /\ req[p][c] = "sent"
  /\ c # "token" => TokenLive(p)
  /\ req' = [req EXCEPT ![p][c] = "applied"]
  /\ UNCHANGED <<world, pc, locals>>

GitHubRefuses(p, c) ==
  /\ req[p][c] = "sent"
  /\ req' = [req EXCEPT ![p][c] = "refused"]
  /\ UNCHANGED <<world, pc, locals>>

\* The proof is promoted, replaced or disarmed.
Export(c) ==
  /\ c # exported
  /\ exported' = c
  /\ UNCHANGED <<pull, req, pc, locals>>

PullChanges(s) ==
  /\ s # pull
  /\ pull' = s
  /\ UNCHANGED <<exported, req, pc, locals>>

Program(p) ==
  \/ LoadConfig(p)
  \/ \E x \in Permits, h \in Heads : LoadPermit(p, x, h)
  \/ PassGates(p)
  \/ \E ok \in BOOLEAN : VerifyExport(p, ok) \/ MakeJwt(p, ok) \/ PreflightApp(p, ok)
  \/ IssueToken(p)
  \/ \E exact \in BOOLEAN : ReceiveToken(p, exact)
  \/ ReadPull(p)
  \/ PostCheck(p)
  \/ \E valid \in BOOLEAN : ReceiveCheck(p, valid)
  \/ RevokeToken(p)
  \/ Revoked(p)
  \/ Raises(p)
  \/ RaisesUnderToken(p)
  \/ RevokeAgain(p)
  \/ Finish(p)

World ==
  \/ \E c \in Configs : Export(c)
  \/ \E s \in PullStates : PullChanges(s)

Next ==
  \/ \E p \in Invocations :
       \/ Program(p)
       \/ Kill(p)
       \/ \E c \in Calls : GitHubApplies(p, c) \/ GitHubRefuses(p, c)
  \/ World

Spec == Init /\ [][Next]_vars

\* Every request of an invocation is answered or times out.  Nothing is assumed of
\* GitHub, which need not apply it, and of people.
FairSpec == Spec /\ \A p \in Invocations : WF_vars(Program(p))

-------------------------------------------------------------------------------
(* Properties. *)

Posted(p) == req[p]["check"] # "unsent"

\* A proof configuration that loads and names the one permit, head and source.
Promotes(c, x) == /\ Loads(c) /\ c.mode = "proof"
                  /\ c.digest = x /\ c.head = x.head /\ c.source = x.source

\* The permit records an evidenced PASS of a change.
Earned(x) == x.decision = "pass" /\ x.recorded /\ x.head # x.base

\* An invocation works from the one configuration it read: whatever the export is rearmed or
\* disarmed with afterwards, it posts no permit that the export did not promote, as a whole
\* and for the one head, before it read it; and no permit that was not earned (main,
\* Config.load and the gates of publish).
OnlyPromotedPermitsArePosted ==
  \A p \in Invocations, x \in Permits :
    [](pc[p] = "start" => ~Promotes(exported, x)) \/ ~Earned(x) =>
      [](Posted(p) => permit[p] # x)

\* A permit whose pull request is never open at its head and base is never posted.
OnlyOpenCandidatesArePosted ==
  \A x \in Permits :
    []~(pull.open /\ pull.head = x.head /\ pull.base = x.base) =>
      [](\A p \in Invocations : Posted(p) => permit[p] # x)

\* A report of success: the check exists, and the token it was posted with is dead.
ReportIsProven ==
  \A p \in Invocations :
    pc[p] = "published" => req[p]["check"] = "delivered" /\ ~TokenLive(p)

\* The invocation ended by itself and sent no DELETE.
LeftAlone(p) == /\ pc[p] \in {"published", "stopped"}
                /\ req[p]["revoke"] = "unsent" /\ req[p]["again"] = "unsent"

\* A token that publish got hold of is given back, in success and in failure, unless
\* the process is killed.  (One that issue_token refuses for its permissions never
\* reaches publish and lives on: it is "inexact".)
HeldTokensAreReturned ==
  \A p \in Invocations : LeftAlone(p) => req[p]["token"] # "delivered"

\* Every invocation ends, whatever is refused or not answered, in the publication or in
\* the cleanup.
InvocationsEnd == \A p \in Invocations : <>(pc[p] \in Ended)

===============================================================================
