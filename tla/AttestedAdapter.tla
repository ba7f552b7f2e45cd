---------------------------- MODULE AttestedAdapter ----------------------------
(***************************************************************************)
(* AttestedCodexRuntime.evaluate (adapters/attested_runtime.py): the        *)
(* runtime's package is read file by file from a directory that anybody may *)
(* change meanwhile, compared with the pinned blobs, copied, executed by    *)
(* _run (RuntimeProcess), and its output is parsed.                         *)
(*                                                                         *)
(* Output is counted in chunks, as there: the runtime's result takes        *)
(* ResultChunks of them, and the parser takes these and no others, for a    *)
(* part of a JSON object is none, and neither is one with a chunk appended. *)
(***************************************************************************)
EXTENDS RuntimeProcess

CONSTANTS PackageFiles,  \* names of RuntimePackage.blobs
          ResultChunks   \* chunks of the result the runtime prints

ASSUME AdapterAssumption == PackageFiles # {} /\ ResultChunks \in Nat \ {0}

VARIABLES step,     \* the statement evaluate is about to execute
          package,  \* runtime_dir: per file, whether it holds the pinned blob
          sources,  \* local sources: what was read, and verified
          working   \* what the private copy, or whatever is executed, holds

adapter == <<step, package, sources, working>>
allVars == <<adapter, vars>>

Contents == {"pinned", "other"}
Evaluated == {"envelope", "raised"}

AdapterTypeOK ==
  /\ TypeOK
  /\ step \in {"start", "list", "read", "snapshot", "run", "parse"} \cup Evaluated
  /\ package \in [PackageFiles -> Contents]
  /\ sources \in [PackageFiles -> Contents \cup {"unread"}]
  /\ working \in [PackageFiles -> Contents \cup {"unread"}]

AdapterInit ==
  /\ Init
  /\ step = "start"
  /\ package \in [PackageFiles -> Contents]
  /\ sources = [n \in PackageFiles |-> "unread"]
  /\ working = [n \in PackageFiles |-> "unread"]

-------------------------------------------------------------------------------
At(here, next) == step = here /\ step' = next
Check(holds, here, next) == At(here, IF holds THEN next ELSE "raised")

\* Not used before, this repository, and a candidate that is not the runtime's source.
Accept(fits) ==
  /\ Check(fits, "start", "list")
  /\ UNCHANGED <<package, sources, working, vars>>

\* A directory outside Git, no link, that lists exactly the files of the package.
ListPackage(exact) ==
  /\ Check(exact, "list", "read")
  /\ UNCHANGED <<package, sources, working, vars>>

\* read_regular, and the blob is the pinned one.
ReadSource(n) ==
  /\ sources[n] = "unread"
  /\ Check(package[n] = "pinned", "read", "read")
  /\ sources' = IF package[n] = "pinned" THEN [sources EXCEPT ![n] = package[n]] ELSE sources
  /\ UNCHANGED <<package, working, vars>>

AllRead ==
  /\ \A n \in PackageFiles : sources[n] # "unread"
  /\ At("read", "snapshot")
  /\ UNCHANGED <<package, sources, working, vars>>

\* The package is executed where it is.
Executed_InPlace == package

\* The private copy of the bytes that were verified.
Executed == sources

\* TemporaryDirectory, write_bytes, Popen.
Launch ==
  /\ At("snapshot", "run")
  /\ working' = Executed
  /\ UNCHANGED <<package, sources, vars>>

\* _run returned, or raised.
RunReturns ==
  /\ pc \in Finished
  /\ Check(pc = "returned", "run", "parse")
  /\ UNCHANGED <<package, sources, working, vars>>

\* Whatever was kept is read as a result.
Parses_Anything == TRUE

Parses == buffers["out"] = ResultChunks

\* AttestedResult.parse of what was returned, and its verdict agrees with the exit.
ParseResult(agrees) ==
  /\ Check(Parses /\ agrees, "parse", "envelope")
  /\ UNCHANGED <<package, sources, working, vars>>

\* The file system fails.
Raise ==
  /\ step \in {"list", "read", "snapshot", "parse"}
  /\ step' = "raised"
  /\ UNCHANGED <<package, sources, working, vars>>

\* Somebody exports the runtime again, or edits it.
Replace(n, content) ==
  /\ content # package[n]
  /\ package' = [package EXCEPT ![n] = content]
  /\ UNCHANGED <<step, sources, working, vars>>

Evaluate ==
  \/ \E holds \in BOOLEAN : Accept(holds) \/ ListPackage(holds) \/ ParseResult(holds)
  \/ \E n \in PackageFiles : ReadSource(n)
  \/ AllRead
  \/ Launch
  \/ RunReturns
  \/ Raise

\* _run and all that it started, which may outlive it.
Started == \E n \in PackageFiles : working[n] # "unread"
Running == Started /\ Next /\ UNCHANGED adapter

AdapterNext ==
  \/ Evaluate
  \/ Running
  \/ \E n \in PackageFiles, content \in Contents : Replace(n, content)

AdapterSpec == AdapterInit /\ [][AdapterNext]_allVars

\* The main thread is scheduled, and its timeouts expire.  Neither the runtime nor
\* the drain threads are trusted to go on.
FairSpec == AdapterSpec /\ WF_allVars(Evaluate \/ (Started /\ Main /\ UNCHANGED adapter))

-------------------------------------------------------------------------------
(* Properties. *)

\* An envelope is the verdict of the pinned runtime: every file that was executed is
\* the pinned one, whatever became of the directory; and the runtime printed the
\* whole result and ended by itself, though _run may return an output cut off.
EnvelopeIsPromoted ==
  step = "envelope" =>
    /\ \A n \in PackageFiles : working[n] = "pinned"
    /\ written["out"] >= ResultChunks
    /\ exit = "clean"

\* evaluate always ends, and leaves no process of its own behind, whatever the runtime
\* and its descendants do with the pipes.
EvaluationEnds == <>[](step \in Evaluated /\ (Started => exit # "none"))

===============================================================================
