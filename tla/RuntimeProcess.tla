----------------------------- MODULE RuntimeProcess -----------------------------
(***************************************************************************)
(* _run (adapters/attested_runtime.py): the runtime is executed with both   *)
(* of its pipes drained by a thread each, under a time limit and a bound on *)
(* what is kept.  Main thread, drain threads, the process and a descendant  *)
(* that inherits its pipes interleave freely.  Data is counted in chunks,   *)
(* what one stream.read returns.                                           *)
(***************************************************************************)
EXTENDS Naturals

CONSTANTS Capacity,   \* chunks an operating system pipe holds
          MaxResult,  \* MAX_RESULT_BYTES, in chunks
          MaxWritten  \* bound of the model: chunks that are ever written to a stream

ASSUME RuntimeAssumption ==
  /\ Capacity \in Nat \ {0} /\ MaxResult \in Nat \ {0}
  /\ MaxWritten \in Nat

Streams == {"out", "err"}

VARIABLES
  pc,       \* the statement _run is about to execute
  raising,  \* an exception waits for the finally block to end
  drain,    \* each thread: not started, reading, about to kill, or not alive any more
  failed,   \* the event the threads share
  buffers,  \* chunks that each thread has kept
  queued,   \* chunks in each pipe
  written,  \* chunks written to each pipe so far: history
  holders,  \* who holds the writing ends
  exit      \* return code of the process: none while it runs; clean is 0 or 2

external == <<queued, written, holders, exit>>
vars     == <<pc, raising, drain, failed, buffers, external>>

Finished == {"returned", "refused"}

TypeOK ==
  /\ pc \in {"start_out", "start_err", "wait", "poll", "reap", "join_out", "join_err",
             "failed", "alive", "rest"} \cup Finished
  /\ raising \in BOOLEAN
  /\ drain \in [Streams -> {"new", "reading", "killing", "ended"}]
  /\ failed \in BOOLEAN
  /\ buffers \in [Streams -> 0..MaxResult]
  /\ queued \in [Streams -> 0..Capacity]
  /\ written \in [Streams -> 0..MaxWritten]
  /\ holders \in SUBSET {"process", "descendant"}
  /\ exit \in {"none", "clean", "other"}

\* Popen succeeded.
Init ==
  /\ pc = "start_out" /\ raising = FALSE
  /\ drain = [s \in Streams |-> "new"]
  /\ failed = FALSE
  /\ buffers = [s \in Streams |-> 0]
  /\ queued = [s \in Streams |-> 0]
  /\ written = [s \in Streams |-> 0]
  /\ holders = {"process"}
  /\ exit = "none"

-------------------------------------------------------------------------------
(* The drain threads. *)

\* More than the limit is kept, one chunk of it.
Fits_OffByOne(s) == buffers[s] <= MaxResult

Fits(s) == buffers[s] + 1 <= MaxResult

\* stream.read returns a chunk: it is kept, or the run has failed.
Read(s) ==
  /\ drain[s] = "reading" /\ queued[s] > 0
  /\ queued' = [queued EXCEPT ![s] = @ - 1]
  /\ IF Fits(s)
     THEN buffers' = [buffers EXCEPT ![s] = @ + 1] /\ UNCHANGED <<drain, failed>>
     ELSE /\ failed' = TRUE /\ drain' = [drain EXCEPT ![s] = "killing"]
          /\ UNCHANGED buffers
  /\ UNCHANGED <<pc, raising, written, holders, exit>>

\* stream.read raises.
ReadRaises(s) ==
  /\ drain[s] = "reading"
  /\ failed' = TRUE
  /\ drain' = [drain EXCEPT ![s] = "killing"]
  /\ UNCHANGED <<pc, raising, buffers, external>>

\* The pipe is empty, and nobody holds it open any more.
EndOfFile(s) ==
  /\ drain[s] = "reading" /\ queued[s] = 0 /\ holders = {}
  /\ drain' = [drain EXCEPT ![s] = "ended"]
  /\ UNCHANGED <<pc, raising, failed, buffers, external>>

\* SIGKILL ends a running process, and spares its descendants.
Killed == /\ exit' = IF exit = "none" THEN "other" ELSE exit
          /\ holders' = holders \ {"process"}

\* process.kill(), and the thread ends.
Kill(s) ==
  /\ drain[s] = "killing"
  /\ drain' = [drain EXCEPT ![s] = "ended"]
  /\ Killed
  /\ UNCHANGED <<pc, raising, failed, buffers, queued, written>>

-------------------------------------------------------------------------------
(* The main thread. *)

Goto(here, next) == pc = here /\ pc' = next

\* thread.start(), which may raise.
Start(s, here, next) ==
  \/ /\ Goto(here, next)
     /\ drain' = [drain EXCEPT ![s] = "reading"]
     /\ UNCHANGED <<raising, failed, buffers, external>>
  \/ /\ Goto(here, "poll")
     /\ raising' = TRUE
     /\ UNCHANGED <<drain, failed, buffers, external>>

\* process.wait(timeout): the process has ended, or the time is over.
Wait ==
  /\ Goto("wait", "poll")
  /\ \/ exit # "none" /\ UNCHANGED raising
     \/ raising' = TRUE
  /\ UNCHANGED <<drain, failed, buffers, external>>

\* A process that is still running is left alone.
Poll_Spared ==
  /\ Goto("poll", "reap")
  /\ UNCHANGED <<raising, drain, failed, buffers, external>>

\* if process.poll() is None: process.kill()
Poll ==
  /\ Goto("poll", "reap")
  /\ Killed
  /\ UNCHANGED <<raising, drain, failed, buffers, queued, written>>

\* process.wait()
Reap ==
  /\ exit # "none"
  /\ Goto("reap", "join_out")
  /\ UNCHANGED <<raising, drain, failed, buffers, external>>

\* The end of a thread is awaited for as long as it takes.
Join_Forever(s, here, next) ==
  /\ drain[s] \in {"new", "ended"}
  /\ Goto(here, next)
  /\ UNCHANGED <<raising, drain, failed, buffers, external>>

\* thread.join(timeout=1) returns, whether the thread ended or not.
Join(s, here, next) ==
  /\ Goto(here, next)
  /\ UNCHANGED <<raising, drain, failed, buffers, external>>

\* not failed.is_set()
CheckFailed ==
  /\ Goto("failed", IF failed THEN "refused" ELSE "alive")
  /\ UNCHANGED <<raising, drain, failed, buffers, external>>

\* A thread that is still reading is no reason to refuse.
CheckAlive_Anyway ==
  /\ Goto("alive", "rest")
  /\ UNCHANGED <<raising, drain, failed, buffers, external>>

\* not any(t.is_alive() for t in threads): read after the event.
CheckAlive ==
  /\ Goto("alive", IF \E s \in Streams : drain[s] \in {"reading", "killing"}
                   THEN "refused" ELSE "rest")
  /\ UNCHANGED <<raising, drain, failed, buffers, external>>

\* Nothing on stderr, and a return code of 0 or 2.
CheckRest ==
  /\ Goto("rest", IF buffers["err"] = 0 /\ exit = "clean" THEN "returned" ELSE "refused")
  /\ UNCHANGED <<raising, drain, failed, buffers, external>>

-------------------------------------------------------------------------------
(* The runtime (external). *)

\* It, or its descendant, writes to a pipe that has room and is being read.
Write(s) ==
  /\ holders # {} /\ drain[s] # "ended"
  /\ queued[s] < Capacity /\ written[s] < MaxWritten
  /\ queued' = [queued EXCEPT ![s] = @ + 1]
  /\ written' = [written EXCEPT ![s] = @ + 1]
  /\ UNCHANGED <<pc, raising, drain, failed, buffers, holders, exit>>

Spawn ==
  /\ exit = "none" /\ "descendant" \notin holders
  /\ holders' = holders \cup {"descendant"}
  /\ UNCHANGED <<pc, raising, drain, failed, buffers, queued, written, exit>>

Exit(code) ==
  /\ exit = "none"
  /\ exit' = code
  /\ holders' = holders \ {"process"}
  /\ UNCHANGED <<pc, raising, drain, failed, buffers, queued, written>>

DescendantEnds ==
  /\ "descendant" \in holders
  /\ holders' = holders \ {"descendant"}
  /\ UNCHANGED <<pc, raising, drain, failed, buffers, queued, written, exit>>

Main ==
  \/ Start("out", "start_out", "start_err")
  \/ Start("err", "start_err", "wait")
  \/ Wait
  \/ Poll
  \/ Reap
  \/ Join("out", "join_out", "join_err")
  \/ Join("err", "join_err", IF raising THEN "refused" ELSE "failed")
  \/ CheckFailed
  \/ CheckAlive
  \/ CheckRest

Drain(s) == Read(s) \/ ReadRaises(s) \/ EndOfFile(s) \/ Kill(s)

Runtime ==
  \/ \E s \in Streams : Write(s)
  \/ Spawn
  \/ \E code \in {"clean", "other"} : Exit(code)
  \/ DescendantEnds

Next ==
  \/ Main
  \/ \E s \in Streams : Drain(s)
  \/ Runtime

Spec == Init /\ [][Next]_vars

-------------------------------------------------------------------------------
(* Properties. *)

\* Unless a drain thread failed in time or too late, an output that is returned is
\* all that was ever written, of a process that ended by itself and said nothing on
\* stderr, with nobody left to write more: however the threads, the timeouts and a
\* descendant interleave.
ReturnedIsWhole ==
  pc = "returned" /\ ~failed =>
    /\ buffers["out"] = written["out"]
    /\ written["err"] = 0
    /\ exit = "clean"
    /\ holders = {}

\* A runtime that writes more than the bound is refused: nothing is cut off silently.
ExcessIsRefused == pc = "returned" => \A s \in Streams : written[s] <= MaxResult

===============================================================================
