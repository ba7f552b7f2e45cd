----------------------------- MODULE AdapterProofs -----------------------------
(***************************************************************************)
(* Proofs about RuntimeProcess, for any pipe capacity and any bound, and on *)
(* top of them about AttestedAdapter: for any package, and any length of    *)
(* the result.                                                              *)
(***************************************************************************)
EXTENDS AttestedAdapter, TLAPS

-------------------------------------------------------------------------------
(* RuntimeProcess. *)

\* Until a thread fails, every chunk is in a pipe or in its buffer.
NothingLost == ~failed => \A s \in Streams : written[s] = buffers[s] + queued[s]

\* A thread that ended without failing has read to the end of its pipe, and nobody
\* is left to write.
ReadToTheEnd ==
  ~failed => \A s \in Streams :
    /\ drain[s] = "ended" => queued[s] = 0 /\ holders = {}
    /\ drain[s] # "killing"

\* Both threads run unless starting them raised; past the checks they are over.
ThreadsRun ==
  /\ pc = "start_err" => drain["out"] # "new"
  /\ pc = "wait" => \A s \in Streams : drain[s] # "new"
  /\ pc \in {"poll", "reap", "join_out", "join_err"} /\ ~raising =>
       \A s \in Streams : drain[s] # "new"
  /\ pc \in {"failed", "alive"} => \A s \in Streams : drain[s] # "new"
  /\ pc \in {"start_out", "start_err", "wait"} => ~raising
  /\ pc \in {"rest", "returned"} => \A s \in Streams : drain[s] = "ended"
  /\ pc = "returned" => buffers["err"] = 0 /\ exit = "clean"

\* A running process holds its pipes.
PipesHeld == exit = "none" => "process" \in holders

Inv == TypeOK /\ NothingLost /\ ReadToTheEnd /\ ThreadsRun /\ PipesHeld

LEMMA InitInv == Init => Inv
<1>. SUFFICES ASSUME Init PROVE Inv
  OBVIOUS
<1>1. \A s \in Streams : drain[s] = "new" /\ buffers[s] = 0 /\ queued[s] = 0 /\ written[s] = 0
  BY DEF Init
<1>2. TypeOK
  <2>1. 0 \in 0..MaxResult /\ 0 \in 0..Capacity /\ 0 \in 0..MaxWritten
    BY RuntimeAssumption DEF RuntimeAssumption
  <2>2. /\ buffers \in [Streams -> 0..MaxResult]
        /\ queued \in [Streams -> 0..Capacity]
        /\ written \in [Streams -> 0..MaxWritten]
        /\ drain \in [Streams -> {"new", "reading", "killing", "ended"}]
    BY <2>1 DEF Init
  <2>. QED
    BY <2>2 DEF Init, TypeOK
<1>3. NothingLost /\ ReadToTheEnd /\ ThreadsRun /\ PipesHeld
  BY <1>1 DEF Init, NothingLost, ReadToTheEnd, ThreadsRun, PipesHeld
<1>. QED
  BY <1>2, <1>3 DEF Inv

\* Steps of the main thread disturb neither the pipes nor the buffers.
LEMMA MainInv ==
  ASSUME Inv, Main
  PROVE  Inv'
<1>. USE RuntimeAssumption
     DEF RuntimeAssumption, Inv, TypeOK, NothingLost, ReadToTheEnd, ThreadsRun, PipesHeld, Streams, Finished,
         Goto, external, Killed
<1>1. CASE Start("out", "start_out", "start_err")
  <2>1. drain' = drain \/ drain' = [drain EXCEPT !["out"] = "reading"]
    BY <1>1 DEF Start
  <2>2. drain' \in [Streams -> {"new", "reading", "killing", "ended"}]
    BY <2>1
  <2>3. TypeOK'
    BY <1>1, <2>2 DEF Start
  <2>4. ThreadsRun'
    BY <1>1, <2>1 DEF Start
  <2>. QED
    BY <1>1, <2>1, <2>3, <2>4 DEF Start
<1>2. CASE Start("err", "start_err", "wait")
  <2>1. drain' = drain \/ drain' = [drain EXCEPT !["err"] = "reading"]
    BY <1>2 DEF Start
  <2>2. drain' \in [Streams -> {"new", "reading", "killing", "ended"}]
    BY <2>1
  <2>3. TypeOK'
    BY <1>2, <2>2 DEF Start
  <2>4. ThreadsRun'
    BY <1>2, <2>1 DEF Start
  <2>. QED
    BY <1>2, <2>1, <2>3, <2>4 DEF Start
<1>3. CASE Wait
  BY <1>3 DEF Wait
<1>4. CASE Poll
  BY <1>4 DEF Poll
<1>5. CASE Reap
  BY <1>5 DEF Reap
<1>6. CASE Join("out", "join_out", "join_err")
  BY <1>6 DEF Join
<1>7. CASE Join("err", "join_err", IF raising THEN "refused" ELSE "failed")
  BY <1>7 DEF Join
<1>8. CASE CheckFailed
  BY <1>8 DEF CheckFailed
<1>9. CASE CheckAlive
  BY <1>9 DEF CheckAlive
<1>10. CASE CheckRest
  BY <1>10 DEF CheckRest
<1>. QED
  BY <1>1, <1>2, <1>3, <1>4, <1>5, <1>6, <1>7, <1>8, <1>9, <1>10 DEF Main

\* Steps of a drain thread.
LEMMA DrainInv ==
  ASSUME Inv, NEW s \in Streams, Drain(s)
  PROVE  Inv'
<1>. USE RuntimeAssumption
     DEF RuntimeAssumption, Inv, TypeOK, NothingLost, ReadToTheEnd, ThreadsRun, PipesHeld, Streams, Finished,
         external, Killed
<1>1. CASE Read(s) /\ Fits(s)
  BY <1>1 DEF Read, Fits
<1>2. CASE Read(s) /\ ~Fits(s)
  BY <1>2 DEF Read
<1>3. CASE ReadRaises(s)
  BY <1>3 DEF ReadRaises
<1>4. CASE EndOfFile(s)
  BY <1>4 DEF EndOfFile
<1>5. CASE Kill(s)
  BY <1>5 DEF Kill
<1>. QED
  BY <1>1, <1>2, <1>3, <1>4, <1>5 DEF Drain

\* Steps of the runtime and its descendant.
LEMMA RuntimeInv ==
  ASSUME Inv, Runtime
  PROVE  Inv'
<1>. USE RuntimeAssumption
     DEF RuntimeAssumption, Inv, TypeOK, NothingLost, ReadToTheEnd, ThreadsRun, PipesHeld, Streams, Finished
<1>1. CASE \E s \in Streams : Write(s)
  BY <1>1 DEF Write
<1>2. CASE Spawn
  BY <1>2 DEF Spawn
<1>3. CASE \E code \in {"clean", "other"} : Exit(code)
  BY <1>3 DEF Exit
<1>4. CASE DescendantEnds
  BY <1>4 DEF DescendantEnds
<1>. QED
  BY <1>1, <1>2, <1>3, <1>4 DEF Runtime

LEMMA NextInv == Inv /\ [Next]_vars => Inv'
<1>1. Inv /\ UNCHANGED vars => Inv'
  BY DEF vars, external, Inv, TypeOK, NothingLost, ReadToTheEnd, ThreadsRun, PipesHeld
<1>. QED
  BY <1>1, MainInv, DrainInv, RuntimeInv DEF Next

LEMMA InvReturned == Inv => ReturnedIsWhole
BY DEF Inv, TypeOK, NothingLost, ReadToTheEnd, ThreadsRun, ReturnedIsWhole, Streams

\* An output that is returned by a run that saw no failure is complete: for any
\* capacity of the pipes, any bound on the output, and any scheduling.
THEOREM OutputsAreWhole == Spec => []ReturnedIsWhole
BY InitInv, NextInv, InvReturned, PTL DEF Spec

-------------------------------------------------------------------------------
(* AttestedAdapter. *)

\* What is in a buffer or a pipe was written, whether a thread failed or not.
KeptIsWritten == \A s \in Streams : buffers[s] + queued[s] <= written[s]

\* Only pinned files get as far as execution.
SourcesPinned ==
  /\ \A n \in PackageFiles : sources[n] # "other" /\ working[n] # "other"
  /\ step = "snapshot" => \A n \in PackageFiles : sources[n] = "pinned"
  /\ step \in {"run", "parse", "envelope"} => \A n \in PackageFiles : working[n] = "pinned"

\* What is parsed was returned.
OutputReturned ==
  /\ step \in {"parse", "envelope"} => pc = "returned"
  /\ step = "envelope" => buffers["out"] = ResultChunks

AdapterInv ==
  /\ Inv
  /\ AdapterTypeOK
  /\ KeptIsWritten
  /\ SourcesPinned
  /\ OutputReturned

LEMMA AdapterInitInv == AdapterInit => AdapterInv
<1> SUFFICES ASSUME AdapterInit PROVE AdapterInv
  OBVIOUS
<1>1. Inv
  BY InitInv DEF AdapterInit
<1>2. AdapterTypeOK
  BY <1>1 DEF AdapterInit, AdapterTypeOK, Inv
<1>3. KeptIsWritten
  BY DEF AdapterInit, Init, KeptIsWritten
<1>4. SourcesPinned /\ OutputReturned
  BY DEF AdapterInit, SourcesPinned, OutputReturned
<1>. QED
  BY <1>1, <1>2, <1>3, <1>4 DEF AdapterInv

\* Steps of the adapter itself leave the process alone.
LEMMA EvaluateInv ==
  ASSUME AdapterInv, Evaluate
  PROVE  AdapterInv'
<1>1. UNCHANGED vars
  BY DEF Evaluate, Accept, ListPackage, ReadSource, AllRead, Launch, RunReturns,
     ParseResult, Raise
<1>2. Inv' /\ KeptIsWritten'
  BY <1>1, NextInv DEF AdapterInv, KeptIsWritten, vars, external
<1>3. AdapterTypeOK' /\ SourcesPinned' /\ OutputReturned'
  <2> USE <1>1, <1>2
      DEF AdapterInv, AdapterTypeOK, SourcesPinned, OutputReturned, At, Check, Evaluated,
          Contents, Finished, vars, Inv
  <2>1. ASSUME NEW holds \in BOOLEAN, Accept(holds) \/ ListPackage(holds)
        PROVE  AdapterTypeOK' /\ SourcesPinned' /\ OutputReturned'
    BY <2>1 DEF Accept, ListPackage
  <2>2. ASSUME NEW holds \in BOOLEAN, ParseResult(holds)
        PROVE  AdapterTypeOK' /\ SourcesPinned' /\ OutputReturned'
    BY <2>2 DEF ParseResult, Parses
  <2>3. ASSUME NEW n \in PackageFiles, ReadSource(n)
        PROVE  AdapterTypeOK' /\ SourcesPinned' /\ OutputReturned'
    BY <2>3 DEF ReadSource
  <2>4. CASE AllRead
    BY <2>4 DEF AllRead
  <2>5. CASE Launch
    BY <2>5 DEF Launch, Executed
  <2>6. CASE RunReturns
    BY <2>6 DEF RunReturns
  <2>7. CASE Raise
    BY <2>7 DEF Raise
  <2>. QED
    BY <2>1, <2>2, <2>3, <2>4, <2>5, <2>6, <2>7 DEF Evaluate
<1>. QED
  BY <1>2, <1>3 DEF AdapterInv

\* Whatever is left of the run once its output was returned does not change that output.
LEMMA RunningInv ==
  ASSUME AdapterInv, Running
  PROVE  AdapterInv'
<1>1. Next /\ UNCHANGED adapter
  BY DEF Running
<1>2. Inv'
  BY <1>1, NextInv DEF AdapterInv
<1>3. AdapterTypeOK' /\ SourcesPinned'
  BY <1>1, <1>2 DEF AdapterInv, AdapterTypeOK, SourcesPinned, adapter, Inv
<1>4. KeptIsWritten'
  <2> USE RuntimeAssumption
      DEF RuntimeAssumption, AdapterInv, Inv, TypeOK, KeptIsWritten, Streams, external, Killed
  <2>1. CASE Main
    BY <2>1 DEF Main, Start, Wait, Poll, Reap, Join, CheckFailed, CheckAlive, CheckRest
  <2>2. ASSUME NEW s \in Streams, Drain(s) PROVE KeptIsWritten'
    BY <2>2 DEF Drain, Read, Fits, ReadRaises, EndOfFile, Kill
  <2>3. CASE Runtime
    BY <2>3 DEF Runtime, Write, Spawn, Exit, DescendantEnds
  <2>. QED
    BY <1>1, <2>1, <2>2, <2>3 DEF Next
<1>5. OutputReturned'
  <2>1. CASE pc = "returned"
    <3>1. \A s \in Streams : drain[s] = "ended"
      BY <2>1 DEF AdapterInv, Inv, ThreadsRun
    <3>2. pc' = pc /\ buffers' = buffers
      <4>1. ~Main
        BY <2>1 DEF Main, Start, Wait, Poll, Reap, Join, CheckFailed, CheckAlive, CheckRest, Goto
      <4>2. \A s \in Streams : ~Drain(s)
        BY <3>1 DEF Drain, Read, ReadRaises, EndOfFile, Kill
      <4>3. Runtime
        BY <1>1, <4>1, <4>2 DEF Next
      <4>. QED
        BY <4>3 DEF Runtime, Write, Spawn, Exit, DescendantEnds
    <3>. QED
      BY <1>1, <3>2 DEF AdapterInv, OutputReturned, adapter
  <2>2. CASE pc # "returned"
    BY <1>1, <2>2 DEF AdapterInv, OutputReturned, adapter
  <2>. QED
    BY <2>1, <2>2
<1>. QED
  BY <1>2, <1>3, <1>4, <1>5 DEF AdapterInv

LEMMA AdapterNextInv == AdapterInv /\ [AdapterNext]_allVars => AdapterInv'
<1>1. ASSUME AdapterInv, NEW n \in PackageFiles, NEW content \in Contents, Replace(n, content)
      PROVE  AdapterInv'
  <2>1. UNCHANGED <<step, sources, working, vars>>
    BY <1>1 DEF Replace
  <2>2. Inv'
    BY <1>1, <2>1, NextInv DEF AdapterInv
  <2>3. package' \in [PackageFiles -> Contents]
    BY <1>1 DEF Replace, AdapterInv, AdapterTypeOK
  <2>. QED
    BY <1>1, <2>1, <2>2, <2>3
    DEF AdapterInv, AdapterTypeOK, KeptIsWritten, SourcesPinned, OutputReturned, vars,
        external, Inv
<1>2. ASSUME AdapterInv, UNCHANGED allVars PROVE AdapterInv'
  <2>1. Inv'
    BY <1>2, NextInv DEF AdapterInv, allVars
  <2>. QED
    BY <1>2, <2>1
    DEF allVars, adapter, vars, external, AdapterInv, AdapterTypeOK, KeptIsWritten,
        SourcesPinned, OutputReturned, Inv
<1>. QED
  BY <1>1, <1>2, EvaluateInv, RunningInv DEF AdapterNext

\* An envelope rests on a result that the pinned files printed whole, in a process that
\* ended by itself: for any package and any changes of the directory it is exported to,
\* and although _run may return an output that was cut off.
THEOREM EnvelopesArePromoted == AdapterSpec => []EnvelopeIsPromoted
<1>1. AdapterInv => EnvelopeIsPromoted
  <2> SUFFICES ASSUME AdapterInv, step = "envelope" PROVE EnvelopeIsPromoted
    BY DEF EnvelopeIsPromoted
  <2>1. exit = "clean"
    BY DEF AdapterInv, OutputReturned, Inv, ThreadsRun
  <2>2. written["out"] >= ResultChunks
    BY RuntimeAssumption, AdapterAssumption
    DEF RuntimeAssumption, AdapterAssumption, AdapterInv, OutputReturned, KeptIsWritten,
        Inv, TypeOK, Streams
  <2>. QED
    BY <2>1, <2>2 DEF AdapterInv, SourcesPinned, EnvelopeIsPromoted
<1>. QED
  BY <1>1, AdapterInitInv, AdapterNextInv, PTL DEF AdapterSpec

\* Whatever the runtime, the threads and the directory do, the adapter's and the runner's
\* state keep their shapes.
THEOREM AdapterTypes == AdapterSpec => []AdapterTypeOK
<1>1. AdapterInv => AdapterTypeOK
  BY DEF AdapterInv
<1>. QED
  BY <1>1, AdapterInitInv, AdapterNextInv, PTL DEF AdapterSpec

-------------------------------------------------------------------------------
(* What is left of the processes. *)

\* Past poll the process is over; it is only started by Launch, and nothing is parsed or
\* reported before _run is done with it.
Reaped ==
  /\ pc \notin {"start_out", "start_err", "wait", "poll"} => exit # "none"
  /\ step \in {"start", "list", "read", "snapshot"} => ~Started
  /\ step \in {"parse"} \cup Evaluated /\ Started => pc \in Finished

LEMMA ReapedStep == AdapterTypeOK /\ Reaped /\ [AdapterNext]_allVars => Reaped'
<1> SUFFICES ASSUME AdapterTypeOK, Reaped, [AdapterNext]_allVars PROVE Reaped'
  OBVIOUS
<1>1. CASE Evaluate
  <2>1. UNCHANGED vars
    BY <1>1 DEF Evaluate, Accept, ListPackage, ReadSource, AllRead, Launch, RunReturns,
       ParseResult, Raise
  <2>2. CASE Launch
    BY <2>1, <2>2 DEF Launch, At, Reaped, Evaluated, vars, external
  <2>3. CASE RunReturns
    BY <2>1, <2>3 DEF RunReturns, At, Check, Reaped, Evaluated, vars, external
  <2>4. ASSUME \/ Raise \/ AllRead \/ \E n \in PackageFiles : ReadSource(n)
               \/ \E holds \in BOOLEAN : Accept(holds) \/ ListPackage(holds) \/ ParseResult(holds)
        PROVE  Reaped'
    <3>1. working' = working
      BY <2>4 DEF Raise, AllRead, ReadSource, Accept, ListPackage, ParseResult
    <3>2. /\ step' \in {"start", "list", "read", "snapshot"}
               => step \in {"start", "list", "read", "snapshot"}
          /\ step' \in {"parse"} \cup Evaluated => step # "run"
      BY <2>4 DEF Raise, AllRead, ReadSource, Accept, ListPackage, ParseResult, At, Check,
         Evaluated
    <3>3. step' \in {"parse"} \cup Evaluated /\ Started => pc \in Finished
      BY <2>4, <3>2 DEF Reaped, Evaluated, AdapterTypeOK
    <3>. QED
      BY <2>1, <3>1, <3>2, <3>3 DEF Reaped, Started, vars, external
  <2>. QED
    BY <1>1, <2>2, <2>3, <2>4 DEF Evaluate
<1>2. CASE Running
  <2>1. UNCHANGED <<step, working>>
    BY <1>2 DEF Running, adapter
  <2>2. /\ exit # "none" => exit' # "none"
        /\ pc' \notin {"start_out", "start_err", "wait", "poll"} => exit' # "none"
        /\ pc \in Finished => pc' \in Finished
    BY <1>2 DEF Running, Next, Main, Start, Wait, Poll, Reap, Join, CheckFailed, CheckAlive,
       CheckRest, Goto, Killed, Drain, Read, ReadRaises, EndOfFile, Kill, Runtime, Write, Spawn,
       Exit, DescendantEnds, external, Reaped, Finished
  <2>. QED
    BY <2>1, <2>2 DEF Reaped, Started
<1>3. CASE (\E n \in PackageFiles, content \in Contents : Replace(n, content)) \/ UNCHANGED allVars
  BY <1>3 DEF Replace, allVars, adapter, vars, external, Reaped, Started
<1>. QED
  BY <1>1, <1>2, <1>3 DEF AdapterNext

\* process.wait() after the kill never waits, and by the time evaluate answers, or raises,
\* the process that it started is over: whatever the threads, the runtime and the time
\* limit do.
NothingLeftRunning ==
  /\ pc = "reap" => exit # "none"
  /\ step \in Evaluated /\ Started => exit # "none"

THEOREM ProcessesAreReaped == AdapterSpec => []NothingLeftRunning
<1>1. AdapterInit => Reaped
  BY DEF AdapterInit, Init, Reaped, Started, Evaluated
<1>2. Reaped => NothingLeftRunning
  BY DEF Reaped, NothingLeftRunning, Finished
<1>. QED
  BY <1>1, <1>2, AdapterTypes, ReapedStep, PTL DEF AdapterSpec

\* The statements that evaluate and _run have ahead of them, at most.
EvaluateLeft == [start |-> 6, list |-> 5, read |-> 4, snapshot |-> 3, run |-> 2, parse |-> 1,
                 envelope |-> 0, raised |-> 0][step]
MainLeft == [start_out |-> 10, start_err |-> 9, wait |-> 8, poll |-> 7, reap |-> 6,
             join_out |-> 5, join_err |-> 4, failed |-> 3, alive |-> 2, rest |-> 1,
             returned |-> 0, refused |-> 0][pc]
Unread == {n \in PackageFiles : sources[n] = "unread"}

\* Neither evaluate nor _run loops: a step of the one is a step ahead, or reads one file
\* more; so is every step of the other; and nobody sets them back.
EvaluationAdvances ==
  [][/\ Evaluate => \/ EvaluateLeft' < EvaluateLeft
                    \/ step' = step /\ Unread' \subseteq Unread /\ Unread' # Unread
     /\ ~Evaluate => UNCHANGED <<step, sources>>
     /\ Main => MainLeft' < MainLeft
     /\ ~Main => UNCHANGED pc]_allVars

THEOREM EvaluationsAdvance == AdapterSpec => EvaluationAdvances
<1>1. ASSUME AdapterTypeOK, Evaluate
      PROVE  \/ EvaluateLeft' < EvaluateLeft
             \/ step' = step /\ Unread' \subseteq Unread /\ Unread' # Unread
  <2>1. ASSUME NEW n \in PackageFiles, ReadSource(n), package[n] = "pinned"
        PROVE  step' = step /\ Unread' \subseteq Unread /\ Unread' # Unread
    BY <1>1, <2>1 DEF ReadSource, At, Check, Unread, AdapterTypeOK
  <2>2. ASSUME NEW n \in PackageFiles, ReadSource(n), package[n] # "pinned"
        PROVE  EvaluateLeft' < EvaluateLeft
    BY <2>2 DEF ReadSource, At, Check, EvaluateLeft
  <2>3. ASSUME \/ AllRead \/ Launch \/ RunReturns \/ Raise
               \/ \E holds \in BOOLEAN : Accept(holds) \/ ListPackage(holds) \/ ParseResult(holds)
        PROVE  EvaluateLeft' < EvaluateLeft
    BY <2>3 DEF AllRead, Launch, RunReturns, Raise, Accept, ListPackage, ParseResult, At, Check,
       EvaluateLeft
  <2>. QED
    BY <1>1, <2>1, <2>2, <2>3 DEF Evaluate
<1>2. ASSUME AdapterNext, ~Evaluate PROVE UNCHANGED <<step, sources>>
  BY <1>2 DEF AdapterNext, Running, Replace, adapter
<1>3. ASSUME Main PROVE MainLeft' < MainLeft
  BY <1>3 DEF Main, Start, Wait, Poll, Reap, Join, CheckFailed, CheckAlive, CheckRest, Goto,
     MainLeft
<1>4. ASSUME AdapterNext, ~Main PROVE UNCHANGED pc
  BY <1>4 DEF AdapterNext, Evaluate, Accept, ListPackage, ReadSource, AllRead, Launch, RunReturns,
     ParseResult, Raise, Replace, Running, Next, Drain, Read, ReadRaises, EndOfFile, Kill,
     Runtime, Write, Spawn, Exit, DescendantEnds, vars
<1>. QED
  BY <1>1, <1>2, <1>3, <1>4, AdapterTypes, PTL DEF AdapterSpec, EvaluationAdvances

===============================================================================
