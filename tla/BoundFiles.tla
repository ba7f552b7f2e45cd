------------------------------ MODULE BoundFiles ------------------------------
(***************************************************************************)
(* The durable, create-once files every record of the authority goes       *)
(* through: _write_bound (attested_handover.py) around write_new_json_file  *)
(* (evidence.py).  A writer probes the path, creates the file exclusively,  *)
(* writes and fsyncs it, fsyncs the directory and reads the bytes back; any *)
(* of these steps may raise.  A file is                                     *)
(*   level "volatile"  created, neither contents nor entry on disk yet,     *)
(*         "data"      contents fsynced, directory entry still volatile,    *)
(*         "entry"     directory fsynced: it survives a power loss.         *)
(* "by" names the writer that created the file; it is history, no           *)
(* operation reads it.  Hosts are POSIX: elsewhere the code skips the       *)
(* directory fsync and promises nothing across a power loss.                *)
(***************************************************************************)
EXTENDS Naturals, TLAPS

CONSTANTS Names,    \* the paths that may be written
          Writers,  \* the program runs that write them
          Bodies    \* the values they write

VARIABLES files,    \* what each path holds
          io        \* where each writer is inside _write_bound

Absent == [level |-> "absent"]

Present == [by: Writers, body: Bodies, whole: BOOLEAN,
            level: {"volatile", "data", "entry"}]

WriteSteps == {"probe", "create", "fill", "sync", "readback"}

FilesTypeOK ==
  /\ files \in [Names -> Present \cup {Absent}]
  /\ io \in [Writers -> WriteSteps \cup {"idle", "written", "failed"}]

FilesInit ==
  /\ files = [n \in Names |-> Absent]
  /\ io = [w \in Writers |-> "idle"]

Exists(n) == files[n].level # "absent"

\* The record is complete and survives anything the host does.
Durable(n) == files[n].level = "entry" /\ files[n].whole

-------------------------------------------------------------------------------
At(w, here, next) == io[w] = here /\ io' = [io EXCEPT ![w] = next]

\* write_new_json_file's early refusal of an existing path.
ProbePath(w, n) ==
  /\ At(w, "probe", IF Exists(n) THEN "failed" ELSE "create")
  /\ UNCHANGED files

\* os.open without O_EXCL: a path created since the probe is overwritten.
CreateTruncating(w, n, body) ==
  /\ At(w, "create", "fill")
  /\ files' = [files EXCEPT ![n] = [by |-> w, body |-> body,
                                    whole |-> FALSE, level |-> "volatile"]]

\* os.open(target, O_WRONLY | O_CREAT | O_EXCL): an empty file, or an error
\* when somebody created the path since the probe.
CreateExclusive(w, n, body) ==
  \/ /\ Exists(n)
     /\ At(w, "create", "failed")
     /\ UNCHANGED files
  \/ /\ ~Exists(n)
     /\ At(w, "create", "fill")
     /\ files' = [files EXCEPT ![n] = [by |-> w, body |-> body,
                                       whole |-> FALSE, level |-> "volatile"]]

\* write, flush, os.fsync(file).
Fill(w, n) ==
  /\ At(w, "fill", "sync")
  /\ files' = [files EXCEPT ![n].whole = TRUE, ![n].level = "data"]

\* The directory is never fsynced.
SyncNothing(w, n) ==
  /\ At(w, "sync", "readback")
  /\ UNCHANGED files

\* os.fsync(directory).  Entries of other files that it also saves are left
\* volatile, which only makes PowerLoss below more destructive.
SyncDirectory(w, n) ==
  /\ At(w, "sync", "readback")
  /\ files' = [files EXCEPT ![n].level = "entry"]

\* read_regular(path) == raw.
ReadBack(w, n, body) ==
  /\ At(w, "readback", IF files[n].whole /\ files[n].body = body
                       THEN "written" ELSE "failed")
  /\ UNCHANGED files

\* An OSError at any step.  One while writing leaves the file torn or whole,
\* its contents not fsynced; every other one leaves the file as it is.
WriteError(w, n) ==
  /\ io[w] \in WriteSteps
  /\ io' = [io EXCEPT ![w] = "failed"]
  /\ \/ UNCHANGED files
     \/ io[w] = "fill" /\ files' = [files EXCEPT ![n].whole = TRUE]

\* One step of _write_bound(n, body) by writer w.
WriteBound(w, n, body) ==
  \/ ProbePath(w, n)
  \/ CreateExclusive(w, n, body)
  \/ Fill(w, n)
  \/ SyncDirectory(w, n)
  \/ ReadBack(w, n, body)
  \/ WriteError(w, n)

\* The last check of write_new_json_file: the path is a regular file.
Confirm(w) == At(w, "sync", "written") /\ UNCHANGED files

\* One step of write_new_json_file(n, body) used by itself: the directory is not
\* fsynced and nothing is read back.
WriteNew(w, n, body) ==
  \/ ProbePath(w, n)
  \/ CreateExclusive(w, n, body)
  \/ Fill(w, n)
  \/ Confirm(w)
  \/ WriteError(w, n)

\* A file whose entry reached the disk, its contents too or not.
Survivor(f, torn) ==
  [f EXCEPT !.level = "entry", !.whole = IF torn THEN FALSE ELSE f.whole]

\* The host stops: files whose entry is not on disk vanish or survive, each by
\* itself, and unsynced contents may be torn.  io is left to the caller.
PowerLoss ==
  \E vanished \in SUBSET {n \in Names : files[n].level \in {"volatile", "data"}},
     torn \in SUBSET {n \in Names : files[n].level = "volatile"} :
    /\ vanished \cap torn = {}
    /\ files' = [n \in Names |->
                   IF n \in vanished THEN Absent
                   ELSE IF files[n].level \in {"absent", "entry"} THEN files[n]
                   ELSE Survivor(files[n], n \in torn)]

-------------------------------------------------------------------------------
(* What _write_bound guarantees, whatever else runs. *)

\* Writer w is inside _write_bound(n): from the creation on the file is its own,
\* whole once filled and on disk once synced.
Holds(w, n) ==
  /\ io[w] \in {"fill", "sync", "readback", "written"} =>
       files[n] \in Present /\ files[n].by = w
  /\ io[w] = "fill" => files[n].level = "volatile"
  /\ io[w] = "sync" => files[n].level = "data" /\ files[n].whole
  /\ io[w] \in {"readback", "written"} => Durable(n)

\* A step of _write_bound touches its own file only, never one that somebody
\* else created, never one that is durable, and never changes an owner.
LEMMA WriteBoundEffect ==
  ASSUME FilesTypeOK, NEW w \in Writers, NEW n \in Names, NEW body \in Bodies,
         Holds(w, n), WriteBound(w, n, body)
  PROVE  /\ FilesTypeOK'
         /\ Holds(w, n)'
         /\ \A v \in Writers \ {w} : io'[v] = io[v]
         /\ \A m \in Names : m # n \/ Durable(m) => files'[m] = files[m]
         /\ Exists(n) => Exists(n)' /\ files'[n].by = files[n].by
         /\ Exists(n) /\ files[n].by # w => files'[n] = files[n]
<1> USE DEF FilesTypeOK, At, WriteSteps, Holds, Durable, Exists
<1>1. CASE ProbePath(w, n)
  BY <1>1 DEF ProbePath
<1>2. CASE CreateExclusive(w, n, body)
  <2> DEFINE new == [by |-> w, body |-> body, whole |-> FALSE, level |-> "volatile"]
  <2>1. new \in Present /\ new.by = w /\ new.level = "volatile"
    BY DEF Present
  <2>2. CASE Exists(n)
    BY <1>2, <2>2 DEF CreateExclusive
  <2>3. CASE ~Exists(n)
    <3>1. files' = [files EXCEPT ![n] = new] /\ io' = [io EXCEPT ![w] = "fill"]
      BY <1>2, <2>3 DEF CreateExclusive
    <3>. QED
      BY <3>1, <2>1, <2>3
  <2>. QED
    BY <2>2, <2>3
<1>3. CASE Fill(w, n)
  BY <1>3 DEF Fill, Present, Absent
<1>4. CASE SyncDirectory(w, n)
  BY <1>4 DEF SyncDirectory, Present, Absent
<1>5. CASE ReadBack(w, n, body)
  BY <1>5 DEF ReadBack
<1>6. CASE WriteError(w, n)
  <2>1. io' = [io EXCEPT ![w] = "failed"]
    BY <1>6 DEF WriteError
  <2>2. CASE UNCHANGED files
    BY <2>1, <2>2
  <2>3. CASE io[w] = "fill" /\ files' = [files EXCEPT ![n].whole = TRUE]
    <3> DEFINE new == [files[n] EXCEPT !.whole = TRUE]
    <3>1. files[n] \in Present /\ files[n].by = w /\ files[n].level = "volatile"
      BY <2>3
    <3>2. new \in Present /\ new.by = w /\ new.level = "volatile"
      BY <3>1 DEF Present
    <3>3. files' = [files EXCEPT ![n] = new]
      BY <2>3
    <3>. QED
      BY <2>1, <3>1, <3>2, <3>3
  <2>. QED
    BY <1>6, <2>2, <2>3 DEF WriteError
<1>. QED
  BY <1>1, <1>2, <1>3, <1>4, <1>5, <1>6 DEF WriteBound

\* Two writers never disturb each other, even on the same path.
LEMMA HoldsStable ==
  ASSUME FilesTypeOK, NEW w \in Writers, NEW n \in Names, NEW body \in Bodies,
         Holds(w, n), WriteBound(w, n, body),
         NEW v \in Writers \ {w}, NEW m \in Names, Holds(v, m)
  PROVE  Holds(v, m)'
<1>1. io'[v] = io[v]
  BY WriteBoundEffect
<1>2. CASE io[v] \in {"fill", "sync", "readback", "written"}
  <2>1. files[m] \in Present /\ files[m].by = v
    BY <1>2 DEF Holds
  <2>2. Exists(m)
    BY <2>1 DEF Exists, Present
  <2>3. files'[m] = files[m]
    BY <2>1, <2>2, WriteBoundEffect
  <2>. QED
    BY <1>1, <2>3, <1>2 DEF Holds, Durable
<1>3. CASE io[v] \notin {"fill", "sync", "readback", "written"}
  BY <1>1, <1>3 DEF Holds
<1>. QED
  BY <1>2, <1>3

\* A power loss spares every durable file.
LEMMA PowerLossEffect ==
  ASSUME FilesTypeOK, PowerLoss
  PROVE  /\ files' \in [Names -> Present \cup {Absent}]
         /\ \A m \in Names : Durable(m) => files'[m] = files[m]
         /\ \A m \in Names : Exists(m) /\ Exists(m)' => files'[m].by = files[m].by
<1>1. ASSUME NEW f \in Present, NEW torn \in BOOLEAN
      PROVE  Survivor(f, torn) \in Present /\ Survivor(f, torn).by = f.by
  BY DEF Survivor, Present
<1>2. ASSUME NEW m \in Names
      PROVE  /\ files'[m] \in Present \cup {Absent}
             /\ Durable(m) => files'[m] = files[m]
             /\ Exists(m) /\ Exists(m)' => files'[m].by = files[m].by
  <2>1. PICK torn \in SUBSET Names :
          files'[m] \in {Absent, files[m], Survivor(files[m], m \in torn)}
          /\ (files[m].level \in {"absent", "entry"} => files'[m] = files[m])
    BY DEF PowerLoss
  <2>2. CASE files[m] = Absent
    BY <2>1, <2>2 DEF Durable, Exists, Absent
  <2>3. CASE files[m] \in Present
    <3>1. /\ Survivor(files[m], m \in torn) \in Present
          /\ Survivor(files[m], m \in torn).by = files[m].by
      BY <1>1, <2>3, (m \in torn) \in BOOLEAN
    <3>2. files'[m] \in Present \cup {Absent}
      BY <2>1, <2>3, <3>1
    <3>3. Durable(m) => files'[m] = files[m]
      BY <2>1 DEF Durable
    <3>4. Exists(m) /\ Exists(m)' => files'[m].by = files[m].by
      BY <2>1, <3>1 DEF Exists, Absent
    <3>. QED
      BY <3>2, <3>3, <3>4
  <2>. QED
    BY <2>2, <2>3 DEF FilesTypeOK
<1>3. DOMAIN files' = Names /\ files' = [m \in Names |-> files'[m]]
  BY DEF PowerLoss
<1>. QED
  BY <1>2, <1>3

\* An existing file keeps its writer and its contents; a new one has those of the
\* step that creates it; and what is written was read back.
LEMMA WriteBoundContents ==
  ASSUME FilesTypeOK, NEW w \in Writers, NEW n \in Names, NEW body \in Bodies,
         Holds(w, n), WriteBound(w, n, body)
  PROVE  /\ \A m \in Names : Exists(m) =>
              /\ Exists(m)'
              /\ files'[m].by = files[m].by /\ files'[m].body = files[m].body
         /\ \A m \in Names : Exists(m)' /\ ~Exists(m) =>
              m = n /\ files'[m].by = w /\ files'[m].body = body
         /\ io'[w] = "written" =>
              Durable(n)' /\ files'[n].by = w /\ files'[n].body = body
<1> USE DEF FilesTypeOK, At, WriteSteps, Holds, Durable, Exists
<1>1. CASE ProbePath(w, n)
  BY <1>1 DEF ProbePath
<1>2. CASE CreateExclusive(w, n, body)
  BY <1>2 DEF CreateExclusive
<1>3. CASE Fill(w, n)
  BY <1>3 DEF Fill, Present, Absent
<1>4. CASE SyncDirectory(w, n)
  BY <1>4 DEF SyncDirectory, Present, Absent
<1>5. CASE ReadBack(w, n, body)
  BY <1>5 DEF ReadBack
<1>6. CASE WriteError(w, n)
  <2>1. CASE UNCHANGED files
    BY <1>6, <2>1 DEF WriteError
  <2>2. CASE io[w] = "fill" /\ files' = [files EXCEPT ![n].whole = TRUE]
    BY <1>6, <2>2 DEF WriteError, Present, Absent
  <2>. QED
    BY <1>6, <2>1, <2>2 DEF WriteError
<1>. QED
  BY <1>1, <1>2, <1>3, <1>4, <1>5, <1>6 DEF WriteBound

\* What survives a power loss was there before, with the same contents.
LEMMA PowerLossContents ==
  ASSUME FilesTypeOK, PowerLoss
  PROVE  \A m \in Names : Exists(m)' =>
           Exists(m) /\ files'[m].by = files[m].by /\ files'[m].body = files[m].body
<1>1. SUFFICES ASSUME NEW m \in Names, Exists(m)'
               PROVE  Exists(m) /\ files'[m].by = files[m].by /\ files'[m].body = files[m].body
  OBVIOUS
<1>2. PICK torn \in SUBSET Names :
        files'[m] \in {Absent, files[m], Survivor(files[m], m \in torn)}
        /\ (files[m].level \in {"absent", "entry"} => files'[m] = files[m])
  BY DEF PowerLoss
<1>3. Exists(m) /\ files[m] \in Present
  BY <1>1, <1>2 DEF Exists, FilesTypeOK, Absent
<1>4. ASSUME NEW f \in Present, NEW some
      PROVE  Survivor(f, some).by = f.by /\ Survivor(f, some).body = f.body
  BY DEF Survivor, Present
<1>5. /\ Survivor(files[m], m \in torn).by = files[m].by
      /\ Survivor(files[m], m \in torn).body = files[m].body
  BY <1>3, <1>4
<1>6. files'[m] # Absent
  BY <1>1 DEF Exists, Absent
<1>. QED
  BY <1>2, <1>3, <1>5, <1>6

\* No record is on disk that was not there a step before.
LEMMA WriteBoundDurable ==
  ASSUME FilesTypeOK, NEW w \in Writers, NEW n \in Names, NEW body \in Bodies,
         Holds(w, n), WriteBound(w, n, body)
  PROVE  \A m \in Names : Durable(m)' => Exists(m)
  BY DEF FilesTypeOK, Holds, Durable, Exists, Present, Absent, At, WriteSteps, WriteBound,
     ProbePath, CreateExclusive, Fill, SyncDirectory, ReadBack, WriteError

\* How many statements of _write_bound a writer has left, at most.
Left == [probe |-> 5, create |-> 4, fill |-> 3, sync |-> 2, readback |-> 1,
         written |-> 0, failed |-> 0, idle |-> 0]

\* Each one uses one up, and leaves those of others.
LEMMA WriteBoundCounts ==
  ASSUME FilesTypeOK, NEW w \in Writers, NEW n, NEW body, WriteBound(w, n, body)
  PROVE  /\ Left[io[w]] \in 0..5 /\ Left[io'[w]] \in 0..5
         /\ Left[io'[w]] < Left[io[w]]
         /\ \A v \in Writers \ {w} : io'[v] = io[v]
  BY DEF Left, FilesTypeOK, WriteSteps, At, WriteBound, ProbePath, CreateExclusive, Fill,
     SyncDirectory, ReadBack, WriteError

\* What a run of write_new_json_file knows of its file, by itself.
Creates(w, n, body) ==
  /\ io[w] \in {"fill", "sync", "written"} =>
       Exists(n) /\ files[n].by = w /\ files[n].body = body
  /\ io[w] \in {"sync", "written"} => files[n].whole

\* A step of it leaves every file that is there with its writer and contents, torn no
\* more than it was; a new file is its own.
LEMMA WriteNewEffect ==
  ASSUME FilesTypeOK, NEW w \in Writers, NEW n \in Names, NEW body \in Bodies,
         Creates(w, n, body), WriteNew(w, n, body)
  PROVE  /\ FilesTypeOK'
         /\ Creates(w, n, body)'
         /\ \A v \in Writers \ {w} : io'[v] = io[v]
         /\ \A m \in Names : Exists(m) =>
              /\ Exists(m)' /\ files'[m].by = files[m].by /\ files'[m].body = files[m].body
              /\ files[m].whole => files'[m].whole
         /\ \A m \in Names : Exists(m)' /\ ~Exists(m) =>
              m = n /\ files'[m].by = w /\ files'[m].body = body
<1> USE DEF FilesTypeOK, At, WriteSteps, Creates, Exists
<1>1. CASE ProbePath(w, n)
  BY <1>1 DEF ProbePath
<1>2. CASE CreateExclusive(w, n, body)
  <2> DEFINE new == [by |-> w, body |-> body, whole |-> FALSE, level |-> "volatile"]
  <2>1. /\ new \in Present /\ new.by = w /\ new.body = body /\ new.level = "volatile"
    BY DEF Present
  <2>2. CASE Exists(n)
    BY <1>2, <2>2 DEF CreateExclusive
  <2>3. CASE ~Exists(n)
    <3>1. files' = [files EXCEPT ![n] = new] /\ io' = [io EXCEPT ![w] = "fill"]
      BY <1>2, <2>3 DEF CreateExclusive
    <3>. QED
      BY <3>1, <2>1, <2>3
  <2>. QED
    BY <2>2, <2>3
<1>3. CASE Fill(w, n)
  <2> DEFINE new == [files[n] EXCEPT !.whole = TRUE, !.level = "data"]
  <2>1. files[n] \in Present /\ files[n].by = w /\ files[n].body = body
    BY <1>3 DEF Fill, Absent
  <2>2. new \in Present /\ new.by = w /\ new.body = body /\ new.level = "data" /\ new.whole
    BY <2>1 DEF Present
  <2>3. files' = [files EXCEPT ![n] = new] /\ io' = [io EXCEPT ![w] = "sync"]
    BY <1>3 DEF Fill
  <2>. QED
    BY <2>1, <2>2, <2>3
<1>4. CASE Confirm(w)
  BY <1>4 DEF Confirm
<1>5. CASE WriteError(w, n)
  <2>1. io' = [io EXCEPT ![w] = "failed"]
    BY <1>5 DEF WriteError
  <2>2. CASE UNCHANGED files
    BY <2>1, <2>2
  <2>3. CASE io[w] = "fill" /\ files' = [files EXCEPT ![n].whole = TRUE]
    <3> DEFINE new == [files[n] EXCEPT !.whole = TRUE]
    <3>1. files[n] \in Present
      BY <2>3 DEF Absent
    <3>2. /\ new \in Present /\ new.by = files[n].by /\ new.body = files[n].body
          /\ new.level = files[n].level /\ new.whole
      BY <3>1 DEF Present
    <3>3. files' = [files EXCEPT ![n] = new]
      BY <2>3
    <3>. QED
      BY <2>1, <3>1, <3>2, <3>3
  <2>. QED
    BY <1>5, <2>2, <2>3 DEF WriteError
<1>. QED
  BY <1>1, <1>2, <1>3, <1>4, <1>5 DEF WriteNew

===============================================================================
