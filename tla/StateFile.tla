------------------------------ MODULE StateFile ------------------------------
(***************************************************************************)
(* The state file (internal/proxy/state.go, and the goroutines of run.go   *)
(* that use it): Persist copies the rotation's state under r.mu, clears    *)
(* dirty and, outside the lock, writes <path>.tmp and renames it;          *)
(* EnablePersistence reads it back when the process starts.                *)
(*                                                                         *)
(* persistLoop calls Persist every ten seconds; the dashboard calls it     *)
(* once more on its way out, with persistLoop still running.  Each system  *)
(* call of os.WriteFile and os.Rename is a step, files are inodes, and the *)
(* process may be killed between any two steps.  What the kernel has       *)
(* written survives the process (a power cut is not modelled).             *)
(*                                                                         *)
(* Of the rotation's state the model keeps a counter of the requests       *)
(* recorded and one cooldown.  What an inode holds is <<s>> when it reads  *)
(* as the JSON of s, and <<>> when it does not read: empty, cut short or   *)
(* overwritten in part.                                                    *)
(***************************************************************************)
EXTENDS SavedState

CONSTANTS Unreliable,    \* whether a system call may fail
          Cooldown,      \* what a block asks for
          MaxCount,      \* bounds of the exploration: changes,
          MaxTime,       \* instants,
          MaxStarts      \* and restarts of the process

ASSUME BooleansAssumption == Unreliable \in BOOLEAN
ASSUME BoundsAssumption ==
  Cooldown \in Nat \ {0} /\ MaxCount \in Nat /\ MaxTime \in Nat /\ MaxStarts \in Nat

VARIABLES
  now,       \* the clock
  stage,     \* the process: "up", "quitting", "exited" or "killed"
  mem,       \* the rotation's state in memory
  dirty,     \* r.dirty
  disk,      \* inode -> what it holds
  path,      \* the inode of statePath, 0 when there is none
  tmp,       \* the inode of statePath.tmp, 0 when there is none
  wpc,       \* caller of Persist -> its next step
  snap,      \* caller -> the copy it writes
  fd,        \* caller -> the inode it has open
  failing,   \* whether the last Persist that wrote returned an error
  quiet,     \* history: no write was under way at its Persist, nothing changed since
  changes, stops  \* bounds

process == <<now, stage, changes, stops>>
files == <<disk, path, tmp>>
writers == <<wpc, snap, fd, failing>>
svars == <<now, stage, mem, dirty, disk, path, tmp, wpc, snap, fd, failing, quiet, changes, stops>>

Callers == {"loop", "exit"}
Inodes == 1 .. 4
Up == stage \in {"up", "quitting"}

SInit ==
  /\ now = 1 /\ stage = "up"
  /\ mem = Zero /\ dirty = FALSE
  /\ disk = [i \in Inodes |-> <<>>] /\ path = 0 /\ tmp = 0
  /\ wpc = [w \in Callers |-> "idle"]
  /\ snap = [w \in Callers |-> Zero]
  /\ fd = [w \in Callers |-> 0]
  /\ failing = FALSE /\ quiet = FALSE /\ changes = 0 /\ stops = 0

-----------------------------------------------------------------------------
(* The rest of the process                                                 *)

\* recordUsage and block: they leave dirty set.
Touch(m) ==
  /\ Up /\ changes < MaxCount
  /\ mem' = m /\ dirty' = TRUE /\ quiet' = FALSE
  /\ changes' = changes + 1
  /\ UNCHANGED <<now, stage, stops, files, writers>>

Record == Touch([mem EXCEPT !.count = @ + 1])
Block == Touch([mem EXCEPT !.until = now + Cooldown])

Elapse ==
  /\ now < MaxTime
  /\ now' = now + 1
  /\ UNCHANGED <<stage, quiet, changes, stops, mem, dirty, files, writers>>

\* Mutant: the dashboard's exit leaves the last write to the loop.
Quit_noPersist ==
  /\ stage = "up"
  /\ stage' = "quitting"
  /\ quiet' = (wpc["loop"] = "idle")
  /\ UNCHANGED <<now, changes, stops, mem, dirty, files, writers>>

\* The dashboard returns (a headless process never does); the listener is closed,
\* not the handlers.
Quit ==
  /\ stage = "up"
  /\ stage' = "quitting"
  /\ wpc' = [wpc EXCEPT !["exit"] = "call"]
  /\ UNCHANGED <<now, quiet, changes, stops, mem, dirty, files, snap, fd, failing>>

\* Run returns after the last Persist: the process ends, whatever persistLoop is at.
Ends(how) ==
  /\ stage' = how
  /\ wpc' = [w \in Callers |-> "idle"]
  /\ stops' = stops + 1
  /\ UNCHANGED <<now, quiet, changes, mem, dirty, files, snap, fd, failing>>

Exit == stage = "quitting" /\ wpc["exit"] = "idle" /\ Ends("exited")
Kill == Up /\ Ends("killed")

-----------------------------------------------------------------------------
(* Persist                                                                 *)

\* Mutant: no cooldown is copied.
Snapshot_counters(w) ==
  /\ dirty
  /\ snap' = [snap EXCEPT ![w] = [mem EXCEPT !.until = 0]]
  /\ dirty' = FALSE
  /\ wpc' = [wpc EXCEPT ![w] = "open"]

\* Under r.mu: the copy, without the cooldowns that have elapsed.
Snapshot(w) ==
  /\ dirty
  /\ snap' = [snap EXCEPT ![w] = Live(mem, now)]
  /\ dirty' = FALSE
  /\ wpc' = [wpc EXCEPT ![w] = "open"]

\* persistLoop's tick finds something to write; the exit calls in any case.
Begin(w) ==
  /\ Up
  /\ wpc[w] = IF w = "loop" THEN "idle" ELSE "call"
  /\ \/ Snapshot(w)
     \/ w = "exit" /\ ~dirty /\ wpc' = [wpc EXCEPT ![w] = "idle"] /\ UNCHANGED <<dirty, snap>>
  /\ quiet' = IF w = "exit" THEN wpc["loop"] = "idle" ELSE quiet
  /\ UNCHANGED <<process, mem, files, fd, failing>>

\* Persist returns.
Return(w, error) ==
  /\ wpc' = [wpc EXCEPT ![w] = "idle"]
  /\ failing' = error

\* An inode no name and no open file refers to.
Unused == CHOOSE i \in Inodes : i \notin {path, tmp, fd["loop"], fd["exit"]}

\* Mutant: the state file itself is opened.
Open_inPlace(w) ==
  /\ Up /\ wpc[w] = "open"
  /\ LET i == IF path = 0 THEN Unused ELSE path
     IN  fd' = [fd EXCEPT ![w] = i] /\ path' = i /\ disk' = [disk EXCEPT ![i] = <<>>]
  /\ wpc' = [wpc EXCEPT ![w] = "write"]
  /\ UNCHANGED <<process, quiet, mem, dirty, tmp, snap, failing>>

\* open(O_CREAT | O_TRUNC): a file of that name is emptied, whoever has it open.
Open(w) ==
  /\ Up /\ wpc[w] = "open"
  /\ LET i == IF tmp = 0 THEN Unused ELSE tmp
     IN  /\ fd' = [fd EXCEPT ![w] = i]
         /\ tmp' = i
         /\ disk' = [disk EXCEPT ![i] = <<>>]
  /\ wpc' = [wpc EXCEPT ![w] = "write"]
  /\ UNCHANGED <<process, quiet, mem, dirty, path, snap, failing>>

\* write: from the start of the file, over what another caller wrote there.
Write(w) ==
  /\ Up /\ wpc[w] = "write"
  /\ \E written \in {<<snap[w]>>} \cup (IF disk[fd[w]] = <<>> THEN {} ELSE {<<>>}) :
       disk' = [disk EXCEPT ![fd[w]] = written]
  /\ wpc' = [wpc EXCEPT ![w] = "rename"]
  /\ fd' = [fd EXCEPT ![w] = 0]
  /\ UNCHANGED <<process, quiet, mem, dirty, path, tmp, snap, failing>>

\* Mutant: dirty is cleared when the file is in place.
Rename_clearsDirty(w) ==
  /\ Up /\ wpc[w] = "rename"
  /\ IF tmp = 0
       THEN Return(w, TRUE) /\ UNCHANGED <<path, tmp>>
       ELSE Return(w, FALSE) /\ path' = tmp /\ tmp' = 0
  /\ dirty' = FALSE
  /\ UNCHANGED <<process, quiet, mem, disk, snap, fd>>

\* rename: fails when the other caller has renamed the file.
Rename(w) ==
  /\ Up /\ wpc[w] = "rename"
  /\ IF tmp = 0
       THEN Return(w, TRUE) /\ UNCHANGED <<path, tmp>>
       ELSE Return(w, FALSE) /\ path' = tmp /\ tmp' = 0
  /\ UNCHANGED <<process, quiet, mem, dirty, disk, snap, fd>>

\* A system call fails: no directory, no space left (what was written is cut
\* short), no permission.  Persist returns; dirty stays as it is.
Fail(w) ==
  /\ Unreliable
  /\ Up /\ wpc[w] \in {"open", "write", "rename"}
  /\ Return(w, TRUE)
  /\ fd' = [fd EXCEPT ![w] = 0]
  /\ disk' = IF wpc[w] = "write" THEN [disk EXCEPT ![fd[w]] = <<>>] ELSE disk
  /\ UNCHANGED <<process, quiet, mem, dirty, path, tmp, snap>>

Persist(w) == Begin(w) \/ Open(w) \/ Write(w) \/ Rename(w) \/ Fail(w)

-----------------------------------------------------------------------------
(* The next start                                                          *)

\* What the file at inode i reads as; nothing when it cannot be read.
ReadAs(i) == IF i = 0 THEN Zero ELSE IF disk[i] = <<>> THEN Zero ELSE disk[i][1]

\* EnablePersistence: the counters, and the cooldowns that have not elapsed.
EnablePersistence == Live(ReadAs(path), now)

Start ==
  /\ stage \in {"exited", "killed"} /\ stops <= MaxStarts
  /\ stage' = "up"
  /\ mem' = EnablePersistence
  /\ dirty' = FALSE /\ failing' = FALSE
  /\ UNCHANGED <<now, quiet, changes, stops, files, wpc, snap, fd>>

SNext ==
  \/ Record \/ Block \/ Elapse \/ Quit \/ Exit \/ Kill \/ Start
  \/ \E w \in Callers : Persist(w)

SSpec == SInit /\ [][SNext]_svars

\* persistLoop's ticker fires again and again, and system calls return.
FairSSpec == SSpec /\ WF_svars(Persist("loop"))

-----------------------------------------------------------------------------
(* Properties                                                              *)

Durable == INSTANCE DurableState WITH running <- Up, saved <- ReadAs(path)

\* However often the process is killed or a system call fails, and whatever is
\* recorded while Persist writes outside the lock, the file reads as a state the
\* process was in, never one older than it read before, and the next start takes
\* up from it.  Not so in a clean exit, whose Persist shares the temporary file
\* with persistLoop's.
ImplementsDurableState ==
  Durable!DInit /\ [][stage = "quitting" \/ Durable!DNext]_<<now, Up, mem, ReadAs(path)>>

\* When Persist has nothing to do the file is up to date: a kill would lose
\* nothing, though the copy was made, and its cooldowns filtered, at an earlier
\* time and more was recorded during the write.
NothingToWriteMeansSaved ==
  stage = "up" /\ ~dirty /\ ~failing /\ wpc["loop"] = "idle"
    => Live(ReadAs(path), now) = Live(mem, now)

\* What is recorded reaches the file, unless the process stops first or a write
\* fails.
EventuallySaved ==
  \A n \in 1 .. MaxCount :
    (stage = "up" /\ mem.count = n) ~> (ReadAs(path).count >= n \/ stage # "up" \/ failing)

\* The Persist of a clean exit leaves everything in the file when it did not find
\* persistLoop in the middle of a write, no request completed after it began and
\* no write failed, though the loop goes on ticking.
QuietExitSaves ==
  stage = "exited" /\ quiet /\ ~failing => Live(ReadAs(path), now) = Live(mem, now)

=============================================================================
