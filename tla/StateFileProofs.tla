--------------------------- MODULE StateFileProofs ---------------------------
(***************************************************************************)
(* Proofs about the state file, for every bound of StateFile and with or   *)
(* without failing system calls: when Persist finds nothing to do the file *)
(* is up to date, a quiet exit loses nothing, and the file is what         *)
(* DurableState promises.                                                  *)
(*                                                                         *)
(* The argument follows one copy.  As long as a caller of Persist is alone *)
(* (Alone), the temporary file holds what that caller has put there        *)
(* (InHand), and file, copy and memory are in order (Lagging).  Two        *)
(* callers at once void all three: they share the temporary file.  Hence   *)
(* the exceptions for "quitting" in what is proved.                        *)
(***************************************************************************)
EXTENDS StateFile, TLAPS

\* A saved state, and what an inode may hold.
State == [count : Nat, until : Nat]
Contents == {<<>>} \cup {<<s>> : s \in State}

SType ==
  /\ now \in Nat /\ changes \in Nat /\ stops \in Nat
  /\ stage \in {"up", "quitting", "exited", "killed"}
  /\ mem \in State
  /\ disk \in [Inodes -> Contents]
  /\ path \in 0 .. 4 /\ tmp \in 0 .. 4
  /\ wpc \in [Callers -> {"idle", "call", "open", "write", "rename"}]
  /\ snap \in [Callers -> State]
  /\ fd \in [Callers -> 0 .. 4]

\* The two names are of two files, and a process that ended has no callers.
Names ==
  /\ path = tmp => path = 0
  /\ wpc["loop"] # "call"
  /\ stage = "up" => wpc["exit"] = "idle"
  /\ ~Up => \A w \in Callers : wpc[w] = "idle"

\* Only w writes: persistLoop until the exit's Persist begins, and that one when it
\* found persistLoop idle and nothing has changed since.
Alone(w) ==
  IF w = "loop" THEN stage = "up" \/ (stage = "quitting" /\ wpc["exit"] = "call")
                ELSE stage = "quitting" /\ wpc["exit"] # "call" /\ quiet

\* How far a caller that is alone has got with its copy.
InHand(w) ==
  CASE wpc[w] = "write"  -> tmp # 0 /\ fd[w] = tmp /\ disk[tmp] = <<>>
    [] wpc[w] = "rename" -> tmp # 0 /\ disk[tmp] = <<snap[w]>>
    [] OTHER             -> TRUE

Writing(w) == wpc[w] \in {"open", "write", "rename"}
Fresh(s) == Live(s, now) = Live(mem, now)

\* The file, the copy under way and memory follow each other in time, and the last of
\* them that is there is up to date as long as dirty says so.
Lagging(w) ==
  /\ ReadAs(path).count <= mem.count
  /\ Writing(w) => /\ ReadAs(path).count <= snap[w].count /\ snap[w].count <= mem.count
                   /\ ~dirty => Fresh(snap[w])
  /\ ~Writing(w) /\ ~dirty /\ ~failing => Fresh(ReadAs(path))

CopyInv ==
  /\ \A w \in Callers : Alone(w) => InHand(w) /\ Lagging(w)
  /\ Alone("exit") => wpc["loop"] = "idle" /\ ~dirty
  /\ stage = "exited" /\ quiet /\ ~failing => Fresh(ReadAs(path))

SInv == SType /\ Names /\ CopyInv

-----------------------------------------------------------------------------
(* Facts about saved states and files                                      *)

\* Live in the form the provers can compare.
LEMMA LiveForm ==
  ASSUME NEW s \in State, NEW t \in Nat
  PROVE  /\ Live(s, t) = [count |-> s.count, until |-> IF s.until > t THEN s.until ELSE 0]
         /\ Live(s, t) \in State /\ Live(s, t).count = s.count
BY DEF Live, State

\* States that differ in elapsed cooldowns only go on doing so.
LEMMA LiveLater ==
  ASSUME NEW a \in State, NEW b \in State, NEW t \in Nat, Live(a, t) = Live(b, t)
  PROVE  Live(a, t + 1) = Live(b, t + 1)
<1>1. a.count = b.count
  BY LiveForm
<1>2. (IF a.until > t THEN a.until ELSE 0) = (IF b.until > t THEN b.until ELSE 0)
  BY LiveForm
<1>3. (IF a.until > t + 1 THEN a.until ELSE 0) = (IF b.until > t + 1 THEN b.until ELSE 0)
  BY <1>2 DEF State
<1> QED  BY <1>1, <1>3, LiveForm

LEMMA LiveTwice ==
  ASSUME NEW s \in State, NEW t \in Nat
  PROVE  Live(Live(s, t), t) = Live(s, t)
BY DEF Live, State

LEMMA ReadsAState ==
  ASSUME SType, NEW i \in 0 .. 4
  PROVE  ReadAs(i) \in State
<1>1. Zero \in State  BY DEF Zero, State
<1>2. i # 0 => disk[i] \in Contents  BY DEF SType, Inodes
<1> QED  BY <1>1, <1>2 DEF ReadAs, Contents

\* Three inodes at most are in use when a file is created.
LEMMA UnusedExists ==
  ASSUME SType, tmp = 0
  PROVE  Unused \in Inodes /\ Unused # path
<1>1. \E i \in Inodes : i \notin {path, tmp, fd["loop"], fd["exit"]}
  <2>1. path \in 0 .. 4 /\ fd["loop"] \in 0 .. 4 /\ fd["exit"] \in 0 .. 4
    BY DEF SType, Callers
  <2> QED  BY <2>1 DEF Inodes
<1> QED  BY <1>1 DEF Unused
-----------------------------------------------------------------------------
(* The invariant                                                           *)

LEMMA InitHolds ==
  ASSUME SInit
  PROVE  SInv
<1>1. Zero \in State /\ <<>> \in Contents  BY DEF Zero, State, Contents
<1>2. SType  BY <1>1 DEF SInit, SType, Inodes, Callers
<1>3. Names  BY DEF SInit, Names, Callers, Up
<1>4. ReadAs(path) = mem /\ mem.count \in Nat  BY <1>1 DEF SInit, ReadAs, State
<1>5. CopyInv  BY <1>4 DEF SInit, CopyInv, Callers, Alone, InHand, Lagging, Writing, Fresh
<1> QED  BY <1>2, <1>3, <1>5 DEF SInv

LEMMA StepType ==
  ASSUME SType, [SNext]_svars
  PROVE  SType'
<1> USE DEF SType, process, files, writers
<1>1. CASE Record
  <2>1. [mem EXCEPT !.count = @ + 1] \in State  BY DEF State
  <2> QED  BY <1>1, <2>1 DEF Record, Touch
<1>2. CASE Block
  <2>1. [mem EXCEPT !.until = now + Cooldown] \in State  BY BoundsAssumption DEF State
  <2> QED  BY <1>2, <2>1 DEF Block, Touch
<1>3. CASE Elapse  BY <1>3 DEF Elapse
<1>4. CASE Quit  BY <1>4 DEF Quit, Callers
<1>5. CASE Exit \/ Kill  BY <1>5 DEF Exit, Kill, Ends
<1>6. CASE Start
  <2>1. Live(ReadAs(path), now) \in State  BY ReadsAState, LiveForm
  <2> QED  BY <1>6, <2>1 DEF Start, EnablePersistence
<1>7. ASSUME NEW w \in Callers, Persist(w)  PROVE SType'
  <2>1. Live(mem, now) \in State  BY LiveForm
  <2>2. CASE Begin(w)  BY <2>1, <2>2 DEF Begin, Snapshot
  <2>3. CASE Open(w)
    <3>1. (IF tmp = 0 THEN Unused ELSE tmp) \in Inodes  BY UnusedExists DEF Inodes
    <3>2. (IF tmp = 0 THEN Unused ELSE tmp) \in 0 .. 4  BY <3>1 DEF Inodes
    <3>3. <<>> \in Contents  BY DEF Contents
    <3> QED  BY <2>3, <3>1, <3>2, <3>3 DEF Open
  <2>4. CASE Write(w)
    <3>1. <<snap[w]>> \in Contents /\ <<>> \in Contents  BY DEF Contents
    <3>2. disk' \in [Inodes -> Contents]  BY <2>4, <3>1 DEF Write
    <3> QED  BY <2>4, <3>2 DEF Write
  <2>5. CASE Rename(w)
    <3>1. wpc' = [wpc EXCEPT ![w] = "idle"]
      BY <2>5 DEF Rename, Return
    <3>2. path' \in 0 .. 4 /\ tmp' \in 0 .. 4  BY <2>5 DEF Rename, Return
    <3> QED  BY <2>5, <3>1, <3>2 DEF Rename
  <2>6. CASE Fail(w)
    <3>1. <<>> \in Contents  BY DEF Contents
    <3>2. wpc' = [wpc EXCEPT ![w] = "idle"]
      BY <2>6 DEF Fail, Return
    <3>3. disk' \in [Inodes -> Contents]  BY <2>6, <3>1 DEF Fail, Return
    <3> QED  BY <2>6, <3>2, <3>3 DEF Fail, Return
  <2> QED  BY <1>7, <2>2, <2>3, <2>4, <2>5, <2>6 DEF Persist
<1>8. CASE UNCHANGED svars  BY <1>8 DEF svars
<1> QED  BY <1>1, <1>2, <1>3, <1>4, <1>5, <1>6, <1>7, <1>8 DEF SNext

LEMMA StepNames ==
  ASSUME SType, Names, [SNext]_svars
  PROVE  Names'
<1> USE DEF SType, Names, process, files, writers, Callers, Up
<1>1. CASE Record \/ Block \/ Elapse
  BY <1>1 DEF Record, Block, Touch, Elapse
<1>2. CASE Quit  BY <1>2 DEF Quit
<1>3. CASE Exit \/ Kill  BY <1>3 DEF Exit, Kill, Ends
<1>4. CASE Start  BY <1>4 DEF Start
<1>5. ASSUME NEW w \in Callers, Persist(w)  PROVE Names'
  <2>1. CASE Begin(w)  BY <2>1 DEF Begin, Snapshot
  <2>2. CASE Open(w)
    <3>1. tmp' = path' => path' = 0
      BY <2>2, UnusedExists DEF Open, Inodes
    <3> QED  BY <2>2, <3>1 DEF Open
  <2>3. CASE Write(w)  BY <2>3 DEF Write
  <2>4. CASE Rename(w)  BY <2>4 DEF Rename, Return
  <2>5. CASE Fail(w)  BY <2>5 DEF Fail, Return
  <2> QED  BY <1>5, <2>1, <2>2, <2>3, <2>4, <2>5 DEF Persist
<1>6. CASE UNCHANGED svars  BY <1>6 DEF svars
<1> QED  BY <1>1, <1>2, <1>3, <1>4, <1>5, <1>6 DEF SNext

\* While w is alone, nobody else has a copy under way.
LEMMA WriterIsAlone ==
  ASSUME SInv, NEW v \in Callers, Alone(v), NEW w \in Callers, Writing(w)
  PROVE  w = v
BY DEF SInv, Names, CopyInv, Callers, Alone, Writing

\* What a file reads as depends on its inode only.
LEMMA SameFile ==
  ASSUME path' = path, path # 0 => disk'[path] = disk[path]
  PROVE  ReadAs(path)' = ReadAs(path)
BY DEF ReadAs

\* The steps of a copy: nobody's but the one's who is alone.
LEMMA StepOfCopy ==
  ASSUME SInv, SType', Names', NEW w \in Callers,
         Open(w) \/ Write(w) \/ Rename(w) \/ Fail(w)
  PROVE  CopyInv'
<1> USE DEF SInv, SType, Names, Callers
<1>1. Up /\ stage' = stage /\ quiet' = quiet /\ dirty' = dirty /\ mem' = mem /\ now' = now
      /\ snap' = snap /\ Writing(w)
      /\ \A v \in Callers : v # w => wpc'[v] = wpc[v]
  BY DEF Open, Write, Rename, Fail, Return, process, Writing
<1>2. wpc'[w] # "call"
  BY DEF Open, Write, Rename, Fail, Return
<1>3. ASSUME NEW v \in Callers, Alone(v)'  PROVE v = w /\ Alone(v)
  <2>1. Alone(v)
    BY <1>1, <1>2, <1>3 DEF Alone, Writing
  <2> QED  BY <1>1, <2>1, WriterIsAlone
<1>4. stage' # "exited"
  BY <1>1 DEF Up
<1>5. Alone("exit")' => wpc'["loop"] = "idle" /\ ~dirty'
  <2>1. SUFFICES ASSUME Alone("exit")' PROVE wpc'["loop"] = "idle" /\ ~dirty'
    OBVIOUS
  <2>2. w = "exit" /\ Alone("exit")  BY <1>3, <2>1
  <2> QED  BY <1>1, <2>2 DEF CopyInv
<1>6. ASSUME Alone(w)  PROVE InHand(w)' /\ Lagging(w)'
  <2>2. CASE Open(w)
    <3> DEFINE i == IF tmp = 0 THEN Unused ELSE tmp
    <3>1. i \in Inodes /\ i # path /\ i # 0  BY UnusedExists DEF Inodes
    <3> HIDE DEF i
    <3>2. tmp' = i /\ fd'[w] = i /\ disk'[i] = <<>> /\ wpc'[w] = "write" /\ wpc[w] = "open"
      BY <2>2, <3>1 DEF Open, i
    <3>3. ReadAs(path)' = ReadAs(path)  BY <2>2, <3>1, SameFile DEF Open, i, Inodes
    <3>4. InHand(w)'  BY <3>1, <3>2 DEF InHand
    <3>5. Lagging(w)'  BY <1>1, <1>6, <3>2, <3>3 DEF CopyInv, Lagging, Writing, Fresh
    <3> QED  BY <3>4, <3>5
  <2>3. CASE Write(w)
    <3>1. tmp # 0 /\ fd[w] = tmp /\ disk[tmp] = <<>> /\ wpc[w] = "write"
      BY <1>6, <2>3 DEF CopyInv, InHand, Write
    <3>2. tmp' = tmp /\ tmp # path /\ disk' = [disk EXCEPT ![tmp] = <<snap[w]>>] /\ wpc'[w] = "rename"
      BY <2>3, <3>1 DEF Write
    <3>3. ReadAs(path)' = ReadAs(path)  BY <2>3, <3>1, <3>2, SameFile DEF Write
    <3>4. InHand(w)'  BY <1>1, <3>1, <3>2 DEF InHand, Inodes
    <3>5. Lagging(w)'  BY <1>1, <1>6, <3>1, <3>2, <3>3 DEF CopyInv, Lagging, Writing, Fresh
    <3> QED  BY <3>4, <3>5
  <2>4. CASE Rename(w)
    <3>1. tmp # 0 /\ disk[tmp] = <<snap[w]>> /\ wpc[w] = "rename"
      BY <1>6, <2>4 DEF CopyInv, InHand, Rename
    <3>2. path' = tmp /\ disk' = disk /\ wpc'[w] = "idle"
      BY <2>4, <3>1 DEF Rename, Return
    <3>3. ReadAs(path)' = snap[w]
      <4>1. path' # 0 /\ disk'[path'] = <<snap[w]>>  BY <3>1, <3>2
      <4>2. <<snap[w]>> # <<>> /\ <<snap[w]>>[1] = snap[w]  OBVIOUS
      <4> QED  BY <4>1, <4>2 DEF ReadAs
    <3>4. InHand(w)'  BY <3>2 DEF InHand
    <3>5. snap[w] \in State  OBVIOUS
    <3>6. Lagging(w)'
      BY <1>1, <1>6, <3>1, <3>2, <3>3, <3>5 DEF CopyInv, Lagging, Writing, Fresh, State
    <3> QED  BY <3>4, <3>6
  <2>5. CASE Fail(w)
    <3>1. wpc'[w] = "idle" /\ failing' = TRUE /\ path' = path
      BY <2>5 DEF Fail, Return
    <3>2. path # 0 => disk'[path] = disk[path]
      <4>1. wpc[w] = "write" => fd[w] = tmp /\ tmp # path  BY <1>6 DEF CopyInv, InHand
      <4> QED  BY <2>5, <4>1 DEF Fail
    <3>3. ReadAs(path)' = ReadAs(path)  BY <3>1, <3>2, SameFile
    <3>4. InHand(w)'  BY <3>1 DEF InHand
    <3>5. Lagging(w)'  BY <1>1, <1>6, <3>1, <3>3 DEF CopyInv, Lagging, Writing, Fresh
    <3> QED  BY <3>4, <3>5
  <2> QED  BY <2>2, <2>3, <2>4, <2>5
<1> QED  BY <1>3, <1>4, <1>5, <1>6 DEF CopyInv

LEMMA StepCopy ==
  ASSUME SInv, SType', Names', [SNext]_svars
  PROVE  CopyInv'
<1> USE DEF SInv, SType, Names, Callers
<1>0. ReadAs(path) \in State /\ \A w \in Callers : snap[w] \in State
  BY ReadsAState
<1>1. CASE Record \/ Block
  <2>1. UNCHANGED <<now, stage, path, disk, tmp, wpc, snap, fd, failing>> /\ dirty' = TRUE /\ quiet' = FALSE
    BY <1>1 DEF Record, Block, Touch, process, files, writers
  <2>2. mem'.count \in Nat /\ mem'.count >= mem.count
    BY <1>1 DEF Record, Block, Touch, State
  <2>3. ReadAs(path)' = ReadAs(path)  BY <2>1, SameFile
  <2>4. ~Alone("exit")' /\ (Alone("loop")' => Alone("loop"))  BY <2>1 DEF Alone
  <2>5. ASSUME Alone("loop")'
        PROVE  InHand("loop")' /\ Lagging("loop")'
    <3>1. InHand("loop") /\ Lagging("loop")  BY <2>4, <2>5 DEF CopyInv
    <3>2. InHand("loop")'  BY <2>1, <3>1 DEF InHand
    <3>3. ReadAs(path).count \in Nat /\ snap["loop"].count \in Nat /\ mem.count \in Nat
      BY <1>0 DEF State
    <3>4. Lagging("loop")'  BY <2>1, <2>2, <2>3, <3>1, <3>3 DEF Lagging, Writing
    <3> QED  BY <3>2, <3>4
  <2> QED  BY <2>1, <2>4, <2>5 DEF CopyInv
<1>2. CASE Elapse
  <2>1. UNCHANGED <<stage, mem, dirty, path, disk, tmp, wpc, snap, fd, failing, quiet>> /\ now' = now + 1
    BY <1>2 DEF Elapse, process, files, writers
  <2>2. ReadAs(path)' = ReadAs(path)  BY <2>1, SameFile
  <2>3. Fresh(ReadAs(path)) => Fresh(ReadAs(path))'
    BY <1>0, <2>1, <2>2, LiveLater DEF Fresh
  <2>4. \A w \in Callers : Fresh(snap[w]) => Fresh(snap[w])'
    BY <1>0, <2>1, LiveLater DEF Fresh
  <2>5. \A w \in Callers : Alone(w)' = Alone(w) /\ InHand(w)' = InHand(w) /\ Writing(w)' = Writing(w)
    BY <2>1 DEF Alone, InHand, Writing
  <2> QED  BY <2>1, <2>2, <2>3, <2>4, <2>5 DEF CopyInv, Lagging
<1>3. CASE Quit
  <2>1. UNCHANGED <<now, mem, dirty, path, disk, tmp, snap, fd, failing>> /\ stage = "up"
        /\ stage' = "quitting" /\ wpc'["exit"] = "call" /\ wpc'["loop"] = wpc["loop"]
    BY <1>3 DEF Quit, process, files, writers
  <2>2. ReadAs(path)' = ReadAs(path)  BY <2>1, SameFile
  <2>3. Alone("loop") /\ ~Alone("exit")'  BY <2>1 DEF Alone
  <2> QED  BY <2>1, <2>2, <2>3 DEF CopyInv, InHand, Lagging, Writing, Fresh
<1>4. CASE Exit
  <2>1. UNCHANGED <<now, mem, dirty, path, disk, failing, quiet>> /\ stage = "quitting"
        /\ stage' = "exited" /\ wpc["exit"] = "idle"
    BY <1>4 DEF Exit, Ends, files
  <2>2. ReadAs(path)' = ReadAs(path)  BY <2>1, SameFile
  <2>3. \A w \in Callers : ~Alone(w)'  BY <2>1 DEF Alone
  <2>4. quiet /\ ~failing => Fresh(ReadAs(path))
    BY <2>1 DEF CopyInv, Alone, Lagging, Writing
  <2> QED  BY <2>1, <2>2, <2>3, <2>4 DEF CopyInv, Fresh
<1>5. CASE Kill  BY <1>5 DEF Kill, Ends, CopyInv, Alone
<1>6. CASE Start
  <2>1. UNCHANGED <<now, path, disk, wpc>> /\ stage' = "up" /\ mem' = Live(ReadAs(path), now)
        /\ wpc["loop"] = "idle"
    BY <1>6 DEF Start, EnablePersistence, files, Up
  <2>2. ReadAs(path)' = ReadAs(path)  BY <2>1, SameFile
  <2>3. Fresh(ReadAs(path))'  BY <1>0, <2>1, <2>2, LiveTwice DEF Fresh
  <2>4. ReadAs(path).count <= mem'.count  BY <1>0, <2>1, LiveForm DEF State
  <2> QED  BY <2>1, <2>2, <2>3, <2>4 DEF CopyInv, Alone, InHand, Lagging, Writing
<1>7. ASSUME NEW w \in Callers, Begin(w)  PROVE CopyInv'
  <2>1. UNCHANGED <<now, stage, mem, path, disk, tmp, fd, failing>> /\ Up
    BY <1>7 DEF Begin, process, files
  <2>2. ReadAs(path)' = ReadAs(path)  BY <2>1, SameFile
  <2>3. ASSUME Snapshot(w)
        PROVE  Writing(w)' /\ wpc'[w] = "open" /\ ~dirty' /\ Fresh(snap[w])' /\ snap'[w].count = mem.count
    <3>1. snap'[w] = Live(mem, now) /\ wpc'[w] = "open" /\ dirty' = FALSE  BY <2>3 DEF Snapshot
    <3>2. snap'[w].count = mem.count  BY <3>1, LiveForm
    <3>3. Fresh(snap[w])'  BY <2>1, <3>1, LiveTwice DEF Fresh
    <3> QED  BY <3>1, <3>2, <3>3 DEF Writing
  <2>4. CASE w = "loop"
    <3>1. Snapshot(w) /\ dirty /\ quiet' = quiet /\ wpc'["exit"] = wpc["exit"]
      BY <1>7, <2>4 DEF Begin, Snapshot
    <3>2. ~Alone("exit")' /\ Alone("loop")' = Alone("loop")
      BY <2>1, <3>1 DEF CopyInv, Alone
    <3>3. ASSUME Alone("loop")'
          PROVE  InHand("loop")' /\ Lagging("loop")'
      <4>1. ReadAs(path).count <= mem.count  BY <3>2, <3>3 DEF CopyInv, Lagging
      <4>2. Writing("loop")' /\ wpc'["loop"] = "open" /\ Fresh(snap["loop"])' /\ snap'["loop"].count = mem.count
        BY <2>3, <2>4, <3>1
      <4>3. mem.count \in Nat  BY <1>0 DEF State
      <4>4. InHand("loop")'  BY <4>2 DEF InHand
      <4>5. Lagging("loop")'  BY <2>1, <2>2, <4>1, <4>2, <4>3 DEF Lagging
      <4> QED  BY <4>4, <4>5
    <3>4. stage' # "exited"  BY <2>1 DEF Up
    <3> QED  BY <3>2, <3>3, <3>4 DEF CopyInv
  <2>5. CASE w = "exit"
    <3>1. wpc["exit"] = "call" /\ stage = "quitting" /\ Alone("loop")
      BY <1>7, <2>1, <2>5 DEF Begin, Up, Alone
    <3>2. ~dirty' /\ wpc'["exit"] # "call" /\ wpc'["loop"] = wpc["loop"]
          /\ quiet' = (wpc["loop"] = "idle")
      BY <1>7, <2>5 DEF Begin, Snapshot
    <3>3. ~Alone("loop")'  BY <2>1, <3>1, <3>2 DEF Alone
    <3>4. ReadAs(path).count <= mem.count
      BY <3>1 DEF CopyInv, Lagging
    <3>5. ASSUME Alone("exit")'
          PROVE  InHand("exit")' /\ Lagging("exit")' /\ wpc'["loop"] = "idle"
      <4>1. wpc["loop"] = "idle"  BY <3>2, <3>5 DEF Alone
      <4>2. CASE Snapshot("exit")
        <5>1. /\ Writing("exit")' /\ wpc'["exit"] = "open"
              /\ Fresh(snap["exit"])' /\ snap'["exit"].count = mem.count
          BY <2>3, <2>5, <4>2
        <5>2. mem.count \in Nat  BY <1>0 DEF State
        <5>3. InHand("exit")'  BY <5>1 DEF InHand
        <5>4. Lagging("exit")'  BY <2>1, <2>2, <3>4, <5>1, <5>2 DEF Lagging
        <5> QED  BY <3>2, <4>1, <5>3, <5>4
      <4>3. CASE ~Snapshot("exit")
        <5>1. ~dirty /\ wpc'["exit"] = "idle"  BY <1>7, <2>5, <4>3 DEF Begin
        <5>2. ~failing => Fresh(ReadAs(path))
          BY <3>1, <4>1, <5>1 DEF CopyInv, Lagging, Writing
        <5> QED  BY <2>1, <2>2, <3>2, <3>4, <4>1, <5>1, <5>2 DEF InHand, Lagging, Writing, Fresh
      <4> QED  BY <4>2, <4>3
    <3> QED  BY <2>1, <3>1, <3>2, <3>3, <3>5 DEF CopyInv
  <2> QED  BY <2>4, <2>5
<1>8. ASSUME NEW w \in Callers, Persist(w)  PROVE CopyInv'
  BY <1>7, <1>8, StepOfCopy DEF Persist
<1>9. CASE UNCHANGED svars
  BY <1>9 DEF svars, CopyInv, Alone, InHand, Lagging, Writing, Fresh, ReadAs
<1> QED  BY <1>1, <1>2, <1>3, <1>4, <1>5, <1>6, <1>8, <1>9 DEF SNext

LEMMA StateFileInvariant == SSpec => []SInv
<1>1. SInv /\ [SNext]_svars => SInv'
  BY StepType, StepNames, StepCopy DEF SInv
<1> QED  BY InitHolds, <1>1, PTL DEF SSpec

-----------------------------------------------------------------------------
(* What follows                                                            *)

\* When Persist has nothing to do, a kill would lose nothing: what is in the file and
\* what is in memory are the same state, for every schedule of kills, failing system
\* calls and requests during a write, and any number of restarts (state.go:83-118).
THEOREM SavedWhenClean == SSpec => []NothingToWriteMeansSaved
<1>1. SInv => NothingToWriteMeansSaved
  BY DEF SInv, CopyInv, Callers, Alone, Lagging, Writing, Fresh, NothingToWriteMeansSaved
<1> QED  BY StateFileInvariant, <1>1, PTL

\* The Persist of a clean exit leaves the whole state in the file, if it found
\* persistLoop idle, nothing came after it and no write failed (run.go:215).
THEOREM QuietExitIsSaved == SSpec => []QuietExitSaves
<1>1. SInv => QuietExitSaves
  BY DEF SInv, CopyInv, Fresh, QuietExitSaves
<1> QED  BY StateFileInvariant, <1>1, PTL

\* Outside a clean exit every step of the process, of its writers and of the system is
\* one DurableState allows of memory and file, or none.
LEMMA DurableStep ==
  ASSUME SInv, SInv', [SNext]_svars, stage # "quitting"
  PROVE  Durable!DNext \/ UNCHANGED <<now, Up, mem, ReadAs(path)>>
<1> USE DEF SInv, SType, Names, Callers
<1>0. ReadAs(path) \in State  BY ReadsAState
<1>1. CASE Record \/ Block
  <2>1. UNCHANGED <<now, stage, path, disk>> /\ Up
    BY <1>1 DEF Record, Block, Touch, process, files
  <2>2. UNCHANGED <<now, Up, ReadAs(path)>>  BY <2>1, SameFile DEF Up
  <2>3. CASE Record
    BY <2>1, <2>2, <2>3 DEF Record, Touch, Durable!DNext, Durable!Change
  <2>4. CASE Block
    <3>1. mem' = [mem EXCEPT !.until = now + Cooldown]  BY <2>4 DEF Block, Touch
    <3>2. mem'.until = now + Cooldown /\ now + Cooldown > now
      BY <3>1, BoundsAssumption DEF State
    <3> QED  BY <2>1, <2>2, <3>1, <3>2 DEF Durable!DNext, Durable!Change
  <2> QED  BY <1>1, <2>3, <2>4
<1>2. CASE Elapse
  <2>1. UNCHANGED <<stage, mem, path, disk>> /\ now' = now + 1
    BY <1>2 DEF Elapse, files
  <2>2. UNCHANGED <<Up, mem, ReadAs(path)>>  BY <2>1, SameFile DEF Up
  <2> QED  BY <2>1, <2>2 DEF Durable!DNext, Durable!Pass
<1>3. CASE Quit
  <2>1. UNCHANGED <<now, mem, path, disk>> /\ Up /\ Up'
    BY <1>3 DEF Quit, files, Up
  <2> QED  BY <2>1, SameFile
<1>4. CASE Exit \/ Kill
  <2>1. UNCHANGED <<now, mem, path, disk>> /\ Up /\ ~Up'
    BY <1>4 DEF Exit, Kill, Ends, files, Up
  <2> QED  BY <2>1, SameFile DEF Durable!DNext, Durable!Stop
<1>5. CASE Start
  <2>1. UNCHANGED <<now, path, disk>> /\ ~Up /\ Up' /\ mem' = Live(ReadAs(path), now)
    BY <1>5 DEF Start, EnablePersistence, files, Up
  <2>2. UNCHANGED ReadAs(path)  BY <2>1, SameFile
  <2> QED  BY <2>1, <2>2 DEF Durable!DNext, Durable!Restart, Durable!Live, Live
<1>6. ASSUME NEW w \in Callers, Persist(w)
      PROVE  Durable!DNext \/ UNCHANGED <<now, Up, mem, ReadAs(path)>>
  <2>1. UNCHANGED <<now, stage, mem>> /\ Up
    BY <1>6 DEF Persist, Begin, Open, Write, Rename, Fail, process
  <2>2. stage = "up" /\ Alone("loop") /\ w = "loop"
    BY <1>6, <2>1 DEF Persist, Begin, Open, Write, Rename, Fail, Up, Alone
  <2>3. InHand(w) /\ Lagging(w)  BY <2>2 DEF CopyInv
  <2>4. CASE Rename(w)
    <3>1. tmp # 0 /\ disk[tmp] = <<snap[w]>> /\ wpc[w] = "rename"
      BY <2>3, <2>4 DEF InHand, Rename
    <3>2. path' = tmp /\ disk' = disk  BY <2>4, <3>1 DEF Rename
    <3>3. ReadAs(path)' = snap[w]
      <4>1. path' # 0 /\ disk'[path'] = <<snap[w]>>  BY <3>1, <3>2
      <4>2. <<snap[w]>> # <<>> /\ <<snap[w]>>[1] = snap[w]  OBVIOUS
      <4> QED  BY <4>1, <4>2 DEF ReadAs
    <3>4. snap[w].count \in ReadAs(path).count .. mem.count
      BY <1>0, <2>3, <3>1 DEF Lagging, Writing, State
    <3> QED  BY <2>1, <3>3, <3>4 DEF Up, Durable!DNext, Durable!Save
  <2>5. CASE ~Rename(w)
    <3>1. path' = path
      BY <1>6, <2>5 DEF Persist, Begin, Open, Write, Fail, files
    <3>2. path # 0 => disk'[path] = disk[path]
      <4>1. CASE Begin(w)  BY <4>1 DEF Begin, files
      <4>2. CASE Open(w)
        BY <4>2, UnusedExists DEF Open
      <4>3. CASE Write(w)  BY <2>3, <4>3 DEF Write, InHand
      <4>4. CASE Fail(w)  BY <2>3, <4>4 DEF Fail, InHand
      <4> QED  BY <1>6, <2>5, <4>1, <4>2, <4>3, <4>4 DEF Persist
    <3> QED  BY <2>1, <3>1, <3>2, SameFile DEF Up
  <2> QED  BY <2>4, <2>5
<1>7. CASE UNCHANGED svars  BY <1>7 DEF svars, Up, ReadAs
<1> QED  BY <1>1, <1>2, <1>3, <1>4, <1>5, <1>6, <1>7 DEF SNext

\* persistLoop and the next start keep what DurableState promises: whenever the process
\* stops, the file reads as a state it was in, not older than the file ever read
\* before, and the process takes up from it (state.go:27-31, state.go:107-118).
THEOREM FileIsDurable == SSpec => ImplementsDurableState
<1>1. SInit => Durable!DInit
  BY DEF SInit, Durable!DInit, Durable!Zero, Zero, Up, ReadAs
<1>2. SInv /\ SInv' /\ [SNext]_svars
        => [stage = "quitting" \/ Durable!DNext]_<<now, Up, mem, ReadAs(path)>>
  BY DurableStep
<1> QED  BY <1>1, <1>2, StateFileInvariant, PTL DEF SSpec, ImplementsDurableState

=============================================================================
