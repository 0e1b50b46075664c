---------------------------- MODULE FilesProofs ------------------------------
(***************************************************************************)
(* Proofs about the two file tools, for trees of any size.                  *)
(*                                                                          *)
(* The directory synchroniser: no file goes back to an older version, and   *)
(* in the end the two sides agree, as far as the synchroniser goes.         *)
(*                                                                          *)
(* The file replacer, and str_replace, which it uses, for strings of any    *)
(* length: a step moves whole files, nothing that is selected keeps the     *)
(* pattern in its name, and the pattern is put into a text once.            *)
(***************************************************************************)
EXTENDS FileSync, Replacer, FiniteSetTheorems, WellFoundedInduction, SequenceTheorems, TLAPS

-----------------------------------------------------------------------------
(***************************************************************************)
(* The state.                                                               *)
(***************************************************************************)
Paths == Seq(Names)
Places == [dir : Paths, name : STRING]
Contents == [version : Nat, time : 0 .. Now, length : Nat, padded : Nat]
Trees2 == [dirs : SUBSET Paths, files : UNION {[F -> Contents] : F \in SUBSET Places}]
Entry == [kind : {"file", "dir"}, name : STRING \cup Dots]
Call == [dir : Paths, todo : SUBSET Entry]

\* Each side is a tree, of which the base is never removed.
DiskInv ==
  /\ tree \in [{0, 1} -> Trees2]
  /\ \A side \in {0, 1} :
       /\ Base \in tree[side].dirs
       /\ \A d \in tree[side].dirs : Parent(d) \in tree[side].dirs
       /\ \A f \in Files(side) : f.dir \in tree[side].dirs

\* The calls of scan_dir: the base, one of its directories, and from then on
\* what a directory's name and its parent's make up.
Depth(k) == IF k <= 3 THEN k - 1 ELSE 2
ScanInv ==
  /\ mode \in 0 .. 2 /\ scans \in Seq(Call)
  /\ mode < 2 => scans # <<>>
  /\ \A k \in DOMAIN scans : Len(scans[k].dir) = Depth(k)

-----------------------------------------------------------------------------
(***************************************************************************)
(* The invariant.                                                           *)
(***************************************************************************)
Both == Files(0) \cap Files(1)
Later(side, f) == tree[side].files[f].time > tree[1 - side].files[f].time

\* The later version is in the file with the later time; of two files of one
\* version it is at least as long, for a copy is never shorter; two files with
\* one time are as they will be in the end.
VersionsDated == \A f \in Both, side \in {0, 1} :
  LET one == tree[side].files[f]  other == tree[1 - side].files[f] IN
  /\ one.version > other.version => one.time > other.time
  /\ one.version = other.version /\ one.time > other.time => one.length >= other.length
  /\ one.time = other.time => Same(f)

\* While the master is scanned nothing has been written to it.
MasterOld == mode = 0 => \A f \in Files(0) : tree[0].files[f].time < Now

\* What is still to be scanned: a directory, and a file.
FileEntry(f) == [kind |-> "file", name |-> f.name]
DirEntry(d) == [kind |-> "dir", name |-> d[Len(d)]]
Awaited(dir, entry) == \E k \in DOMAIN scans : scans[k].dir = dir /\ entry \in scans[k].todo
ToCome(d) == d # Base /\ Awaited(Parent(d), DirEntry(d))
Pending(f) == Awaited(f.dir, FileEntry(f)) \/ ToCome(f.dir) \/ ToCome(Parent(f.dir))

\* The slave's directory of a file is there, or can be made.
HasRoom(f) == Len(f.dir) <= 1 \/ f.dir \in tree[1].dirs

\* A directory that is missing on the slave but could be made has had none of
\* its files scanned.
Untouched(k) ==
  LET d == scans[k].dir IN
  Len(d) = 2 /\ Parent(d) \in tree[1].dirs /\ d \notin tree[1].dirs =>
    \A f \in Files(0) : f.dir = d => FileEntry(f) \in scans[k].todo

\* While the master is scanned: what is not settled is still to be scanned.
MasterInv == mode = 0 =>
  /\ \A f \in Files(0) : Reached(f) /\ HasRoom(f) =>
       Pending(f) \/ (f \in Files(1) /\ (Same(f) \/ Later(1, f)))
  /\ \A k \in DOMAIN scans : Untouched(k)

\* While the slave is scanned: what is not the master's file of that name is
\* still to be scanned.
SlaveInv == mode = 1 =>
  \A f \in Files(1) : Reached(f) =>
    IF f \in Files(0) THEN Same(f) \/ (Later(1, f) /\ Pending(f)) ELSE Pending(f)

DeliveredInv == mode > 0 =>
  \A f \in Files(0) : Reached(f) /\ HasRoom(f) => f \in Files(1)

IInv ==
  /\ DiskInv /\ ScanInv /\ VersionsDated /\ MasterOld
  /\ MasterInv /\ SlaveInv /\ DeliveredInv /\ SidesMatch

-----------------------------------------------------------------------------
(***************************************************************************)
(* Paths, and what makes up a directory's entries.                          *)
(***************************************************************************)
LEMMA ParentPath ==
  ASSUME NEW d \in Paths
  PROVE  /\ Parent(d) \in Paths /\ Len(d) \in Nat /\ (Len(d) = 0 <=> d = Base)
         /\ Len(Parent(d)) = IF d = Base THEN 0 ELSE Len(d) - 1
         /\ \A k \in 1 .. Len(d) - 1 : Parent(d)[k] = d[k]
         /\ \A k \in 1 .. Len(d) : d[k] \in Names
<1> DEFINE n == Len(d) - 1
<1>1. Len(d) \in Nat /\ (Len(d) = 0 <=> d = Base) /\ \A k \in 1 .. Len(d) : d[k] \in Names
  BY EmptySeq, LenProperties, ElementOfSeq DEF Paths, Base
<1>2. n \in Int /\ \A k \in 1 .. n : d[k] \in Names
  BY <1>1
<1>3. /\ SubSeq(d, 1, n) \in Seq(Names)
      /\ Len(SubSeq(d, 1, n)) = IF 1 <= n THEN n - 1 + 1 ELSE 0
      /\ \A k \in 1 .. n - 1 + 1 : SubSeq(d, 1, n)[k] = d[1 + k - 1]
  <2> HIDE DEF n
  <2> QED  BY <1>2, SubSeqProperties
<1> QED  BY <1>1, <1>3 DEF Parent, Paths

LEMMA BasePath == Base \in Paths /\ Len(Base) = 0 /\ Parent(Base) = Base
<1>1. Base \in Paths /\ Len(Base) = 0
  BY EmptySeq DEF Base, Paths
<1> QED  BY <1>1, ParentPath, EmptySeq DEF Paths

\* What scan_dir makes of a subdirectory's name is its path, as far as two
\* levels go.
LEMMA SubPath ==
  ASSUME NEW dir \in Paths, NEW name \in Names
  PROVE  /\ Sub(dir, name) \in Paths
         /\ Len(Sub(dir, name)) = IF dir = Base THEN 1 ELSE 2
<1>1. CASE dir = Base
  BY <1>1 DEF Sub, Paths
<1>2. CASE dir # Base
  <2>1. dir[Len(dir)] \in Names
    BY <1>2, ParentPath
  <2> QED  BY <1>2, <2>1 DEF Sub, Paths
<1> QED  BY <1>1, <1>2

LEMMA ChildLength ==
  ASSUME NEW d \in Paths, Len(d) = 2
  PROVE  Len(Parent(d)) = 1
<1>1. /\ Len(Base) = 0
      /\ Len(Parent(d)) = IF d = Base THEN 0 ELSE Len(d) - 1
  BY ParentPath, BasePath
<1>2. d # Base
  BY <1>1
<1>3. Len(Parent(d)) = 2 - 1
  BY <1>1, <1>2
<1> QED  BY <1>3

LEMMA DepthGrows ==
  ASSUME NEW k \in Nat \ {0}, NEW n \in Nat, k <= n, Depth(k) = 2
  PROVE  Depth(n) = 2
BY DEF Depth

LEMMA SubOfParent ==
  ASSUME NEW d \in Paths, d # Base, Len(d) <= 2
  PROVE  Sub(Parent(d), d[Len(d)]) = d
<1> DEFINE n == Len(d)
<1>0. /\ Parent(d) \in Paths /\ n \in Nat /\ n # 0
      /\ Len(Parent(d)) = n - 1
      /\ \A k \in 1 .. n - 1 : Parent(d)[k] = d[k]
      /\ \A k \in 1 .. n : d[k] \in Names
  BY ParentPath
<1>1. n \in {1, 2}
  <2> HIDE DEF n
  <2>1. n <= 2
    BY DEF n
  <2> QED  BY <1>0, <2>1
<1>2. d[Len(d)] \in Names /\ Parent(d) \in Paths
  BY <1>0, <1>1
<1>3. CASE Len(d) = 1
  <2>1. Parent(d) = Base
    <3>1. Len(Parent(d)) = 0
      BY <1>0, <1>3
    <3> QED  BY <1>0, <3>1, ParentPath
  <2>2. Sub(Parent(d), d[Len(d)]) = <<d[1]>>
    BY <1>3, <2>1 DEF Sub
  <2> QED  BY <1>2, <1>3, <2>2, SeqEqual DEF Paths
<1>4. CASE Len(d) = 2
  <2>1. Parent(d) # Base /\ Len(Parent(d)) = 1 /\ Parent(d)[1] = d[1]
    <3>1. Len(Parent(d)) = 1 /\ 1 \in 1 .. n - 1
      BY <1>0, <1>4
    <3> QED  BY <1>0, <3>1, BasePath
  <2>2. Sub(Parent(d), d[Len(d)]) = <<d[1], d[2]>>
    BY <1>4, <2>1 DEF Sub
  <2>3. d[1] \in Names /\ d[2] \in Names
    <3>1. 1 \in 1 .. n /\ 2 \in 1 .. n
      BY <1>4
    <3> QED  BY <1>0, <3>1
  <2> QED  BY <1>4, <2>2, <2>3, SeqEqual DEF Paths
<1> QED  BY <1>1, <1>3, <1>4

LEMMA DiskTyped ==
  ASSUME DiskInv, NEW side \in {0, 1}
  PROVE  /\ tree[side] = [dirs |-> tree[side].dirs, files |-> tree[side].files]
         /\ tree[side].dirs \subseteq Paths /\ Files(side) \subseteq Places
         /\ tree[side].files \in [Files(side) -> Contents]
BY DEF DiskInv, Trees2, Files

LEMMA EntriesTyped ==
  ASSUME DiskInv, NEW side \in {0, 1}, NEW dir \in Paths
  PROVE  /\ Scan(side, dir) \in Call
         /\ \A f \in Files(side) : f.dir = dir => FileEntry(f) \in Entries(side, dir)
         /\ \A d \in tree[side].dirs \ {Base} : Parent(d) = dir => DirEntry(d) \in Entries(side, dir)
<1>1. \A f \in Files(side) : f.name \in STRING
  BY DiskTyped DEF Places
<1>2. \A d \in tree[side].dirs : d # Base => d[Len(d)] \in STRING
  <2> SUFFICES ASSUME NEW d \in tree[side].dirs, d # Base PROVE d[Len(d)] \in STRING
    OBVIOUS
  <2>1. d \in Paths
    BY DiskTyped
  <2> QED  BY <2>1, ParentPath DEF Names
<1>3. Entries(side, dir) \in SUBSET Entry
  <2>1. \A f \in {g \in Files(side) : g.dir = dir} : [kind |-> "file", name |-> f.name] \in Entry
    BY <1>1 DEF Entry
  <2>2. \A d \in Subdirs(side, dir) : [kind |-> "dir", name |-> d[Len(d)]] \in Entry
    BY <1>2 DEF Entry, Subdirs
  <2>3. \A dot \in Dots : [kind |-> "dir", name |-> dot] \in Entry
    BY DEF Entry
  <2> HIDE DEF Entry, Subdirs, Dots
  <2> QED  BY <2>1, <2>2, <2>3 DEF Entries
<1>4. Scan(side, dir) \in Call
  BY <1>3 DEF Scan, Call
<1>5. \A f \in Files(side) : f.dir = dir => FileEntry(f) \in Entries(side, dir)
  BY DEF Entries, FileEntry
<1>6. \A d \in tree[side].dirs \ {Base} : Parent(d) = dir => DirEntry(d) \in Entries(side, dir)
  BY DEF Entries, DirEntry, Subdirs
<1> QED  BY <1>4, <1>5, <1>6

-----------------------------------------------------------------------------
(***************************************************************************)
(* The stack of calls.                                                      *)
(***************************************************************************)
LEMMA StackTyped ==
  ASSUME ScanInv, mode < 2
  PROVE  /\ Len(scans) \in Nat \ {0} /\ DOMAIN scans = 1 .. Len(scans)
         /\ \A k \in 1 .. Len(scans) : scans[k] \in Call
         /\ Top = scans[Len(scans)] /\ Top.dir \in Paths /\ Top.todo \in SUBSET Entry
         /\ Rest \in Seq(Call) /\ Len(Rest) = Len(scans) - 1
         /\ \A k \in 1 .. Len(scans) - 1 : Rest[k] = scans[k]
<1> DEFINE n == Len(scans) - 1
<1>1. Len(scans) \in Nat \ {0} /\ DOMAIN scans = 1 .. Len(scans)
      /\ \A k \in 1 .. Len(scans) : scans[k] \in Call
  BY EmptySeq, LenProperties, ElementOfSeq DEF ScanInv
<1>2. n \in Nat /\ \A k \in 1 .. n : scans[k] \in Call
  BY <1>1
<1>3. /\ SubSeq(scans, 1, n) \in Seq(Call)
      /\ Len(SubSeq(scans, 1, n)) = IF 1 <= n THEN n - 1 + 1 ELSE 0
      /\ \A k \in 1 .. n - 1 + 1 : SubSeq(scans, 1, n)[k] = scans[1 + k - 1]
  <2> HIDE DEF n
  <2> QED  BY <1>2, SubSeqProperties
<1>4. Top = scans[Len(scans)] /\ Top \in Call
  BY <1>1 DEF Top
<1> QED  BY <1>1, <1>3, <1>4 DEF Rest, Call

\* An entry is taken from the last call's entries, and perhaps another call made.
LEMMA Dropped ==
  ASSUME ScanInv, mode < 2, NEW entry, NEW stack, stack = Append(Rest, Done(entry))
  PROVE  /\ stack \in Seq(Call) /\ Len(stack) = Len(scans)
         /\ \A k \in 1 .. Len(scans) :
              /\ stack[k].dir = scans[k].dir
              /\ k # Len(scans) => stack[k] = scans[k]
         /\ stack[Len(scans)].todo = Top.todo \ {entry}
<1>1. Done(entry) \in Call /\ Done(entry).dir = Top.dir /\ Done(entry).todo = Top.todo \ {entry}
  BY StackTyped DEF Done, Call
<1>2. /\ stack \in Seq(Call) /\ Len(stack) = Len(Rest) + 1
      /\ \A k \in 1 .. Len(Rest) : stack[k] = Rest[k]
      /\ stack[Len(Rest) + 1] = Done(entry)
  BY <1>1, StackTyped, AppendProperties
<1>3. /\ Len(scans) \in Nat \ {0} /\ Len(Rest) = Len(scans) - 1
      /\ \A k \in 1 .. Len(scans) - 1 : Rest[k] = scans[k]
      /\ Top = scans[Len(scans)]
  BY StackTyped
<1>4. Len(stack) = Len(scans) /\ stack[Len(scans)] = Done(entry)
  BY <1>2, <1>3
<1>5. \A k \in 1 .. Len(scans) - 1 : stack[k] = scans[k]
  BY <1>2, <1>3
<1> QED  BY <1>1, <1>2, <1>3, <1>4, <1>5

LEMMA Called ==
  ASSUME ScanInv, mode < 2, NEW entry, NEW call \in Call,
         scans' = Append(Append(Rest, Done(entry)), call)
  PROVE  /\ scans' \in Seq(Call) /\ Len(scans') = Len(scans) + 1
         /\ \A k \in 1 .. Len(scans) :
              /\ scans'[k].dir = scans[k].dir
              /\ k # Len(scans) => scans'[k] = scans[k]
         /\ scans'[Len(scans)].todo = Top.todo \ {entry}
         /\ scans'[Len(scans) + 1] = call
         /\ DOMAIN scans' = 1 .. Len(scans) + 1
<1> DEFINE stack == Append(Rest, Done(entry))
<1>1. /\ stack \in Seq(Call) /\ Len(stack) = Len(scans)
      /\ \A k \in 1 .. Len(scans) :
              /\ stack[k].dir = scans[k].dir
              /\ k # Len(scans) => stack[k] = scans[k]
      /\ stack[Len(scans)].todo = Top.todo \ {entry}
  BY Dropped
<1>2. /\ scans' \in Seq(Call) /\ Len(scans') = Len(stack) + 1
      /\ \A k \in 1 .. Len(stack) : scans'[k] = stack[k]
      /\ scans'[Len(stack) + 1] = call
  <2> HIDE DEF stack
  <2>1. scans' = Append(stack, call)
    BY DEF stack
  <2> QED  BY <1>1, <2>1, AppendProperties
<1> HIDE DEF stack
<1> QED  BY <1>1, <1>2, StackTyped, LenProperties

LEMMA Taken ==
  ASSUME ScanInv, mode < 2, NEW entry, scans' = Append(Rest, Done(entry))
  PROVE  /\ scans' \in Seq(Call) /\ scans' # <<>> /\ DOMAIN scans' = DOMAIN scans
         /\ DOMAIN scans = 1 .. Len(scans) /\ Len(scans) \in DOMAIN scans
         /\ \A k \in 1 .. Len(scans) :
              /\ scans'[k].dir = scans[k].dir
              /\ k # Len(scans) => scans'[k] = scans[k]
         /\ scans'[Len(scans)].todo = Top.todo \ {entry} /\ Top = scans[Len(scans)]
<1> DEFINE stack == Append(Rest, Done(entry))
<1>1. /\ stack \in Seq(Call) /\ Len(stack) = Len(scans)
      /\ \A k \in 1 .. Len(scans) :
              /\ stack[k].dir = scans[k].dir
              /\ k # Len(scans) => stack[k] = scans[k]
      /\ stack[Len(scans)].todo = Top.todo \ {entry}
  BY Dropped
<1>2. scans' = stack
  OBVIOUS
<1> HIDE DEF stack
<1>3. Len(scans) \in Nat \ {0} /\ DOMAIN scans = 1 .. Len(scans) /\ Top = scans[Len(scans)]
  BY StackTyped
<1>4. DOMAIN scans' = 1 .. Len(scans) /\ scans' # <<>>
  <2>1. scans' \in Seq(Call) /\ Len(scans') = Len(scans)
    BY <1>1, <1>2
  <2>2. DOMAIN scans' = 1 .. Len(scans')
    BY <2>1, LenProperties
  <2>3. scans' # <<>>
    BY <1>3, <2>1, EmptySeq
  <2> QED  BY <2>1, <2>2, <2>3
<1>5. Len(scans) \in DOMAIN scans
  BY <1>3
<1>6. /\ scans' \in Seq(Call)
      /\ \A k \in 1 .. Len(scans) :
              /\ scans'[k].dir = scans[k].dir
              /\ k # Len(scans) => scans'[k] = scans[k]
      /\ scans'[Len(scans)].todo = Top.todo \ {entry}
  BY <1>1, <1>2
<1>7. DOMAIN scans' = DOMAIN scans
  BY <1>3, <1>4
<1> QED  BY <1>3, <1>4, <1>5, <1>6, <1>7

-----------------------------------------------------------------------------
(***************************************************************************)
(* The changes of the disk.                                                 *)
(***************************************************************************)

\* A file is written on one side, and perhaps its directory made.
Wrote(side, dirs, f, file) ==
  /\ tree'[1 - side] = tree[1 - side] /\ tree'[side].dirs = dirs
  /\ Files(side)' = Files(side) \cup {f}
  /\ \A g \in Files(side) \cup {f} :
       tree'[side].files[g] = IF g = f THEN file ELSE tree[side].files[g]

LEMMA WriteEffect ==
  ASSUME DiskInv, NEW side \in {0, 1}, NEW dirs \in SUBSET Paths, NEW f \in Places,
         NEW file \in Contents,
         tree[side].dirs \subseteq dirs, \A d \in dirs : Parent(d) \in dirs, f.dir \in dirs,
         tree' = [tree EXCEPT ![side] = [dirs |-> dirs, files |-> Put(tree[side].files, f, file)]]
  PROVE  DiskInv' /\ Wrote(side, dirs, f, file)
<1> DEFINE F == Files(side) \cup {f}
           files == Put(tree[side].files, f, file)
<1>1. /\ tree[side].files \in [Files(side) -> Contents] /\ F \in SUBSET Places
      /\ files = [g \in F |-> IF g = f THEN file ELSE tree[side].files[g]]
  BY DiskTyped DEF Put, Files
<1>2. files \in [F -> Contents] /\ \A g \in F : files[g] = IF g = f THEN file ELSE tree[side].files[g]
  <2> HIDE DEF files
  <2> QED  BY <1>1
<1>3. [dirs |-> dirs, files |-> files] \in Trees2
  <2> HIDE DEF files, F
  <2> QED  BY <1>1, <1>2 DEF Trees2
<1>4. /\ tree' \in [{0, 1} -> Trees2] /\ tree'[side] = [dirs |-> dirs, files |-> files]
      /\ tree'[1 - side] = tree[1 - side] /\ 1 - side \in {0, 1} /\ 1 - side # side
  BY <1>3 DEF DiskInv
<1>5. tree'[side].dirs = dirs /\ tree'[side].files = files /\ Files(side)' = F
  <2> HIDE DEF files, F
  <2> QED  BY <1>2, <1>4 DEF Files
<1>6. Wrote(side, dirs, f, file)
  BY <1>2, <1>4, <1>5 DEF Wrote
<1>7. /\ Base \in tree'[side].dirs /\ \A d \in tree'[side].dirs : Parent(d) \in tree'[side].dirs
      /\ \A g \in Files(side)' : g.dir \in tree'[side].dirs
  BY <1>5 DEF DiskInv
<1>8. /\ Base \in tree'[1 - side].dirs
      /\ \A d \in tree'[1 - side].dirs : Parent(d) \in tree'[1 - side].dirs
      /\ \A g \in Files(1 - side)' : g.dir \in tree'[1 - side].dirs
  BY <1>4 DEF DiskInv, Files
<1>9. \A s \in {0, 1} : s = side \/ s = 1 - side
  OBVIOUS
<1> QED  BY <1>4, <1>6, <1>7, <1>8, <1>9 DEF DiskInv

\* A file of the slave is removed.
LEMMA RemoveEffect ==
  ASSUME DiskInv, NEW f,
         tree' = [tree EXCEPT ![1].files = Unlink(@, f)]
  PROVE  /\ DiskInv'
         /\ tree'[0] = tree[0] /\ tree'[1].dirs = tree[1].dirs
         /\ Files(0)' = Files(0) /\ Files(1)' = Files(1) \ {f}
         /\ \A g \in Files(1) \ {f} : tree'[1].files[g] = tree[1].files[g]
<1> DEFINE F == Files(1) \ {f}
           files == Unlink(tree[1].files, f)
<1>1. /\ tree[1].files \in [Files(1) -> Contents] /\ F \in SUBSET Places
      /\ files = [g \in F |-> tree[1].files[g]]
  BY DiskTyped DEF Unlink, Files
<1>2. files \in [F -> Contents] /\ \A g \in F : files[g] = tree[1].files[g]
  <2> HIDE DEF files
  <2> QED  BY <1>1
<1>3. [dirs |-> tree[1].dirs, files |-> files] \in Trees2
  <2>1. tree[1].dirs \in SUBSET Paths
    BY DiskTyped
  <2> HIDE DEF files, F
  <2> QED  BY <1>1, <1>2, <2>1 DEF Trees2
<1>4. tree' = [tree EXCEPT ![1] = [dirs |-> tree[1].dirs, files |-> files]]
  <2>1. tree[1] = [dirs |-> tree[1].dirs, files |-> tree[1].files]
    BY DiskTyped
  <2>2. [tree[1] EXCEPT !.files = files] = [dirs |-> tree[1].dirs, files |-> files]
    <3> HIDE DEF files
    <3> QED  BY <2>1
  <2> QED  BY <2>2
<1>5. /\ tree' \in [{0, 1} -> Trees2] /\ tree'[1] = [dirs |-> tree[1].dirs, files |-> files]
      /\ tree'[0] = tree[0]
  BY <1>3, <1>4 DEF DiskInv
<1>6. tree'[1].dirs = tree[1].dirs /\ tree'[1].files = files /\ Files(1)' = F
      /\ Files(0)' = Files(0)
  <2> HIDE DEF files, F
  <2> QED  BY <1>2, <1>5 DEF Files
<1>7. DiskInv'
  <2>1. /\ Base \in tree'[1].dirs /\ \A d \in tree'[1].dirs : Parent(d) \in tree'[1].dirs
        /\ \A g \in Files(1)' : g.dir \in tree'[1].dirs
    BY <1>6 DEF DiskInv
  <2>2. /\ Base \in tree'[0].dirs /\ \A d \in tree'[0].dirs : Parent(d) \in tree'[0].dirs
        /\ \A g \in Files(0)' : g.dir \in tree'[0].dirs
    BY <1>5, <1>6 DEF DiskInv
  <2> QED  BY <1>5, <2>1, <2>2 DEF DiskInv
<1> QED  BY <1>2, <1>5, <1>6, <1>7

\* No file is touched, and while the master is scanned no directory; the slave
\* may lose one.
FilesStay ==
  /\ tree'[0] = tree[0] /\ tree'[1].files = tree[1].files
  /\ tree'[1].dirs \subseteq tree[1].dirs /\ (mode = 0 => tree'[1].dirs = tree[1].dirs)

LEMMA RmdirEffect ==
  ASSUME DiskInv, mode \in {0, 1}, NEW dir, rmdir(dir) \/ UNCHANGED tree
  PROVE  DiskInv' /\ FilesStay
<1>1. CASE UNCHANGED tree
  BY <1>1 DEF DiskInv, FilesStay, Files
<1>2. CASE /\ dir # Base /\ mode = 1 /\ dir \notin tree[Other].dirs /\ Empty(Self, dir)
           /\ tree' = [tree EXCEPT ![Self].dirs = @ \ {dir}]
  <2> DEFINE dirs == tree[1].dirs \ {dir}
  <2>1. tree' = [tree EXCEPT ![1] = [dirs |-> dirs, files |-> tree[1].files]]
    <3>1. tree[1] = [dirs |-> tree[1].dirs, files |-> tree[1].files]
      BY DiskTyped
    <3>2. [tree[1] EXCEPT !.dirs = dirs] = [dirs |-> dirs, files |-> tree[1].files]
      <4> HIDE DEF dirs
      <4> QED  BY <3>1
    <3> QED  BY <1>2, <3>2 DEF Self
  <2>2. [dirs |-> dirs, files |-> tree[1].files] \in Trees2
    BY DEF DiskInv, Trees2
  <2>3. /\ tree' \in [{0, 1} -> Trees2] /\ tree'[1] = [dirs |-> dirs, files |-> tree[1].files]
        /\ tree'[0] = tree[0]
    BY <2>1, <2>2 DEF DiskInv
  <2>4. tree'[1].dirs = dirs /\ tree'[1].files = tree[1].files
        /\ Files(0)' = Files(0) /\ Files(1)' = Files(1)
    BY <2>3 DEF Files
  <2>5. /\ \A d \in tree[1].dirs : d # Base => Parent(d) # dir
        /\ \A f \in Files(1) : f.dir # dir
    BY <1>2 DEF Empty, Subdirs, Self
  <2>6. Parent(Base) = Base
    BY BasePath
  <2>7. /\ Base \in tree'[1].dirs /\ \A d \in tree'[1].dirs : Parent(d) \in tree'[1].dirs
        /\ \A g \in Files(1)' : g.dir \in tree'[1].dirs
    BY <1>2, <2>4, <2>5, <2>6 DEF DiskInv
  <2>8. /\ Base \in tree'[0].dirs /\ \A d \in tree'[0].dirs : Parent(d) \in tree'[0].dirs
        /\ \A g \in Files(0)' : g.dir \in tree'[0].dirs
    BY <2>3, <2>4 DEF DiskInv
  <2> QED  BY <1>2, <2>3, <2>4, <2>7, <2>8 DEF DiskInv, FilesStay
<1> QED  BY <1>1, <1>2 DEF rmdir

-----------------------------------------------------------------------------
(***************************************************************************)
(* The versions.                                                            *)
(***************************************************************************)

\* copy_file writes no less than it has read.
LEMMA CopyAsLong ==
  ASSUME SyncAssumption, NEW file \in Contents
  PROVE  /\ Copy(file) \in Contents /\ Copy(file).version = file.version
         /\ Copy(file).length >= file.length /\ Copy(file).time = Now
         /\ Copy(file).length = Padded(file.length) /\ Copy(file).padded = file.padded + 1
<1> DEFINE n == file.length
           blocks == n \div Block
           rest == n % Block
           length == (blocks + 1) * Block
<1>1. /\ n \in Nat /\ Block \in Nat \ {0} /\ file.version \in Nat
      /\ file.padded \in Nat
      /\ file = [version |-> file.version, time |-> file.time, length |-> n,
                 padded |-> file.padded]
  BY DEF Contents, SyncAssumption
<1>2. length \in Nat /\ length >= n
  <2>1. blocks \in Nat /\ rest \in 0 .. Block - 1 /\ n = Block * blocks + rest
    <3> HIDE DEF n
    <3> QED  BY <1>1
  <2>2. length = Block * blocks + Block /\ Block * blocks \in Nat
    <3> HIDE DEF blocks
    <3> QED  BY <1>1, <2>1
  <2> DEFINE full == Block * blocks
  <2>3. full \in Nat /\ n = full + rest /\ length = full + Block
    <3> HIDE DEF length, blocks, n, rest
    <3> QED  BY <2>1, <2>2
  <2> HIDE DEF full, rest, length, blocks, n
  <2> QED  BY <1>1, <2>1, <2>3
<1>3. /\ Copy(file) = [version |-> file.version, time |-> Now, length |-> length,
                       padded |-> file.padded + 1]
      /\ Padded(n) = length
  <2>1. /\ Copy(file) = [file EXCEPT !.length = length, !.padded = @ + 1, !.time = Now]
        /\ Padded(n) = length
    BY DEF Copy, Padded
  <2> HIDE DEF n, length
  <2> QED  BY <1>1, <2>1
<1> HIDE DEF length
<1> QED  BY <1>1, <1>2, <1>3 DEF Contents, Now, n

\* When a file is copied to the other side, over one that is not later, the
\* other side has its version, and has not lost one; from the slave to the master
\* that settles the file, the other way the slave's copy is now the later one.
VersionsKept(side, f) ==
  /\ VersionsDated' /\ IF side = 1 THEN Same(f)' ELSE Later(1, f)'
  /\ f \in Both' /\ Files(side)' = Files(side)
  /\ \A g \in Both : g # f =>
       /\ Same(g)' <=> Same(g)
       /\ \A s \in {0, 1} : Later(s, g)' <=> Later(s, g)
  /\ \A s \in {0, 1} : \A g \in Files(s) :
       /\ g \in Files(s)'
       /\ tree'[s].files[g].version >= tree[s].files[g].version
       /\ tree'[s].files[g].version = tree[s].files[g].version =>
            tree'[s].files[g].length >= tree[s].files[g].length

LEMMA CopyKeepsVersions ==
  ASSUME SyncAssumption, DiskInv, VersionsDated,
         NEW side \in {0, 1}, NEW dirs, NEW f \in Files(side),
         f \in Files(1 - side) => Later(side, f),
         side = 0 => tree[0].files[f].time < Now,
         Wrote(1 - side, dirs, f, Copy(tree[side].files[f]))
  PROVE  VersionsKept(side, f)
<1> DEFINE other == 1 - side
           file == tree[side].files[f]
<1>1. other \in {0, 1} /\ 1 - other = side /\ side # other
      /\ \A s \in {0, 1} : s = side \/ s = other
  OBVIOUS
<1>2. \A s \in {0, 1} : \A g \in Files(s) : tree[s].files[g] \in Contents
  BY DiskTyped
<1>3. /\ Copy(file) \in Contents /\ Copy(file).version = file.version
      /\ Copy(file).length >= file.length /\ Copy(file).time = Now
      /\ Copy(file).length = Padded(file.length) /\ Copy(file).padded = file.padded + 1
  BY <1>2, CopyAsLong
<1>4. /\ tree'[side] = tree[side] /\ Files(side)' = Files(side)
      /\ Files(other)' = Files(other) \cup {f}
      /\ tree'[other].files[f] = Copy(file)
      /\ \A g \in Files(other) : g # f => tree'[other].files[g] = tree[other].files[g]
  BY <1>1 DEF Wrote, Files
<1> HIDE DEF other
<1>5. f \in Both' /\ Both' = Both \cup {f}
  BY <1>1, <1>4 DEF Both
<1>6. ASSUME NEW g \in Both, g # f
      PROVE  \A s \in {0, 1} : tree'[s].files[g] = tree[s].files[g]
  BY <1>1, <1>4, <1>6 DEF Both
<1>7. IF side = 1 THEN Same(f)' ELSE Later(1, f)'
  <2>1. CASE side = 1
    <3>1. tree'[1].files[f] = file /\ tree'[0].files[f] = Copy(file)
      BY <1>1, <1>4, <2>1 DEF other
    <3> QED  BY <1>3, <2>1, <3>1 DEF Same
  <2>2. CASE side = 0
    <3>1. tree'[0].files[f] = file /\ tree'[1].files[f] = Copy(file)
      BY <1>1, <1>4, <2>2 DEF other
    <3>2. file.time \in Nat /\ file.time < Now
      BY <1>2, <2>2 DEF Contents, Now
    <3> QED  BY <1>3, <2>2, <3>1, <3>2 DEF Later, Now
  <2> QED  BY <2>1, <2>2
<1>8. ASSUME f \in Files(other)
      PROVE  /\ file.version >= tree[other].files[f].version
             /\ file.version = tree[other].files[f].version =>
                  file.length >= tree[other].files[f].length
  <2>1. file.time > tree[other].files[f].time
    BY <1>1, <1>8 DEF Later, other
  <2>2. f \in Both
    BY <1>1, <1>8 DEF Both
  <2>3. tree[other].files[f] \in Contents /\ file \in Contents
    BY <1>1, <1>2, <1>8
  <2>4. tree[other].files[f].version > file.version => tree[other].files[f].time > file.time
    BY <1>1, <2>2 DEF VersionsDated
  <2>5. file.version = tree[other].files[f].version => file.length >= tree[other].files[f].length
    BY <1>1, <2>1, <2>2 DEF VersionsDated, other
  <2> HIDE DEF file
  <2> QED  BY <2>1, <2>3, <2>4, <2>5 DEF Contents
<1>9. VersionsDated'
  <2> SUFFICES ASSUME NEW g \in Both', NEW s \in {0, 1}
               PROVE  LET one == tree'[s].files[g]  two == tree'[1 - s].files[g] IN
                      /\ one.version > two.version => one.time > two.time
                      /\ one.version = two.version /\ one.time > two.time => one.length >= two.length
                      /\ one.time = two.time => Same(g)'
    BY DEF VersionsDated
  <2>1. CASE g # f
    <3>1. g \in Both /\ 1 - s \in {0, 1}
      BY <1>5, <2>1
    <3>2. /\ tree'[s].files[g] = tree[s].files[g]
          /\ tree'[1 - s].files[g] = tree[1 - s].files[g]
          /\ tree'[0].files[g] = tree[0].files[g] /\ tree'[1].files[g] = tree[1].files[g]
      BY <1>6, <2>1, <3>1
    <3>3. Same(g)' <=> Same(g)
      BY <3>2 DEF Same
    <3> QED  BY <3>1, <3>2, <3>3 DEF VersionsDated
  <2>0. ASSUME g = f
        PROVE  tree'[s].files[g].time = tree'[1 - s].files[g].time => Same(g)'
    <3>1. CASE side = 1
      BY <1>7, <2>0, <3>1
    <3>2. CASE side = 0
      <4>1. tree'[0].files[f] = file /\ tree'[1].files[f] = Copy(file)
        BY <1>1, <1>4, <3>2 DEF other
      <4>2. file.time \in Nat /\ file.time < Now
        BY <1>2, <3>2 DEF Contents, Now
      <4>3. tree'[0].files[f].time # tree'[1].files[f].time
        BY <1>3, <4>1, <4>2 DEF Now
      <4>4. (s = 0 /\ 1 - s = 1) \/ (s = 1 /\ 1 - s = 0)
        OBVIOUS
      <4>5. tree'[s].files[f].time # tree'[1 - s].files[f].time
        BY <4>3, <4>4
      <4> QED  BY <2>0, <4>5
    <3> QED  BY <3>1, <3>2
  <2>2. CASE g = f /\ s = other
    <3>1. tree'[s].files[g] = Copy(file) /\ tree'[1 - s].files[g] = file
      BY <1>1, <1>4, <2>2
    <3> QED  BY <1>2, <1>3, <2>0, <2>2, <3>1 DEF Contents
  <2>3. CASE g = f /\ s = side
    <3>1. tree'[s].files[g] = file /\ tree'[1 - s].files[g] = Copy(file)
      BY <1>1, <1>4, <2>3 DEF other
    <3>2. file.time <= Now /\ file.version \in Nat /\ file.time \in Nat
      BY <1>2 DEF Contents, Now
    <3> QED  BY <1>3, <2>0, <2>3, <3>1, <3>2 DEF Now
  <2> QED  BY <1>1, <2>1, <2>2, <2>3
<1>10. \A g \in Both : g # f => (Same(g)' <=> Same(g)) /\ \A s \in {0, 1} : Later(s, g)' <=> Later(s, g)
  <2> SUFFICES ASSUME NEW g \in Both, g # f, NEW s \in {0, 1}
               PROVE  (Same(g)' <=> Same(g)) /\ (Later(s, g)' <=> Later(s, g))
    OBVIOUS
  <2>1. 1 - s \in {0, 1}
    OBVIOUS
  <2> QED  BY <1>6, <2>1 DEF Same, Later
<1>11. ASSUME NEW s \in {0, 1}, NEW g \in Files(s)
       PROVE  /\ g \in Files(s)'
              /\ tree'[s].files[g].version >= tree[s].files[g].version
              /\ tree'[s].files[g].version = tree[s].files[g].version =>
                   tree'[s].files[g].length >= tree[s].files[g].length
  <2>1. CASE tree'[s].files[g] = tree[s].files[g] /\ g \in Files(s)'
    BY <1>2, <2>1 DEF Contents
  <2>2. CASE s = other /\ g = f
    BY <1>2, <1>3, <1>4, <1>8, <2>2 DEF Contents
  <2> QED  BY <1>1, <1>4, <2>1, <2>2
<1> QED  BY <1>1, <1>4, <1>5, <1>7, <1>9, <1>10, <1>11 DEF VersionsKept

-----------------------------------------------------------------------------
(***************************************************************************)
(* What is still to be scanned.                                             *)
(***************************************************************************)

\* The base has an entry that is the file, or leads to it.
LEMMA FromBase ==
  ASSUME DiskInv, NEW side \in {0, 1}, NEW f \in Files(side), Reached(f)
  PROVE  \/ f.dir = Base /\ FileEntry(f) \in Entries(side, Base)
         \/ \E d \in {f.dir, Parent(f.dir)} :
              d # Base /\ Parent(d) = Base /\ DirEntry(d) \in Entries(side, Base)
<1>1. f.dir \in Paths /\ f.dir \in tree[side].dirs /\ Parent(f.dir) \in tree[side].dirs
  BY DiskTyped DEF DiskInv, Places
<1>2. /\ f.dir = Base => FileEntry(f) \in Entries(side, Base)
      /\ \A d \in tree[side].dirs \ {Base} : Parent(d) = Base => DirEntry(d) \in Entries(side, Base)
  BY EntriesTyped, BasePath
<1>3. CASE f.dir # Base /\ Parent(f.dir) # Base
  <2> DEFINE d == Parent(f.dir)
  <2>1. d \in Paths /\ Len(d) <= 1 /\ d # Base
    BY <1>1, <1>3, ParentPath DEF Reached
  <2>2. Parent(d) \in Paths /\ Len(Parent(d)) = 0
    <3>1. Len(d) \in Nat /\ Len(Parent(d)) = Len(d) - 1 /\ Parent(d) \in Paths /\ Len(Parent(d)) \in Nat
      BY <2>1, ParentPath
    <3> HIDE DEF d
    <3> QED  BY <2>1, <3>1
  <2>3. Parent(d) = Base
    BY <2>2, ParentPath
  <2> QED  BY <1>1, <1>2, <2>1, <2>3
<1> QED  BY <1>1, <1>2, <1>3

\* A tree is to be scanned when its base is.
LEMMA AllPending ==
  ASSUME DiskInv, NEW side \in {0, 1}, NEW f \in Files(side), Reached(f)
  PROVE  /\ scans = <<Scan(side, Base)>> => Pending(f)
         /\ scans' = <<Scan(side, Base)>> => Pending(f)'
<1>1. \/ f.dir = Base /\ FileEntry(f) \in Entries(side, Base)
      \/ \E d \in {f.dir, Parent(f.dir)} :
           d # Base /\ Parent(d) = Base /\ DirEntry(d) \in Entries(side, Base)
  BY FromBase
<1>2. ASSUME scans = <<Scan(side, Base)>>
      PROVE  Pending(f)
  <2>1. DOMAIN scans = {1} /\ scans[1].dir = Base /\ scans[1].todo = Entries(side, Base)
    BY <1>2 DEF Scan
  <2> QED  BY <1>1, <2>1 DEF Pending, ToCome, Awaited
<1>3. ASSUME scans' = <<Scan(side, Base)>>
      PROVE  Pending(f)'
  <2>1. DOMAIN scans' = {1} /\ scans'[1].dir = Base /\ scans'[1].todo = Entries(side, Base)
    BY <1>3 DEF Scan
  <2> QED  BY <1>1, <2>1 DEF Pending, ToCome, Awaited, FileEntry, DirEntry
<1> QED  BY <1>2, <1>3

\* When an entry is done, the others are still awaited.
LEMMA StillAwaited ==
  ASSUME ScanInv, mode < 2, NEW entry, NEW dir, NEW x, Awaited(dir, x),
         dir # Top.dir \/ x # entry,
         DOMAIN scans \subseteq DOMAIN scans',
         \A k \in 1 .. Len(scans) :
              /\ scans'[k].dir = scans[k].dir
              /\ k # Len(scans) => scans'[k] = scans[k],
         scans'[Len(scans)].todo = Top.todo \ {entry}
  PROVE  Awaited(dir, x)'
<1>1. PICK k \in DOMAIN scans : scans[k].dir = dir /\ x \in scans[k].todo
  BY DEF Awaited
<1>2. k \in 1 .. Len(scans) /\ Top = scans[Len(scans)]
  BY StackTyped
<1>3. scans'[k].dir = dir /\ x \in scans'[k].todo
  BY <1>1, <1>2
<1> QED  BY <1>1, <1>3 DEF Awaited

\* The entry that stands for the file, or for a directory on the way to it.
LeadsTo(entry, f) ==
  \/ f.dir = Top.dir /\ entry = FileEntry(f)
  \/ \E d \in {f.dir, Parent(f.dir)} : d # Base /\ Parent(d) = Top.dir /\ entry = DirEntry(d)

LEMMA DroppedPending ==
  ASSUME ScanInv, mode < 2, NEW entry, scans' = Append(Rest, Done(entry)),
         NEW f, Pending(f), ~LeadsTo(entry, f)
  PROVE  Pending(f)'
<1>1. /\ DOMAIN scans \subseteq DOMAIN scans'
      /\ \A k \in 1 .. Len(scans) :
           /\ scans'[k].dir = scans[k].dir
           /\ k # Len(scans) => scans'[k] = scans[k]
      /\ scans'[Len(scans)].todo = Top.todo \ {entry}
  BY Taken
<1>2. \A dir, x : Awaited(dir, x) /\ (dir # Top.dir \/ x # entry) => Awaited(dir, x)'
  <2> SUFFICES ASSUME NEW dir, NEW x, Awaited(dir, x), dir # Top.dir \/ x # entry
               PROVE  Awaited(dir, x)'
    OBVIOUS
  <2> QED  BY <1>1, StillAwaited
<1>3. CASE Awaited(f.dir, FileEntry(f))
  <2>1. Awaited(f.dir, FileEntry(f))'
    BY <1>2, <1>3 DEF LeadsTo, FileEntry
  <2> QED  BY <2>1 DEF Pending
<1>4. ASSUME NEW d \in {f.dir, Parent(f.dir)}, ToCome(d)
      PROVE  ToCome(d)'
  BY <1>2, <1>4 DEF LeadsTo, ToCome, DirEntry
<1> QED  BY <1>3, <1>4 DEF Pending

\* A directory on the way to a file is scanned when its entry is come to.
LEMMA OnTheWay ==
  ASSUME DiskInv, ScanInv, mode \in {0, 1}, NEW entry, NEW f \in Files(mode), Reached(f),
         LeadsTo(entry, f), entry.kind = "dir"
  PROVE  \E d \in {f.dir, Parent(f.dir)} :
           /\ d # Base /\ Sub(Top.dir, entry.name) = d /\ d \in tree[Self].dirs
           /\ entry.name \in Names
<1>1. PICK d \in {f.dir, Parent(f.dir)} : d # Base /\ Parent(d) = Top.dir /\ entry = DirEntry(d)
  BY DEF LeadsTo, FileEntry
<1>2. f.dir \in Paths /\ f.dir \in tree[mode].dirs /\ Parent(f.dir) \in tree[mode].dirs
  BY DiskTyped DEF DiskInv, Places
<1>3. d \in Paths /\ Len(d) <= 2
  <2>1. Len(f.dir) \in Nat /\ Parent(f.dir) \in Paths
        /\ Len(Parent(f.dir)) = IF f.dir = Base THEN 0 ELSE Len(f.dir) - 1
    BY <1>2, ParentPath
  <2> QED  BY <1>2, <2>1 DEF Reached
<1>4. Sub(Parent(d), d[Len(d)]) = d
  BY <1>1, <1>3, SubOfParent
<1>5. d[Len(d)] \in Names
  <2>1. Len(d) \in Nat /\ Len(d) # 0 /\ \A k \in 1 .. Len(d) : d[k] \in Names
    BY <1>1, <1>3, ParentPath
  <2> QED  BY <2>1
<1> QED  BY <1>1, <1>2, <1>4, <1>5 DEF DirEntry, Self

LEMMA CalledPending ==
  ASSUME DiskInv, ScanInv, mode \in {0, 1}, NEW entry \in Top.todo,
         entry.kind = "dir", entry.name \notin Dots,
         scans' = Append(Append(Rest, Done(entry)), Scan(Self, Sub(Top.dir, entry.name))),
         NEW f \in Files(mode), Reached(f), Pending(f)
  PROVE  Pending(f)'
<1> DEFINE dir == Sub(Top.dir, entry.name)
           n == Len(scans) + 1
<1>1. entry.name \in Names /\ Top.dir \in Paths
  BY StackTyped DEF Entry, Names
<1>2. dir \in Paths
  BY <1>1, SubPath
<1>3. Scan(Self, dir) \in Call /\ mode < 2
  BY <1>2, EntriesTyped DEF Self
<1>4. /\ DOMAIN scans' = 1 .. n /\ scans'[n] = Scan(Self, dir)
      /\ \A k \in 1 .. Len(scans) :
              /\ scans'[k].dir = scans[k].dir
              /\ k # Len(scans) => scans'[k] = scans[k]
      /\ scans'[Len(scans)].todo = Top.todo \ {entry}
  BY <1>3, Called
<1>5. DOMAIN scans \subseteq DOMAIN scans' /\ n \in DOMAIN scans'
  BY <1>4, StackTyped
<1>6. \A d, x : Awaited(d, x) /\ (d # Top.dir \/ x # entry) => Awaited(d, x)'
  <2> SUFFICES ASSUME NEW d, NEW x, Awaited(d, x), d # Top.dir \/ x # entry
               PROVE  Awaited(d, x)'
    OBVIOUS
  <2>1. /\ DOMAIN scans \subseteq DOMAIN scans' /\ mode < 2
        /\ \A k \in 1 .. Len(scans) :
             /\ scans'[k].dir = scans[k].dir
             /\ k # Len(scans) => scans'[k] = scans[k]
        /\ scans'[Len(scans)].todo = Top.todo \ {entry}
    BY <1>4, <1>5
  <2> QED  BY <2>1, StillAwaited
<1>7. CASE ~LeadsTo(entry, f)
  <2>1. CASE Awaited(f.dir, FileEntry(f))
    <3>1. Awaited(f.dir, FileEntry(f))'
      BY <1>6, <1>7, <2>1 DEF LeadsTo, FileEntry
    <3> QED  BY <3>1 DEF Pending
  <2>2. ASSUME NEW d \in {f.dir, Parent(f.dir)}, ToCome(d)
        PROVE  ToCome(d)'
    BY <1>6, <1>7, <2>2 DEF LeadsTo, ToCome, DirEntry
  <2> QED  BY <2>1, <2>2 DEF Pending
<1>8. CASE LeadsTo(entry, f)
  <2>1. dir \in {f.dir, Parent(f.dir)} /\ dir # Base /\ dir \in tree[mode].dirs
    BY <1>8, OnTheWay DEF Self
  <2>2. scans'[n].dir = dir /\ scans'[n].todo = Entries(mode, dir)
    BY <1>4 DEF Scan, Self
  <2>3. CASE dir = f.dir
    <3>1. FileEntry(f) \in Entries(mode, dir)
      BY <1>2, <2>3, EntriesTyped
    <3>2. Awaited(f.dir, FileEntry(f))'
      BY <1>5, <2>2, <2>3, <3>1 DEF Awaited, FileEntry
    <3> QED  BY <3>2 DEF Pending
  <2>4. CASE dir = Parent(f.dir)
    <3>1. f.dir \in tree[mode].dirs /\ f.dir # Base
      BY <2>1, <2>4, BasePath DEF DiskInv
    <3>2. DirEntry(f.dir) \in Entries(mode, dir)
      BY <1>2, <2>4, <3>1, EntriesTyped
    <3>3. ToCome(f.dir)'
      BY <1>5, <2>2, <2>4, <3>1, <3>2 DEF ToCome, Awaited, DirEntry
    <3> QED  BY <3>3 DEF Pending
  <2> QED  BY <2>1, <2>3, <2>4
<1> QED  BY <1>7, <1>8

\* A call that has come to its end leaves nothing behind.
LEMMA LeftPending ==
  ASSUME ScanInv, mode < 2, Top.todo = {}, scans' = Rest, NEW f, Pending(f)
  PROVE  Pending(f)'
<1>1. DOMAIN scans' = 1 .. Len(scans) - 1
  BY StackTyped, LenProperties
<1>2. ASSUME NEW dir, NEW x, Awaited(dir, x)
      PROVE  Awaited(dir, x)'
  <2>1. PICK k \in DOMAIN scans : scans[k].dir = dir /\ x \in scans[k].todo
    BY <1>2 DEF Awaited
  <2>2. k \in 1 .. Len(scans) - 1 /\ scans'[k] = scans[k]
    BY <2>1, StackTyped
  <2> QED  BY <1>1, <2>1, <2>2 DEF Awaited
<1> QED  BY <1>2 DEF Pending, ToCome, FileEntry, DirEntry

LEMMA NothingPending ==
  ASSUME ScanInv, mode < 2, Len(scans) = 1, Top.todo = {}, NEW f
  PROVE  ~Pending(f)
<1>1. DOMAIN scans = {1} /\ scans[1].todo = {}
  BY StackTyped
<1> QED  BY <1>1 DEF Pending, ToCome, Awaited

-----------------------------------------------------------------------------
(***************************************************************************)
(* The steps that write no file.                                            *)
(***************************************************************************)
LEMMA StackKept ==
  ASSUME ScanInv, mode < 2, UNCHANGED mode
  PROVE  /\ \A entry : scans' = Append(Rest, Done(entry)) => ScanInv'
         /\ Len(scans) > 1 /\ scans' = Rest => ScanInv'
<1>1. ASSUME NEW entry, scans' = Append(Rest, Done(entry))
      PROVE  ScanInv'
  <2>1. /\ scans' \in Seq(Call) /\ scans' # <<>> /\ DOMAIN scans' = DOMAIN scans
        /\ \A k \in DOMAIN scans : scans'[k].dir = scans[k].dir
    BY <1>1, Taken
  <2> QED  BY <2>1 DEF ScanInv
<1>2. ASSUME Len(scans) > 1, scans' = Rest
      PROVE  ScanInv'
  <2>1. /\ scans' \in Seq(Call) /\ Len(scans') = Len(scans) - 1 /\ Len(scans) \in Nat
        /\ DOMAIN scans = 1 .. Len(scans)
        /\ \A k \in 1 .. Len(scans) - 1 : scans'[k] = scans[k]
    BY <1>2, StackTyped
  <2>2. DOMAIN scans' = 1 .. Len(scans) - 1
    BY <2>1, LenProperties
  <2>3. scans' # <<>>
    BY <1>2, <2>1, EmptySeq
  <2> QED  BY <2>1, <2>2, <2>3 DEF ScanInv
<1> QED  BY <1>1, <1>2

\* If a step writes no file, and what was to be scanned still is, all stays well.
LEMMA QuietStep ==
  ASSUME IInv, mode \in {0, 1}, UNCHANGED mode, DiskInv', FilesStay, ScanInv',
         \A f \in Files(mode) : Reached(f) /\ Pending(f) => Pending(f)',
         mode = 0 => \A k \in DOMAIN scans' : Untouched(k)'
  PROVE  IInv'
<1>1. /\ Files(0)' = Files(0) /\ Files(1)' = Files(1) /\ Both' = Both
      /\ \A side \in {0, 1} : tree'[side].files = tree[side].files
  BY DEF FilesStay, Files, Both
<1>2. \A f : /\ Same(f)' <=> Same(f)
             /\ \A side \in {0, 1} : Later(side, f)' <=> Later(side, f)
             /\ HasRoom(f)' => HasRoom(f)
  <2> SUFFICES ASSUME NEW f, NEW side \in {0, 1}
               PROVE  /\ Same(f)' <=> Same(f)
                      /\ Later(side, f)' <=> Later(side, f)
                      /\ HasRoom(f)' => HasRoom(f)
    OBVIOUS
  <2>1. 1 - side \in {0, 1}
    OBVIOUS
  <2> QED  BY <1>1, <2>1 DEF Same, Later, HasRoom, FilesStay
<1>3. VersionsDated'
  <2> SUFFICES ASSUME NEW f \in Both, NEW side \in {0, 1}
               PROVE  LET one == tree'[side].files[f]  other == tree'[1 - side].files[f] IN
                      /\ one.version > other.version => one.time > other.time
                      /\ one.version = other.version /\ one.time > other.time =>
                           one.length >= other.length
                      /\ one.time = other.time => Same(f)
    BY <1>1, <1>2 DEF VersionsDated
  <2>1. 1 - side \in {0, 1}
    OBVIOUS
  <2> QED  BY <1>1, <2>1 DEF VersionsDated, IInv
<1>4. MasterInv'
  <2>1. SUFFICES ASSUME mode = 0
                 PROVE  \A f \in Files(0) : Reached(f) /\ HasRoom(f)' =>
                          Pending(f)' \/ (f \in Files(1) /\ (Same(f) \/ Later(1, f)))
    BY <1>1, <1>2 DEF MasterInv, Reached
  <2> QED  BY <1>2, <2>1 DEF IInv, MasterInv
<1>5. SlaveInv'
  <2>1. SUFFICES ASSUME mode = 1
                 PROVE  \A f \in Files(1) : Reached(f) =>
                          IF f \in Files(0) THEN Same(f) \/ (Later(1, f) /\ Pending(f)')
                          ELSE Pending(f)'
    BY <1>1, <1>2 DEF SlaveInv, Reached
  <2> QED  BY <2>1 DEF IInv, SlaveInv
<1>6. DeliveredInv'
  BY <1>1, <1>2 DEF IInv, DeliveredInv, Reached
<1>7. SidesMatch' /\ MasterOld'
  BY <1>1 DEF SidesMatch, IInv, MasterOld
<1> QED  BY <1>3, <1>4, <1>5, <1>6, <1>7 DEF IInv

LEMMA EnterStep ==
  ASSUME IInv, mode < 2, EnterDirectory
  PROVE  IInv' /\ FilesStay
<1>1. PICK entry \in Top.todo :
        /\ entry.kind = "dir" /\ entry.name \notin Dots
        /\ scans' = Append(Append(Rest, Done(entry)), Scan(Self, Sub(Top.dir, entry.name)))
  BY DEF EnterDirectory
<1>2. /\ DiskInv /\ ScanInv /\ UNCHANGED <<tree, mode>> /\ mode \in {0, 1}
  BY DEF EnterDirectory, IInv, ScanInv
<1>3. DiskInv' /\ FilesStay
  BY <1>2, RmdirEffect
<1> DEFINE dir == Sub(Top.dir, entry.name)
           n == Len(scans)
<1>4. /\ entry.name \in Names /\ Top.dir \in Paths /\ n \in Nat \ {0}
      /\ Len(Top.dir) = Depth(n) /\ DOMAIN scans = 1 .. n /\ Top = scans[n]
  <2>1. /\ Top.dir \in Paths /\ Top.todo \in SUBSET Entry /\ n \in Nat \ {0}
        /\ DOMAIN scans = 1 .. n /\ Top = scans[n]
    BY <1>2, StackTyped
  <2>2. Len(Top.dir) = Depth(n)
    BY <1>2, <2>1 DEF ScanInv
  <2> QED  BY <1>1, <2>1, <2>2 DEF Entry, Names
<1>5. dir \in Paths /\ Len(dir) = Depth(n + 1)
  <2>1. dir \in Paths /\ Len(dir) = IF Top.dir = Base THEN 1 ELSE 2
    BY <1>4, SubPath
  <2>2. Top.dir = Base <=> n = 1
    BY <1>4, ParentPath DEF Depth
  <2> HIDE DEF dir, n
  <2> QED  BY <1>4, <2>1, <2>2 DEF Depth
<1>6. Scan(Self, dir) \in Call
  BY <1>2, <1>5, EntriesTyped DEF Self
<1>7. /\ scans' \in Seq(Call) /\ DOMAIN scans' = 1 .. n + 1 /\ scans'[n + 1] = Scan(Self, dir)
      /\ \A k \in 1 .. n :
              /\ scans'[k].dir = scans[k].dir
              /\ k # n => scans'[k] = scans[k]
      /\ scans'[n].todo = Top.todo \ {entry} /\ Len(scans') = n + 1
  BY <1>1, <1>2, <1>6, Called
<1>8. ScanInv'
  <2>1. \A k \in 1 .. n + 1 : Len(scans'[k].dir) = Depth(k)
    <3>1. \A k \in 1 .. n : Len(scans'[k].dir) = Depth(k)
      BY <1>2, <1>4, <1>7 DEF ScanInv
    <3>2. Len(scans'[n + 1].dir) = Depth(n + 1)
      BY <1>5, <1>7 DEF Scan
    <3> HIDE DEF n
    <3> QED  BY <1>4, <3>1, <3>2
  <2>2. scans' # <<>>
    <3>1. Len(scans') = n + 1 /\ n \in Nat
      BY <1>4, <1>7
    <3> HIDE DEF n
    <3> QED  BY <3>1, EmptySeq
  <2> QED  BY <1>2, <1>7, <2>1, <2>2 DEF ScanInv
<1>9. \A f \in Files(mode) : Reached(f) /\ Pending(f) => Pending(f)'
  BY <1>1, <1>2, CalledPending
<1>10. ASSUME mode = 0, NEW k \in DOMAIN scans'
       PROVE  Untouched(k)'
  <2> SUFFICES ASSUME Len(scans'[k].dir) = 2, Parent(scans'[k].dir) \in tree[1].dirs,
                      scans'[k].dir \notin tree[1].dirs,
                      NEW f \in Files(0), f.dir = scans'[k].dir
               PROVE  FileEntry(f) \in scans'[k].todo
    BY <1>2, <1>3 DEF Untouched, FilesStay, Files, FileEntry
  <2>1. CASE k = n + 1
    BY <1>2, <1>5, <1>7, <1>10, <2>1, EntriesTyped DEF Scan, Self
  <2>2. CASE k \in 1 .. n
    <3>1. FileEntry(f) \in scans[k].todo
      BY <1>4, <1>7, <1>10, <2>2 DEF IInv, MasterInv, Untouched
    <3>2. FileEntry(f) # entry
      BY <1>1 DEF FileEntry
    <3>3. scans'[n].todo = scans[n].todo \ {entry} /\ (k # n => scans'[k] = scans[k])
      BY <1>4, <1>7, <2>2
    <3> HIDE DEF n
    <3> QED  BY <3>1, <3>2, <3>3
  <2>3. k = n + 1 \/ k \in 1 .. n
    <3> HIDE DEF n
    <3> QED  BY <1>4, <1>7
  <2> QED  BY <2>1, <2>2, <2>3
<1> QED  BY <1>2, <1>3, <1>8, <1>9, <1>10, QuietStep

LEMMA SkipStep ==
  ASSUME IInv, mode < 2, SkipDirectory
  PROVE  IInv' /\ FilesStay
<1>1. PICK entry \in Top.todo :
        /\ entry.kind = "dir"
        /\ entry.name \in Dots \/ Sub(Top.dir, entry.name) \notin tree[Self].dirs
        /\ rmdir(Top.dir)
        /\ scans' = Append(Rest, Done(entry))
  BY DEF SkipDirectory
<1>2. /\ DiskInv /\ ScanInv /\ UNCHANGED mode /\ mode \in {0, 1}
  BY DEF SkipDirectory, IInv, ScanInv
<1>3. DiskInv' /\ FilesStay
  BY <1>1, <1>2, RmdirEffect
<1>4. ScanInv'
  BY <1>1, <1>2, StackKept
<1>5. \A f \in Files(mode) : Reached(f) /\ Pending(f) => Pending(f)'
  <2> SUFFICES ASSUME NEW f \in Files(mode), Reached(f), Pending(f)
               PROVE  Pending(f)'
    OBVIOUS
  <2>1. ~LeadsTo(entry, f)
    BY <1>1, <1>2, OnTheWay DEF Names
  <2> QED  BY <1>1, <1>2, <2>1, DroppedPending
<1>6. ASSUME mode = 0, NEW k \in DOMAIN scans'
      PROVE  Untouched(k)'
  <2>1. /\ DOMAIN scans' = DOMAIN scans /\ DOMAIN scans = 1 .. Len(scans) /\ Top = scans[Len(scans)]
        /\ \A l \in 1 .. Len(scans) :
             /\ scans'[l].dir = scans[l].dir
             /\ l # Len(scans) => scans'[l] = scans[l]
        /\ scans'[Len(scans)].todo = Top.todo \ {entry}
    <3>1. mode < 2 /\ ScanInv
      BY <1>2
    <3> QED  BY <1>1, <3>1, Taken
  <2> SUFFICES ASSUME Len(scans'[k].dir) = 2, Parent(scans'[k].dir) \in tree[1].dirs,
                      scans'[k].dir \notin tree[1].dirs,
                      NEW f \in Files(0), f.dir = scans'[k].dir
               PROVE  FileEntry(f) \in scans'[k].todo
    BY <1>3, <1>6 DEF Untouched, FilesStay, Files, FileEntry
  <2>2. FileEntry(f) \in scans[k].todo
    BY <1>6, <2>1 DEF IInv, MasterInv, Untouched
  <2>3. FileEntry(f) # entry
    BY <1>1 DEF FileEntry
  <2> QED  BY <2>1, <2>2, <2>3
<1> QED  BY <1>2, <1>3, <1>4, <1>5, <1>6, QuietStep

LEMMA LeaveStep ==
  ASSUME IInv, mode < 2, LeaveDirectory
  PROVE  IInv' /\ FilesStay
<1>1. /\ Top.todo = {} /\ Len(scans) > 1 /\ scans' = Rest /\ UNCHANGED mode
      /\ rmdir(scans[Len(scans) - 1].dir)
  BY DEF LeaveDirectory
<1>2. DiskInv /\ ScanInv /\ mode \in {0, 1}
  BY DEF IInv, ScanInv
<1>3. DiskInv' /\ FilesStay
  BY <1>1, <1>2, RmdirEffect
<1>4. ScanInv'
  BY <1>1, <1>2, StackKept
<1>5. \A f \in Files(mode) : Reached(f) /\ Pending(f) => Pending(f)'
  BY <1>1, <1>2, LeftPending
<1>6. ASSUME mode = 0, NEW k \in DOMAIN scans'
      PROVE  Untouched(k)'
  <2>1. k \in DOMAIN scans /\ scans'[k] = scans[k]
    <3>1. DOMAIN scans' = 1 .. Len(scans) - 1
      BY <1>1, <1>2, StackTyped, LenProperties
    <3> QED  BY <1>1, <1>2, <3>1, StackTyped
  <2>2. Untouched(k)
    BY <1>6, <2>1 DEF IInv, MasterInv
  <2> QED  BY <1>3, <1>6, <2>1, <2>2 DEF Untouched, FilesStay, Files, FileEntry
<1> QED  BY <1>1, <1>2, <1>3, <1>4, <1>5, <1>6, QuietStep

-----------------------------------------------------------------------------
(***************************************************************************)
(* The steps that come to a file.                                           *)
(***************************************************************************)

\* The entry of a file is done: what is awaited of the other files still is.
LEMMA FileDone ==
  ASSUME DiskInv, ScanInv, mode \in {0, 1}, NEW entry \in Top.todo, entry.kind = "file",
         scans' = Append(Rest, Done(entry)), NEW f, f = File(Top.dir, entry.name)
  PROVE  /\ \A g \in Files(mode) : g # f /\ Pending(g) => Pending(g)'
         /\ \A k \in DOMAIN scans' :
              /\ k \in DOMAIN scans /\ scans'[k].dir = scans[k].dir
              /\ \A g \in Places : g # f /\ g.dir = scans[k].dir /\ FileEntry(g) \in scans[k].todo =>
                   FileEntry(g) \in scans'[k].todo
<1>1. mode < 2
  OBVIOUS
<1>2. \A g \in Places : g.dir = Top.dir /\ FileEntry(g) = entry => g = f
  BY DEF Places, File, FileEntry
<1>3. ASSUME NEW g \in Files(mode), g # f, Pending(g)
      PROVE  Pending(g)'
  <2>1. g \in Places
    BY DiskTyped
  <2>2. ~LeadsTo(entry, g)
    BY <1>2, <1>3, <2>1 DEF LeadsTo, DirEntry
  <2> QED  BY <1>1, <1>3, <2>2, DroppedPending
<1>4. /\ DOMAIN scans' = DOMAIN scans /\ DOMAIN scans = 1 .. Len(scans)
      /\ \A k \in 1 .. Len(scans) :
              /\ scans'[k].dir = scans[k].dir
              /\ k # Len(scans) => scans'[k] = scans[k]
      /\ scans'[Len(scans)].todo = Top.todo \ {entry} /\ Top = scans[Len(scans)]
  BY <1>1, Taken
<1>5. ASSUME NEW k \in DOMAIN scans', NEW g \in Places, g # f, g.dir = scans[k].dir,
             FileEntry(g) \in scans[k].todo
      PROVE  FileEntry(g) \in scans'[k].todo
  <2>1. CASE k # Len(scans)
    BY <1>4, <1>5, <2>1
  <2>2. CASE k = Len(scans)
    BY <1>2, <1>4, <1>5, <2>2
  <2> QED  BY <2>1, <2>2
<1> QED  BY <1>3, <1>4, <1>5

\* If the file's directory is there now, or could not be made, what is said of
\* the directories that could be made stays so.
LEMMA UntouchedKept ==
  ASSUME DiskInv, ScanInv, mode \in {0, 1}, NEW entry \in Top.todo, entry.kind = "file",
         scans' = Append(Rest, Done(entry)), NEW f, f = File(Top.dir, entry.name),
         Files(0)' = Files(0), tree[1].dirs \subseteq tree'[1].dirs,
         f \in Files(0) /\ Parent(f.dir) \in tree[1].dirs => f.dir \in tree'[1].dirs,
         NEW k \in DOMAIN scans', Untouched(k),
         Len(scans[k].dir) = 2 /\ Parent(scans[k].dir) \in tree'[1].dirs =>
           Parent(scans[k].dir) \in tree[1].dirs
  PROVE  Untouched(k)'
<1>1. /\ k \in DOMAIN scans /\ scans'[k].dir = scans[k].dir
      /\ \A g \in Places : g # f /\ g.dir = scans[k].dir /\ FileEntry(g) \in scans[k].todo =>
           FileEntry(g) \in scans'[k].todo
  BY FileDone
<1> SUFFICES ASSUME Len(scans[k].dir) = 2, Parent(scans[k].dir) \in tree'[1].dirs,
                    scans[k].dir \notin tree'[1].dirs,
                    NEW g \in Files(0), g.dir = scans[k].dir
             PROVE  FileEntry(g) \in scans'[k].todo
  BY <1>1 DEF Untouched, FileEntry
<1>2. FileEntry(g) \in scans[k].todo
  BY DEF Untouched
<1>3. g # f
  OBVIOUS
<1>4. g \in Places
  BY DiskTyped
<1> QED  BY <1>1, <1>2, <1>3, <1>4

\* What the scan of a file is for.
Settled(f) ==
  IF mode = 0
  THEN f \in Files(0) /\ Reached(f) /\ HasRoom(f) => f \in Files(1) /\ (Same(f) \/ Later(1, f))
  ELSE f \in Files(1) => f \in Files(0) /\ Same(f)

LEMMA SettledStep ==
  ASSUME IInv, mode \in {0, 1}, UNCHANGED mode, DiskInv', ScanInv', VersionsDated', MasterOld',
         NEW f, Settled(f)', Files(0)' = Files(0),
         Files(1) \ {f} \subseteq Files(1)', Files(1)' \subseteq Files(1) \cup {f},
         f \in Both => f \in Files(1)',
         \A g \in Both : g # f => /\ Same(g)' <=> Same(g)
                                  /\ \A s \in {0, 1} : Later(s, g)' <=> Later(s, g),
         \A g \in Files(mode) : g # f /\ Pending(g) => Pending(g)',
         \A g \in Files(0) : Reached(g) /\ HasRoom(g)' =>
           HasRoom(g) \/ (mode = 0 /\ (Pending(g) \/ g = f)),
         mode = 0 => \A k \in DOMAIN scans' : Untouched(k)'
  PROVE  IInv'
<1>1. MasterInv'
  <2> SUFFICES ASSUME mode = 0, NEW g \in Files(0), Reached(g), HasRoom(g)'
               PROVE  Pending(g)' \/ (g \in Files(1)' /\ (Same(g)' \/ Later(1, g)'))
    BY DEF MasterInv, Reached
  <2>1. CASE g = f
    BY <2>1 DEF Settled, Reached
  <2>2. CASE g # f /\ g \in Files(1) /\ (Same(g) \/ Later(1, g))
    BY <2>2 DEF Both
  <2>3. CASE g # f /\ Pending(g)
    BY <2>3
  <2>4. CASE g # f /\ HasRoom(g)
    BY <2>2, <2>3, <2>4 DEF IInv, MasterInv
  <2> QED  BY <2>1, <2>3, <2>4
<1>2. SlaveInv'
  <2> SUFFICES ASSUME mode = 1, NEW g \in Files(1)', Reached(g)
               PROVE  IF g \in Files(0) THEN Same(g)' \/ (Later(1, g)' /\ Pending(g)') ELSE Pending(g)'
    BY DEF SlaveInv, Reached
  <2>1. CASE g = f
    BY <2>1 DEF Settled
  <2>2. CASE g # f
    <3>1. g \in Files(1) /\ Files(mode) = Files(1)
      BY <2>2
    <3>2. IF g \in Files(0) THEN Same(g) \/ (Later(1, g) /\ Pending(g)) ELSE Pending(g)
      BY <3>1 DEF IInv, SlaveInv
    <3> QED  BY <2>2, <3>1, <3>2 DEF Both
  <2> QED  BY <2>1, <2>2
<1>3. DeliveredInv'
  <2> SUFFICES ASSUME mode = 1, NEW g \in Files(0), Reached(g), HasRoom(g)'
               PROVE  g \in Files(1)'
    BY DEF DeliveredInv, Reached
  <2>1. CASE g # f
    BY <2>1 DEF IInv, DeliveredInv
  <2>2. CASE g = f
    BY <2>2 DEF IInv, DeliveredInv, Both
  <2> QED  BY <2>1, <2>2
<1>4. SidesMatch'
  BY DEF SidesMatch
<1> QED  BY <1>1, <1>2, <1>3, <1>4 DEF IInv

\* What a step does to the versions.
Advance ==
  /\ DOMAIN tree[0].files \subseteq DOMAIN tree'[0].files
  /\ \A side \in {0, 1} : \A f \in DOMAIN tree[side].files \cap DOMAIN tree'[side].files :
       LET old == tree[side].files[f]  new == tree'[side].files[f]
       IN  /\ new.version >= old.version
           /\ new.version = old.version => new.length >= old.length

LEMMA StayAdvance ==
  ASSUME DiskInv,
         \A side \in {0, 1} : \A f \in Files(side)' :
           f \in Files(side) /\ tree'[side].files[f] = tree[side].files[f],
         Files(0)' = Files(0)
  PROVE  Advance
<1>1. \A side \in {0, 1} : \A f \in Files(side) :
        tree[side].files[f].version \in Nat /\ tree[side].files[f].length \in Nat
  BY DiskTyped DEF Contents
<1> QED  BY <1>1 DEF Advance, Files

\* The file is left as it is on both sides.
LEMMA KeptFile ==
  ASSUME IInv, mode \in {0, 1}, UNCHANGED <<tree, mode>>,
         NEW entry \in Top.todo, entry.kind = "file",
         scans' = Append(Rest, Done(entry)), NEW f, f = File(Top.dir, entry.name),
         Settled(f),
         mode = 0 /\ f \in Files(0) /\ Parent(f.dir) \in tree[1].dirs => f.dir \in tree[1].dirs
  PROVE  IInv' /\ Advance
<1>1. DiskInv /\ ScanInv /\ VersionsDated /\ DiskInv' /\ VersionsDated'
  BY DEF IInv, DiskInv, VersionsDated, Both, Files, Same
<1>2. ScanInv'
  BY <1>1, StackKept
<1>3. /\ Files(0)' = Files(0) /\ Files(1)' = Files(1) /\ Settled(f)'
      /\ \A g : /\ Same(g)' <=> Same(g)
                /\ \A s \in {0, 1} : Later(s, g)' <=> Later(s, g)
                /\ HasRoom(g)' <=> HasRoom(g)
  BY DEF Files, Settled, Same, Later, HasRoom
<1>4. \A g \in Files(mode) : g # f /\ Pending(g) => Pending(g)'
  BY <1>1, FileDone
<1>5. ASSUME mode = 0, NEW k \in DOMAIN scans'
      PROVE  Untouched(k)'
  <2>1. k \in DOMAIN scans
    BY <1>1, FileDone
  <2>2. Untouched(k)
    BY <1>5, <2>1 DEF IInv, MasterInv
  <2> QED  BY <1>1, <1>3, <1>5, <2>2, UntouchedKept
<1>6. IInv'
  <2>1. MasterOld'
    BY <1>3 DEF IInv, MasterOld
  <2> QED  BY <1>1, <1>2, <1>3, <1>4, <1>5, <2>1, SettledStep DEF Both
<1>7. Advance
  BY <1>1, <1>3, StayAdvance
<1> QED  BY <1>6, <1>7

\* The slave's file is removed.
LEMMA RemovedFile ==
  ASSUME IInv, mode = 1, UNCHANGED mode,
         NEW entry \in Top.todo, entry.kind = "file",
         scans' = Append(Rest, Done(entry)), NEW f, f = File(Top.dir, entry.name),
         f \notin Files(0), tree' = [tree EXCEPT ![1].files = Unlink(@, f)]
  PROVE  IInv' /\ Advance
<1>1. DiskInv /\ ScanInv /\ VersionsDated
  BY DEF IInv
<1>2. /\ DiskInv'
      /\ tree'[0] = tree[0] /\ tree'[1].dirs = tree[1].dirs
      /\ Files(0)' = Files(0) /\ Files(1)' = Files(1) \ {f}
      /\ \A g \in Files(1) \ {f} : tree'[1].files[g] = tree[1].files[g]
  BY <1>1, RemoveEffect
<1>3. ScanInv'
  BY <1>1, StackKept
<1>4. Both' = Both /\ f \notin Both
  BY <1>2 DEF Both
<1>5. \A g \in Both : \A s \in {0, 1} : tree'[s].files[g] = tree[s].files[g]
  BY <1>2, <1>4 DEF Both
<1>6. /\ \A g \in Both : (Same(g)' <=> Same(g)) /\ \A s \in {0, 1} : Later(s, g)' <=> Later(s, g)
      /\ VersionsDated'
  <2>1. \A s \in {0, 1} : 1 - s \in {0, 1}
    OBVIOUS
  <2>2. \A g \in Both : (Same(g)' <=> Same(g)) /\ \A s \in {0, 1} : Later(s, g)' <=> Later(s, g)
    BY <1>5, <2>1 DEF Same, Later
  <2>3. VersionsDated'
    BY <1>1, <1>4, <1>5, <2>1, <2>2 DEF VersionsDated
  <2> QED  BY <2>2, <2>3
<1>7. Settled(f)' /\ \A g \in Files(0) : HasRoom(g)' => HasRoom(g)
  BY <1>2 DEF Settled, HasRoom
<1>8. \A g \in Files(mode) : g # f /\ Pending(g) => Pending(g)'
  BY <1>1, FileDone
<1>9. IInv'
  <2>1. MasterOld'
    BY DEF MasterOld
  <2> QED  BY <1>1, <1>2, <1>3, <1>4, <1>6, <1>7, <1>8, <2>1, SettledStep
<1>10. Advance
  <2>1. \A side \in {0, 1} : \A g \in Files(side)' :
          g \in Files(side) /\ tree'[side].files[g] = tree[side].files[g]
    BY <1>2
  <2> QED  BY <1>1, <1>2, <2>1, StayAdvance
<1> QED  BY <1>9, <1>10

\* The directories of the other side that a file is copied to: they have the
\* file's, or it is made there.
Destination(side, dirs, f) ==
  /\ f.dir \in dirs
  /\ \/ dirs = tree[1 - side].dirs
     \/ /\ side = 0 /\ dirs = tree[1].dirs \cup {f.dir}
        /\ f.dir \notin tree[1].dirs /\ Parent(f.dir) \in tree[1].dirs

Copied(side, dirs, f) ==
  tree' = [tree EXCEPT ![1 - side] =
             [dirs |-> dirs, files |-> Put(tree[1 - side].files, f, Copy(tree[side].files[f]))]]

LEMMA CopyEffect ==
  ASSUME SyncAssumption, DiskInv, NEW side \in {0, 1}, NEW f \in Files(side), NEW dirs,
         Destination(side, dirs, f), Copied(side, dirs, f)
  PROVE  /\ DiskInv' /\ Wrote(1 - side, dirs, f, Copy(tree[side].files[f]))
         /\ tree[1 - side].dirs \subseteq dirs
<1> DEFINE other == 1 - side
           file == Copy(tree[side].files[f])
<1>1. other \in {0, 1}
  OBVIOUS
<1>2. f \in Places /\ f.dir \in Paths /\ file \in Contents /\ tree[other].dirs \subseteq Paths
  <2>1. f \in Places /\ tree[side].files[f] \in Contents /\ tree[other].dirs \subseteq Paths
    BY <1>1, DiskTyped
  <2> QED  BY <2>1, CopyAsLong DEF Places
<1>3. /\ dirs \in SUBSET Paths /\ tree[other].dirs \subseteq dirs /\ f.dir \in dirs
      /\ \A d \in dirs : Parent(d) \in dirs
  <2>1. \A d \in tree[other].dirs : Parent(d) \in tree[other].dirs
    BY <1>1 DEF DiskInv
  <2> QED  BY <1>2, <2>1 DEF Destination
<1>4. tree' = [tree EXCEPT ![other] = [dirs |-> dirs, files |-> Put(tree[other].files, f, file)]]
  BY DEF Copied
<1> HIDE DEF other, file
<1>5. DiskInv' /\ Wrote(other, dirs, f, file)
  BY <1>1, <1>2, <1>3, <1>4, WriteEffect
<1> QED  BY <1>3, <1>5 DEF other, file

\* The entry of the file is done.
Scanned(entry, f) ==
  /\ entry \in Top.todo /\ entry.kind = "file" /\ f = File(Top.dir, entry.name)
  /\ scans' = Append(Rest, Done(entry))

\* Over another file if that is older, and from the slave over another one only.
MayCopy(side, f) ==
  /\ f \in Files(side) /\ (f \in Files(1 - side) => Later(side, f))
  /\ (side = 1 => f \in Files(0))

\* The file is copied to the other side, over one that is not later, or, from
\* the master, to a directory that may have to be made.
LEMMA CopiedFile ==
  ASSUME SyncAssumption, IInv, NEW side \in {0, 1}, mode = side, mode' = side,
         NEW entry, NEW f, Scanned(entry, f), MayCopy(side, f),
         NEW dirs, Destination(side, dirs, f), Copied(side, dirs, f)
  PROVE  IInv' /\ Advance
<1>1. DiskInv /\ ScanInv /\ VersionsDated /\ mode < 2 /\ mode \in {0, 1} /\ UNCHANGED mode
  BY DEF IInv
<1>2. /\ entry \in Top.todo /\ entry.kind = "file" /\ f = File(Top.dir, entry.name)
      /\ scans' = Append(Rest, Done(entry))
  BY DEF Scanned
<1>3. /\ f \in Files(side) /\ (f \in Files(1 - side) => Later(side, f))
      /\ (side = 1 => f \in Files(0))
  BY DEF MayCopy
<1>4. /\ DiskInv' /\ Wrote(1 - side, dirs, f, Copy(tree[side].files[f]))
      /\ tree[1 - side].dirs \subseteq dirs /\ f.dir \in dirs
  BY <1>1, <1>3, CopyEffect DEF Destination
<1>5. /\ VersionsDated' /\ IF side = 1 THEN Same(f)' ELSE Later(1, f)'
      /\ f \in Both' /\ Files(side)' = Files(side)
      /\ \A g \in Both : g # f =>
              /\ Same(g)' <=> Same(g)
              /\ \A s \in {0, 1} : Later(s, g)' <=> Later(s, g)
      /\ \A s \in {0, 1} : \A g \in Files(s) :
              /\ g \in Files(s)'
              /\ tree'[s].files[g].version >= tree[s].files[g].version
              /\ tree'[s].files[g].version = tree[s].files[g].version =>
                   tree'[s].files[g].length >= tree[s].files[g].length
  <2>0. side = 0 => tree[0].files[f].time < Now
    BY <1>3 DEF IInv, MasterOld
  <2>1. VersionsKept(side, f)
    BY <1>1, <1>3, <1>4, <2>0, CopyKeepsVersions
  <2> QED  BY <2>1 DEF VersionsKept
<1>6. /\ Files(0)' = Files(0)
      /\ Files(1) \subseteq Files(1)' /\ Files(1)' \subseteq Files(1) \cup {f}
  <2>1. Files(1 - side)' = Files(1 - side) \cup {f}
    BY <1>4 DEF Wrote
  <2>2. CASE side = 0
    BY <1>5, <2>1, <2>2
  <2>3. CASE side = 1
    <3>1. Files(0)' = Files(0) \cup {f} /\ Files(1)' = Files(1)
      BY <1>5, <2>1, <2>3
    <3> QED  BY <1>3, <2>3, <3>1
  <2> QED  BY <2>2, <2>3
<1>7. /\ side = 1 => tree'[1].dirs = tree[1].dirs
      /\ side = 0 => tree'[1].dirs = dirs
      /\ f.dir \in tree[1].dirs => dirs \subseteq tree[1].dirs \/ side = 1
      /\ side = 0 => dirs \subseteq tree[1].dirs \cup {f.dir}
      /\ side = 0 /\ f.dir \notin tree[1].dirs => Parent(f.dir) \in tree[1].dirs
  BY <1>4 DEF Wrote, Destination
<1>8. Settled(f)'
  BY <1>5 DEF Settled, Both
<1>9. ScanInv'
  BY <1>1, <1>2, StackKept
<1>10. /\ DOMAIN scans = 1 .. Len(scans) /\ Len(scans) \in Nat \ {0} /\ Top = scans[Len(scans)]
       /\ f.dir = Top.dir /\ Len(Top.dir) = Depth(Len(scans))
  <2>1. DOMAIN scans = 1 .. Len(scans) /\ Len(scans) \in Nat \ {0} /\ Top = scans[Len(scans)]
    BY <1>1, StackTyped
  <2> QED  BY <1>1, <1>2, <2>1 DEF ScanInv, File
<1>11. \A g \in Files(0) : Reached(g) /\ HasRoom(g)' =>
         HasRoom(g) \/ (mode = 0 /\ (Pending(g) \/ g = f))
  <2> SUFFICES ASSUME NEW g \in Files(0), Reached(g), HasRoom(g)', ~HasRoom(g)
               PROVE  mode = 0 /\ Pending(g)
    OBVIOUS
  <2>1. Len(g.dir) > 1 /\ g.dir \in tree'[1].dirs /\ g.dir \notin tree[1].dirs /\ Len(g.dir) \in Nat
    <3>1. g.dir \in Paths /\ Len(g.dir) \in Nat
      BY <1>1, DiskTyped, ParentPath DEF Places
    <3> QED  BY <3>1 DEF HasRoom
  <2>2. mode = 0 /\ g.dir = f.dir /\ Parent(f.dir) \in tree[1].dirs
    BY <1>1, <1>7, <2>1
  <2>3. Len(g.dir) = 2
    <3>1. Len(g.dir) <= 2
      BY DEF Reached
    <3> DEFINE n == Len(g.dir)
    <3>2. n \in Nat /\ n > 1 /\ n <= 2
      BY <2>1, <3>1
    <3> HIDE DEF n
    <3>3. n = 2
      BY <3>2
    <3> QED  BY <3>3 DEF n
  <2>4. Untouched(Len(scans))
    BY <1>10, <2>2 DEF IInv, MasterInv
  <2>5. FileEntry(g) \in scans[Len(scans)].todo
    BY <1>10, <2>1, <2>2, <2>3, <2>4 DEF Untouched
  <2>6. Awaited(g.dir, FileEntry(g))
    BY <1>10, <2>2, <2>5 DEF Awaited
  <2> QED  BY <2>2, <2>6 DEF Pending
<1>12. \A g \in Files(mode) : g # f /\ Pending(g) => Pending(g)'
  BY <1>1, <1>2, <1>3, FileDone
<1>13. ASSUME mode = 0, NEW k \in DOMAIN scans'
       PROVE  Untouched(k)'
  <2>1. k \in DOMAIN scans
    BY <1>1, <1>2, <1>3, FileDone
  <2>2. Untouched(k)
    BY <1>13, <2>1 DEF IInv, MasterInv
  <2>3. tree[1].dirs \subseteq tree'[1].dirs /\ f.dir \in tree'[1].dirs
    BY <1>1, <1>4, <1>7, <1>13
  <2>4. ASSUME Len(scans[k].dir) = 2, Parent(scans[k].dir) \in tree'[1].dirs
        PROVE  Parent(scans[k].dir) \in tree[1].dirs
    <3> SUFFICES ASSUME Parent(scans[k].dir) = f.dir
                 PROVE  FALSE
      BY <1>7, <1>13, <2>4
    <3>1. scans[k].dir \in Paths
      <4>1. scans[k] \in Call
        BY <1>1, <1>10, <2>1, StackTyped
      <4> QED  BY <4>1 DEF Call
    <3>2. Len(f.dir) = 1
      BY <2>4, <3>1, ChildLength
    <3>3. Depth(k) = 2 /\ Depth(Len(scans)) = 1
      BY <1>1, <1>10, <2>1, <2>4, <3>2 DEF ScanInv
    <3>4. k \in Nat \ {0} /\ Len(scans) \in Nat /\ k <= Len(scans)
      BY <1>10, <2>1
    <3> QED  BY <3>3, <3>4, DepthGrows
  <2> QED  BY <1>1, <1>2, <1>6, <2>2, <2>3, <2>4, UntouchedKept
<1>14. IInv'
  <2>1. Files(1) \ {f} \subseteq Files(1)' /\ (f \in Both => f \in Files(1)')
    BY <1>6 DEF Both
  <2>2. \A g \in Both : g # f => /\ Same(g)' <=> Same(g)
                                  /\ \A s \in {0, 1} : Later(s, g)' <=> Later(s, g)
    BY <1>5
  <2>3. MasterOld'
    BY <1>4, <1>6 DEF IInv, MasterOld, Wrote
  <2> QED
    BY <1>1, <1>4, <1>5, <1>6, <1>8, <1>9, <1>11, <1>12, <1>13, <2>1, <2>2, <2>3, SettledStep
<1>15. Advance
  BY <1>5 DEF Advance, Files
<1> QED  BY <1>14, <1>15

LEMMA SyncStep ==
  ASSUME SyncAssumption, IInv, mode < 2, SyncFile
  PROVE  IInv' /\ Advance
<1>1. DiskInv /\ ScanInv /\ VersionsDated /\ mode \in {0, 1}
  BY DEF IInv, ScanInv
<1>2. PICK entry \in Top.todo :
        /\ entry.kind = "file"
        /\ LET f == File(Top.dir, entry.name) IN
             IF f \notin Files(Self) THEN UNCHANGED tree
             ELSE IF f \in Files(Other) THEN CopyNewer(f)
             ELSE IF mode = 0 THEN CopyMissing(f)
             ELSE RemoveExtra(f)
        /\ scans' = Append(Rest, Done(entry))
        /\ UNCHANGED mode
  BY DEF SyncFile
<1> DEFINE f == File(Top.dir, entry.name)
<1>3. /\ entry.kind = "file" /\ scans' = Append(Rest, Done(entry)) /\ UNCHANGED mode
      /\ Scanned(entry, f)
      /\ IF f \notin Files(mode) THEN UNCHANGED tree
         ELSE IF f \in Files(1 - mode) THEN CopyNewer(f)
         ELSE IF mode = 0 THEN CopyMissing(f)
         ELSE RemoveExtra(f)
  BY <1>2 DEF Self, Other, Scanned
<1>4. f.dir = Top.dir
  BY DEF File
<1> HIDE DEF f
<1>5. f = File(Top.dir, entry.name)
  BY DEF f
<1>6. Reached(f)
  <2>1. Len(scans) \in DOMAIN scans /\ Len(scans) \in Nat \ {0} /\ Top = scans[Len(scans)]
    <3>1. Len(scans) \in Nat \ {0} /\ DOMAIN scans = 1 .. Len(scans) /\ Top = scans[Len(scans)]
      BY <1>1, StackTyped
    <3> QED  BY <3>1
  <2>2. Len(Top.dir) = Depth(Len(scans))
    BY <1>1, <2>1 DEF ScanInv
  <2>3. \A n \in Nat \ {0} : Depth(n) <= 2
    BY DEF Depth
  <2> QED  BY <1>4, <2>1, <2>2, <2>3 DEF Reached
<1>7. CASE f \notin Files(mode)
  <2>1. Settled(f) /\ UNCHANGED <<tree, mode>> /\ ~(mode = 0 /\ f \in Files(0))
    BY <1>1, <1>3, <1>7 DEF Settled
  <2> QED  BY <1>1, <1>3, <1>5, <2>1, KeptFile
<1>8. CASE f \in Files(mode) /\ f \in Files(1 - mode)
  <2>1. CopyNewer(f) /\ f \in Both
    BY <1>1, <1>3, <1>8 DEF Both
  <2>2. f.dir \in tree[1 - mode].dirs /\ 1 - mode \in {0, 1}
    BY <1>1, <1>8 DEF DiskInv
  <2>3. CASE Later(mode, f)
    <3> SUFFICES ASSUME NEW side \in {0, 1}, mode = side
                 PROVE  IInv' /\ Advance
      BY <1>1
    <3> DEFINE files == Put(tree[1 - side].files, f, Copy(tree[side].files[f]))
               dirs == tree[1 - side].dirs
    <3>1. tree' = [tree EXCEPT ![1 - side].files = files]
      BY <2>1, <2>3 DEF CopyNewer, Later, Self, Other
    <3>2. tree[1 - side] = [dirs |-> dirs, files |-> tree[1 - side].files]
      BY <1>1, DiskTyped
    <3>3. [tree[1 - side] EXCEPT !.files = files] = [dirs |-> dirs, files |-> files]
      <4> HIDE DEF files, dirs
      <4> QED  BY <3>2
    <3>4. Copied(side, dirs, f)
      BY <3>1, <3>3 DEF Copied
    <3>5. Destination(side, dirs, f)
      BY <2>2 DEF Destination
    <3>6. MayCopy(side, f) /\ mode' = side
      BY <1>3, <2>1, <2>3, <1>8 DEF MayCopy, Both
    <3> HIDE DEF dirs
    <3> QED  BY <1>3, <3>4, <3>5, <3>6, CopiedFile
  <2>4. CASE ~Later(mode, f)
    <3>1. UNCHANGED <<tree, mode>>
      BY <1>3, <2>1, <2>4 DEF CopyNewer, Later, Self, Other
    <3>2. f.dir \in tree[1].dirs
      BY <1>1, <1>8 DEF DiskInv
    <3>3. Settled(f)
      <4>1. CASE mode = 0
        <5> DEFINE one == tree[0].files[f]
                   two == tree[1].files[f]
        <5>2. ~(one.time > two.time)
          BY <2>4, <4>1 DEF Later
        <5>4. Same(f) \/ two.time > one.time
          <6>1. one.time \in Nat /\ two.time \in Nat
            BY <1>1, <2>1, DiskTyped DEF Both, Contents
          <6>2. one.time = two.time => Same(f)
            BY <1>1, <2>1 DEF VersionsDated
          <6> HIDE DEF one, two
          <6> QED  BY <5>2, <6>1, <6>2
        <5> QED  BY <2>1, <4>1, <5>4 DEF Settled, Later, Both
      <4>2. CASE mode = 1
        BY <1>6, <2>1, <2>4, <4>2 DEF IInv, SlaveInv, Settled, Both
      <4> QED  BY <1>1, <4>1, <4>2
    <3> QED  BY <1>1, <1>3, <1>5, <3>1, <3>2, <3>3, KeptFile
  <2> QED  BY <2>3, <2>4
<1>9. CASE f \in Files(mode) /\ f \notin Files(1 - mode) /\ mode = 0
  <2> DEFINE dirs == IF f.dir \notin tree[1].dirs /\ Parent(f.dir) \in tree[1].dirs
                     THEN tree[1].dirs \cup {f.dir} ELSE tree[1].dirs
             files == Put(tree[1].files, f, Copy(tree[0].files[f]))
  <2>1. IF f.dir \in dirs
        THEN tree' = [tree EXCEPT ![1].dirs = dirs, ![1].files = Put(@, f, Copy(tree[0].files[f]))]
        ELSE UNCHANGED tree
    <3>1. CopyMissing(f) /\ Self = 0 /\ Other = 1
      BY <1>3, <1>9 DEF Self, Other
    <3> QED  BY <3>1 DEF CopyMissing
  <2>2. CASE f.dir \in dirs
    <3>1. tree[1] = [dirs |-> tree[1].dirs, files |-> tree[1].files]
      BY <1>1, DiskTyped
    <3>2. tree' = [tree EXCEPT ![1] = [dirs |-> dirs, files |-> files]]
      <4> DEFINE made == [tree EXCEPT ![1] = [dirs |-> dirs, files |-> tree[1].files]]
      <4>1. tree \in [{0, 1} -> Trees2]
        BY <1>1 DEF DiskInv
      <4>2. [tree[1] EXCEPT !.dirs = dirs] = [dirs |-> dirs, files |-> tree[1].files]
        <5> HIDE DEF dirs
        <5> QED  BY <3>1
      <4>3. [tree EXCEPT ![1].dirs = dirs] = made
        BY <4>2
      <4>4. made[1] = [dirs |-> dirs, files |-> tree[1].files] /\ made[1].files = tree[1].files
        <5> HIDE DEF dirs
        <5> QED  BY <4>1
      <4>5. [made[1] EXCEPT !.files = files] = [dirs |-> dirs, files |-> files]
        <5> HIDE DEF dirs, files, made
        <5> QED  BY <4>4
      <4>6. tree' = [made EXCEPT ![1].files = Put(@, f, Copy(tree[0].files[f]))]
        <5>1. tree' = [[tree EXCEPT ![1].dirs = dirs]
                         EXCEPT ![1].files = Put(@, f, Copy(tree[0].files[f]))]
          BY <2>1, <2>2
        <5> HIDE DEF made
        <5> QED  BY <4>3, <5>1
      <4>7. tree' = [made EXCEPT ![1] = [dirs |-> dirs, files |-> files]]
        <5> HIDE DEF made, dirs
        <5> QED  BY <4>4, <4>5, <4>6
      <4> HIDE DEF dirs, files
      <4> QED  BY <4>1, <4>7
    <3>3. Copied(0, dirs, f)
      BY <3>2 DEF Copied
    <3>4. Destination(0, dirs, f)
      BY <2>2 DEF Destination
    <3>5. MayCopy(0, f) /\ mode' = 0
      BY <1>3, <1>9 DEF MayCopy
    <3> HIDE DEF dirs
    <3> QED  BY <1>3, <1>9, <3>3, <3>4, <3>5, CopiedFile
  <2>3. CASE f.dir \notin dirs
    <3>1. f.dir \notin tree[1].dirs /\ Parent(f.dir) \notin tree[1].dirs
      BY <2>3
    <3>2. ~HasRoom(f)
      <4>1. f.dir \in Paths /\ Base \in tree[1].dirs
        BY <1>1, <1>9, DiskTyped DEF DiskInv, Places
      <4>2. Parent(f.dir) # Base /\ f.dir # Base
        BY <3>1, <4>1
      <4>3. /\ Len(f.dir) \in Nat /\ Parent(f.dir) \in Paths
            /\ Len(Parent(f.dir)) = Len(f.dir) - 1 /\ Len(Parent(f.dir)) \in Nat \ {0}
        BY <4>1, <4>2, ParentPath
      <4>4. ~(Len(f.dir) <= 1)
        <5> DEFINE n == Len(f.dir)
                   p == Len(Parent(f.dir))
        <5>1. n \in Nat /\ p \in Nat \ {0} /\ p = n - 1
          BY <4>3
        <5> HIDE DEF n, p
        <5>2. ~(n <= 1)
          BY <5>1
        <5> QED  BY <5>2 DEF n
      <4> QED  BY <3>1, <4>4 DEF HasRoom
    <3>3. Settled(f) /\ UNCHANGED <<tree, mode>>
      BY <1>3, <1>9, <2>1, <2>3, <3>2 DEF Settled
    <3> QED  BY <1>1, <1>3, <1>5, <3>1, <3>3, KeptFile
  <2> QED  BY <2>2, <2>3
<1>10. CASE f \in Files(mode) /\ f \notin Files(1 - mode) /\ mode = 1
  <2>1. f \notin Files(0) /\ tree' = [tree EXCEPT ![1].files = Unlink(@, f)]
    BY <1>3, <1>10 DEF RemoveExtra, Self
  <2> QED  BY <1>3, <1>5, <1>10, <2>1, RemovedFile
<1> QED  BY <1>1, <1>7, <1>8, <1>9, <1>10

-----------------------------------------------------------------------------
(***************************************************************************)
(* From one pass to the next, and the whole.                                *)
(***************************************************************************)
LEMMA PassStep ==
  ASSUME IInv, mode < 2, NextPass
  PROVE  IInv' /\ Advance
<1>1. /\ DiskInv /\ ScanInv /\ VersionsDated /\ mode \in {0, 1}
      /\ Len(scans) = 1 /\ Top.todo = {} /\ UNCHANGED tree
      /\ mode = 0 => mode' = 1 /\ scans' = <<Scan(1, Base)>>
      /\ mode = 1 => mode' = 2 /\ scans' = <<>>
  BY DEF IInv, ScanInv, NextPass
<1>2. \A f : ~Pending(f)
  BY <1>1, NothingPending
<1>3. /\ DiskInv' /\ VersionsDated' /\ Files(0)' = Files(0) /\ Files(1)' = Files(1)
      /\ \A f : /\ Same(f)' <=> Same(f)
                /\ \A side \in {0, 1} : Later(side, f)' <=> Later(side, f)
                /\ HasRoom(f)' <=> HasRoom(f)
  BY <1>1 DEF DiskInv, VersionsDated, Both, Files, Same, Later, HasRoom
<1>4. Advance
  BY <1>1, <1>3, StayAdvance
<1>5. CASE mode = 0
  <2>1. Scan(1, Base) \in Call /\ Scan(1, Base).dir = Base
    BY <1>1, EntriesTyped, BasePath DEF Scan
  <2>2. ScanInv'
    <3>1. scans' \in Seq(Call) /\ DOMAIN scans' = {1} /\ scans'[1].dir = Base /\ scans' # <<>>
      <4>1. scans' = <<Scan(1, Base)>>
        BY <1>1, <1>5
      <4> QED  BY <2>1, <4>1
    <3> QED  BY <1>1, <1>5, <3>1, BasePath DEF ScanInv, Depth
  <2>3. \A f \in Files(0) : Reached(f) /\ HasRoom(f) => f \in Files(1) /\ (Same(f) \/ Later(1, f))
    BY <1>2, <1>5 DEF IInv, MasterInv
  <2>4. \A f \in Files(1) : HasRoom(f)
    BY <1>1 DEF HasRoom, DiskInv
  <2>5. \A f \in Files(1) : Reached(f) => Pending(f)'
    BY <1>1, <1>5, AllPending
  <2>6. SlaveInv'
    BY <1>1, <1>3, <1>5, <2>3, <2>4, <2>5 DEF SlaveInv, Reached
  <2>7. DeliveredInv'
    BY <1>3, <2>3 DEF DeliveredInv, Reached
  <2>8. MasterInv' /\ SidesMatch' /\ MasterOld'
    BY <1>1, <1>5 DEF MasterInv, SidesMatch, MasterOld
  <2> QED  BY <1>3, <1>4, <2>2, <2>6, <2>7, <2>8 DEF IInv
<1>6. CASE mode = 1
  <2>1. ScanInv'
    <3>1. scans' \in Seq(Call) /\ DOMAIN scans' = {}
      BY <1>1, <1>6, EmptySeq
    <3> QED  BY <1>1, <1>6, <3>1 DEF ScanInv
  <2>2. \A f \in Files(1) : Reached(f) => f \in Files(0) /\ Same(f)
    BY <1>2, <1>6 DEF IInv, SlaveInv
  <2>3. SidesMatch'
    BY <1>1, <1>3, <2>2 DEF SidesMatch, Reached
  <2>4. DeliveredInv'
    BY <1>3, <1>6 DEF IInv, DeliveredInv, Reached
  <2>5. MasterInv' /\ SlaveInv' /\ MasterOld'
    BY <1>1, <1>6 DEF MasterInv, SlaveInv, MasterOld
  <2> QED  BY <1>3, <1>4, <2>1, <2>3, <2>4, <2>5 DEF IInv
<1> QED  BY <1>1, <1>5, <1>6

LEMMA SyncInitIInv == SyncAssumption /\ SyncInit => IInv
<1> SUFFICES ASSUME SyncAssumption, SyncInit PROVE IInv
  OBVIOUS
<1>1. PICK trees \in Trees : SyncInitWith(trees)
  BY DEF SyncInit
<1>2. /\ tree = [side \in {0, 1} |-> IF side = 0 THEN trees.master ELSE trees.slave]
      /\ mode = 0 /\ scans = <<Scan(0, Base)>>
  BY <1>1 DEF SyncInitWith
<1>3. /\ tree[0] = trees.master /\ tree[1] = trees.slave
      /\ Sound(tree[0]) /\ Sound(tree[1])
      /\ \A f \in Files(0) \cap Files(1) :
           Dated(tree[0].files[f], tree[1].files[f]) /\ Dated(tree[1].files[f], tree[0].files[f])
  BY <1>2 DEF SyncAssumption, Files
<1>4. ASSUME NEW side \in {0, 1}
      PROVE  /\ tree[side] \in Trees2 /\ tree[side].dirs \subseteq Paths
             /\ Base \in tree[side].dirs
             /\ \A d \in tree[side].dirs : Parent(d) \in tree[side].dirs
             /\ \A f \in Files(side) : f.dir \in tree[side].dirs
             /\ \A f \in Files(side) :
                  tree[side].files[f] \in [version : Nat, time : 0 .. Now - 1, length : Nat, padded : {0}]
  <2> DEFINE dirs == tree[side].dirs
             files == tree[side].files
             Old == [version : Nat, time : 0 .. Now - 1, length : Nat, padded : {0}]
  <2>1. Sound(tree[side])
    BY <1>3
  <2>2. /\ tree[side] = [dirs |-> dirs, files |-> files]
        /\ Base \in dirs /\ dirs \subseteq Seq(Names) /\ \A d \in dirs : Parent(d) \in dirs
        /\ DOMAIN files \subseteq [dir : dirs, name : STRING]
        /\ files \in [DOMAIN files -> Old]
    BY <2>1 DEF Sound
  <2>3. Old \subseteq Contents
    BY DEF Contents, Now
  <2> HIDE DEF Old
  <2>4. files \in [DOMAIN files -> Contents] /\ DOMAIN files \in SUBSET Places
    BY <2>2, <2>3 DEF Places, Paths
  <2>5. tree[side] \in Trees2
    <3> HIDE DEF dirs, files
    <3> QED  BY <2>2, <2>4 DEF Trees2, Paths
  <2> QED  BY <2>2, <2>5 DEF Files, Paths, Old
<1>5. DiskInv
  <2>1. tree \in [{0, 1} -> Trees2]
    <3>1. tree[0] \in Trees2 /\ tree[1] \in Trees2
      BY <1>4
    <3> QED  BY <1>2, <1>3, <3>1
  <2> QED  BY <1>4, <2>1 DEF DiskInv
<1>6. ScanInv
  <2>1. Scan(0, Base) \in Call /\ Scan(0, Base).dir = Base
    BY <1>5, EntriesTyped, BasePath DEF Scan
  <2>2. scans \in Seq(Call) /\ DOMAIN scans = {1} /\ scans[1].dir = Base /\ scans # <<>>
    BY <1>2, <2>1
  <2> QED  BY <1>2, <2>2, BasePath DEF ScanInv, Depth
<1>7. VersionsDated
  <2> SUFFICES ASSUME NEW f \in Both, NEW side \in {0, 1}
               PROVE  LET one == tree[side].files[f]  other == tree[1 - side].files[f] IN
                      /\ one.version > other.version => one.time > other.time
                      /\ one.version = other.version /\ one.time > other.time =>
                           one.length >= other.length
                      /\ one.time = other.time => Same(f)
    BY DEF VersionsDated
  <2> DEFINE one == tree[side].files[f]
             other == tree[1 - side].files[f]
  <2>1. one \in [version : Nat, time : 0 .. Now - 1, length : Nat, padded : {0}]
        /\ other \in [version : Nat, time : 0 .. Now - 1, length : Nat, padded : {0}]
    BY <1>4 DEF Both
  <2>2. Dated(one, other) /\ Dated(other, one)
    BY <1>3 DEF Both
  <2> HIDE DEF one, other
  <2>3. /\ one.version > other.version => one.time > other.time
        /\ one.version = other.version => one.length >= other.length
        /\ one.time = other.time => one = other
    BY <2>1, <2>2 DEF Dated, Now
  <2> QED  BY <2>3 DEF one, other, Same
<1>8. MasterInv
  <2>1. \A f \in Files(0) : Reached(f) => Pending(f)
    BY <1>2, <1>5, AllPending
  <2>2. \A k \in DOMAIN scans : Len(scans[k].dir) # 2
    <3>1. DOMAIN scans = {1} /\ scans[1].dir = Base
      BY <1>2 DEF Scan
    <3> QED  BY <3>1, BasePath
  <2>3. \A k \in DOMAIN scans : Untouched(k)
    BY <2>2 DEF Untouched
  <2> QED  BY <2>1, <2>3 DEF MasterInv
<1>9. MasterOld
  <2>1. \A f \in Files(0) : tree[0].files[f].time \in 0 .. Now - 1
    BY <1>4
  <2> QED  BY <2>1 DEF MasterOld, Now
<1> QED  BY <1>2, <1>5, <1>6, <1>7, <1>8, <1>9 DEF IInv, SlaveInv, DeliveredInv, SidesMatch

LEMMA SyncNextIInv ==
  ASSUME SyncAssumption, IInv, [SyncNext]_syncVars
  PROVE  IInv' /\ Advance
<1>1. ASSUME mode < 2, FilesStay
      PROVE  Advance
  <2>1. /\ Files(0)' = Files(0)
        /\ \A side \in {0, 1} : \A f \in Files(side)' :
             f \in Files(side) /\ tree'[side].files[f] = tree[side].files[f]
    BY <1>1 DEF FilesStay, Files
  <2> QED  BY <2>1, StayAdvance DEF IInv
<1>2. CASE SyncNext
  <2>1. mode < 2
    BY <1>2 DEF SyncNext
  <2>2. CASE EnterDirectory
    BY <1>1, <2>1, <2>2, EnterStep
  <2>3. CASE SkipDirectory
    BY <1>1, <2>1, <2>3, SkipStep
  <2>4. CASE LeaveDirectory
    BY <1>1, <2>1, <2>4, LeaveStep
  <2>5. CASE SyncFile
    BY <2>1, <2>5, SyncStep
  <2>6. CASE NextPass
    BY <2>1, <2>6, PassStep
  <2> QED  BY <1>2, <2>2, <2>3, <2>4, <2>5, <2>6 DEF SyncNext
<1>3. CASE UNCHANGED syncVars
  <2>1. Advance
    <3>1. /\ Files(0)' = Files(0)
          /\ \A side \in {0, 1} : \A f \in Files(side)' :
               f \in Files(side) /\ tree'[side].files[f] = tree[side].files[f]
      BY <1>3 DEF syncVars, Files
    <3> QED  BY <3>1, StayAdvance DEF IInv
  <2>2. DiskInv' /\ ScanInv'
    BY <1>3 DEF syncVars, IInv, DiskInv, ScanInv, Files
  <2>3. VersionsDated' /\ DeliveredInv' /\ SidesMatch' /\ MasterOld'
    BY <1>3 DEF syncVars, IInv, VersionsDated, DeliveredInv, SidesMatch, Files, Both, HasRoom,
       Same, MasterOld
  <2>4. \A f : Pending(f)' <=> Pending(f)
    BY <1>3 DEF syncVars, Pending, ToCome, Awaited, FileEntry, DirEntry
  <2>5. MasterInv' /\ SlaveInv'
    BY <1>3, <2>4 DEF syncVars, IInv, MasterInv, SlaveInv, Files, HasRoom, Same, Later, Untouched,
       FileEntry, Reached
  <2> QED  BY <2>1, <2>2, <2>3, <2>5 DEF IInv
<1> QED  BY <1>2, <1>3

-----------------------------------------------------------------------------
\* The scans keep their place in the trees, and what they have passed is
\* settled: the inductive invariant holds in every state.
THEOREM ScansAreInOrder == SyncAssumption => (SyncSpec => []IInv)
<1> SUFFICES ASSUME SyncAssumption PROVE SyncSpec => []IInv
  OBVIOUS
<1>1. SyncInit => IInv
  BY SyncInitIInv
<1>2. IInv /\ [SyncNext]_syncVars => IInv'
  BY SyncNextIInv
<1> QED  BY <1>1, <1>2, PTL DEF SyncSpec

\* The base of each side stays, and each file is in a directory that is there.
THEOREM TreesTypeCorrect == SyncAssumption => (SyncSpec => []SyncTypeOK)
<1>1. IInv => SyncTypeOK
  BY DEF IInv, SyncTypeOK, DiskInv, ScanInv
<1> QED  BY <1>1, ScansAreInOrder, PTL

\* In the end the files that both sides have are of one version, the slave has
\* nothing more, and what could be delivered to it has been, as far as two
\* levels of directories go: whatever trees are synchronised.
THEOREM SidesAgree == SyncAssumption => (SyncSpec => []Synchronised)
<1>1. IInv => Synchronised
  BY DEF IInv, DeliveredInv, Synchronised, Delivered, HasRoom, Reached
<1> QED  BY <1>1, ScansAreInOrder, PTL

\* No step takes a file of the master, puts an older version in the place of a
\* newer one, or shortens a file of the same version.
THEOREM NoVersionIsLost == SyncAssumption => (SyncSpec => VersionsAdvance)
<1> SUFFICES ASSUME SyncAssumption PROVE SyncSpec => VersionsAdvance
  OBVIOUS
<1>0. SyncSpec => []IInv
  BY ScansAreInOrder
<1>1. IInv /\ [SyncNext]_syncVars => Advance
  BY SyncNextIInv
<1>2. IInv /\ [SyncNext]_syncVars =>
        [/\ DOMAIN tree[0].files \subseteq DOMAIN tree'[0].files
         /\ \A side \in {0, 1} : \A f \in DOMAIN tree[side].files \cap DOMAIN tree'[side].files :
              LET old == tree[side].files[f]  new == tree'[side].files[f]
              IN  /\ new.version >= old.version
                  /\ new.version = old.version => new.length >= old.length]_syncVars
  BY <1>1 DEF Advance
<1> QED  BY <1>0, <1>2, PTL DEF SyncSpec, VersionsAdvance

-----------------------------------------------------------------------------
(***************************************************************************)
(* The file replacer: first, searching and copying a string.                *)
(***************************************************************************)
\* A set of numbers has a least one: among the intervals from 0 to its members,
\* which are finite sets, one has no other below it.
LEMMA LeastElement ==
  ASSUME NEW S \in SUBSET Nat, S # {}
  PROVE  \E n \in S : \A m \in S : n <= m
<1> DEFINE Intervals == {0 .. n : n \in S}
<1>1. Intervals \subseteq FiniteSubsetsOf(Nat) /\ Intervals # {}
  <2> SUFFICES ASSUME NEW n \in S PROVE 0 .. n \in FiniteSubsetsOf(Nat)
    OBVIOUS
  <2>1. IsFiniteSet(0 .. n)
    BY FS_Interval
  <2> QED  BY <2>1 DEF FiniteSubsetsOf
<1>2. PICK X \in Intervals :
        \A Y \in Intervals : <<Y, X>> \notin StrictSubsetOrdering(Nat)
  <2> HIDE DEF Intervals
  <2> QED  BY <1>1, FS_StrictSubsetOrderingWellFounded, WFMin
<1>3. PICK n \in S : X = 0 .. n
  OBVIOUS
<1>4. ASSUME NEW m \in S, m < n
      PROVE  FALSE
  <2>1. n \in X /\ n \notin 0 .. m
    BY <1>3, <1>4
  <2>2. 0 .. m \subseteq X /\ X \subseteq Nat
    BY <1>3, <1>4
  <2>3. <<0 .. m, X>> \in StrictSubsetOrdering(Nat)
    BY <2>1, <2>2 DEF StrictSubsetOrdering
  <2> QED  BY <1>2, <2>3
<1> QED  BY <1>4

-----------------------------------------------------------------------------
(***************************************************************************)
(* Searching, and counting what is found.                                   *)
(***************************************************************************)

\* strstr finds the first occurrence.
LEMMA StrstrFinds ==
  ASSUME NEW s, Len(s) \in Nat, NEW rep, NEW k \in Nat
  PROVE  LET found == strstr(s, rep, k) IN
         /\ found # 0 => /\ found \in k .. Len(s) /\ OccursAt(s, rep, found)
                         /\ \A n \in k .. found - 1 : ~OccursAt(s, rep, n)
         /\ found = 0 /\ k > 0 => \A n \in k .. Len(s) : ~OccursAt(s, rep, n)
<1> DEFINE Found == {n \in k .. Len(s) : OccursAt(s, rep, n)}
<1>1. CASE Found = {}
  <2>1. strstr(s, rep, k) = 0
    BY <1>1 DEF strstr
  <2> QED  BY <1>1, <2>1
<1>2. CASE Found # {}
  <2>1. strstr(s, rep, k) = Min(Found)
    BY <1>2 DEF strstr
  <2>2. Found \in SUBSET Nat
    OBVIOUS
  <2>3. Min(Found) \in Found /\ \A n \in Found : Min(Found) <= n
    <3> HIDE DEF Found
    <3>1. \E x \in Found : \A y \in Found : x =< y
      BY <1>2, <2>2, LeastElement
    <3> QED  BY <3>1 DEF Min
  <2>4. \A n \in k .. Min(Found) - 1 : ~OccursAt(s, rep, n)
    <3> SUFFICES ASSUME NEW n \in k .. Min(Found) - 1, OccursAt(s, rep, n) PROVE FALSE
      OBVIOUS
    <3>1. n \in Found /\ n < Min(Found)
      BY <2>3
    <3> QED  BY <2>2, <2>3, <3>1
  <2> QED  BY <2>1, <2>2, <2>3, <2>4
<1> QED  BY <1>1, <1>2

\* How many occurrences are counted from a position on: the function of
\* Replacements satisfies its equation.
Counts(f, orig, rep, first) ==
  f = [k \in first .. Len(orig) + 1 |->
         IF strstr(orig, rep, k) = 0 THEN 0 ELSE 1 + f[strstr(orig, rep, k) + Len(rep)]]

LEMMA CountExists ==
  ASSUME NEW orig, Len(orig) \in Nat, NEW rep, Len(rep) \in Nat \ {0},
         NEW first \in 1 .. Len(orig) + 1
  PROVE  \E f : Counts(f, orig, rep, first)
<1> DEFINE L == Len(orig)
           Next(k) == strstr(orig, rep, k) + Len(rep)
           Bad == {m \in Nat : m <= L /\ ~\E f : Counts(f, orig, rep, L + 1 - m)}
<1>0. \A k \in 1 .. L + 1 : strstr(orig, rep, k) # 0 => Next(k) \in k + 1 .. L + 1
  BY StrstrFinds DEF OccursAt
<1> HIDE DEF Next
<1>1. ASSUME Bad # {} PROVE FALSE
  <2>1. PICK m \in Bad : \A n \in Bad : m <= n
    BY <1>1, LeastElement
  <2>2. m \in Nat /\ m <= L
    OBVIOUS
  <2> DEFINE from == L + 1 - m
  <2>3. from \in 1 .. L + 1
    BY <2>2
  <2>4. PICK g : \A k \in from + 1 .. L + 1 :
                   g[k] = IF strstr(orig, rep, k) = 0 THEN 0 ELSE 1 + g[Next(k)]
    <3>1. CASE m = 0
      BY <3>1
    <3>2. CASE m # 0
      <4>1. m - 1 \in Nat /\ m - 1 <= L /\ m - 1 \notin Bad
        <5> HIDE DEF Bad
        <5> QED  BY <2>1, <2>2, <3>2
      <4>2. PICK g : Counts(g, orig, rep, L + 1 - (m - 1))
        BY <4>1
      <4>3. L + 1 - (m - 1) = from + 1
        BY <2>2
      <4> QED  BY <4>2, <4>3 DEF Counts, Next
    <3> QED  BY <3>1, <3>2
  <2> DEFINE f == [k \in from .. L + 1 |->
                     IF k = from THEN IF strstr(orig, rep, k) = 0 THEN 0 ELSE 1 + g[Next(k)]
                     ELSE g[k]]
  <2>5. ASSUME NEW k \in from .. L + 1
        PROVE  f[k] = IF strstr(orig, rep, k) = 0 THEN 0 ELSE 1 + f[Next(k)]
    <3> HIDE DEF Bad
    <3>1. strstr(orig, rep, k) # 0 => Next(k) \in from + 1 .. L + 1
      BY <1>0, <2>3
    <3>2. strstr(orig, rep, k) # 0 => f[Next(k)] = g[Next(k)]
      BY <2>3, <3>1
    <3>3. f[k] = IF strstr(orig, rep, k) = 0 THEN 0 ELSE 1 + g[Next(k)]
      BY <2>3, <2>4
    <3> QED  BY <3>2, <3>3
  <2>6. f = [k \in from .. L + 1 |-> IF strstr(orig, rep, k) = 0 THEN 0 ELSE 1 + f[Next(k)]]
    BY <2>5
  <2>7. Counts(f, orig, rep, from)
    <3> HIDE DEF f
    <3> QED  BY <2>6 DEF Counts, Next
  <2> QED  BY <2>7
<1>2. L + 1 - first \in Nat /\ L + 1 - first <= L /\ L + 1 - (L + 1 - first) = first
  OBVIOUS
<1> QED  BY <1>1, <1>2

\* A count is a number: from the end, each is one more than a later one.
LEMMA CountNumbers ==
  ASSUME NEW orig, Len(orig) \in Nat, NEW rep, Len(rep) \in Nat \ {0},
         NEW f, Counts(f, orig, rep, 1)
  PROVE  \A k \in 1 .. Len(orig) + 1 : f[k] \in Nat
<1> DEFINE L == Len(orig)
           Next(k) == strstr(orig, rep, k) + Len(rep)
           Bad == {m \in Nat : m <= L /\ f[L + 1 - m] \notin Nat}
<1>0. \A k \in 1 .. L + 1 : strstr(orig, rep, k) # 0 => Next(k) \in k + 1 .. L + 1
  BY StrstrFinds DEF OccursAt
<1>1. \A k \in 1 .. L + 1 : f[k] = IF strstr(orig, rep, k) = 0 THEN 0 ELSE 1 + f[Next(k)]
  BY DEF Counts
<1> HIDE DEF Next, L
<1>2. L \in Nat
  BY DEF L
<1>3. ASSUME Bad # {} PROVE FALSE
  <2>1. PICK m \in Bad : \A n \in Bad : m <= n
    BY <1>3, LeastElement
  <2>2. m \in Nat /\ m <= L /\ f[L + 1 - m] \notin Nat
    OBVIOUS
  <2> DEFINE k == L + 1 - m
  <2>3. k \in 1 .. L + 1
    BY <1>2, <2>2
  <2>4. CASE strstr(orig, rep, k) = 0
    BY <1>1, <2>2, <2>3, <2>4
  <2>5. CASE strstr(orig, rep, k) # 0
    <3> DEFINE n == L + 1 - Next(k)
    <3>1. n \in Nat /\ n <= L /\ n < m /\ L + 1 - n = Next(k)
      BY <1>0, <1>2, <2>2, <2>3, <2>5
    <3>2. n \notin Bad
      <4> HIDE DEF Bad, n
      <4> QED  BY <2>1, <2>2, <3>1
    <3>3. f[Next(k)] \in Nat
      BY <3>1, <3>2
    <3> QED  BY <1>1, <2>2, <2>3, <2>5, <3>3
  <2> QED  BY <2>4, <2>5
<1>4. ASSUME NEW k \in 1 .. L + 1 PROVE f[k] \in Nat
  <2>1. L + 1 - k \in Nat /\ L + 1 - k <= L /\ L + 1 - (L + 1 - k) = k
    BY <1>2
  <2> QED  BY <1>3, <2>1
<1> QED  BY <1>4 DEF L

\* The function that Replacements is the value of.
LEMMA CountFound ==
  ASSUME NEW orig, Len(orig) \in Nat, NEW rep, Len(rep) \in Nat \ {0}
  PROVE  \E f : Counts(f, orig, rep, 1) /\ Replacements(orig, rep) = f[1]
<1> DEFINE f == CHOOSE g : Counts(g, orig, rep, 1)
<1>1. 1 \in 1 .. Len(orig) + 1
  OBVIOUS
<1>2. \E g : Counts(g, orig, rep, 1)
  BY <1>1, CountExists
<1>3. Counts(f, orig, rep, 1)
  BY <1>2
<1>4. Replacements(orig, rep) = f[1]
  BY DEF Replacements, Counts
<1> QED  BY <1>3, <1>4

-----------------------------------------------------------------------------
(***************************************************************************)
(* Making the copy.                                                         *)
(***************************************************************************)

\* The loop of str_replace, n times.
Makes(f, orig, rep, with, n) ==
  f = [k \in 0 .. n |->
         IF k = 0 THEN [text |-> <<>>, at |-> 1]
         ELSE [text |-> f[k - 1].text \o SubSeq(orig, f[k - 1].at, strstr(orig, rep, f[k - 1].at) - 1) \o with,
               at |-> strstr(orig, rep, f[k - 1].at) + Len(rep)]]

LEMMA MadeExists ==
  ASSUME NEW orig, NEW rep, NEW with, NEW n \in Nat
  PROVE  \E f : Makes(f, orig, rep, with, n)
<1> DEFINE After(made) ==
             [text |-> made.text \o SubSeq(orig, made.at, strstr(orig, rep, made.at) - 1) \o with,
              at |-> strstr(orig, rep, made.at) + Len(rep)]
           Follows(f, m) == f = [k \in 0 .. m |-> IF k = 0 THEN [text |-> <<>>, at |-> 1] ELSE After(f[k - 1])]
           Bad == {m \in Nat : ~\E f : Follows(f, m)}
<1>1. ASSUME Bad # {} PROVE FALSE
  <2>1. PICK m \in Bad : \A k \in Bad : m <= k
    BY <1>1, LeastElement
  <2> HIDE DEF After
  <2>2. CASE m = 0
    <3> DEFINE f == [k \in 0 .. 0 |-> [text |-> <<>>, at |-> 1]]
    <3>1. Follows(f, 0)
      <4>1. \A k \in 0 .. 0 : k = 0
        OBVIOUS
      <4> QED  BY <4>1
    <3> QED  BY <2>2, <3>1
  <2>3. CASE m # 0
    <3>1. m \in Nat /\ m - 1 \in Nat /\ m - 1 \notin Bad
      <4> HIDE DEF Bad
      <4>1. m \in Nat
        BY DEF Bad
      <4> QED  BY <2>1, <2>3, <4>1
    <3>2. PICK g : Follows(g, m - 1)
      BY <3>1
    <3> DEFINE f == [k \in 0 .. m |-> IF k = m THEN After(g[m - 1]) ELSE g[k]]
    <3>3. ASSUME NEW k \in 0 .. m
          PROVE  f[k] = IF k = 0 THEN [text |-> <<>>, at |-> 1] ELSE After(f[k - 1])
      <4> HIDE DEF Bad
      <4>1. \A j \in 0 .. m - 1 : g[j] = IF j = 0 THEN [text |-> <<>>, at |-> 1] ELSE After(g[j - 1])
        BY <3>2
      <4>2. CASE k = m
        <5>1. f[m] = After(g[m - 1]) /\ f[m - 1] = g[m - 1]
          BY <3>1
        <5> QED  BY <4>2, <5>1, <2>3
      <4>3. CASE k = 0
        <5>1. 0 \in 0 .. m - 1
          BY <3>1
        <5>2. f[0] = g[0]
          BY <3>1, <2>3
        <5> QED  BY <4>1, <4>3, <5>1, <5>2
      <4>4. CASE k # m /\ k # 0
        <5>1. k \in 0 .. m - 1 /\ k - 1 \in 0 .. m - 1 /\ k - 1 # m
          BY <3>1, <4>4
        <5>2. f[k] = g[k] /\ f[k - 1] = g[k - 1]
          BY <3>1, <4>4, <5>1
        <5> QED  BY <4>1, <4>4, <5>1, <5>2
      <4> QED  BY <4>2, <4>3, <4>4
    <3>4. Follows(f, m)
      <4>1. f = [k \in 0 .. m |-> f[k]]
        OBVIOUS
      <4> HIDE DEF f
      <4> QED  BY <3>3, <4>1
    <3> QED  BY <3>4
  <2> QED  BY <2>2, <2>3
<1>2. PICK f : Follows(f, n)
  BY <1>1
<1> QED  BY <1>2 DEF Makes

LEMMA RebuiltMade ==
  ASSUME NEW orig, NEW rep, NEW with, Replacements(orig, rep) \in Nat
  PROVE  LET n == Replacements(orig, rep) IN
         \E f : Makes(f, orig, rep, with, n)
                  /\ Rebuilt(orig, rep, with) = f[n].text \o SubSeq(orig, f[n].at, Len(orig))
<1> DEFINE n == Replacements(orig, rep)
           f == CHOOSE g : Makes(g, orig, rep, with, n)
<1>1. Makes(f, orig, rep, with, n)
  BY MadeExists
<1>2. Rebuilt(orig, rep, with) = f[n].text \o SubSeq(orig, f[n].at, Len(orig))
  BY DEF Rebuilt, Makes
<1> QED  BY <1>1, <1>2

\* One character is found where it is.
LEMMA OccursOne ==
  ASSUME NEW S, NEW s \in Seq(S), NEW c \in S, NEW k \in 1 .. Len(s)
  PROVE  OccursAt(s, <<c>>, k) <=> s[k] = c
<1>1. SubSeq(s, k, k) \in Seq(S) /\ Len(SubSeq(s, k, k)) = 1 /\ SubSeq(s, k, k)[1] = s[k]
  <2>1. \A j \in k .. k : s[j] \in S
    OBVIOUS
  <2>2. k - k + 1 = 1 /\ k + 1 - 1 = k /\ k <= k /\ k \in Int
    OBVIOUS
  <2> QED  BY ONLY <2>1, <2>2, SubSeqProperties
<1>2. SubSeq(s, k, k) = <<c>> <=> s[k] = c
  <2> DEFINE t == SubSeq(s, k, k)
  <2>1. t \in Seq(S) /\ Len(t) = 1 /\ t[1] = s[k]
    BY <1>1
  <2> HIDE DEF t
  <2>2. t = <<t[1]>>
    BY ONLY <2>1
  <2>3. t = <<c>> => t[1] = c
    OBVIOUS
  <2> QED  BY ONLY <2>1, <2>2, <2>3 DEF t
<1>3. Len(<<c>>) = 1 /\ k + 1 - 1 = k /\ k + 1 <= Len(s) + 1
  OBVIOUS
<1> QED  BY <1>2, <1>3 DEF OccursAt

\* What the loop has made of a string, and what is left of it.
Mapped(text, orig, at, c, d) ==
  /\ Len(text) = at - 1
  /\ \A j \in 1 .. at - 1 : text[j] = IF orig[j] = c THEN d ELSE orig[j]
Followed(text, a, c) ==
  \A j \in 1 .. Len(text) : text[j] = a => j < Len(text) /\ text[j + 1] = c

\* A part of a sequence.
LEMMA PartOf ==
  ASSUME NEW S, NEW s \in Seq(S), NEW m \in 1 .. Len(s) + 1, NEW n \in m .. Len(s) + 1
  PROVE  /\ SubSeq(s, m, n - 1) \in Seq(S) /\ Len(SubSeq(s, m, n - 1)) = n - m
         /\ \A j \in 1 .. n - m : SubSeq(s, m, n - 1)[j] = s[m + j - 1]
<1> DEFINE last == n - 1
<1>1. m \in Int /\ n \in Int /\ last \in Int /\ m <= n /\ 1 <= m /\ last <= Len(s) /\ Len(s) \in Nat
  OBVIOUS
<1>2. \A j \in m .. last : s[j] \in S
  <2> SUFFICES ASSUME NEW j \in m .. last PROVE s[j] \in S
    OBVIOUS
  <2>1. j \in 1 .. Len(s)
    BY <1>1
  <2> QED  BY <2>1
<1>3. last - m + 1 = n - m /\ (m <= last \/ n - m = 0)
  BY <1>1
<1> HIDE DEF last
<1>4. /\ SubSeq(s, m, last) \in Seq(S)
      /\ Len(SubSeq(s, m, last)) = IF m <= last THEN last - m + 1 ELSE 0
      /\ \A j \in 1 .. last - m + 1 : SubSeq(s, m, last)[j] = s[m + j - 1]
  BY ONLY <1>1, <1>2, SubSeqProperties
<1>5. Len(SubSeq(s, m, last)) = n - m
  <2>1. m <= last => Len(SubSeq(s, m, last)) = n - m
    BY ONLY <1>3, <1>4
  <2>2. ~(m <= last) => Len(SubSeq(s, m, last)) = 0 /\ n - m = 0
    BY ONLY <1>3, <1>4
  <2> QED  BY ONLY <2>1, <2>2
<1> QED  BY <1>3, <1>4, <1>5 DEF last

\* The next occurrence of one character.
LEMMA NextOne ==
  ASSUME NEW S, NEW orig \in Seq(S), NEW c \in S, NEW at \in 1 .. Len(orig) + 1,
         strstr(orig, <<c>>, at) # 0
  PROVE  /\ strstr(orig, <<c>>, at) \in at .. Len(orig) /\ orig[strstr(orig, <<c>>, at)] = c
         /\ \A j \in at .. strstr(orig, <<c>>, at) - 1 : orig[j] # c
<1> DEFINE L == Len(orig)  ins == strstr(orig, <<c>>, at)
<1>1. L \in Nat /\ at \in Nat
  OBVIOUS
<1>2. ins \in at .. L /\ OccursAt(orig, <<c>>, ins) /\ \A j \in at .. ins - 1 : ~OccursAt(orig, <<c>>, j)
  BY <1>1, StrstrFinds
<1> HIDE DEF ins
<1>3. ins \in 1 .. L /\ \A j \in at .. ins - 1 : j \in 1 .. L
  BY <1>1, <1>2
<1>4. orig[ins] = c /\ \A j \in at .. ins - 1 : orig[j] # c
  BY <1>2, <1>3, OccursOne
<1> QED  BY <1>2, <1>4 DEF ins

LEMMA MappedOn ==
  ASSUME NEW S, NEW orig \in Seq(S), NEW c \in S, NEW d \in S,
         NEW at \in 1 .. Len(orig) + 1, NEW ins, ins = strstr(orig, <<c>>, at), ins # 0,
         NEW text \in Seq(S), Mapped(text, orig, at, c, d)
  PROVE  Mapped(text \o SubSeq(orig, at, ins - 1) \o <<d>>, orig, ins + 1, c, d)
<1> DEFINE front == SubSeq(orig, at, ins - 1)
           both == text \o front
           made == both \o <<d>>
<1>a. ins \in at .. Len(orig) /\ orig[ins] = c /\ \A j \in at .. ins - 1 : orig[j] # c
  BY NextOne
<1>b. /\ front \in Seq(S) /\ Len(front) = ins - at
      /\ \A j \in 1 .. ins - at : front[j] = orig[at + j - 1]
  <2>1. ins \in at .. Len(orig) + 1
    BY <1>a
  <2> QED  BY <2>1, PartOf
<1> HIDE DEF front
<1>1. /\ ins \in at .. Len(orig) /\ orig[ins] = c /\ \A j \in at .. ins - 1 : orig[j] # c
      /\ front \in Seq(S) /\ Len(front) = ins - at
      /\ \A j \in 1 .. ins - at : front[j] = orig[at + j - 1]
  BY <1>a, <1>b
<1>0. at \in Nat /\ ins \in Nat /\ at <= ins
  BY <1>1
<1> HIDE DEF front
<1>2. Len(text) = at - 1 /\ \A j \in 1 .. at - 1 : text[j] = IF orig[j] = c THEN d ELSE orig[j]
  BY DEF Mapped
<1>3. /\ both \in Seq(S) /\ Len(both) = ins - 1
      /\ \A j \in 1 .. ins - 1 : both[j] = IF j <= at - 1 THEN text[j] ELSE front[j - (at - 1)]
  <2>1. /\ both \in Seq(S) /\ Len(both) = Len(text) + Len(front)
        /\ \A j \in 1 .. Len(text) + Len(front) :
             both[j] = IF j <= Len(text) THEN text[j] ELSE front[j - Len(text)]
    BY <1>1, ConcatProperties
  <2>2. Len(text) + Len(front) = ins - 1
    BY <1>1, <1>2
  <2> QED  BY <1>2, <2>1, <2>2
<1>4. \A j \in 1 .. ins - 1 : both[j] = IF orig[j] = c THEN d ELSE orig[j]
  <2> SUFFICES ASSUME NEW j \in 1 .. ins - 1 PROVE both[j] = IF orig[j] = c THEN d ELSE orig[j]
    OBVIOUS
  <2> HIDE DEF both
  <2>1. CASE j <= at - 1
    <3>1. j \in 1 .. at - 1
      BY <1>1, <2>1
    <3> QED  BY ONLY <1>2, <1>3, <2>1, <3>1, j \in 1 .. ins - 1
  <2>2. CASE j > at - 1
    <3>1. j - (at - 1) \in 1 .. ins - at /\ at + (j - (at - 1)) - 1 = j /\ j \in at .. ins - 1
      BY ONLY <1>0, <2>2, j \in 1 .. ins - 1
    <3>2. ~(j <= at - 1)
      BY <2>2
    <3>3. both[j] = front[j - (at - 1)]
      BY ONLY <1>3, <3>2, j \in 1 .. ins - 1
    <3>4. front[j - (at - 1)] = orig[j]
      BY ONLY <1>1, <3>1
    <3>5. orig[j] # c
      BY ONLY <1>1, <3>1
    <3> QED  BY ONLY <3>3, <3>4, <3>5
  <2> QED  BY <2>1, <2>2
<1> HIDE DEF both
<1>5. /\ made \in Seq(S) /\ Len(made) = ins
      /\ \A j \in 1 .. ins : made[j] = IF j <= ins - 1 THEN both[j] ELSE <<d>>[j - (ins - 1)]
  <2>a. <<d>> \in Seq(S) /\ Len(<<d>>) = 1
    BY ONLY d \in S
  <2>b. ins - 1 + 1 = ins
    BY ONLY <1>1
  <2>0. <<d>> \in Seq(S) /\ Len(<<d>>) = 1 /\ ins - 1 + 1 = ins
    BY <2>a, <2>b
  <2>1. /\ made \in Seq(S) /\ Len(made) = Len(both) + Len(<<d>>)
        /\ \A j \in 1 .. Len(both) + Len(<<d>>) :
             made[j] = IF j <= Len(both) THEN both[j] ELSE <<d>>[j - Len(both)]
    BY <1>3, <2>0, ConcatProperties
  <2> QED  BY <1>3, <2>0, <2>1
<1>6. \A j \in 1 .. ins : made[j] = IF orig[j] = c THEN d ELSE orig[j]
  <2> SUFFICES ASSUME NEW j \in 1 .. ins PROVE made[j] = IF orig[j] = c THEN d ELSE orig[j]
    OBVIOUS
  <2> HIDE DEF made
  <2>1. CASE j = ins
    <3>1. j - (ins - 1) = 1 /\ ~(j <= ins - 1)
      BY <1>1, <2>1
    <3>2. <<d>>[j - (ins - 1)] = d
      BY ONLY <3>1
    <3>3. made[j] = <<d>>[j - (ins - 1)]
      BY ONLY <1>5, <3>1, j \in 1 .. ins
    <3> QED  BY ONLY <1>1, <2>1, <3>2, <3>3
  <2>2. CASE j # ins
    <3>1. j \in 1 .. ins - 1 /\ j <= ins - 1
      BY <1>1, <2>2
    <3> QED  BY <1>4, <1>5, <3>1
  <2> QED  BY <2>1, <2>2
<1> HIDE DEF made
<1>7. ins + 1 - 1 = ins
  BY <1>1
<1>8. Mapped(made, orig, ins + 1, c, d)
  BY ONLY <1>5, <1>6, <1>7 DEF Mapped
<1> QED  BY <1>8 DEF made, both, front

LEMMA FollowedConcat ==
  ASSUME NEW S, NEW s \in Seq(S), NEW t \in Seq(S), NEW a, NEW c, Followed(s, a, c), Followed(t, a, c)
  PROVE  Followed(s \o t, a, c)
<1> DEFINE r == s \o t  m == Len(s)  n == Len(t)
<1>1. /\ m \in Nat /\ n \in Nat /\ r \in Seq(S) /\ Len(r) = m + n
      /\ \A j \in 1 .. m + n : r[j] = IF j <= m THEN s[j] ELSE t[j - m]
  BY ConcatProperties
<1>2. \A j \in 1 .. m : s[j] = a => j < m /\ s[j + 1] = c
  BY DEF Followed
<1>3. \A j \in 1 .. n : t[j] = a => j < n /\ t[j + 1] = c
  BY DEF Followed
<1> HIDE DEF r, m, n
<1>4. ASSUME NEW j \in 1 .. m + n, r[j] = a PROVE j < m + n /\ r[j + 1] = c
  <2>1. CASE j <= m
    <3>1. j \in 1 .. m
      BY <1>1, <2>1
    <3>2. j < m /\ s[j + 1] = c
      BY <1>1, <1>2, <1>4, <2>1, <3>1
    <3>3. j + 1 \in 1 .. m + n /\ j + 1 <= m /\ j < m + n
      BY <1>1, <3>1, <3>2
    <3> QED  BY <1>1, <3>2, <3>3
  <2>2. CASE j > m
    <3>1. j - m \in 1 .. n /\ ~(j <= m)
      BY <1>1, <2>2
    <3>2. t[j - m] = a
      BY <1>1, <1>4, <3>1
    <3>3. j - m < n /\ t[j - m + 1] = c
      BY <1>3, <3>1, <3>2
    <3>4. j + 1 \in 1 .. m + n /\ ~(j + 1 <= m) /\ j + 1 - m = j - m + 1 /\ j < m + n
      BY <1>1, <2>2, <3>1, <3>3
    <3>5. r[j + 1] = t[j + 1 - m]
      BY <1>1, <3>4
    <3> QED  BY <3>3, <3>4, <3>5
  <2> QED  BY <1>1, <2>1, <2>2
<1> QED  BY <1>1, <1>4 DEF Followed, r

\* What the loop has done after k replacements of one character.
LEMMA LoopRight ==
  ASSUME NEW S, NEW orig \in Seq(S), NEW c \in S, NEW with \in Seq(S),
         NEW g, Counts(g, orig, <<c>>, 1), NEW n \in Nat, n = g[1],
         NEW f, Makes(f, orig, <<c>>, with, n)
  PROVE  \A k \in 0 .. n :
           /\ f[k].at \in 1 .. Len(orig) + 1 /\ g[f[k].at] = n - k /\ f[k].text \in Seq(S)
           /\ \A d \in S : with = <<d>> => Mapped(f[k].text, orig, f[k].at, c, d)
           /\ \A a \in S : with = <<a, c>> /\ a # c /\ (\A j \in 1 .. Len(orig) : orig[j] # a) =>
                Followed(f[k].text, a, c)
<1> DEFINE L == Len(orig)
           Right(k) ==
             /\ f[k].at \in 1 .. L + 1 /\ g[f[k].at] = n - k /\ f[k].text \in Seq(S)
             /\ \A d \in S : with = <<d>> => Mapped(f[k].text, orig, f[k].at, c, d)
             /\ \A a \in S : with = <<a, c>> /\ a # c /\ (\A j \in 1 .. L : orig[j] # a) =>
                  Followed(f[k].text, a, c)
           Bad == {k \in Nat : k <= n /\ ~Right(k)}
<1>0. L \in Nat /\ <<c>> \in Seq(S) /\ Len(<<c>>) = 1
  OBVIOUS
<1>1. /\ f[0] = [text |-> <<>>, at |-> 1]
      /\ \A k \in 1 .. n :
           f[k] = [text |-> f[k - 1].text
                              \o SubSeq(orig, f[k - 1].at, strstr(orig, <<c>>, f[k - 1].at) - 1) \o with,
                   at |-> strstr(orig, <<c>>, f[k - 1].at) + 1]
  <2>1. 0 \in 0 .. n /\ \A k \in 1 .. n : k \in 0 .. n /\ k # 0
    OBVIOUS
  <2> QED  BY <1>0, <2>1 DEF Makes
<1>2. \A k \in 1 .. L + 1 :
        /\ g[k] = IF strstr(orig, <<c>>, k) = 0 THEN 0 ELSE 1 + g[strstr(orig, <<c>>, k) + 1]
        /\ g[k] \in Nat
  <2>0. Len(orig) \in Nat /\ Len(<<c>>) \in Nat \ {0}
    BY <1>0
  <2>1. \A k \in 1 .. L + 1 : g[k] \in Nat
    BY ONLY <2>0, Counts(g, orig, <<c>>, 1), CountNumbers
  <2>2. \A k \in 1 .. L + 1 :
          g[k] = IF strstr(orig, <<c>>, k) = 0 THEN 0 ELSE 1 + g[strstr(orig, <<c>>, k) + Len(<<c>>)]
    BY ONLY Counts(g, orig, <<c>>, 1) DEF Counts
  <2>3. Len(<<c>>) = 1
    BY <1>0
  <2> QED  BY ONLY <2>1, <2>2, <2>3
<1>3. Right(0)
  <2>1. f[0].at = 1 /\ f[0].text = <<>> /\ Len(<<>>) = 0 /\ <<>> \in Seq(S)
    BY <1>1
  <2>2. \A d : Mapped(<<>>, orig, 1, c, d)
    BY <2>1 DEF Mapped
  <2>3. \A a : Followed(<<>>, a, c)
    BY <2>1 DEF Followed
  <2> QED  BY <1>0, <2>1, <2>2, <2>3
<1>4. ASSUME NEW k \in 1 .. n, Right(k - 1) PROVE Right(k)
  <2> DEFINE at == f[k - 1].at  text == f[k - 1].text
             ins == strstr(orig, <<c>>, at)  front == SubSeq(orig, at, ins - 1)
  <2>1. at \in 1 .. L + 1 /\ g[at] = n - (k - 1) /\ text \in Seq(S)
    BY <1>4
  <2>2. ins # 0
    <3>1. g[at] # 0
      BY <2>1
    <3> QED  BY <1>2, <2>1, <3>1
  <2>3. ins \in at .. L /\ orig[ins] = c /\ \A j \in at .. ins - 1 : orig[j] # c
    <3>1. f[k - 1].at \in 1 .. Len(orig) + 1 /\ strstr(orig, <<c>>, f[k - 1].at) # 0
      BY <2>1, <2>2
    <3> QED  BY ONLY <3>1, orig \in Seq(S), c \in S, NextOne
  <2>4. f[k].text = text \o front \o with /\ f[k].at = ins + 1
    <3>1. f[k] = [text |-> text \o front \o with, at |-> ins + 1]
      BY ONLY <1>1, k \in 1 .. n
    <3>2. \A t, p : f[k] = [text |-> t, at |-> p] => f[k].text = t /\ f[k].at = p
      OBVIOUS
    <3> HIDE DEF text, at, ins, front
    <3> QED  BY ONLY <3>1, <3>2
  <2>5. ins + 1 \in 1 .. L + 1 /\ g[ins + 1] = n - k
    <3> HIDE DEF at
    <3>2. g[at] = 1 + g[ins + 1]
      BY ONLY <1>2, <2>1, <2>2
    <3> HIDE DEF ins
    <3>1. ins + 1 \in 1 .. L + 1
      BY ONLY <1>0, <2>1, <2>3
    <3>3. g[ins + 1] \in Nat
      BY ONLY <1>2, <3>1
    <3>4. \A x \in Nat : n - (k - 1) = 1 + x => x = n - k
      <4>1. n \in Int /\ k \in Int
        OBVIOUS
      <4> QED  BY ONLY <4>1
    <3>5. n - (k - 1) = 1 + g[ins + 1]
      BY ONLY <2>1, <3>2
    <3>6. g[ins + 1] = n - k
      BY ONLY <3>3, <3>4, <3>5
    <3> QED  BY ONLY <3>1, <3>6
  <2>6. /\ front \in Seq(S) /\ Len(front) = ins - at
        /\ \A j \in 1 .. ins - at : front[j] = orig[at + j - 1]
    <3> HIDE DEF ins, at
    <3>1. ins \in at .. Len(orig) + 1 /\ at \in 1 .. Len(orig) + 1
      BY ONLY <1>0, <2>1, <2>3 DEF L
    <3> QED  BY ONLY <3>1, orig \in Seq(S), PartOf DEF front
  <2> HIDE DEF front
  <2>7. text \o front \in Seq(S) /\ text \o front \o with \in Seq(S)
    BY <2>1, <2>6
  <2>8. ASSUME NEW d \in S, with = <<d>> PROVE Mapped(f[k].text, orig, f[k].at, c, d)
    <3>1. Mapped(text, orig, at, c, d)
      BY <1>4, <2>8
    <3> QED  BY <2>1, <2>2, <2>4, <2>8, <3>1, MappedOn DEF front
  <2>9. ASSUME NEW a \in S, with = <<a, c>>, a # c, \A j \in 1 .. L : orig[j] # a
        PROVE  Followed(f[k].text, a, c)
    <3>1. Followed(text, a, c)
      BY <1>4, <2>9
    <3>2. \A j \in 1 .. Len(front) : front[j] # a
      <4> SUFFICES ASSUME NEW j \in 1 .. ins - at PROVE front[j] # a
        BY <2>6
      <4>1. at + j - 1 \in 1 .. L
        <5> HIDE DEF ins, at
        <5> QED  BY <1>0, <2>1, <2>3
      <4> QED  BY <2>6, <2>9, <4>1
    <3>3. Followed(front, a, c)
      BY <3>2 DEF Followed
    <3>4. Followed(<<a, c>>, a, c)
      <4>1. Len(<<a, c>>) = 2 /\ <<a, c>>[1] = a /\ <<a, c>>[2] = c
        OBVIOUS
      <4>2. \A j \in 1 .. 2 : j = 1 \/ j = 2
        OBVIOUS
      <4> QED  BY <2>9, <4>1, <4>2 DEF Followed
    <3>5. Followed(text \o front, a, c)
      BY <2>1, <2>6, <3>1, <3>3, FollowedConcat
    <3>6. Followed(text \o front \o with, a, c)
      BY <2>7, <2>9, <3>4, <3>5, FollowedConcat
    <3> QED  BY <2>4, <3>6
  <2> QED  BY <2>4, <2>5, <2>7, <2>8, <2>9
<1>5. ASSUME Bad # {} PROVE FALSE
  <2>1. PICK k \in Bad : \A m \in Bad : k <= m
    BY <1>5, LeastElement
  <2> HIDE DEF Right
  <2>2. k # 0 /\ k \in Nat /\ k <= n /\ ~Right(k)
    BY <1>3
  <2>3. k - 1 \in Nat /\ k - 1 <= n /\ k - 1 \notin Bad
    <3> HIDE DEF Bad
    <3> QED  BY <2>1, <2>2
  <2>4. Right(k - 1) /\ k \in 1 .. n
    BY <2>2, <2>3
  <2> QED  BY <1>4, <2>2, <2>4
<1>6. \A k \in 0 .. n : Right(k)
  <2> HIDE DEF Right
  <2> QED  BY <1>5
<1> QED  BY <1>6

\* What str_replace returns for one character: what the loop has made, and the
\* rest, in which the character does not occur.
LEMMA CopyMade ==
  ASSUME NEW S, NEW orig \in Seq(S), NEW c \in S, NEW with \in Seq(S)
  PROVE  \E text \in Seq(S), at \in 1 .. Len(orig) + 1 :
           /\ Rebuilt(orig, <<c>>, with) = text \o SubSeq(orig, at, Len(orig))
           /\ \A j \in at .. Len(orig) : orig[j] # c
           /\ \A d \in S : with = <<d>> => Mapped(text, orig, at, c, d)
           /\ \A a \in S : with = <<a, c>> /\ a # c /\ (\A j \in 1 .. Len(orig) : orig[j] # a) =>
                Followed(text, a, c)
<1> DEFINE n == Replacements(orig, <<c>>)
<1>1. Len(orig) \in Nat /\ Len(<<c>>) \in Nat \ {0} /\ Len(<<c>>) = 1
  OBVIOUS
<1>2. PICK g : Counts(g, orig, <<c>>, 1) /\ n = g[1]
  BY ONLY <1>1, CountFound
<1>3. \A k \in 1 .. Len(orig) + 1 : g[k] \in Nat
  BY ONLY <1>1, <1>2, CountNumbers
<1>4. n \in Nat
  BY <1>1, <1>2, <1>3
<1>5. PICK f : /\ Makes(f, orig, <<c>>, with, n)
               /\ Rebuilt(orig, <<c>>, with) = f[n].text \o SubSeq(orig, f[n].at, Len(orig))
  BY ONLY <1>4, RebuiltMade
<1> HIDE DEF n
<1> DEFINE at == f[n].at  text == f[n].text
<1>6. /\ at \in 1 .. Len(orig) + 1 /\ g[at] = n - n /\ text \in Seq(S)
      /\ \A d \in S : with = <<d>> => Mapped(text, orig, at, c, d)
      /\ \A a \in S : with = <<a, c>> /\ a # c /\ (\A j \in 1 .. Len(orig) : orig[j] # a) =>
           Followed(text, a, c)
  <2>1. n \in 0 .. n
    BY <1>4
  <2>2. \A k \in 0 .. n :
          /\ f[k].at \in 1 .. Len(orig) + 1 /\ g[f[k].at] = n - k /\ f[k].text \in Seq(S)
          /\ \A d \in S : with = <<d>> => Mapped(f[k].text, orig, f[k].at, c, d)
          /\ \A a \in S : with = <<a, c>> /\ a # c /\ (\A j \in 1 .. Len(orig) : orig[j] # a) =>
               Followed(f[k].text, a, c)
    <3> HIDE DEF at, text
    <3>1. Counts(g, orig, <<c>>, 1) /\ n \in Nat /\ n = g[1] /\ Makes(f, orig, <<c>>, with, n)
      BY <1>2, <1>4, <1>5
    <3> QED  BY ONLY <3>1, LoopRight, orig \in Seq(S), c \in S, with \in Seq(S)
  <2> QED  BY ONLY <2>1, <2>2
<1>7. \A j \in at .. Len(orig) : orig[j] # c
  <2> HIDE DEF at
  <2>1. g[at] = 0
    BY <1>4, <1>6
  <2>2. g[at] = IF strstr(orig, <<c>>, at) = 0 THEN 0 ELSE 1 + g[strstr(orig, <<c>>, at) + Len(<<c>>)]
    BY ONLY <1>2, <1>6 DEF Counts
  <2>3. strstr(orig, <<c>>, at) # 0 => strstr(orig, <<c>>, at) + 1 \in 1 .. Len(orig) + 1
    <3>1. at \in Nat
      BY <1>6
    <3>2. strstr(orig, <<c>>, at) # 0 => strstr(orig, <<c>>, at) \in at .. Len(orig)
      BY ONLY <1>1, <3>1, StrstrFinds
    <3> QED  BY ONLY <1>1, <1>6, <3>2
  <2>4. strstr(orig, <<c>>, at) = 0
    <3> SUFFICES ASSUME strstr(orig, <<c>>, at) # 0 PROVE FALSE
      OBVIOUS
    <3>1. g[strstr(orig, <<c>>, at) + 1] \in Nat
      BY <1>3, <2>3
    <3>2. 0 = 1 + g[strstr(orig, <<c>>, at) + 1]
      BY <1>1, <2>1, <2>2
    <3>3. \A x \in Nat : 0 # 1 + x
      OBVIOUS
    <3> QED  BY ONLY <3>1, <3>2, <3>3
  <2>5. \A j \in at .. Len(orig) : ~OccursAt(orig, <<c>>, j)
    <3>1. at \in Nat /\ at > 0
      BY <1>6
    <3> QED  BY ONLY <1>1, <2>4, <3>1, StrstrFinds
  <2>6. \A j \in at .. Len(orig) : j \in 1 .. Len(orig)
    BY <1>6
  <2> QED  BY ONLY <2>5, <2>6, OccursOne, orig \in Seq(S), c \in S
<1> HIDE DEF at, text
<1> QED  BY <1>5, <1>6, <1>7 DEF at, text

\* A name that is replaced in a path changes at each of its places, and no other does.
With(r, orig, c, d) ==
  /\ Len(r) = Len(orig)
  /\ \A j \in 1 .. Len(orig) : r[j] = IF orig[j] = c THEN d ELSE orig[j]

LEMMA ReplacesOne ==
  ASSUME NEW S, NEW orig \in Seq(S), orig # NULL, NEW c \in S, NEW d \in S
  PROVE  /\ str_replace(orig, <<c>>, <<d>>) \in Seq(S)
         /\ With(str_replace(orig, <<c>>, <<d>>), orig, c, d)
<1> DEFINE L == Len(orig)  r == str_replace(orig, <<c>>, <<d>>)
<1>0. L \in Nat /\ <<c>> # <<>>
  OBVIOUS
<1>1. CASE strstr(orig, <<c>>, 1) = 0
  <2>1. r = orig
    BY <1>0, <1>1 DEF str_replace, Replace
  <2>2. \A j \in 1 .. L : ~OccursAt(orig, <<c>>, j)
    <3>1. 1 \in Nat /\ 1 > 0
      OBVIOUS
    <3> QED  BY ONLY <1>0, <1>1, <3>1, StrstrFinds
  <2>3. \A j \in 1 .. L : orig[j] # c
    BY ONLY <2>2, OccursOne, orig \in Seq(S), c \in S
  <2> QED  BY <2>1, <2>3 DEF With
<1>2. CASE strstr(orig, <<c>>, 1) # 0
  <2>0. <<d>> \in Seq(S)
    OBVIOUS
  <2>1. r = Rebuilt(orig, <<c>>, <<d>>)
    BY <1>0, <1>2 DEF str_replace, Replace
  <2>2. PICK text \in Seq(S), at \in 1 .. L + 1 :
             /\ Rebuilt(orig, <<c>>, <<d>>) = text \o SubSeq(orig, at, L)
             /\ \A j \in at .. L : orig[j] # c
             /\ \A e \in S : <<d>> = <<e>> => Mapped(text, orig, at, c, e)
    BY ONLY <2>0, CopyMade, orig \in Seq(S), c \in S
  <2>3. Mapped(text, orig, at, c, d)
    BY ONLY <2>2, d \in S
  <2> DEFINE rest == SubSeq(orig, at, L)
  <2>4. /\ rest \in Seq(S) /\ Len(rest) = L + 1 - at
        /\ \A j \in 1 .. L + 1 - at : rest[j] = orig[at + j - 1]
    <3>1. L + 1 \in at .. L + 1 /\ L + 1 - 1 = L
      BY <1>0
    <3>2. /\ SubSeq(orig, at, L + 1 - 1) \in Seq(S) /\ Len(SubSeq(orig, at, L + 1 - 1)) = L + 1 - at
          /\ \A j \in 1 .. L + 1 - at : SubSeq(orig, at, L + 1 - 1)[j] = orig[at + j - 1]
      BY ONLY <3>1, PartOf, orig \in Seq(S), at \in 1 .. L + 1
    <3> QED  BY ONLY <3>1, <3>2
  <2>5. r = text \o rest
    BY <2>1, <2>2
  <2> HIDE DEF rest, r
  <2>6. /\ r \in Seq(S) /\ Len(r) = Len(text) + Len(rest)
        /\ \A j \in 1 .. Len(text) + Len(rest) :
             r[j] = IF j <= Len(text) THEN text[j] ELSE rest[j - Len(text)]
    BY ONLY <2>4, <2>5, ConcatProperties, text \in Seq(S)
  <2>7. /\ Len(text) = at - 1
        /\ \A j \in 1 .. at - 1 : text[j] = IF orig[j] = c THEN d ELSE orig[j]
    BY ONLY <2>3 DEF Mapped
  <2>8. Len(text) + Len(rest) = L
    BY ONLY <1>0, <2>4, <2>7, at \in 1 .. L + 1
  <2>9. \A j \in 1 .. L : r[j] = IF orig[j] = c THEN d ELSE orig[j]
    <3> SUFFICES ASSUME NEW j \in 1 .. L PROVE r[j] = IF orig[j] = c THEN d ELSE orig[j]
      OBVIOUS
    <3>1. r[j] = IF j <= at - 1 THEN text[j] ELSE rest[j - (at - 1)]
      BY ONLY <2>6, <2>7, <2>8, j \in 1 .. L
    <3>2. CASE j <= at - 1
      <4>1. j \in 1 .. at - 1
        BY ONLY <3>2, j \in 1 .. L, at \in 1 .. L + 1, <1>0
      <4> QED  BY ONLY <2>7, <3>1, <3>2, <4>1
    <3>3. CASE ~(j <= at - 1)
      <4>1. j - (at - 1) \in 1 .. L + 1 - at /\ at + (j - (at - 1)) - 1 = j /\ j \in at .. L
        BY ONLY <1>0, <3>3, j \in 1 .. L, at \in 1 .. L + 1
      <4>2. rest[j - (at - 1)] = orig[j] /\ orig[j] # c
        BY ONLY <2>2, <2>4, <4>1
      <4> QED  BY ONLY <3>1, <3>3, <4>2
    <3> QED  BY <3>2, <3>3
  <2>10. Len(r) = L
    BY ONLY <2>6, <2>8
  <2> QED  BY <2>6, <2>9, <2>10 DEF r, With
<1> QED  BY <1>1, <1>2

\* What is put in front of each replacement, in a text that does not have it,
\* stands in front of a replacement, wherever it stands.
LEMMA PrependsOne ==
  ASSUME NEW S, NEW orig \in Seq(S), orig # NULL, NEW a \in S, NEW c \in S, a # c,
         strstr(orig, <<a>>, 1) = 0
  PROVE  /\ str_replace(orig, <<c>>, <<a, c>>) \in Seq(S)
         /\ Followed(str_replace(orig, <<c>>, <<a, c>>), a, c)
<1> DEFINE L == Len(orig)  r == str_replace(orig, <<c>>, <<a, c>>)
<1>0. L \in Nat /\ <<c>> # <<>>
  OBVIOUS
<1>1. \A j \in 1 .. L : orig[j] # a
  <2>1. 1 \in Nat /\ 1 > 0
    OBVIOUS
  <2>2. \A j \in 1 .. L : ~OccursAt(orig, <<a>>, j)
    BY ONLY <1>0, <2>1, StrstrFinds, strstr(orig, <<a>>, 1) = 0
  <2> QED  BY ONLY <2>2, OccursOne, orig \in Seq(S), a \in S
<1>2. CASE strstr(orig, <<c>>, 1) = 0
  <2>1. r = orig
    BY <1>0, <1>2 DEF str_replace, Replace
  <2> QED  BY <1>1, <2>1 DEF Followed
<1>3. CASE strstr(orig, <<c>>, 1) # 0
  <2>0. <<a, c>> \in Seq(S)
    OBVIOUS
  <2>1. r = Rebuilt(orig, <<c>>, <<a, c>>)
    BY <1>0, <1>3 DEF str_replace, Replace
  <2>2. PICK text \in Seq(S), at \in 1 .. L + 1 :
             /\ Rebuilt(orig, <<c>>, <<a, c>>) = text \o SubSeq(orig, at, L)
             /\ \A e \in S : <<a, c>> = <<e, c>> /\ e # c /\ (\A j \in 1 .. L : orig[j] # e) =>
                  Followed(text, e, c)
    BY ONLY <2>0, CopyMade, orig \in Seq(S), c \in S
  <2>3. Followed(text, a, c)
    BY ONLY <1>1, <2>2, a \in S, a # c
  <2> DEFINE rest == SubSeq(orig, at, L)
  <2>4. /\ rest \in Seq(S) /\ Len(rest) = L + 1 - at
        /\ \A j \in 1 .. L + 1 - at : rest[j] = orig[at + j - 1]
    <3>1. L + 1 \in at .. L + 1 /\ L + 1 - 1 = L
      BY <1>0
    <3>2. /\ SubSeq(orig, at, L + 1 - 1) \in Seq(S) /\ Len(SubSeq(orig, at, L + 1 - 1)) = L + 1 - at
          /\ \A j \in 1 .. L + 1 - at : SubSeq(orig, at, L + 1 - 1)[j] = orig[at + j - 1]
      BY ONLY <3>1, PartOf, orig \in Seq(S), at \in 1 .. L + 1
    <3> QED  BY ONLY <3>1, <3>2
  <2>5. \A j \in 1 .. L + 1 - at : rest[j] # a
    <3> SUFFICES ASSUME NEW j \in 1 .. L + 1 - at PROVE rest[j] # a
      OBVIOUS
    <3>1. at + j - 1 \in 1 .. L
      BY ONLY <1>0, j \in 1 .. L + 1 - at, at \in 1 .. L + 1
    <3> QED  BY ONLY <1>1, <2>4, <3>1, j \in 1 .. L + 1 - at
  <2>6. Followed(rest, a, c)
    BY ONLY <2>4, <2>5 DEF Followed
  <2>7. r = text \o rest
    BY <2>1, <2>2
  <2> HIDE DEF rest, r
  <2>8. r \in Seq(S) /\ Followed(r, a, c)
    BY ONLY <2>3, <2>4, <2>6, <2>7, FollowedConcat, ConcatProperties, text \in Seq(S)
  <2> QED  BY <2>8 DEF r
<1> QED  BY <1>2, <1>3

\* A text in which the pattern always stands in front of a replacement does not
\* have it twice.
LEMMA FollowedOnce ==
  ASSUME NEW S, NEW s \in Seq(S), NEW a \in S, NEW c \in S, a # c, Followed(s, a, c)
  PROVE  strstr(s, <<a, a, c>>, 1) = 0
<1> DEFINE found == strstr(s, <<a, a, c>>, 1)
<1> SUFFICES ASSUME found # 0 PROVE FALSE
  OBVIOUS
<1>1. Len(s) \in Nat /\ 1 \in Nat /\ Len(<<a, a, c>>) = 3
  OBVIOUS
<1>2. found \in 1 .. Len(s) /\ OccursAt(s, <<a, a, c>>, found)
  BY ONLY <1>1, StrstrFinds, found # 0
<1> HIDE DEF found
<1>3. found + 3 <= Len(s) + 1 /\ SubSeq(s, found, found + 3 - 1) = <<a, a, c>>
  BY <1>1, <1>2 DEF OccursAt
<1>4. \A j \in 1 .. 3 : <<a, a, c>>[j] = s[found + j - 1]
  <2>1. found \in 1 .. Len(s) + 1 /\ found + 3 \in found .. Len(s) + 1 /\ found + 3 - found = 3
    BY ONLY <1>1, <1>2, <1>3
  <2>2. \A j \in 1 .. found + 3 - found : SubSeq(s, found, found + 3 - 1)[j] = s[found + j - 1]
    BY ONLY <2>1, PartOf, s \in Seq(S)
  <2> QED  BY ONLY <1>3, <2>1, <2>2
<1>5. s[found] = a /\ s[found + 1] = a
  <2>1. 1 \in 1 .. 3 /\ 2 \in 1 .. 3 /\ found + 1 - 1 = found /\ found + 2 - 1 = found + 1
    BY <1>2
  <2>2. <<a, a, c>>[1] = a /\ <<a, a, c>>[2] = a
    OBVIOUS
  <2> QED  BY ONLY <1>4, <2>1, <2>2
<1>6. s[found + 1] = c
  BY ONLY <1>2, <1>5, Followed(s, a, c) DEF Followed
<1> QED  BY <1>5, <1>6

-----------------------------------------------------------------------------
(***************************************************************************)
(* The memory for the copy, whatever is replaced by what.                   *)
(***************************************************************************)

Lacks(s, c) == \A j \in 1 .. Len(s) : s[j] # c

LEMMA LacksConcat ==
  ASSUME NEW S, NEW a \in Seq(S), NEW b \in Seq(S), NEW c, Lacks(a, c), Lacks(b, c)
  PROVE  Lacks(a \o b, c)
<1>1. /\ Len(a \o b) = Len(a) + Len(b)
      /\ \A j \in 1 .. Len(a) + Len(b) : (a \o b)[j] = IF j <= Len(a) THEN a[j] ELSE b[j - Len(a)]
  BY ConcatProperties
<1> DEFINE r == a \o b
<1> SUFFICES ASSUME NEW j \in 1 .. Len(a) + Len(b) PROVE r[j] # c
  BY <1>1 DEF Lacks
<1>2. r[j] = IF j <= Len(a) THEN a[j] ELSE b[j - Len(a)]
  BY <1>1
<1> HIDE DEF r
<1>3. Len(a) \in Nat /\ Len(b) \in Nat
  OBVIOUS
<1>4. CASE j <= Len(a)
  BY <1>2, <1>3, <1>4 DEF Lacks
<1>5. CASE ~(j <= Len(a))
  <2>1. j - Len(a) \in 1 .. Len(b)
    BY <1>3, <1>5
  <2> QED  BY <1>2, <1>5, <2>1 DEF Lacks
<1> QED  BY <1>4, <1>5

\* What is between two occurrences lacks what the string lacks, and a pattern of
\* one character.
LEMMA BetweenLacks ==
  ASSUME NEW S, NEW orig \in Seq(S), NEW rep \in Seq(S), NEW c \in S,
         rep = <<c>> \/ Lacks(orig, c),
         NEW at \in 1 .. Len(orig) + 1, NEW end \in at .. Len(orig) + 1,
         \A j \in at .. end - 1 : ~OccursAt(orig, rep, j)
  PROVE  Lacks(SubSeq(orig, at, end - 1), c)
<1> DEFINE front == SubSeq(orig, at, end - 1)
<1>1. Len(front) = end - at /\ \A j \in 1 .. end - at : front[j] = orig[at + j - 1]
  BY PartOf
<1> HIDE DEF front
<1>2. ASSUME NEW j \in 1 .. end - at PROVE front[j] # c
  <2>1. at + j - 1 \in at .. end - 1 /\ at + j - 1 \in 1 .. Len(orig)
    OBVIOUS
  <2>2. CASE rep = <<c>>
    BY <1>1, <2>1, <2>2, OccursOne
  <2>3. CASE Lacks(orig, c)
    BY <1>1, <2>1, <2>3 DEF Lacks
  <2> QED  BY <2>2, <2>3
<1> QED  BY <1>1, <1>2 DEF Lacks, front

\* What the loop has written after k replacements.
LEMMA LoopFits ==
  ASSUME NEW S, NEW orig \in Seq(S), NEW rep \in Seq(S), rep # <<>>, NEW with \in Seq(S),
         NEW g, Counts(g, orig, rep, 1), NEW n \in Nat, n = g[1],
         NEW f, Makes(f, orig, rep, with, n)
  PROVE  \A k \in 0 .. n :
           /\ f[k].at \in 1 .. Len(orig) + 1 /\ g[f[k].at] = n - k /\ f[k].text \in Seq(S)
           /\ Len(f[k].text) = f[k].at - 1 + (Len(with) - Len(rep)) * k
           /\ \A c \in S : Lacks(with, c) /\ (rep = <<c>> \/ Lacks(orig, c)) => Lacks(f[k].text, c)
<1> DEFINE L == Len(orig)  R == Len(rep)  W == Len(with)
           Fits(k) ==
             /\ f[k].at \in 1 .. L + 1 /\ g[f[k].at] = n - k /\ f[k].text \in Seq(S)
             /\ Len(f[k].text) = f[k].at - 1 + (W - R) * k
             /\ \A c \in S : Lacks(with, c) /\ (rep = <<c>> \/ Lacks(orig, c)) => Lacks(f[k].text, c)
           Bad == {k \in Nat : k <= n /\ ~Fits(k)}
<1>0. L \in Nat /\ W \in Nat /\ R \in Nat \ {0}
  <2>1. R # 0
    BY EmptySeq
  <2> QED  BY <2>1
<1>1. /\ f[0] = [text |-> <<>>, at |-> 1]
      /\ \A k \in 1 .. n :
           f[k] = [text |-> f[k - 1].text
                              \o SubSeq(orig, f[k - 1].at, strstr(orig, rep, f[k - 1].at) - 1) \o with,
                   at |-> strstr(orig, rep, f[k - 1].at) + R]
  <2>1. 0 \in 0 .. n /\ \A k \in 1 .. n : k \in 0 .. n /\ k # 0
    OBVIOUS
  <2> QED  BY <2>1 DEF Makes
<1>2. \A k \in 1 .. L + 1 :
        /\ g[k] = IF strstr(orig, rep, k) = 0 THEN 0 ELSE 1 + g[strstr(orig, rep, k) + R]
        /\ g[k] \in Nat
  <2>1. \A k \in 1 .. L + 1 : g[k] \in Nat
    BY ONLY <1>0, Counts(g, orig, rep, 1), CountNumbers
  <2>2. \A k \in 1 .. L + 1 :
          g[k] = IF strstr(orig, rep, k) = 0 THEN 0 ELSE 1 + g[strstr(orig, rep, k) + R]
    BY ONLY Counts(g, orig, rep, 1) DEF Counts
  <2> QED  BY ONLY <2>1, <2>2
<1>3. Fits(0)
  <2>1. f[0].at = 1 /\ f[0].text = <<>> /\ Len(<<>>) = 0 /\ <<>> \in Seq(S)
    BY <1>1
  <2>2. \A c : Lacks(<<>>, c)
    BY <2>1 DEF Lacks
  <2>3. (W - R) * 0 = 0
    BY <1>0
  <2> HIDE DEF L, R, W
  <2> QED  BY <1>0, <2>1, <2>2, <2>3
<1>4. ASSUME NEW k \in 1 .. n, Fits(k - 1) PROVE Fits(k)
  <2> DEFINE at == f[k - 1].at  text == f[k - 1].text
             ins == strstr(orig, rep, at)  front == SubSeq(orig, at, ins - 1)
  <2>1. /\ at \in 1 .. L + 1 /\ g[at] = n - (k - 1) /\ text \in Seq(S)
        /\ Len(text) = at - 1 + (W - R) * (k - 1)
        /\ \A c \in S : Lacks(with, c) /\ (rep = <<c>> \/ Lacks(orig, c)) => Lacks(text, c)
    BY <1>4
  <2>2. ins # 0
    <3>1. g[at] # 0
      BY <2>1
    <3> QED  BY <1>2, <2>1, <3>1
  <2>3. ins \in at .. L /\ ins + R <= L + 1 /\ \A j \in at .. ins - 1 : ~OccursAt(orig, rep, j)
    <3>1. at \in Nat
      BY ONLY <1>0, <2>1
    <3>2. ins \in at .. L /\ OccursAt(orig, rep, ins) /\ \A j \in at .. ins - 1 : ~OccursAt(orig, rep, j)
      <4> HIDE DEF at
      <4> QED  BY ONLY <1>0, <2>2, <3>1, StrstrFinds
    <3> QED  BY <3>2 DEF OccursAt
  <2>4. f[k].text = text \o front \o with /\ f[k].at = ins + R
    <3>1. f[k] = [text |-> text \o front \o with, at |-> ins + R]
      BY ONLY <1>1, k \in 1 .. n
    <3>2. \A t, p : f[k] = [text |-> t, at |-> p] => f[k].text = t /\ f[k].at = p
      OBVIOUS
    <3> HIDE DEF text, at, ins, front, R
    <3> QED  BY ONLY <3>1, <3>2
  <2>5. ins + R \in 1 .. L + 1 /\ g[ins + R] = n - k
    <3> HIDE DEF at
    <3>2. g[at] = 1 + g[ins + R]
      BY ONLY <1>2, <2>1, <2>2
    <3> HIDE DEF ins, L, R
    <3>1. ins + R \in 1 .. L + 1
      BY ONLY <1>0, <2>1, <2>3
    <3>3. g[ins + R] \in Nat
      BY ONLY <1>2, <3>1
    <3>4. \A x \in Nat : n - (k - 1) = 1 + x => x = n - k
      <4>1. n \in Int /\ k \in Int
        OBVIOUS
      <4> QED  BY ONLY <4>1
    <3>5. n - (k - 1) = 1 + g[ins + R]
      BY ONLY <2>1, <3>2
    <3>6. g[ins + R] = n - k
      BY ONLY <3>3, <3>4, <3>5
    <3> QED  BY ONLY <3>1, <3>6
  <2>6. front \in Seq(S) /\ Len(front) = ins - at
    <3> HIDE DEF ins, at
    <3>1. ins \in at .. Len(orig) + 1 /\ at \in 1 .. Len(orig) + 1
      BY ONLY <1>0, <2>1, <2>3 DEF L
    <3> QED  BY ONLY <3>1, orig \in Seq(S), PartOf DEF front
  <2>7. /\ text \o front \in Seq(S) /\ text \o front \o with \in Seq(S)
        /\ Len(text \o front \o with) = Len(text) + (ins - at) + W
    <3> HIDE DEF text, front, ins, at
    <3>0. text \o front \in Seq(S) /\ Len(text \o front) = Len(text) + Len(front)
      BY ONLY <2>1, <2>6, ConcatProperties
    <3>1. text \o front \in Seq(S) /\ Len(text \o front) = Len(text) + (ins - at)
      BY ONLY <2>6, <3>0
    <3> DEFINE both == text \o front
    <3> HIDE DEF both, W
    <3>2. both \in Seq(S) /\ Len(both) = Len(text) + (ins - at)
      BY ONLY <3>1 DEF both
    <3>3. both \o with \in Seq(S) /\ Len(both \o with) = Len(both) + Len(with)
      BY ONLY <3>2, with \in Seq(S), ConcatProperties
    <3> QED  BY ONLY <3>2, <3>3 DEF both, W
  <2>8. Len(f[k].text) = f[k].at - 1 + (W - R) * k
    <3> HIDE DEF text, front, ins, at, W, R, L
    <3>1. W - R \in Int /\ k \in Int /\ ins \in Int /\ at \in Int
      BY <1>0, <2>1, <2>3
    <3>2. \A d \in Int, j \in Int : d * j = d * (j - 1) + d
      OBVIOUS
    <3>3. (W - R) * k = (W - R) * (k - 1) + (W - R)
      BY ONLY <3>1, <3>2
    <3>4. (W - R) * (k - 1) \in Int
      BY ONLY <3>1
    <3>5. Len(f[k].text) = (at - 1 + (W - R) * (k - 1)) + (ins - at) + W
      BY ONLY <2>1, <2>4, <2>7
    <3> DEFINE p == (W - R) * (k - 1)
    <3> HIDE DEF p
    <3>6. Len(f[k].text) = (at - 1 + p) + (ins - at) + W /\ (W - R) * k = p + (W - R) /\ p \in Int
      BY ONLY <3>3, <3>4, <3>5 DEF p
    <3> QED  BY ONLY <1>0, <2>4, <3>1, <3>6
  <2>9. ASSUME NEW c \in S, Lacks(with, c), rep = <<c>> \/ Lacks(orig, c)
        PROVE  Lacks(f[k].text, c)
    <3>1. Lacks(front, c)
      <4> HIDE DEF at, ins
      <4>1. at \in 1 .. Len(orig) + 1 /\ ins \in at .. Len(orig) + 1
        BY ONLY <1>0, <2>1, <2>3 DEF L
      <4> QED  BY <2>3, <2>9, <4>1, BetweenLacks
    <3> HIDE DEF front, at
    <3>2. Lacks(text, c)
      BY <2>1, <2>9
    <3> HIDE DEF text
    <3>3. Lacks(text \o front, c)
      BY <2>1, <2>6, <3>1, <3>2, LacksConcat
    <3>4. Lacks(text \o front \o with, c)
      BY <2>7, <2>9, <3>3, LacksConcat
    <3> QED  BY <2>4, <3>4
  <2> HIDE DEF text, front, ins, at, W, R, L
  <2>10. f[k].at \in 1 .. L + 1 /\ g[f[k].at] = n - k /\ f[k].text \in Seq(S)
    BY <2>4, <2>5, <2>7
  <2> QED  BY <2>8, <2>9, <2>10
<1>5. ASSUME Bad # {} PROVE FALSE
  <2>1. PICK k \in Bad : \A m \in Bad : k <= m
    BY <1>5, LeastElement
  <2> HIDE DEF Fits
  <2>2. k # 0 /\ k \in Nat /\ k <= n /\ ~Fits(k)
    BY <1>3
  <2>3. k - 1 \in Nat /\ k - 1 <= n /\ k - 1 \notin Bad
    <3> HIDE DEF Bad
    <3> QED  BY <2>1, <2>2
  <2>4. Fits(k - 1) /\ k \in 1 .. n
    BY <2>2, <2>3
  <2> QED  BY <1>4, <2>2, <2>4
<1>6. \A k \in 0 .. n : Fits(k)
  <2> HIDE DEF Fits
  <2> QED  BY <1>5
<1> QED  BY <1>6

\* The whole copy.
LEMMA CopyFits ==
  ASSUME NEW S, NEW orig \in Seq(S), NEW rep \in Seq(S), rep # <<>>, NEW with \in Seq(S)
  PROVE  /\ Rebuilt(orig, rep, with) \in Seq(S)
         /\ Len(Rebuilt(orig, rep, with)) = Room(orig, rep, with)
         /\ \A c \in S : Lacks(with, c) /\ (rep = <<c>> \/ Lacks(orig, c)) =>
              Lacks(Rebuilt(orig, rep, with), c)
<1> DEFINE n == Replacements(orig, rep)  L == Len(orig)
<1>1. L \in Nat /\ Len(with) \in Nat /\ Len(rep) \in Nat \ {0}
  <2>1. Len(rep) # 0
    BY EmptySeq
  <2> QED  BY <2>1
<1>2. PICK g : Counts(g, orig, rep, 1) /\ n = g[1]
  BY ONLY <1>1, CountFound
<1>3. \A k \in 1 .. L + 1 : g[k] \in Nat
  BY ONLY <1>1, <1>2, CountNumbers
<1>4. n \in Nat
  BY <1>1, <1>2, <1>3
<1>5. PICK f : /\ Makes(f, orig, rep, with, n)
               /\ Rebuilt(orig, rep, with) = f[n].text \o SubSeq(orig, f[n].at, L)
  BY ONLY <1>4, RebuiltMade
<1> HIDE DEF n
<1> DEFINE at == f[n].at  text == f[n].text  rest == SubSeq(orig, at, (L + 1) - 1)
<1>6. /\ at \in 1 .. L + 1 /\ g[at] = n - n /\ text \in Seq(S)
      /\ Len(text) = at - 1 + (Len(with) - Len(rep)) * n
      /\ \A c \in S : Lacks(with, c) /\ (rep = <<c>> \/ Lacks(orig, c)) => Lacks(text, c)
  <2>1. n \in 0 .. n
    BY <1>4
  <2>2. \A k \in 0 .. n :
          /\ f[k].at \in 1 .. Len(orig) + 1 /\ g[f[k].at] = n - k /\ f[k].text \in Seq(S)
          /\ Len(f[k].text) = f[k].at - 1 + (Len(with) - Len(rep)) * k
          /\ \A c \in S : Lacks(with, c) /\ (rep = <<c>> \/ Lacks(orig, c)) => Lacks(f[k].text, c)
    <3> HIDE DEF at, text
    <3>1. Counts(g, orig, rep, 1) /\ n \in Nat /\ n = g[1] /\ Makes(f, orig, rep, with, n)
      BY <1>2, <1>4, <1>5
    <3> QED  BY ONLY <3>1, LoopFits, orig \in Seq(S), rep \in Seq(S), rep # <<>>, with \in Seq(S)
  <2> QED  BY ONLY <2>1, <2>2
<1> HIDE DEF at, text
\* Behind the last replacement there is no further occurrence.
<1>7. \A j \in at .. L : ~OccursAt(orig, rep, j)
  <2>1. g[at] = 0
    BY <1>4, <1>6
  <2>2. g[at] = IF strstr(orig, rep, at) = 0 THEN 0 ELSE 1 + g[strstr(orig, rep, at) + Len(rep)]
    BY ONLY <1>2, <1>6 DEF Counts
  <2>3. at \in Nat /\ at > 0
    BY <1>1, <1>6
  <2>4. strstr(orig, rep, at) = 0
    <3> SUFFICES ASSUME strstr(orig, rep, at) # 0 PROVE FALSE
      OBVIOUS
    <3>1. strstr(orig, rep, at) \in at .. L /\ OccursAt(orig, rep, strstr(orig, rep, at))
      BY ONLY <1>1, <2>3, StrstrFinds, strstr(orig, rep, at) # 0
    <3>2. strstr(orig, rep, at) + Len(rep) \in 1 .. L + 1
      BY <1>1, <2>3, <3>1 DEF OccursAt
    <3>3. g[strstr(orig, rep, at) + Len(rep)] \in Nat
      BY <1>3, <3>2
    <3>4. 0 = 1 + g[strstr(orig, rep, at) + Len(rep)]
      BY <2>1, <2>2
    <3>5. \A x \in Nat : 0 # 1 + x
      OBVIOUS
    <3> QED  BY ONLY <3>3, <3>4, <3>5
  <2> QED  BY ONLY <1>1, <2>3, <2>4, StrstrFinds
<1>8. rest \in Seq(S) /\ Len(rest) = L + 1 - at
  <2>1. L + 1 \in at .. L + 1
    BY <1>1, <1>6
  <2> QED  BY ONLY <1>6, <2>1, PartOf, orig \in Seq(S)
<1>9. Rebuilt(orig, rep, with) = text \o rest
  <2>1. (L + 1) - 1 = L
    BY <1>1
  <2> QED  BY <1>5, <2>1 DEF at, text
<1>10. \A c \in S : rep = <<c>> \/ Lacks(orig, c) => Lacks(rest, c)
  <2>1. L + 1 \in at .. L + 1 /\ \A j \in at .. (L + 1) - 1 : ~OccursAt(orig, rep, j)
    BY <1>1, <1>6, <1>7
  <2> QED  BY <1>6, <2>1, BetweenLacks
<1> HIDE DEF rest
<1>11. text \o rest \in Seq(S) /\ Len(text \o rest) = Len(text) + Len(rest)
  BY <1>6, <1>8, ConcatProperties
<1>12. Len(text \o rest) = Room(orig, rep, with)
  <2> DEFINE p == (Len(with) - Len(rep)) * n
  <2>1. p \in Int
    BY <1>1, <1>4
  <2>2. Room(orig, rep, with) = L + p
    BY DEF Room, n
  <2>3. Len(text) = at - 1 + p
    BY <1>6
  <2>4. at \in Nat
    BY <1>1, <1>6
  <2> DEFINE total == Len(text \o rest)  room == Room(orig, rep, with)
             before == Len(text)  behind == Len(rest)
  <2>5. total = before + behind /\ behind = L + 1 - at /\ room = L + p /\ before = at - 1 + p
    BY ONLY <1>8, <1>11, <2>2, <2>3
  <2> HIDE DEF p, total, room, before, behind, L
  <2>6. total = room
    BY ONLY <1>1, <2>1, <2>4, <2>5
  <2> QED  BY ONLY <2>6 DEF total, room
<1>13. \A c \in S : Lacks(with, c) /\ (rep = <<c>> \/ Lacks(orig, c)) => Lacks(text \o rest, c)
  BY <1>6, <1>8, <1>10, LacksConcat
<1> QED  BY <1>9, <1>11, <1>12, <1>13

\* str_replace writes exactly the characters it has allocated memory for,
\* whatever is replaced by what (stringly.c), in each of the copies: absent is
\* what they return when there is nothing to replace.
THEOREM ReplacedFits ==
  ASSUME NEW S, NEW orig \in Seq(S), orig # NULL, NEW rep \in Seq(S), rep # <<>>,
         NEW with \in Seq(S), NEW absent, strstr(orig, rep, 1) # 0
  PROVE  Len(Replace(orig, rep, with, absent)) = Room(orig, rep, with)
<1>1. Replace(orig, rep, with, absent) = Rebuilt(orig, rep, with)
  BY DEF Replace
<1> QED  BY <1>1, CopyFits

\* A string that has been through sanitize has neither of the two characters any
\* more: the second call does not bring back what the first has taken out.
THEOREM Sanitized ==
  ASSUME NEW S, NULL \notin Seq(S), NEW string \in Seq(S), NEW newline \in S, NEW blank \in S
  PROVE  /\ sanitize(string, newline, blank) \in Seq(S)
         /\ Lacks(sanitize(string, newline, blank), newline)
         /\ Lacks(sanitize(string, newline, blank), blank)
<1>1. ASSUME NEW s \in Seq(S), NEW c \in S
      PROVE  LET r == str_replace(s, <<c>>, <<>>) IN
             r \in Seq(S) /\ Lacks(r, c) /\ \A d \in S : Lacks(s, d) => Lacks(r, d)
  <2>1. /\ <<c>> \in Seq(S) /\ <<c>> # <<>> /\ <<>> \in Seq(S) /\ s # NULL /\ Len(s) \in Nat
        /\ \A d : Lacks(<<>>, d)
    BY DEF Lacks
  <2>2. CASE strstr(s, <<c>>, 1) = 0
    <3>1. str_replace(s, <<c>>, <<>>) = s
      BY <2>1, <2>2 DEF str_replace, Replace
    <3>2. \A j \in 1 .. Len(s) : ~OccursAt(s, <<c>>, j)
      BY <2>1, <2>2, StrstrFinds
    <3>3. Lacks(s, c)
      BY <3>2, OccursOne DEF Lacks
    <3> QED  BY <3>1, <3>3
  <2>3. CASE strstr(s, <<c>>, 1) # 0
    <3>1. str_replace(s, <<c>>, <<>>) = Rebuilt(s, <<c>>, <<>>)
      BY <2>1, <2>3 DEF str_replace, Replace
    <3> DEFINE r == Rebuilt(s, <<c>>, <<>>)
    <3>2. r \in Seq(S) /\ \A d \in S : <<c>> = <<d>> \/ Lacks(s, d) => Lacks(r, d)
      BY <2>1, CopyFits
    <3> HIDE DEF r
    <3> QED  BY ONLY <3>1, <3>2, c \in S DEF r
  <2> QED  BY <2>2, <2>3
<1> DEFINE once == str_replace(string, <<newline>>, <<>>)
<1>2. once \in Seq(S) /\ Lacks(once, newline)
  BY <1>1
<1> HIDE DEF once
<1>3. LET r == str_replace(once, <<blank>>, <<>>) IN
      r \in Seq(S) /\ Lacks(r, blank) /\ Lacks(r, newline)
  BY <1>1, <1>2
<1> QED  BY <1>3 DEF sanitize, once

-----------------------------------------------------------------------------
(***************************************************************************)
(* The state of the file replacer.                                          *)
(***************************************************************************)
Routes == Seq(STRING) \ {<<>>}
Items == [kind : {"file"}, name : STRING] \cup [kind : {"dir"}, name : STRING \cup Dots]
VisitsOf == [dir : Routes, search_path : Routes, todo : SUBSET Items]
Lines == Seq(Seq(STRING))

TreeInv ==
  /\ disk = [dirs |-> disk.dirs, files |-> disk.files]
  /\ disk.dirs \subseteq Routes /\ FileNames \subseteq Routes
  /\ disk.files \in [FileNames -> Lines]
  /\ \A f \in FileNames : Parent(f) \in disk.dirs
  /\ \A d \in disk.dirs : Len(d) > 1 => Parent(d) \in disk.dirs

CallsInv ==
  /\ params.mode \in {0, 1} /\ params.fname \in {NULL} \cup STRING
  /\ state \in {"running", "returned", "aborted"}
  /\ visits \in Seq(VisitsOf) /\ visits # <<>>

\* The beginning of a path.
LEMMA FrontOf ==
  ASSUME NEW S, NEW s \in Seq(S), NEW k \in 0 .. Len(s)
  PROVE  /\ SubSeq(s, 1, k) \in Seq(S) /\ Len(SubSeq(s, 1, k)) = k
         /\ \A j \in 1 .. k : SubSeq(s, 1, k)[j] = s[j]
<1>1. Len(s) \in Nat
  OBVIOUS
<1>2. 1 \in 1 .. Len(s) + 1 /\ k + 1 \in 1 .. Len(s) + 1 /\ k + 1 - 1 = k
  BY <1>1
<1>3. /\ SubSeq(s, 1, k + 1 - 1) \in Seq(S) /\ Len(SubSeq(s, 1, k + 1 - 1)) = k + 1 - 1
      /\ \A j \in 1 .. k + 1 - 1 : SubSeq(s, 1, k + 1 - 1)[j] = s[1 + j - 1]
  BY ONLY <1>2, s \in Seq(S), PartOf
<1>4. \A j \in 1 .. k : 1 + j - 1 = j
  OBVIOUS
<1> QED  BY ONLY <1>2, <1>3, <1>4

LEMMA RouteParts ==
  ASSUME NEW d \in Routes
  PROVE  /\ d \in Seq(STRING) /\ d # <<>> /\ Len(d) \in Nat \ {0}
         /\ \A k \in 1 .. Len(d) : d[k] \in STRING
         /\ Parent(d) \in Seq(STRING) /\ Len(Parent(d)) = Len(d) - 1
         /\ \A k \in 1 .. Len(d) - 1 : Parent(d)[k] = d[k]
<1>1. d \in Seq(STRING) /\ d # <<>>
  BY DEF Routes
<1>2. Len(d) \in Nat \ {0} /\ \A k \in 1 .. Len(d) : d[k] \in STRING
  BY ONLY <1>1, EmptySeq, LenProperties, ElementOfSeq
<1>3. Len(d) - 1 \in 0 .. Len(d)
  BY <1>2
<1>4. /\ SubSeq(d, 1, Len(d) - 1) \in Seq(STRING) /\ Len(SubSeq(d, 1, Len(d) - 1)) = Len(d) - 1
      /\ \A k \in 1 .. Len(d) - 1 : SubSeq(d, 1, Len(d) - 1)[k] = d[k]
  BY ONLY <1>1, <1>3, FrontOf
<1> QED  BY ONLY <1>1, <1>2, <1>4 DEF Parent

LEMMA LongRoutes ==
  ASSUME NEW d \in Seq(STRING), Len(d) > 0
  PROVE  d \in Routes
<1>1. d # <<>>
  BY EmptySeq
<1> QED  BY <1>1 DEF Routes

\* A file is below a directory.
LEMMA FilesAreDeep ==
  ASSUME TreeInv, NEW f \in FileNames
  PROVE  Len(f) >= 2
<1>1. f \in Routes /\ Parent(f) \in Routes
  BY DEF TreeInv
<1> QED  BY <1>1, RouteParts

\* What str_replace does to a path.
LEMMA RenamedRoute ==
  ASSUME NEW path \in Routes
  PROVE  /\ Renamed(path) \in Routes /\ Len(Renamed(path)) = Len(path)
         /\ \A k \in 1 .. Len(path) :
              Renamed(path)[k] = IF path[k] = Pattern THEN Replacement ELSE path[k]
<1>1. path \in Seq(STRING) /\ Len(path) \in Nat \ {0}
  BY RouteParts
<1>2. path # NULL
  BY <1>1, ReplacerAssumption
<1>3. Pattern \in STRING /\ Replacement \in STRING
  BY ReplacerAssumption DEF Names
<1>4. Renamed(path) \in Seq(STRING) /\ With(Renamed(path), path, Pattern, Replacement)
  BY ONLY <1>1, <1>2, <1>3, ReplacesOne DEF Renamed
<1> QED  BY ONLY <1>1, <1>4, LongRoutes DEF With

\* What rename does to the path of something that is at, or below, old.
Below(path, old) == Len(path) >= Len(old) /\ \A k \in 1 .. Len(old) : path[k] = old[k]

LEMMA BelowPrefix ==
  ASSUME NEW path \in Routes, NEW old \in Routes
  PROVE  Below(path, old) <=> Len(path) >= Len(old) /\ SubSeq(path, 1, Len(old)) = old
<1>1. path \in Seq(STRING) /\ old \in Seq(STRING) /\ Len(path) \in Nat /\ Len(old) \in Nat
  BY RouteParts
<1>2. ASSUME Len(path) >= Len(old)
      PROVE  SubSeq(path, 1, Len(old)) = old <=> \A k \in 1 .. Len(old) : path[k] = old[k]
  <2>1. Len(old) \in 0 .. Len(path)
    BY <1>1, <1>2
  <2>2. /\ SubSeq(path, 1, Len(old)) \in Seq(STRING) /\ Len(SubSeq(path, 1, Len(old))) = Len(old)
        /\ \A k \in 1 .. Len(old) : SubSeq(path, 1, Len(old))[k] = path[k]
    BY ONLY <1>1, <2>1, FrontOf
  <2>3. ASSUME \A k \in 1 .. Len(old) : path[k] = old[k] PROVE SubSeq(path, 1, Len(old)) = old
    <3>1. \A k \in 1 .. Len(SubSeq(path, 1, Len(old))) : SubSeq(path, 1, Len(old))[k] = old[k]
      BY <2>2, <2>3
    <3> QED  BY ONLY <1>1, <2>2, <3>1, SeqEqual
  <2> QED  BY <2>2, <2>3
<1> QED  BY <1>2 DEF Below

LEMMA MovedRoute ==
  ASSUME NEW path \in Routes, NEW old \in Routes, NEW new \in Routes, Len(new) = Len(old)
  PROVE  /\ Moved(path, old, new) \in Routes /\ Len(Moved(path, old, new)) = Len(path)
         /\ ~Below(path, old) => Moved(path, old, new) = path
         /\ Below(path, old) =>
              \A k \in 1 .. Len(path) :
                Moved(path, old, new)[k] = IF k <= Len(old) THEN new[k] ELSE path[k]
<1>1. /\ path \in Seq(STRING) /\ new \in Seq(STRING) /\ Len(path) \in Nat \ {0} /\ Len(old) \in Nat
  BY RouteParts
<1>2. CASE ~Below(path, old)
  <2>1. Moved(path, old, new) = path
    BY <1>2, BelowPrefix DEF Moved
  <2> QED  BY <1>2, <2>1
<1>3. CASE Below(path, old)
  <2> DEFINE m == Len(old)  n == Len(path)  rest == SubSeq(path, m + 1, n)  r == new \o rest
  <2>1. Moved(path, old, new) = r
    BY <1>3, BelowPrefix DEF Moved
  <2>2. m <= n
    BY <1>3 DEF Below
  <2>3. /\ rest \in Seq(STRING) /\ Len(rest) = n - m
        /\ \A j \in 1 .. n - m : rest[j] = path[m + j]
    <3>1. m + 1 \in 1 .. n + 1 /\ n + 1 \in m + 1 .. n + 1 /\ n + 1 - 1 = n /\ n + 1 - (m + 1) = n - m
      BY <1>1, <2>2
    <3>2. /\ SubSeq(path, m + 1, n + 1 - 1) \in Seq(STRING)
          /\ Len(SubSeq(path, m + 1, n + 1 - 1)) = n + 1 - (m + 1)
          /\ \A j \in 1 .. n + 1 - (m + 1) : SubSeq(path, m + 1, n + 1 - 1)[j] = path[m + 1 + j - 1]
      BY ONLY <1>1, <3>1, PartOf
    <3>3. \A j \in 1 .. n - m : m + 1 + j - 1 = m + j
      BY <1>1
    <3> QED  BY ONLY <3>1, <3>2, <3>3
  <2> HIDE DEF rest
  <2>4. /\ r \in Seq(STRING) /\ Len(r) = Len(new) + Len(rest)
        /\ \A j \in 1 .. Len(new) + Len(rest) :
             r[j] = IF j <= Len(new) THEN new[j] ELSE rest[j - Len(new)]
    BY ONLY <1>1, <2>3, ConcatProperties
  <2>5. Len(new) = m /\ Len(new) + Len(rest) = n
    BY <1>1, <2>3
  <2> HIDE DEF r, m, n
  <2>6. \A k \in 1 .. n : r[k] = IF k <= m THEN new[k] ELSE path[k]
    <3> SUFFICES ASSUME NEW k \in 1 .. n PROVE r[k] = IF k <= m THEN new[k] ELSE path[k]
      OBVIOUS
    <3>1. r[k] = IF k <= m THEN new[k] ELSE rest[k - m]
      BY ONLY <2>4, <2>5, k \in 1 .. n
    <3>2. ~(k <= m) => k - m \in 1 .. n - m /\ m + (k - m) = k
      BY <1>1 DEF m, n
    <3> QED  BY ONLY <2>3, <3>1, <3>2
  <2>7. Len(r) = n /\ Len(r) > 0
    BY <1>1, <2>4, <2>5 DEF n
  <2>8. r \in Routes
    BY ONLY <2>4, <2>7, LongRoutes
  <2> QED  BY <1>3, <2>1, <2>6, <2>7, <2>8 DEF m, n
<1> QED  BY <1>2, <1>3

LEMMA MovedParent ==
  ASSUME NEW path \in Routes, NEW old \in Routes, NEW new \in Routes, Len(new) = Len(old),
         Len(path) > 1
  PROVE  /\ path # old => Parent(Moved(path, old, new)) = Moved(Parent(path), old, new)
         /\ path = old => Moved(path, old, new) = new
<1> DEFINE p == Parent(path)  r == Moved(path, old, new)
<1>1. /\ path \in Seq(STRING) /\ old \in Seq(STRING) /\ new \in Seq(STRING)
      /\ Len(path) \in Nat /\ Len(old) \in Nat \ {0}
      /\ p \in Seq(STRING) /\ Len(p) = Len(path) - 1 /\ \A k \in 1 .. Len(path) - 1 : p[k] = path[k]
  BY RouteParts
<1>2. p \in Routes
  BY <1>1, LongRoutes
<1>3. /\ r \in Routes /\ Len(r) = Len(path) /\ (~Below(path, old) => r = path)
      /\ Below(path, old) => \A k \in 1 .. Len(path) : r[k] = IF k <= Len(old) THEN new[k] ELSE path[k]
  BY MovedRoute
<1>4. /\ Moved(p, old, new) \in Routes /\ Len(Moved(p, old, new)) = Len(p)
      /\ ~Below(p, old) => Moved(p, old, new) = p
      /\ Below(p, old) =>
           \A k \in 1 .. Len(p) : Moved(p, old, new)[k] = IF k <= Len(old) THEN new[k] ELSE p[k]
  BY ONLY <1>2, old \in Routes, new \in Routes, Len(new) = Len(old), MovedRoute
<1>5. /\ Parent(r) \in Seq(STRING) /\ Len(Parent(r)) = Len(path) - 1
      /\ \A k \in 1 .. Len(path) - 1 : Parent(r)[k] = r[k]
  <2>1. /\ Parent(r) \in Seq(STRING) /\ Len(Parent(r)) = Len(r) - 1
        /\ \A k \in 1 .. Len(r) - 1 : Parent(r)[k] = r[k]
    BY ONLY <1>3, RouteParts
  <2> QED  BY ONLY <1>3, <2>1
<1> HIDE DEF p, r
<1>6. ASSUME path # old PROVE Parent(r) = Moved(p, old, new)
  <2>1. CASE Below(path, old)
    <3>1. Len(path) # Len(old)
      <4> SUFFICES ASSUME Len(path) = Len(old) PROVE FALSE
        OBVIOUS
      <4>1. \A k \in 1 .. Len(path) : path[k] = old[k]
        BY <2>1 DEF Below
      <4>2. path = old
        BY ONLY <1>1, <4>1, Len(path) = Len(old), SeqEqual
      <4> QED  BY <1>6, <4>2
    <3>2. Len(p) >= Len(old) /\ \A k \in 1 .. Len(old) : k \in 1 .. Len(path) - 1
      BY <1>1, <2>1, <3>1 DEF Below
    <3>3. Below(p, old)
      BY <1>1, <2>1, <3>2 DEF Below
    <3>4. \A k \in 1 .. Len(path) - 1 : Parent(r)[k] = Moved(p, old, new)[k]
      <4> SUFFICES ASSUME NEW k \in 1 .. Len(path) - 1 PROVE Parent(r)[k] = Moved(p, old, new)[k]
        OBVIOUS
      <4>1. k \in 1 .. Len(path) /\ k \in 1 .. Len(p)
        BY <1>1
      <4>2. r[k] = IF k <= Len(old) THEN new[k] ELSE path[k]
        BY ONLY <1>3, <2>1, <4>1
      <4>3. Moved(p, old, new)[k] = IF k <= Len(old) THEN new[k] ELSE p[k]
        BY ONLY <1>4, <3>3, <4>1
      <4> QED  BY ONLY <1>1, <1>5, <4>2, <4>3, k \in 1 .. Len(path) - 1
    <3>5. Moved(p, old, new) \in Seq(STRING) /\ Len(Moved(p, old, new)) = Len(path) - 1
      BY <1>1, <1>4, RouteParts
    <3> QED  BY ONLY <1>5, <3>4, <3>5, SeqEqual
  <2>2. CASE ~Below(path, old)
    <3>1. ~Below(p, old)
      <4> SUFFICES ASSUME Below(p, old) PROVE Below(path, old)
        BY <2>2
      <4>1. Len(p) >= Len(old) /\ \A k \in 1 .. Len(old) : p[k] = old[k]
        BY DEF Below
      <4>2. Len(path) >= Len(old) /\ \A k \in 1 .. Len(old) : k \in 1 .. Len(path) - 1
        BY <1>1, <4>1
      <4> QED  BY <1>1, <4>1, <4>2 DEF Below
    <3> QED  BY <1>3, <1>4, <2>2, <3>1 DEF p
  <2> QED  BY <2>1, <2>2
<1>7. ASSUME path = old PROVE r = new
  <2>1. Below(path, old)
    BY <1>1, <1>7 DEF Below
  <2>2. \A k \in 1 .. Len(path) : r[k] = new[k]
    BY <1>1, <1>3, <1>7, <2>1
  <2>3. r \in Seq(STRING) /\ Len(r) = Len(new)
    BY <1>3, <1>7, RouteParts
  <2> QED  BY ONLY <1>1, <1>3, <2>2, <2>3, SeqEqual
<1> QED  BY <1>6, <1>7 DEF p, r

\* The effect of a rename that succeeds.
Staying(old, new) == {f \in FileNames : f # new \/ f = old}

TreeMoved(old, new) ==
  /\ disk' = [dirs |-> disk'.dirs, files |-> disk'.files]
  /\ disk'.dirs = {Moved(d, old, new) : d \in disk.dirs}
  /\ (FileNames)' = {Moved(f, old, new) : f \in Staying(old, new)}
  /\ disk'.files = [g \in (FileNames)' |-> disk'.files[g]]
  /\ \A g \in (FileNames)' :
       \E f \in Staying(old, new) :
         Moved(f, old, new) = g /\ disk'.files[g] = disk.files[f]

LEMMA RenameEffect ==
  ASSUME NEW old, NEW new, CanRename(old, new), rename(old, new)
  PROVE  TreeMoved(old, new)
<1> DEFINE files == [g \in {Moved(f, old, new) : f \in Staying(old, new)} |->
                       disk.files[CHOOSE f \in Staying(old, new) : Moved(f, old, new) = g]]
<1>1. disk' = [dirs |-> {Moved(d, old, new) : d \in disk.dirs}, files |-> files]
  BY DEF rename, Staying
<1>2. disk'.files = files /\ disk'.dirs = {Moved(d, old, new) : d \in disk.dirs}
  <2> HIDE DEF files
  <2> QED  BY <1>1
<1>3. (FileNames)' = {Moved(f, old, new) : f \in Staying(old, new)}
  BY <1>2 DEF FileNames
<1>4. ASSUME NEW g \in (FileNames)'
      PROVE  \E f \in Staying(old, new) : Moved(f, old, new) = g /\ disk'.files[g] = disk.files[f]
  <2> DEFINE f == CHOOSE h \in Staying(old, new) : Moved(h, old, new) = g
  <2>1. f \in Staying(old, new) /\ Moved(f, old, new) = g
    BY <1>3, <1>4
  <2>2. disk'.files[g] = disk.files[f]
    BY <1>2, <1>3, <1>4
  <2> QED  BY <2>1, <2>2
<1>5. disk' = [dirs |-> disk'.dirs, files |-> disk'.files]
  <2> HIDE DEF files
  <2> QED  BY <1>1, <1>2
<1>6. disk'.files = [g \in (FileNames)' |-> disk'.files[g]]
  BY <1>2, <1>3
<1> HIDE DEF files
<1> QED  BY ONLY <1>2, <1>3, <1>4, <1>5, <1>6 DEF TreeMoved

LEMMA RenameTree ==
  ASSUME TreeInv, NEW old \in Routes, rename(old, Renamed(old))
  PROVE  TreeInv'
<1> DEFINE new == Renamed(old)
<1>1. CASE ~CanRename(old, new)
  BY <1>1 DEF rename, TreeInv, FileNames
<1>2. CASE CanRename(old, new)
  <2>1. new \in Routes /\ Len(new) = Len(old) /\ Len(old) \in Nat \ {0}
    BY RenamedRoute, RouteParts
  <2>2. /\ disk' = [dirs |-> disk'.dirs, files |-> disk'.files]
        /\ disk'.dirs = {Moved(d, old, new) : d \in disk.dirs}
        /\ (FileNames)' = {Moved(f, old, new) : f \in Staying(old, new)}
        /\ disk'.files = [g \in (FileNames)' |-> disk'.files[g]]
        /\ \A g \in (FileNames)' :
             \E f \in Staying(old, new) :
               Moved(f, old, new) = g /\ disk'.files[g] = disk.files[f]
    BY <1>2, RenameEffect DEF TreeMoved
  <2> HIDE DEF new
  <2>3. /\ disk.dirs \subseteq Routes /\ FileNames \subseteq Routes /\ disk.files \in [FileNames -> Lines]
        /\ \A f \in FileNames : Parent(f) \in disk.dirs
        /\ \A d \in disk.dirs : Len(d) > 1 => Parent(d) \in disk.dirs
    BY DEF TreeInv
  <2>4. Staying(old, new) \subseteq FileNames
    BY DEF Staying
  <2>5. disk'.dirs \subseteq Routes /\ (FileNames)' \subseteq Routes
    BY <2>1, <2>2, <2>3, <2>4, MovedRoute
  <2>6. disk'.files \in [(FileNames)' -> Lines]
    <3>1. \A g \in (FileNames)' : disk'.files[g] \in Lines
      BY ONLY <2>2, <2>3, <2>4
    <3> HIDE DEF Lines
    <3> QED  BY ONLY <2>2, <3>1
  <2>7. ASSUME NEW path \in Routes, Len(path) > 1, Parent(path) \in disk.dirs
        PROVE  Parent(Moved(path, old, new)) \in disk'.dirs
    <3>1. CASE path # old
      <4>1. Parent(Moved(path, old, new)) = Moved(Parent(path), old, new)
        BY <2>1, <2>7, <3>1, MovedParent
      <4> QED  BY <2>2, <2>7, <4>1
    <3>2. CASE path = old
      <4>1. Moved(path, old, new) = new
        BY <2>1, <2>7, <3>2, MovedParent
      <4>2. Parent(new) \in disk.dirs
        BY <1>2, <2>1, <2>7, <3>2 DEF CanRename, new
      <4>3. Moved(Parent(new), old, new) = Parent(new)
        <5>1. Len(Parent(new)) = Len(old) - 1 /\ Parent(new) \in Routes
          BY <2>1, <2>3, <4>2, RouteParts
        <5>2. ~Below(Parent(new), old)
          BY <2>1, <5>1 DEF Below
        <5> QED  BY <2>1, <5>1, <5>2, MovedRoute
      <4> QED  BY <2>2, <4>1, <4>2, <4>3
    <3> QED  BY <3>1, <3>2
  <2>8. \A f \in (FileNames)' : Parent(f) \in disk'.dirs
    <3> SUFFICES ASSUME NEW f \in FileNames PROVE Parent(Moved(f, old, new)) \in disk'.dirs
      BY <2>2, <2>4
    <3>1. Len(f) > 1 /\ f \in Routes
      <4>1. Len(f) >= 2 /\ Len(f) \in Nat
        BY <2>3, FilesAreDeep, RouteParts
      <4> QED  BY <2>3, <4>1
    <3> QED  BY <2>3, <2>7, <3>1
  <2>9. \A d \in disk'.dirs : Len(d) > 1 => Parent(d) \in disk'.dirs
    <3> SUFFICES ASSUME NEW d \in disk.dirs, Len(Moved(d, old, new)) > 1
                 PROVE  Parent(Moved(d, old, new)) \in disk'.dirs
      BY <2>2
    <3>1. d \in Routes /\ Len(d) > 1
      BY <2>1, <2>3, MovedRoute
    <3> QED  BY <2>3, <2>7, <3>1
  <2> QED  BY <2>2, <2>5, <2>6, <2>8, <2>9 DEF TreeInv
<1> QED  BY <1>1, <1>2

-----------------------------------------------------------------------------
(***************************************************************************)
(* What a rename does to a file.                                            *)
(***************************************************************************)
KeptAs(f, g) ==
  /\ Len(g) = Len(f)
  /\ \A k \in DOMAIN f : g[k] \in {f[k], IF f[k] = Pattern THEN Replacement ELSE f[k]}
  /\ disk'.files[g] = disk.files[f] \/ g \in FileNames

\* Two paths that are moved to one place: one of them was there.
LEMMA MovedTogether ==
  ASSUME NEW f \in Routes, NEW h \in Routes, NEW old \in Routes, NEW new \in Routes,
         Len(new) = Len(old), Moved(f, old, new) = Moved(h, old, new), f # h
  PROVE  Moved(f, old, new) \in {f, h}
<1>1. CASE ~Below(f, old) \/ ~Below(h, old)
  BY <1>1, MovedRoute
<1>2. CASE Below(f, old) /\ Below(h, old)
  <2>1. f \in Seq(STRING) /\ h \in Seq(STRING) /\ Len(f) \in Nat /\ Len(h) \in Nat /\ Len(old) \in Nat
    BY RouteParts
  <2>2. Len(f) = Len(h)
    BY MovedRoute
  <2>3. ASSUME NEW k \in 1 .. Len(f) PROVE f[k] = h[k]
    <3>1. CASE k <= Len(old)
      <4>1. k \in 1 .. Len(old)
        BY <2>1, <3>1
      <4> QED  BY <1>2, <4>1 DEF Below
    <3>2. CASE ~(k <= Len(old))
      <4>1. Moved(f, old, new)[k] = f[k]
        BY <1>2, <3>2, MovedRoute
      <4>2. Moved(h, old, new)[k] = h[k]
        BY <1>2, <2>2, <3>2, MovedRoute
      <4> QED  BY <4>1, <4>2
    <3> QED  BY <3>1, <3>2
  <2> QED  BY ONLY <2>1, <2>2, <2>3, SeqEqual, f # h
<1> QED  BY <1>1, <1>2

LEMMA RenameKeeps ==
  ASSUME TreeInv, NEW old \in Routes, rename(old, Renamed(old)),
         NEW f \in FileNames
  PROVE  \E g \in (FileNames)' : KeptAs(f, g)
<1> DEFINE new == Renamed(old)
<1>0. FileNames \subseteq Routes /\ Len(f) \in Nat /\ DOMAIN f = 1 .. Len(f)
  <2>1. FileNames \subseteq Routes
    BY DEF TreeInv
  <2> QED  BY <2>1, RouteParts, LenProperties
<1>1. CASE ~CanRename(old, new)
  <2>1. disk' = disk
    BY <1>1 DEF rename
  <2>2. f \in (FileNames)' /\ KeptAs(f, f)
    BY <2>1 DEF FileNames, KeptAs
  <2> QED  BY <2>2
<1>2. CASE CanRename(old, new)
  <2>1. /\ new \in Routes /\ Len(new) = Len(old)
        /\ \A k \in 1 .. Len(old) : new[k] = IF old[k] = Pattern THEN Replacement ELSE old[k]
    BY RenamedRoute
  <2>2. /\ (FileNames)' = {Moved(h, old, new) : h \in Staying(old, new)}
        /\ \A g \in (FileNames)' :
             \E h \in Staying(old, new) :
               Moved(h, old, new) = g /\ disk'.files[g] = disk.files[h]
    <3>1. CanRename(old, new) /\ rename(old, new)
      BY <1>2
    <3> HIDE DEF new
    <3>2. TreeMoved(old, new)
      BY ONLY <3>1, RenameEffect
    <3>3. (FileNames)' = {Moved(h, old, new) : h \in Staying(old, new)}
      BY ONLY <3>2, Zenon DEF TreeMoved
    <3> QED  BY ONLY <3>2, <3>3, Zenon DEF TreeMoved
  <2> HIDE DEF new
  <2>3. CASE f \in Staying(old, new)
    <3> DEFINE g == Moved(f, old, new)
    <3>1. g \in (FileNames)'
      BY <2>2, <2>3
    <3>2. Len(g) = Len(f)
      BY <1>0, <2>1, MovedRoute
    <3>3. ASSUME NEW k \in DOMAIN f
          PROVE  g[k] \in {f[k], IF f[k] = Pattern THEN Replacement ELSE f[k]}
      <4>1. CASE ~Below(f, old)
        BY <1>0, <2>1, <4>1, MovedRoute
      <4>2. CASE Below(f, old)
        <5>1. k \in 1 .. Len(f)
          BY <1>0, <3>3
        <5>2. g[k] = IF k <= Len(old) THEN new[k] ELSE f[k]
          BY <1>0, <2>1, <4>2, <5>1, MovedRoute
        <5>3. k <= Len(old) => k \in 1 .. Len(old)
          BY <5>1, RouteParts
        <5>4. k <= Len(old) => f[k] = old[k]
          BY <4>2, <5>3 DEF Below
        <5> QED  BY <2>1, <5>2, <5>3, <5>4
      <4> QED  BY <4>1, <4>2
    <3>4. disk'.files[g] = disk.files[f] \/ g \in FileNames
      <4>1. PICK h \in Staying(old, new) : Moved(h, old, new) = g /\ disk'.files[g] = disk.files[h]
        BY <2>2, <3>1
      <4>2. h \in FileNames
        BY DEF Staying
      <4>3. h # f => g \in {f, h}
        BY <1>0, <2>1, <4>1, <4>2, MovedTogether
      <4> QED  BY <4>1, <4>2, <4>3
    <3> HIDE DEF g
    <3>5. KeptAs(f, g)
      BY <3>2, <3>3, <3>4 DEF KeptAs
    <3> QED  BY <3>1, <3>5
  <2>4. CASE f \notin Staying(old, new)
    <3>1. f = new /\ f # old
      BY <2>4 DEF Staying
    <3>2. old \in FileNames
      BY <1>2, <3>1 DEF CanRename, new
    <3>3. old \in Staying(old, new)
      BY <3>2 DEF Staying
    <3>4. Len(old) >= 2
      BY <3>2, FilesAreDeep
    <3>5. Moved(old, old, new) = new
      <4>1. Len(old) \in Nat
        BY RouteParts
      <4>2. Len(old) > 1
        BY <3>4, <4>1
      <4> QED  BY <2>1, <4>2, MovedParent
    <3>6. f \in (FileNames)'
      BY <2>2, <3>1, <3>3, <3>5
    <3>7. KeptAs(f, f)
      BY DEF KeptAs
    <3> QED  BY <3>6, <3>7
  <2> QED  BY <2>3, <2>4
<1> QED  BY <1>1, <1>2

-----------------------------------------------------------------------------
(***************************************************************************)
(* What a step does to the disk, and to the calls.                          *)
(***************************************************************************)
Edited(path) ==
  /\ params.mode # 0 /\ path \in FileNames /\ ~HasPattern(disk.files[path])
  /\ disk' = [disk EXCEPT !.files[path] = Prepended(@)]

LEMMA TopCall ==
  ASSUME CallsInv
  PROVE  /\ Len(visits) \in Nat \ {0} /\ DOMAIN visits = 1 .. Len(visits)
         /\ \A k \in 1 .. Len(visits) : visits[k] \in VisitsOf
         /\ Current = visits[Len(visits)] /\ Current \in VisitsOf
         /\ Callers \in Seq(VisitsOf) /\ Len(Callers) = Len(visits) - 1
         /\ \A k \in 1 .. Len(visits) - 1 : Callers[k] = visits[k]
<1>1. visits \in Seq(VisitsOf) /\ visits # <<>>
  BY DEF CallsInv
<1> HIDE DEF VisitsOf
<1>2. /\ Len(visits) \in Nat \ {0} /\ DOMAIN visits = 1 .. Len(visits)
      /\ \A k \in 1 .. Len(visits) : visits[k] \in VisitsOf
  BY ONLY <1>1, EmptySeq, LenProperties, ElementOfSeq
<1>3. Len(visits) - 1 \in 0 .. Len(visits) /\ Len(visits) \in 1 .. Len(visits)
  BY ONLY <1>2
<1>4. /\ Callers \in Seq(VisitsOf) /\ Len(Callers) = Len(visits) - 1
      /\ \A k \in 1 .. Len(visits) - 1 : Callers[k] = visits[k]
  BY ONLY <1>1, <1>3, FrontOf DEF Callers
<1> QED  BY <1>2, <1>3, <1>4 DEF Current

\* A path that is renamed to what it is, is not renamed.
LEMMA DirectoryRenames ==
  ASSUME NEW path \in Routes, rename(path, RenameDirectory(path))
  PROVE  /\ UNCHANGED disk \/ rename(path, Renamed(path))
         /\ RenameDirectory(path) \in Routes
<1>1. CASE Selected(path)
  BY <1>1, RenamedRoute DEF RenameDirectory
<1>2. CASE ~Selected(path)
  <2>1. ~CanRename(path, path)
    BY DEF CanRename
  <2> QED  BY <1>2, <2>1 DEF RenameDirectory, rename
<1> QED  BY <1>1, <1>2

\* The path of an entry.
FilePath(entry) == Append(IF Current.dir = base THEN base ELSE Current.search_path, entry.name)

LEMMA FilePathRoute ==
  ASSUME CallsInv, NEW entry \in Current.todo, entry.kind = "file"
  PROVE  FilePath(entry) \in Routes
<1>1. /\ Current \in VisitsOf /\ visits[1] \in VisitsOf
  BY TopCall
<1>2. /\ entry \in Items /\ base \in Routes /\ Current.search_path \in Routes
  BY <1>1 DEF VisitsOf, base
<1>3. entry.name \in STRING
  BY <1>2 DEF Items
<1> DEFINE dir == IF Current.dir = base THEN base ELSE Current.search_path
<1>4. dir \in Seq(STRING)
  BY <1>2 DEF Routes
<1> HIDE DEF dir
<1>5. Append(dir, entry.name) \in Seq(STRING) /\ Append(dir, entry.name) # <<>>
  BY <1>3, <1>4, AppendProperties
<1> QED  BY <1>2, <1>5 DEF FilePath, dir, Routes

LEMMA DiskStep ==
  ASSUME CallsInv, ReplacerNext
  PROVE  \/ UNCHANGED disk
         \/ \E old \in Routes : rename(old, Renamed(old))
         \/ \E path : Edited(path)
<1>0. /\ Len(visits) \in Nat \ {0} /\ \A k \in 1 .. Len(visits) : visits[k].search_path \in Routes
  BY TopCall DEF VisitsOf
<1>1. CASE VisitDirectory
  BY <1>1 DEF VisitDirectory
<1>2. CASE PassDirectory
  <2>1. Current.search_path \in Routes
    BY TopCall DEF VisitsOf
  <2>2. rename(Current.search_path, RenameDirectory(Current.search_path))
    BY <1>2 DEF PassDirectory
  <2> QED  BY <2>1, <2>2, DirectoryRenames
<1>3. CASE EndVisit
  <2> DEFINE path == visits[Len(visits) - 1].search_path
  <2>1. rename(path, RenameDirectory(path)) /\ Len(visits) > 1
    BY <1>3 DEF EndVisit
  <2>2. path \in Routes
    BY <1>0, <2>1
  <2> QED  BY <2>1, <2>2, DirectoryRenames
<1>4. CASE EditFile
  <2>1. PICK entry \in Current.todo :
             /\ entry.kind = "file"
             /\ IF FilePath(entry) \notin FileNames \/ ~Selected(FilePath(entry)) THEN UNCHANGED <<disk, state>>
                ELSE IF params.mode = 0
                     THEN rename(FilePath(entry), Renamed(FilePath(entry))) /\ UNCHANGED state
                ELSE EditText(FilePath(entry))
    BY <1>4 DEF EditFile, FilePath
  <2>2. FilePath(entry) \in Routes
    BY <2>1, FilePathRoute
  <2> DEFINE path == FilePath(entry)
  <2>3. CASE path \notin FileNames \/ ~Selected(path)
    BY <2>1, <2>3
  <2>4. CASE path \in FileNames /\ Selected(path) /\ params.mode = 0
    BY <2>1, <2>2, <2>4
  <2>5. CASE path \in FileNames /\ Selected(path) /\ params.mode # 0
    <3>1. EditText(path)
      BY <2>1, <2>5
    <3>2. UNCHANGED disk \/ Edited(path)
      BY <2>5, <3>1 DEF EditText, Edited
    <3> QED  BY <3>2
  <2> QED  BY <2>3, <2>4, <2>5
<1>5. CASE Finish
  BY <1>5 DEF Finish
<1> QED  BY <1>1, <1>2, <1>3, <1>4, <1>5 DEF ReplacerNext

\* What is put into a text that does not have the pattern.
LEMMA PrependedLines ==
  ASSUME NEW text \in Lines, ~HasPattern(text)
  PROVE  Prepended(text) \in Lines /\ ~Doubled(Prepended(text))
<1>1. DOMAIN text = 1 .. Len(text) /\ Len(text) \in Nat /\ \A k \in 1 .. Len(text) : text[k] \in Seq(STRING)
  BY LenProperties, ElementOfSeq DEF Lines
<1>2. Pattern \in STRING /\ Replacement \in STRING /\ Pattern # Replacement /\ NULL \notin Seq(STRING)
  BY ReplacerAssumption DEF Names
<1>3. \A k \in 1 .. Len(text) : strstr(text[k], <<Pattern>>, 1) = 0
  BY <1>1 DEF HasPattern
<1> DEFINE made(k) == str_replace(text[k], <<Replacement>>, <<Pattern, Replacement>>)
<1>4. ASSUME NEW k \in 1 .. Len(text)
      PROVE  made(k) \in Seq(STRING) /\ strstr(made(k), <<Pattern, Pattern, Replacement>>, 1) = 0
  <2>1. text[k] \in Seq(STRING) /\ text[k] # NULL /\ strstr(text[k], <<Pattern>>, 1) = 0
    BY <1>1, <1>2, <1>3
  <2>2. made(k) \in Seq(STRING) /\ Followed(made(k), Pattern, Replacement)
    BY ONLY <1>2, <2>1, PrependsOne
  <2> HIDE DEF made
  <2> QED  BY ONLY <1>2, <2>2, FollowedOnce
<1>5. Prepended(text) = [k \in 1 .. Len(text) |-> made(k)]
  BY <1>1 DEF Prepended
<1> HIDE DEF made
<1>6. Prepended(text) \in Seq(Seq(STRING))
  BY ONLY <1>1, <1>4, <1>5, IsASeq
<1>7. ~Doubled(Prepended(text))
  BY <1>4, <1>5 DEF Doubled
<1> QED  BY <1>6, <1>7 DEF Lines

LEMMA EditedTree ==
  ASSUME TreeInv, NEW path, Edited(path)
  PROVE  /\ TreeInv'
         /\ (FileNames)' = FileNames /\ disk'.dirs = disk.dirs
         /\ \A f \in FileNames : disk'.files[f] = disk.files[f] \/ ~Doubled(disk'.files[f])
<1>1. /\ path \in FileNames /\ ~HasPattern(disk.files[path])
      /\ disk' = [disk EXCEPT !.files[path] = Prepended(@)]
  BY DEF Edited
<1>2. disk = [dirs |-> disk.dirs, files |-> disk.files] /\ disk.files \in [FileNames -> Lines]
  BY DEF TreeInv
<1>3. disk.files[path] \in Lines
  BY <1>1, <1>2
<1>4. Prepended(disk.files[path]) \in Lines /\ ~Doubled(Prepended(disk.files[path]))
  BY <1>1, <1>3, PrependedLines
<1> DEFINE text == Prepended(disk.files[path])
           files == [disk.files EXCEPT ![path] = text]
<1> HIDE DEF text
<1>5. disk' = [dirs |-> disk.dirs, files |-> files]
  BY <1>1, <1>2 DEF text
<1>6. /\ files \in [FileNames -> Lines] /\ files[path] = text
      /\ \A f \in FileNames : f # path => files[f] = disk.files[f]
  <2> HIDE DEF Lines
  <2>1. text \in Lines
    BY <1>4 DEF text
  <2> QED  BY ONLY <1>1, <1>2, <2>1
<1> HIDE DEF files
<1>7. disk'.dirs = disk.dirs /\ disk'.files = files /\ disk' = [dirs |-> disk'.dirs, files |-> disk'.files]
  BY ONLY <1>5
<1>8. (FileNames)' = FileNames
  <2>1. DOMAIN files = FileNames
    BY <1>6
  <2> QED  BY <1>7, <2>1 DEF FileNames
<1>9. TreeInv'
  <2> HIDE DEF Lines, Routes
  <2> QED  BY <1>6, <1>7, <1>8 DEF TreeInv
<1> QED  BY <1>4, <1>6, <1>7, <1>8, <1>9 DEF text

-----------------------------------------------------------------------------
(***************************************************************************)
(* The calls, and the types.                                                *)
(***************************************************************************)
LEMMA VisitTyped ==
  ASSUME TreeInv, NEW path \in Routes
  PROVE  Visit(path) \in VisitsOf
<1>1. \A p \in FileNames \cup disk.dirs : p[Len(p)] \in STRING
  <2> SUFFICES ASSUME NEW p \in Routes PROVE p[Len(p)] \in STRING
    BY DEF TreeInv
  <2>1. Len(p) \in 1 .. Len(p)
    BY RouteParts
  <2> QED  BY <2>1, RouteParts
<1>2. Listing(path) \subseteq Items
  <2>1. \A f \in FileNames : [kind |-> "file", name |-> f[Len(f)]] \in Items
    BY <1>1 DEF Items
  <2>2. \A d \in disk.dirs : [kind |-> "dir", name |-> d[Len(d)]] \in Items
    BY <1>1 DEF Items
  <2>3. \A dot \in Dots : [kind |-> "dir", name |-> dot] \in Items
    <3> HIDE DEF Dots
    <3> QED  BY DEF Items
  <2> HIDE DEF Items, Dots
  <2> QED  BY <2>1, <2>2, <2>3 DEF Listing
<1> QED  BY <1>2 DEF Visit, VisitsOf

LEMMA CallChanged ==
  ASSUME CallsInv, NEW call \in VisitsOf, visits' = Append(Callers, call)
  PROVE  /\ visits' \in Seq(VisitsOf) /\ visits' # <<>> /\ Len(visits') = Len(visits)
         /\ visits'[Len(visits)] = call
         /\ \A k \in 1 .. Len(visits) - 1 : visits'[k] = visits[k]
<1>1. /\ Len(visits) \in Nat \ {0} /\ Callers \in Seq(VisitsOf) /\ Len(Callers) = Len(visits) - 1
      /\ \A k \in 1 .. Len(visits) - 1 : Callers[k] = visits[k]
  BY TopCall
<1> HIDE DEF VisitsOf
<1>2. /\ visits' \in Seq(VisitsOf) /\ visits' # <<>> /\ Len(visits') = Len(Callers) + 1
      /\ \A k \in 1 .. Len(Callers) : visits'[k] = Callers[k]
      /\ visits'[Len(Callers) + 1] = call
  BY ONLY <1>1, call \in VisitsOf, visits' = Append(Callers, call), AppendProperties
<1>3. Len(visits) - 1 + 1 = Len(visits)
  BY <1>1
<1> QED  BY <1>1, <1>2, <1>3

LEMMA CallBegun ==
  ASSUME CallsInv, NEW call \in VisitsOf, NEW new \in VisitsOf,
         visits' = Append(Append(Callers, call), new)
  PROVE  /\ visits' \in Seq(VisitsOf) /\ visits' # <<>> /\ Len(visits') = Len(visits) + 1
         /\ visits'[Len(visits)] = call /\ visits'[Len(visits) + 1] = new
         /\ \A k \in 1 .. Len(visits) - 1 : visits'[k] = visits[k]
<1>1. /\ Len(visits) \in Nat \ {0} /\ Callers \in Seq(VisitsOf) /\ Len(Callers) = Len(visits) - 1
      /\ \A k \in 1 .. Len(visits) - 1 : Callers[k] = visits[k]
  BY TopCall
<1> HIDE DEF VisitsOf
<1> DEFINE below == Append(Callers, call)
<1>2. /\ below \in Seq(VisitsOf) /\ Len(below) = Len(Callers) + 1
      /\ \A k \in 1 .. Len(Callers) : below[k] = Callers[k]
      /\ below[Len(Callers) + 1] = call
  BY ONLY <1>1, call \in VisitsOf, AppendProperties
<1>3. Len(visits) - 1 + 1 = Len(visits) /\ Len(visits) \in 1 .. Len(visits)
      /\ \A k \in 1 .. Len(visits) - 1 : k \in 1 .. Len(visits)
  BY <1>1
<1>4. visits' = Append(below, new)
  OBVIOUS
<1> HIDE DEF below
<1>5. /\ visits' \in Seq(VisitsOf) /\ visits' # <<>> /\ Len(visits') = Len(below) + 1
      /\ \A k \in 1 .. Len(below) : visits'[k] = below[k]
      /\ visits'[Len(below) + 1] = new
  BY ONLY <1>2, <1>4, new \in VisitsOf, AppendProperties
<1> QED  BY <1>1, <1>2, <1>3, <1>5

LEMMA CallEnded ==
  ASSUME CallsInv, Len(visits) > 1, NEW new \in Routes,
         visits' = [Callers EXCEPT ![Len(Callers)].search_path = new]
  PROVE  /\ visits' \in Seq(VisitsOf) /\ visits' # <<>> /\ Len(visits') = Len(visits) - 1
         /\ visits'[Len(visits) - 1] = [visits[Len(visits) - 1] EXCEPT !.search_path = new]
         /\ \A k \in 1 .. Len(visits) - 2 : visits'[k] = visits[k]
<1> DEFINE n == Len(Callers)
           call == [Callers[n] EXCEPT !.search_path = new]
<1>1. /\ Len(visits) \in Nat \ {0} /\ Callers \in Seq(VisitsOf) /\ n = Len(visits) - 1
      /\ \A k \in 1 .. Len(visits) - 1 : Callers[k] = visits[k]
  BY TopCall
<1>2. n \in 1 .. n /\ n \in 1 .. Len(visits) - 1
  BY <1>1
<1>3. Callers[n] \in VisitsOf
  <2> HIDE DEF n, VisitsOf
  <2> QED  BY ONLY <1>1, <1>2, ElementOfSeq DEF n
<1>4. call \in VisitsOf
  BY <1>3 DEF VisitsOf
<1>5. visits' = [Callers EXCEPT ![n] = call]
  OBVIOUS
<1> HIDE DEF call, VisitsOf
<1>6. /\ visits' \in Seq(VisitsOf) /\ Len(visits') = n
      /\ \A k \in 1 .. n : visits'[k] = IF k = n THEN call ELSE Callers[k]
  BY ONLY <1>1, <1>2, <1>4, <1>5, ExceptSeq
<1>7. visits' # <<>>
  <2>1. Len(visits') > 0
    BY <1>2, <1>6
  <2> QED  BY ONLY <2>1, EmptySeq
<1>8. \A k \in 1 .. Len(visits) - 2 : k \in 1 .. n /\ k # n /\ k \in 1 .. Len(visits) - 1
  BY <1>1
<1> HIDE DEF n
<1>9. call = [visits[Len(visits) - 1] EXCEPT !.search_path = new]
  BY <1>1, <1>2 DEF call
<1> QED  BY <1>1, <1>2, <1>6, <1>7, <1>8, <1>9

LEMMA CallsStep ==
  ASSUME TreeInv, CallsInv, ReplacerNext
  PROVE  CallsInv'
<1>0. /\ Len(visits) \in Nat \ {0} /\ \A k \in 1 .. Len(visits) : visits[k] \in VisitsOf
      /\ Current \in VisitsOf
  BY TopCall
<1>1. \A entry : Without(entry) \in VisitsOf
  BY <1>0 DEF Without, VisitsOf
<1>2. UNCHANGED params /\ state' \in {"running", "returned", "aborted"}
  BY DEF ReplacerNext, VisitDirectory, PassDirectory, EndVisit, EditFile, EditText, Finish, CallsInv
<1>3. visits' \in Seq(VisitsOf) /\ visits' # <<>>
  <2>1. CASE VisitDirectory
    <3>1. PICK entry \in Current.todo :
               /\ Target(entry.name) \in disk.dirs
               /\ visits' = Append(Append(Callers, Without(entry)), Visit(Target(entry.name)))
      BY <2>1 DEF VisitDirectory
    <3>2. Visit(Target(entry.name)) \in VisitsOf
      BY <3>1, VisitTyped DEF TreeInv
    <3> QED  BY <1>1, <3>1, <3>2, CallBegun
  <2>2. CASE PassDirectory
    <3> DEFINE new == RenameDirectory(Current.search_path)
    <3>1. PICK entry \in Current.todo :
               /\ rename(Current.search_path, new)
               /\ visits' = Append(Callers, [Without(entry) EXCEPT !.search_path = new])
      BY <2>2 DEF PassDirectory
    <3>2. new \in Routes
      BY <1>0, <3>1, DirectoryRenames DEF VisitsOf
    <3>3. [Without(entry) EXCEPT !.search_path = new] \in VisitsOf
      <4> HIDE DEF new
      <4> QED  BY <1>1, <3>2 DEF VisitsOf
    <3> QED  BY <3>1, <3>3, CallChanged
  <2>3. CASE EndVisit
    <3> DEFINE path == visits[Len(visits) - 1].search_path  new == RenameDirectory(path)
    <3>1. /\ Len(visits) > 1 /\ rename(path, new)
          /\ visits' = [Callers EXCEPT ![Len(Callers)].search_path = new]
      BY <2>3 DEF EndVisit
    <3>2. Len(visits) - 1 \in 1 .. Len(visits)
      BY <1>0, <3>1
    <3>3. path \in Routes
      BY <1>0, <3>2 DEF VisitsOf
    <3>4. new \in Routes
      BY <3>1, <3>3, DirectoryRenames
    <3> QED  BY <3>1, <3>4, CallEnded
  <2>4. CASE EditFile
    <3>1. PICK entry \in Current.todo : visits' = Append(Callers, Without(entry))
      BY <2>4 DEF EditFile
    <3> QED  BY <1>1, <3>1, CallChanged
  <2>5. CASE Finish
    BY <2>5 DEF Finish, CallsInv
  <2> QED  BY <2>1, <2>2, <2>3, <2>4, <2>5 DEF ReplacerNext
<1> QED  BY <1>2, <1>3 DEF CallsInv

LEMMA TreeStep ==
  ASSUME TreeInv, CallsInv, ReplacerNext
  PROVE  TreeInv'
<1>1. CASE UNCHANGED disk
  BY <1>1 DEF TreeInv, FileNames
<1>2. CASE \E old \in Routes : rename(old, Renamed(old))
  BY <1>2, RenameTree
<1>3. CASE \E path : Edited(path)
  BY <1>3, EditedTree
<1> QED  BY <1>1, <1>2, <1>3, DiskStep

LEMMA Stuttered ==
  ASSUME UNCHANGED replacerVars
  PROVE  /\ TreeInv => TreeInv'
         /\ CallsInv => CallsInv'
         /\ UNCHANGED <<disk, params, visits, state>> /\ (FileNames)' = FileNames
BY DEF replacerVars, TreeInv, CallsInv, FileNames

LEMMA BeginsTyped == ReplacerInit => TreeInv /\ CallsInv
<1> SUFFICES ASSUME NEW start \in Disks, ReplacerInitWith(start) PROVE TreeInv /\ CallsInv
  BY DEF ReplacerInit
<1> DEFINE dirs == start.disk.dirs  files == start.disk.files
<1>1. /\ start.disk = [dirs |-> dirs, files |-> files]
      /\ start.params \in [mode : {0, 1}, fname : {NULL} \cup STRING]
      /\ start.base \in dirs /\ Len(start.base) = 1
      /\ dirs \subseteq Seq(Names) /\ <<>> \notin dirs
      /\ \A d \in dirs : d[1] = start.base[1] /\ (Len(d) > 1 => Parent(d) \in dirs)
      /\ files \in [DOMAIN files -> Seq(Seq(STRING))]
      /\ DOMAIN files \subseteq Seq(STRING) /\ \A f \in DOMAIN files : Parent(f) \in dirs
  BY ReplacerAssumption DEF DisksAssumption
<1>2. /\ disk = start.disk /\ params = start.params
      /\ visits = <<Visit(start.base)>> /\ state = "running"
  BY DEF ReplacerInitWith
<1>3. disk.dirs = dirs /\ disk.files = files /\ FileNames = DOMAIN files
  BY <1>2 DEF FileNames
<1>4. dirs \subseteq Routes
  <2>1. Names \subseteq STRING
    BY DEF Names
  <2>2. Seq(Names) \subseteq Seq(STRING)
    BY <2>1, SeqMonotonic
  <2> QED  BY <1>1, <2>2 DEF Routes
<1>5. DOMAIN files \subseteq Routes
  <2> SUFFICES ASSUME NEW f \in DOMAIN files, f = <<>> PROVE FALSE
    BY <1>1 DEF Routes
  <2>1. Parent(f) \in Routes
    BY <1>1, <1>4
  <2>2. Parent(f) = <<>>
    BY SubSeqEmpty DEF Parent
  <2> QED  BY <2>1, <2>2 DEF Routes
<1>6. TreeInv
  <2> HIDE DEF dirs, files, Routes
  <2>1. disk = [dirs |-> disk.dirs, files |-> disk.files]
    BY <1>1, <1>2, <1>3
  <2> QED  BY <1>1, <1>3, <1>4, <1>5, <2>1 DEF TreeInv, Lines
<1>7. CallsInv
  <2>1. Visit(start.base) \in VisitsOf
    BY <1>1, <1>4, <1>6, VisitTyped
  <2>2. visits \in Seq(VisitsOf) /\ visits # <<>>
    <3> HIDE DEF VisitsOf
    <3> QED  BY <1>2, <2>1
  <2>3. params.mode \in {0, 1} /\ params.fname \in {NULL} \cup STRING
    BY <1>1, <1>2
  <2> QED  BY <1>2, <2>2, <2>3 DEF CallsInv
<1> QED  BY <1>6, <1>7

\* The calls and the disk keep their types.
THEOREM TreesStaySound == ReplacerSpec => [](TreeInv /\ CallsInv)
<1>1. ReplacerInit => TreeInv /\ CallsInv
  BY BeginsTyped
<1>2. TreeInv /\ CallsInv /\ [ReplacerNext]_replacerVars => (TreeInv /\ CallsInv)'
  <2> SUFFICES ASSUME TreeInv, CallsInv, [ReplacerNext]_replacerVars PROVE TreeInv' /\ CallsInv'
    OBVIOUS
  <2>1. CASE ReplacerNext
    BY <2>1, TreeStep, CallsStep
  <2>2. CASE UNCHANGED replacerVars
    BY <2>2, Stuttered
  <2> QED  BY <2>1, <2>2
<1> QED  BY <1>1, <1>2, PTL DEF ReplacerSpec

\* What ReplacerTypeOK says, whatever the tree: a directory that is renamed takes
\* what is below it along.
THEOREM ReplacerTyped == ReplacerSpec => []ReplacerTypeOK
<1>1. TreeInv /\ CallsInv => ReplacerTypeOK
  BY DEF TreeInv, CallsInv, ReplacerTypeOK
<1> QED  BY <1>1, TreesStaySound, PTL

\* A step that renames, of a directory that holds any number of others, or of a
\* file in place of another, moves whole files, and changes names nowhere else.
THEOREM NamesAlone == ReplacerSpec => OnlyNamesChange
<1> DEFINE Kept == params.mode = 0 => \A f \in FileNames : \E g \in (FileNames)' : KeptAs(f, g)
<1>1. TreeInv /\ CallsInv /\ [ReplacerNext]_replacerVars => Kept
  <2> SUFFICES ASSUME TreeInv, CallsInv, [ReplacerNext]_replacerVars, params.mode = 0,
                      NEW f \in FileNames
               PROVE  \E g \in (FileNames)' : KeptAs(f, g)
    OBVIOUS
  <2>1. CASE UNCHANGED disk
    BY <2>1 DEF FileNames, KeptAs
  <2>2. CASE \E old \in Routes : rename(old, Renamed(old))
    BY <2>2, RenameKeeps
  <2>3. ~ \E path : Edited(path)
    BY DEF Edited
  <2>4. CASE ReplacerNext
    BY <2>1, <2>2, <2>3, <2>4, DiskStep
  <2>5. CASE UNCHANGED replacerVars
    BY <2>1, <2>5, Stuttered
  <2> QED  BY <2>4, <2>5
<1>2. Kept => (params.mode = 0 => \A f \in FileNames :
       \E g \in DOMAIN disk'.files :
         /\ Len(g) = Len(f) /\ \A k \in DOMAIN f : g[k] \in {f[k], IF f[k] = Pattern THEN Replacement ELSE f[k]}
         /\ disk'.files[g] = disk.files[f] \/ g \in FileNames)
  BY DEF FileNames, KeptAs
<1>3. TreeInv /\ CallsInv /\ [ReplacerNext]_replacerVars =>
        (params.mode = 0 => \A f \in FileNames :
           \E g \in DOMAIN disk'.files :
             /\ Len(g) = Len(f) /\ \A k \in DOMAIN f : g[k] \in {f[k], IF f[k] = Pattern THEN Replacement ELSE f[k]}
             /\ disk'.files[g] = disk.files[f] \/ g \in FileNames)
  BY <1>1, <1>2
<1> QED  BY <1>3, TreesStaySound, PTL DEF ReplacerSpec, OnlyNamesChange

-----------------------------------------------------------------------------
(***************************************************************************)
(* The pattern is put into a text once.                                     *)
(***************************************************************************)
LEMMA OnceStep ==
  ASSUME TreeInv, CallsInv, PatternOnce, ReplacerNext
  PROVE  PatternOnce'
<1>1. CASE UNCHANGED disk
  BY <1>1 DEF PatternOnce, FileNames
<1>2. ASSUME NEW old \in Routes, rename(old, Renamed(old)) PROVE PatternOnce'
  <2> DEFINE new == Renamed(old)
  <2>1. CASE ~CanRename(old, new)
    <3>1. UNCHANGED disk
      BY <1>2, <2>1 DEF rename
    <3> QED  BY <1>1, <3>1
  <2>2. CASE CanRename(old, new)
    <3>1. TreeMoved(old, new)
      BY <1>2, <2>2, RenameEffect
    <3> HIDE DEF new
    <3>2. \A g \in (FileNames)' : \E f \in FileNames : disk'.files[g] = disk.files[f]
      <4>1. \A g \in (FileNames)' :
              \E f \in Staying(old, new) :
                Moved(f, old, new) = g /\ disk'.files[g] = disk.files[f]
        BY ONLY <3>1, Zenon DEF TreeMoved
      <4> QED  BY <4>1 DEF Staying
    <3>3. \A g \in (FileNames)' : ~Doubled(disk'.files[g])
      <4> HIDE DEF Doubled
      <4> QED  BY <3>2 DEF PatternOnce
    <3> QED  BY <3>3 DEF PatternOnce
  <2> QED  BY <2>1, <2>2
<1>3. ASSUME NEW path, Edited(path) PROVE PatternOnce'
  <2>1. /\ (FileNames)' = FileNames
        /\ \A f \in FileNames : disk'.files[f] = disk.files[f] \/ ~Doubled(disk'.files[f])
    BY <1>3, EditedTree
  <2> HIDE DEF Doubled
  <2>2. \A f \in (FileNames)' : ~Doubled(disk'.files[f])
    BY <2>1 DEF PatternOnce
  <2> QED  BY <2>2 DEF PatternOnce
<1> QED  BY <1>1, <1>2, <1>3, DiskStep

LEMMA BeginsFresh == FreshTexts /\ ReplacerInit => PatternOnce
<1> SUFFICES ASSUME FreshTexts, NEW start \in Disks, ReplacerInitWith(start) PROVE PatternOnce
  BY DEF ReplacerInit
<1>1. disk = start.disk
  BY DEF ReplacerInitWith
<1> QED  BY <1>1 DEF FreshTexts, PatternOnce, FileNames

-----------------------------------------------------------------------------
(***************************************************************************)
(* A plain tree: no directory is renamed, and the calls go through it from  *)
(* the base on.                                                             *)
(***************************************************************************)
VisitSound(visit, k, dirs) ==
  /\ visit.dir \in dirs /\ Len(visit.dir) = k /\ visit.search_path = visit.dir
  /\ \A item \in visit.todo :
       item.kind = "dir" /\ item.name \notin Dots => Append(visit.dir, item.name) \in dirs
VisitsSound == \A k \in DOMAIN visits : VisitSound(visits[k], k, disk.dirs)
OneBase == \A d \in disk.dirs : d \in Seq(Names) /\ d[1] = base[1]

\* A file is still to be met when the next part of its path is still to come, in
\* the call of one of the directories on it.
Item(f, k) == [kind |-> IF k + 1 = Len(f) THEN "file" ELSE "dir", name |-> f[k + 1]]
Meets(visit, f, k) == k < Len(f) /\ SubSeq(f, 1, k) = visit.dir /\ Item(f, k) \in visit.todo
ToBeMet(f) == \E k \in DOMAIN visits : Meets(visits[k], f, k)
NothingMissed == \A f \in FileNames : Selected(f) /\ f[Len(f)] = Pattern => ToBeMet(f)
AtEnd == state = "returned" => Len(visits) = 1 /\ visits[1].todo = {}

PlainInv == Plain /\ params.mode = 0 => VisitsSound /\ OneBase /\ NothingMissed /\ AtEnd

\* A directory that is renamed gets the replacement in its path.
LEMMA PlainDirs ==
  ASSUME TreeInv, CallsInv, ReplacerNext, Plain', params.mode = 0
  PROVE  disk'.dirs = disk.dirs
<1>1. ~ \E path : Edited(path)
  BY DEF Edited
<1>2. ASSUME NEW old \in Routes, rename(old, Renamed(old)) PROVE disk'.dirs = disk.dirs
  <2> DEFINE new == Renamed(old)
  <2>1. CASE ~CanRename(old, new)
    BY <1>2, <2>1 DEF rename
  <2>2. CASE CanRename(old, new)
    <3>1. TreeMoved(old, new)
      BY <1>2, <2>2, RenameEffect
    <3>2. /\ new \in Routes /\ Len(new) = Len(old)
          /\ \A k \in 1 .. Len(old) : new[k] = IF old[k] = Pattern THEN Replacement ELSE old[k]
      BY RenamedRoute
    <3>3. new # old
      BY <2>2 DEF CanRename
    <3> HIDE DEF new
    <3>4. disk'.dirs = {Moved(d, old, new) : d \in disk.dirs}
      BY ONLY <3>1, Zenon DEF TreeMoved
    <3>5. PICK k \in 1 .. Len(old) : new[k] # old[k]
      <4>1. old \in Seq(STRING) /\ new \in Seq(STRING)
        BY <3>2, RouteParts
      <4> QED  BY ONLY <3>2, <3>3, <4>1, SeqEqual
    <3>6. new[k] = Replacement
      BY <3>2, <3>5
    <3>7. \A d \in disk.dirs : Moved(d, old, new) = d
      <4> SUFFICES ASSUME NEW d \in disk.dirs, Below(d, old) PROVE FALSE
        BY <3>2, MovedRoute DEF TreeInv
      <4> DEFINE e == Moved(d, old, new)
      <4>1. d \in Routes /\ Len(d) \in Nat /\ Len(old) \in Nat /\ Len(d) >= Len(old)
        BY RouteParts DEF TreeInv, Below
      <4>2. k \in 1 .. Len(d) /\ k <= Len(old)
        BY <4>1
      <4>3. e \in Routes /\ Len(e) = Len(d) /\ e[k] = new[k]
        BY <3>2, <4>1, <4>2, MovedRoute
      <4>4. e \in disk'.dirs
        BY <3>4
      <4> HIDE DEF e
      <4>5. k \in DOMAIN e
        BY <4>2, <4>3, LenProperties DEF Routes
      <4> QED  BY <3>6, <4>3, <4>4, <4>5 DEF Plain
    <3> QED  BY <3>4, <3>7
  <2> QED  BY <2>1, <2>2
<1> QED  BY <1>1, <1>2, DiskStep

\* A path without the pattern in it keeps its names.
LEMMA PlainName ==
  ASSUME NEW d \in Routes, \A k \in 1 .. Len(d) : d[k] # Pattern
  PROVE  Renamed(d) = d
<1>1. /\ Renamed(d) \in Routes /\ Len(Renamed(d)) = Len(d)
      /\ \A k \in 1 .. Len(d) : Renamed(d)[k] = IF d[k] = Pattern THEN Replacement ELSE d[k]
  BY RenamedRoute
<1>2. d \in Seq(STRING) /\ Renamed(d) \in Seq(STRING)
  BY <1>1, RouteParts
<1>3. \A k \in 1 .. Len(d) : Renamed(d)[k] = d[k]
  BY <1>1
<1> QED  BY ONLY <1>1, <1>2, <1>3, SeqEqual

LEMMA PlainDirectory ==
  ASSUME TreeInv, Plain, NEW d \in disk.dirs
  PROVE  /\ d \in Routes /\ Len(d) \in 1 .. 3 /\ \A k \in 1 .. Len(d) : d[k] \notin {Pattern, Replacement}
         /\ Renamed(d) = d /\ RenameDirectory(d) = d
         /\ rename(d, RenameDirectory(d)) => UNCHANGED disk
<1>1. d \in Routes
  BY DEF TreeInv
<1>2. Len(d) \in Nat \ {0} /\ DOMAIN d = 1 .. Len(d)
  BY <1>1, RouteParts, LenProperties
<1>3. Len(d) \in 1 .. 3 /\ \A k \in 1 .. Len(d) : d[k] \notin {Pattern, Replacement}
  BY <1>2 DEF Plain
<1>4. Renamed(d) = d
  BY <1>1, <1>3, PlainName
<1>5. RenameDirectory(d) = d
  BY <1>4 DEF RenameDirectory
<1>6. ~CanRename(d, d)
  BY DEF CanRename
<1> QED  BY <1>1, <1>3, <1>4, <1>5, <1>6 DEF rename

\* Every directory on the way to a file is there.
LEMMA WayThere ==
  ASSUME TreeInv, NEW f \in FileNames, NEW k \in 1 .. Len(f) - 1
  PROVE  SubSeq(f, 1, k) \in disk.dirs
<1> DEFINE n == Len(f) - 1
           Bad == {m \in Nat : m < n /\ SubSeq(f, 1, n - m) \notin disk.dirs}
<1>1. f \in Seq(STRING) /\ Len(f) \in Nat \ {0} /\ SubSeq(f, 1, n) \in disk.dirs
  BY RouteParts DEF TreeInv, Parent
<1>2. ASSUME NEW m \in 1 .. n, m > 1, SubSeq(f, 1, m) \in disk.dirs
      PROVE  SubSeq(f, 1, m - 1) \in disk.dirs
  <2> DEFINE d == SubSeq(f, 1, m)
  <2>1. m \in 0 .. Len(f) /\ m - 1 \in 0 .. Len(f)
    BY <1>1
  <2>2. d \in Seq(STRING) /\ Len(d) = m /\ \A j \in 1 .. m : d[j] = f[j]
    BY ONLY <1>1, <2>1, FrontOf
  <2>3. /\ SubSeq(f, 1, m - 1) \in Seq(STRING) /\ Len(SubSeq(f, 1, m - 1)) = m - 1
        /\ \A j \in 1 .. m - 1 : SubSeq(f, 1, m - 1)[j] = f[j]
    BY ONLY <1>1, <2>1, FrontOf
  <2> HIDE DEF d, n
  <2>4. d \in disk.dirs /\ d \in Routes
    BY <1>2 DEF d, TreeInv
  <2>5. Parent(d) \in disk.dirs
    BY <1>2, <2>2, <2>4 DEF TreeInv
  <2>6. /\ Parent(d) \in Seq(STRING) /\ Len(Parent(d)) = m - 1
        /\ \A j \in 1 .. m - 1 : Parent(d)[j] = d[j]
    <3>1. /\ Parent(d) \in Seq(STRING) /\ Len(Parent(d)) = Len(d) - 1
          /\ \A j \in 1 .. Len(d) - 1 : Parent(d)[j] = d[j]
      BY <2>4, RouteParts
    <3> QED  BY ONLY <2>2, <3>1
  <2>7. \A j \in 1 .. m - 1 : j \in 1 .. m
    BY <2>1
  <2>8. \A j \in 1 .. m - 1 : Parent(d)[j] = SubSeq(f, 1, m - 1)[j]
    BY ONLY <2>2, <2>3, <2>6, <2>7
  <2>9. Parent(d) = SubSeq(f, 1, m - 1)
    BY ONLY <2>3, <2>6, <2>8, SeqEqual
  <2> QED  BY <2>5, <2>9
<1> HIDE DEF n
<1>3. n \in Nat
  BY <1>1 DEF n
<1>4. ASSUME Bad # {} PROVE FALSE
  <2>1. PICK m \in Bad : \A j \in Bad : m <= j
    BY <1>4, LeastElement
  <2>2. m # 0 /\ m \in Nat /\ m < n /\ SubSeq(f, 1, n - m) \notin disk.dirs
    <3>1. n - 0 = n
      BY <1>3
    <3> QED  BY <1>1, <3>1
  <2>3. m - 1 \in Nat /\ m - 1 < n /\ m - 1 \notin Bad
    <3> HIDE DEF Bad
    <3> QED  BY <1>3, <2>1, <2>2
  <2>4. SubSeq(f, 1, n - (m - 1)) \in disk.dirs
    BY <2>3
  <2>5. n - (m - 1) \in 1 .. n /\ n - (m - 1) > 1 /\ n - (m - 1) - 1 = n - m
    BY <1>3, <2>2
  <2>6. SubSeq(f, 1, n - (m - 1) - 1) \in disk.dirs
    BY ONLY <1>2, <2>4, <2>5
  <2> QED  BY <2>2, <2>5, <2>6
<1>5. n - k \in Nat /\ n - k < n /\ n - (n - k) = k
  BY <1>3 DEF n
<1> QED  BY <1>4, <1>5

\* The next part of a file's path is an entry of each directory on it.
LEMMA ListingHas ==
  ASSUME TreeInv, NEW f \in FileNames, NEW k \in 1 .. Len(f) - 1
  PROVE  /\ Meets(Visit(SubSeq(f, 1, k)), f, k)
         /\ SubSeq(f, 1, k + 1) = Append(SubSeq(f, 1, k), f[k + 1])
<1> DEFINE d == SubSeq(f, 1, k)  e == SubSeq(f, 1, k + 1)
<1>1. f \in Seq(STRING) /\ Len(f) \in Nat \ {0} /\ \A j \in 1 .. Len(f) : f[j] \in STRING
  BY RouteParts DEF TreeInv
<1>2. k \in 0 .. Len(f) /\ k + 1 \in 0 .. Len(f) /\ k < Len(f) /\ k + 1 \in 1 .. Len(f)
  BY <1>1
<1>3. d \in Seq(STRING) /\ Len(d) = k /\ \A j \in 1 .. k : d[j] = f[j]
  BY ONLY <1>1, <1>2, FrontOf
<1>4. e \in Seq(STRING) /\ Len(e) = k + 1 /\ \A j \in 1 .. k + 1 : e[j] = f[j]
  BY ONLY <1>1, <1>2, FrontOf
<1>5. e = Append(d, f[k + 1])
  <2> HIDE DEF d, e
  <2>1. f[k + 1] \in STRING
    BY <1>1, <1>2
  <2>2. /\ Append(d, f[k + 1]) \in Seq(STRING) /\ Len(Append(d, f[k + 1])) = k + 1
        /\ \A j \in 1 .. k : Append(d, f[k + 1])[j] = d[j]
        /\ Append(d, f[k + 1])[k + 1] = f[k + 1]
    <3>1. /\ Append(d, f[k + 1]) \in Seq(STRING) /\ Len(Append(d, f[k + 1])) = Len(d) + 1
          /\ \A j \in 1 .. Len(d) : Append(d, f[k + 1])[j] = d[j]
          /\ Append(d, f[k + 1])[Len(d) + 1] = f[k + 1]
      BY ONLY <1>3, <2>1, AppendProperties
    <3> QED  BY ONLY <1>3, <3>1
  <2>3. \A j \in 1 .. k + 1 : e[j] = Append(d, f[k + 1])[j]
    <3> SUFFICES ASSUME NEW j \in 1 .. k + 1 PROVE e[j] = Append(d, f[k + 1])[j]
      OBVIOUS
    <3>1. j # k + 1 => j \in 1 .. k
      BY <1>2
    <3> QED  BY ONLY <1>3, <1>4, <2>2, <3>1, j \in 1 .. k + 1
  <2> QED  BY ONLY <1>4, <2>2, <2>3, SeqEqual
<1>6. Item(f, k) \in Listing(d)
  <2>1. CASE k + 1 = Len(f)
    <3>1. Parent(f) = d /\ k + 1 = Len(f)
      <4>1. Len(f) - 1 = k
        BY <1>1, <2>1
      <4> QED  BY <2>1, <4>1 DEF Parent
    <3> HIDE DEF d
    <3>2. Item(f, k) = [kind |-> "file", name |-> f[Len(f)]]
      BY <2>1 DEF Item
    <3> QED  BY <3>1, <3>2 DEF Listing
  <2>2. CASE k + 1 # Len(f)
    <3>1. k + 1 \in 1 .. Len(f) - 1
      BY <1>1, <1>2, <2>2
    <3>2. e \in disk.dirs
      BY <3>1, WayThere
    <3>3. Len(e) > 1 /\ Parent(e) = d
      <4>1. k + 1 > 1 /\ k + 1 - 1 = k
        BY <1>2
      <4>2. Parent(e) = SubSeq(e, 1, k)
        BY <1>4, <4>1 DEF Parent
      <4>3. k \in 0 .. Len(e)
        BY <1>2, <1>4
      <4> HIDE DEF d, e
      <4>4. SubSeq(e, 1, k) \in Seq(STRING) /\ Len(SubSeq(e, 1, k)) = k /\ \A j \in 1 .. k : SubSeq(e, 1, k)[j] = e[j]
        BY ONLY <1>4, <4>3, FrontOf
      <4>5. \A j \in 1 .. k : j \in 1 .. k + 1
        BY <1>2
      <4>6. \A j \in 1 .. k : SubSeq(e, 1, k)[j] = d[j]
        BY ONLY <1>3, <1>4, <4>4, <4>5
      <4>7. SubSeq(e, 1, k) = d
        BY ONLY <1>3, <4>4, <4>6, SeqEqual
      <4> QED  BY <1>4, <4>1, <4>2, <4>7
    <3>4. Item(f, k) = [kind |-> "dir", name |-> e[Len(e)]]
      <4>1. e[Len(e)] = f[k + 1]
        BY <1>2, <1>4
      <4> QED  BY <2>2, <4>1 DEF Item
    <3> HIDE DEF d, e
    <3> QED  BY <3>2, <3>3, <3>4 DEF Listing
  <2> QED  BY <2>1, <2>2
<1>7. Visit(d).dir = d /\ Visit(d).todo = Listing(d)
  BY DEF Visit
<1> HIDE DEF d, e
<1>8. Meets(Visit(d), f, k)
  BY <1>2, <1>6, <1>7 DEF Meets, d
<1> QED  BY <1>5, <1>8 DEF d, e

\* What a call of scan_dir makes of a subdirectory's name is its path.
LEMMA TargetPlain ==
  ASSUME TreeInv, CallsInv, Plain, VisitsSound, OneBase,
         NEW name \in STRING, Append(Current.dir, name) \in disk.dirs
  PROVE  Target(name) = Append(Current.dir, name)
<1> DEFINE d == Current.dir  n == Len(visits)  e == Append(d, name)
<1>1. n \in Nat \ {0} /\ DOMAIN visits = 1 .. n /\ Current = visits[n]
  BY TopCall
<1>2. d \in disk.dirs /\ Len(d) = n /\ base \in disk.dirs /\ Len(base) = 1
  <2>1. 1 \in 1 .. n /\ n \in 1 .. n
    BY <1>1
  <2> QED  BY <1>1, <2>1 DEF VisitsSound, VisitSound, base
<1>3. d \in Seq(STRING) /\ base \in Seq(STRING) /\ e \in Routes /\ Len(e) \in 1 .. 3
      /\ \A k \in 1 .. n : d[k] \in STRING
  BY <1>2, PlainDirectory, RouteParts
<1>4. /\ e \in Seq(STRING) /\ Len(e) = n + 1
      /\ \A k \in 1 .. n : e[k] = d[k]
      /\ e[n + 1] = name
  <2>1. /\ e \in Seq(STRING) /\ Len(e) = Len(d) + 1
        /\ \A k \in 1 .. Len(d) : e[k] = d[k]
        /\ e[Len(d) + 1] = name
    BY ONLY <1>3, name \in STRING, AppendProperties
  <2> QED  BY ONLY <1>2, <2>1
<1>5. n \in {1, 2}
  BY ONLY <1>1, <1>3, <1>4
<1>6. CASE n = 1
  BY <1>1, <1>6 DEF Target, base
<1>7. CASE n = 2
  <2>1. d # base
    BY <1>2, <1>7
  <2>2. Target(name) = base \o <<d[2], name>>
    BY <1>2, <1>7, <2>1 DEF Target
  <2> DEFINE last == <<d[2], name>>  t == base \o last
  <2>3. last \in Seq(STRING) /\ Len(last) = 2 /\ last[1] = d[2] /\ last[2] = name
    <3>1. d[2] \in STRING
      BY <1>3, <1>7
    <3> QED  BY <3>1
  <2> HIDE DEF last
  <2>4. /\ t \in Seq(STRING) /\ Len(t) = 1 + 2
        /\ \A k \in 1 .. 3 : t[k] = IF k <= 1 THEN base[k] ELSE last[k - 1]
    <3>1. /\ t \in Seq(STRING) /\ Len(t) = Len(base) + Len(last)
          /\ \A k \in 1 .. Len(base) + Len(last) :
               t[k] = IF k <= Len(base) THEN base[k] ELSE last[k - Len(base)]
      BY ONLY <1>3, <2>3, ConcatProperties
    <3>2. Len(base) = 1 /\ Len(base) + Len(last) = 3
      BY <1>2, <2>3
    <3> QED  BY ONLY <3>1, <3>2
  <2>5. base[1] = d[1]
    BY <1>2 DEF OneBase
  <2> HIDE DEF t, e
  <2>6. t[1] = e[1] /\ t[2] = e[2] /\ t[3] = e[3]
    <3>1. t[1] = base[1] /\ t[2] = last[1] /\ t[3] = last[2]
      BY <2>4
    <3>2. e[1] = d[1] /\ e[2] = d[2] /\ e[3] = name
      BY <1>4, <1>7
    <3> QED  BY <2>3, <2>5, <3>1, <3>2
  <2>7. Len(t) = 3 /\ Len(e) = 3 /\ \A k \in 1 .. 3 : k = 1 \/ k = 2 \/ k = 3
    BY <1>4, <1>7, <2>4
  <2>8. \A k \in 1 .. 3 : t[k] = e[k]
    BY ONLY <2>6, <2>7
  <2>9. t = e
    BY ONLY <1>4, <2>4, <2>7, <2>8, SeqEqual
  <2> QED  BY <2>2, <2>9 DEF t, last, e
<1> QED  BY <1>5, <1>6, <1>7

\* An entry that is done: what is to be met but for it still is.
LEMMA EntryDone ==
  ASSUME CallsInv, VisitsSound, OneBase, disk'.dirs = disk.dirs,
         NEW entry, visits' = Append(Callers, Without(entry))
  PROVE  /\ VisitsSound' /\ OneBase'
         /\ \A f : ToBeMet(f) =>
              \/ (ToBeMet(f))'
              \/ Meets(Current, f, Len(visits)) /\ Item(f, Len(visits)) = entry
<1> DEFINE n == Len(visits)  call == Without(entry)
<1>1. n \in Nat \ {0} /\ DOMAIN visits = 1 .. n /\ Current = visits[n] /\ Current \in VisitsOf
  BY TopCall
<1>2. call \in VisitsOf /\ call.dir = Current.dir /\ call.search_path = Current.search_path
      /\ call.todo = Current.todo \ {entry}
  BY <1>1 DEF Without, VisitsOf
<1> HIDE DEF call
<1>3. /\ DOMAIN visits' = 1 .. n /\ visits'[n] = call
      /\ \A k \in 1 .. n - 1 : visits'[k] = visits[k]
  <2>1. /\ visits' \in Seq(VisitsOf) /\ Len(visits') = n /\ visits'[n] = call
        /\ \A k \in 1 .. n - 1 : visits'[k] = visits[k]
    BY <1>2, CallChanged DEF call
  <2> QED  BY ONLY <2>1, LenProperties
<1> HIDE DEF n
<1>4. \A k \in 1 .. n : k # n => k \in 1 .. n - 1
  BY <1>1
<1>5. VisitsSound'
  <2> SUFFICES ASSUME NEW k \in 1 .. n PROVE VisitSound(visits'[k], k, disk.dirs)
    BY <1>3 DEF VisitsSound
  <2>1. VisitSound(visits[k], k, disk.dirs)
    BY <1>1 DEF VisitsSound
  <2>2. CASE k = n
    BY <1>1, <1>2, <1>3, <2>1, <2>2 DEF VisitSound
  <2>3. CASE k # n
    BY <1>3, <1>4, <2>1, <2>3 DEF VisitSound
  <2> QED  BY <2>2, <2>3
<1>6. OneBase'
  <2>1. visits'[1].dir = visits[1].dir
    <3>1. 1 \in 1 .. n
      BY <1>1
    <3> QED  BY <1>1, <1>2, <1>3, <1>4, <3>1
  <2> QED  BY <2>1 DEF OneBase, base
<1>7. ASSUME NEW f, ToBeMet(f), ~(Meets(Current, f, n) /\ Item(f, n) = entry)
      PROVE  (ToBeMet(f))'
  <2>1. PICK k \in 1 .. n : Meets(visits[k], f, k)
    BY <1>1, <1>7 DEF ToBeMet
  <2>2. Meets(visits'[k], f, k)
    <3>1. CASE k = n
      BY <1>1, <1>2, <1>3, <1>7, <2>1, <3>1 DEF Meets
    <3>2. CASE k # n
      BY <1>3, <1>4, <2>1, <3>2
    <3> QED  BY <3>1, <3>2
  <2> QED  BY <1>3, <2>2 DEF ToBeMet
<1> QED  BY <1>5, <1>6, <1>7 DEF n

\* A call that ends has had all of its entries.
LEMMA VisitEnded ==
  ASSUME CallsInv, VisitsSound, OneBase, disk'.dirs = disk.dirs,
         Len(visits) > 1, Current.todo = {},
         visits' = [Callers EXCEPT ![Len(Callers)].search_path = visits[Len(visits) - 1].search_path]
  PROVE  /\ VisitsSound' /\ OneBase' /\ \A f : ToBeMet(f) => (ToBeMet(f))'
<1> DEFINE n == Len(visits)  path == visits[n - 1].search_path
<1>1. /\ n \in Nat \ {0} /\ DOMAIN visits = 1 .. n /\ Current = visits[n]
      /\ \A k \in 1 .. n : visits[k] \in VisitsOf
  BY TopCall
<1>2. n - 1 \in 1 .. n /\ path \in Routes
  <2>1. n - 1 \in 1 .. n
    BY <1>1
  <2> QED  BY <1>1, <2>1 DEF VisitsOf
<1>3. /\ DOMAIN visits' = 1 .. n - 1 /\ visits'[n - 1] = [visits[n - 1] EXCEPT !.search_path = path]
      /\ \A k \in 1 .. n - 2 : visits'[k] = visits[k]
  <2>1. /\ visits' \in Seq(VisitsOf) /\ Len(visits') = n - 1
        /\ visits'[n - 1] = [visits[n - 1] EXCEPT !.search_path = path]
        /\ \A k \in 1 .. n - 2 : visits'[k] = visits[k]
    BY <1>2, CallEnded
  <2> QED  BY ONLY <2>1, LenProperties
<1>4. \A k \in 1 .. n - 1 : visits'[k] = visits[k]
  <2>1. visits'[n - 1] = visits[n - 1]
    BY <1>1, <1>2, <1>3 DEF VisitsOf
  <2>2. \A k \in 1 .. n - 1 : k = n - 1 \/ k \in 1 .. n - 2
    BY <1>1
  <2> QED  BY <1>3, <2>1, <2>2
<1>5. \A k \in 1 .. n - 1 : k \in DOMAIN visits
  BY <1>1
<1>6. VisitsSound'
  BY <1>3, <1>4, <1>5 DEF VisitsSound, VisitSound
<1>7. OneBase'
  <2>1. 1 \in 1 .. n - 1
    BY <1>1
  <2> QED  BY <1>4, <2>1 DEF OneBase, base
<1>8. ASSUME NEW f, ToBeMet(f) PROVE (ToBeMet(f))'
  <2>1. PICK k \in 1 .. n : Meets(visits[k], f, k)
    BY <1>1, <1>8 DEF ToBeMet
  <2>2. k # n
    BY <1>1, <2>1 DEF Meets
  <2>3. k \in 1 .. n - 1
    BY <1>1, <2>2
  <2> QED  BY <1>3, <1>4, <2>1, <2>3 DEF ToBeMet
<1> QED  BY <1>6, <1>7, <1>8

\* The directories that are listed are there.
LEMMA VisitIsSound ==
  ASSUME TreeInv, NEW path \in disk.dirs
  PROVE  VisitSound(Visit(path), Len(path), disk.dirs)
<1>1. ASSUME NEW d \in disk.dirs, Len(d) > 1, Parent(d) = path
      PROVE  Append(path, d[Len(d)]) = d
  <2> DEFINE n == Len(d)
  <2>1. /\ d \in Seq(STRING) /\ n \in Nat \ {0} /\ d[n] \in STRING
        /\ path \in Seq(STRING) /\ Len(path) = n - 1 /\ \A k \in 1 .. n - 1 : path[k] = d[k]
    <3>1. d \in Routes
      BY DEF TreeInv
    <3>2. n \in 1 .. n
      BY <3>1, RouteParts
    <3> QED  BY <1>1, <3>1, <3>2, RouteParts
  <2> HIDE DEF n
  <2>2. /\ Append(path, d[n]) \in Seq(STRING) /\ Len(Append(path, d[n])) = Len(path) + 1
        /\ \A k \in 1 .. Len(path) : Append(path, d[n])[k] = path[k]
        /\ Append(path, d[n])[Len(path) + 1] = d[n]
    BY ONLY <2>1, AppendProperties
  <2>3. Len(path) + 1 = n /\ \A k \in 1 .. n : k # n => k \in 1 .. n - 1
    BY <2>1
  <2>4. \A k \in 1 .. n : Append(path, d[n])[k] = d[k]
    BY ONLY <2>1, <2>2, <2>3
  <2>5. Append(path, d[n]) = d
    <3>1. Len(d) = n /\ Len(Append(path, d[n])) = n
      BY <2>2, <2>3 DEF n
    <3> QED  BY ONLY <2>1, <2>2, <2>4, <3>1, SeqEqual
  <2> QED  BY <2>5 DEF n
<1>2. ASSUME NEW item \in Listing(path), item.kind = "dir", item.name \notin Dots
      PROVE  Append(path, item.name) \in disk.dirs
  <2>1. PICK d \in disk.dirs : Len(d) > 1 /\ Parent(d) = path /\ item.name = d[Len(d)]
    <3>1. item \notin {[kind |-> "file", name |-> f[Len(f)]] : f \in {g \in FileNames : Parent(g) = path}}
      BY <1>2
    <3>2. item \notin {[kind |-> "dir", name |-> dot] : dot \in Dots}
      <4> HIDE DEF Dots
      <4> QED  BY <1>2
    <3>3. item \in {[kind |-> "dir", name |-> d[Len(d)]] : d \in {e \in disk.dirs : Len(e) > 1 /\ Parent(e) = path}}
      BY <1>2, <3>1, <3>2 DEF Listing
    <3> QED  BY <3>3
  <2> QED  BY <1>1, <2>1
<1> QED  BY <1>2 DEF VisitSound, Visit

\* A call that begins: what its directory was to be met for is in it.
LEMMA VisitBegun ==
  ASSUME TreeInv, CallsInv, Plain, VisitsSound, OneBase, UNCHANGED disk,
         NEW entry \in Current.todo, entry.kind = "dir", entry.name \notin Dots,
         visits' = Append(Append(Callers, Without(entry)), Visit(Target(entry.name)))
  PROVE  /\ VisitsSound' /\ OneBase'
         /\ \A f \in FileNames : ToBeMet(f) => (ToBeMet(f))'
<1> DEFINE n == Len(visits)  call == Without(entry)  t == Append(Current.dir, entry.name)
<1>1. n \in Nat \ {0} /\ DOMAIN visits = 1 .. n /\ Current = visits[n] /\ Current \in VisitsOf
  BY TopCall
<1>2. call \in VisitsOf /\ call.dir = Current.dir /\ call.search_path = Current.search_path
      /\ call.todo = Current.todo \ {entry}
  BY <1>1 DEF Without, VisitsOf
<1>3. VisitSound(Current, n, disk.dirs)
  BY <1>1 DEF VisitsSound
<1>4. entry.name \in STRING
  <2>1. entry \in Items
    BY <1>1 DEF VisitsOf
  <2> HIDE DEF Dots
  <2> QED  BY <2>1 DEF Items
<1>5. t \in disk.dirs /\ Current.dir \in disk.dirs /\ Len(Current.dir) = n
  BY <1>3 DEF VisitSound
<1>6. Target(entry.name) = t
  BY <1>4, <1>5, TargetPlain
<1>7. t \in Routes /\ Len(t) = n + 1
  <2>1. t \in Routes /\ Current.dir \in Seq(STRING)
    BY <1>5, PlainDirectory, RouteParts
  <2>2. Len(t) = Len(Current.dir) + 1
    BY ONLY <1>4, <2>1, AppendProperties
  <2> QED  BY <1>5, <2>1, <2>2
<1>8. Visit(t) \in VisitsOf /\ VisitSound(Visit(t), n + 1, disk.dirs)
  BY <1>5, <1>7, VisitTyped, VisitIsSound
<1> HIDE DEF call, t
<1>9. /\ DOMAIN visits' = 1 .. n + 1 /\ visits'[n] = call /\ visits'[n + 1] = Visit(t)
      /\ \A k \in 1 .. n - 1 : visits'[k] = visits[k]
  <2>1. visits' = Append(Append(Callers, call), Visit(t))
    BY <1>6 DEF call
  <2>2. /\ visits' \in Seq(VisitsOf) /\ Len(visits') = n + 1
        /\ visits'[n] = call /\ visits'[n + 1] = Visit(t)
        /\ \A k \in 1 .. n - 1 : visits'[k] = visits[k]
    BY <1>2, <1>8, <2>1, CallBegun
  <2> QED  BY ONLY <2>2, LenProperties
<1> HIDE DEF n
<1>10. /\ \A k \in 1 .. n + 1 : k = n + 1 \/ k = n \/ k \in 1 .. n - 1
       /\ \A k \in 1 .. n : k = n \/ k \in 1 .. n - 1
       /\ \A k \in 1 .. n : k \in 1 .. n + 1
       /\ 1 \in 1 .. n /\ n + 1 \in 1 .. n + 1 /\ \A k \in 1 .. n - 1 : k \in 1 .. n
  BY <1>1
<1>11. VisitsSound'
  <2> SUFFICES ASSUME NEW k \in 1 .. n + 1 PROVE VisitSound(visits'[k], k, disk.dirs)
    BY <1>9 DEF VisitsSound
  <2>1. CASE k = n + 1
    BY <1>8, <1>9, <2>1
  <2>2. CASE k = n
    BY <1>2, <1>3, <1>9, <2>2 DEF VisitSound
  <2>3. CASE k \in 1 .. n - 1
    BY <1>1, <1>9, <1>10, <2>3 DEF VisitsSound
  <2> QED  BY <1>10, <2>1, <2>2, <2>3
<1>12. OneBase'
  <2>1. visits'[1].dir = visits[1].dir
    BY <1>1, <1>2, <1>9, <1>10
  <2> QED  BY <2>1 DEF OneBase, base
<1>13. ASSUME NEW f \in FileNames, ToBeMet(f) PROVE (ToBeMet(f))'
  <2>1. PICK k \in 1 .. n : Meets(visits[k], f, k)
    BY <1>1, <1>13 DEF ToBeMet
  <2>2. CASE k # n
    <3>1. Meets(visits'[k], f, k)
      BY <1>9, <1>10, <2>1, <2>2
    <3> QED  BY <1>9, <1>10, <3>1 DEF ToBeMet
  <2>3. CASE k = n /\ Item(f, n) # entry
    <3>1. Meets(visits'[n], f, n)
      BY <1>1, <1>2, <1>9, <2>1, <2>3 DEF Meets
    <3> QED  BY <1>9, <1>10, <2>3, <3>1 DEF ToBeMet
  <2>4. CASE k = n /\ Item(f, n) = entry
    <3>1. n < Len(f) /\ SubSeq(f, 1, n) = Current.dir
      BY <1>1, <2>1, <2>4 DEF Meets
    <3>2. f[n + 1] = entry.name /\ n + 1 # Len(f)
      BY <2>4 DEF Item
    <3>3. Len(f) \in Nat
      BY RouteParts DEF TreeInv
    <3>4. n \in 1 .. Len(f) - 1 /\ n + 1 \in 1 .. Len(f) - 1
      BY <1>1, <3>1, <3>2, <3>3
    <3>5. SubSeq(f, 1, n + 1) = t
      <4>1. SubSeq(f, 1, n + 1) = Append(SubSeq(f, 1, n), f[n + 1])
        BY <3>4, ListingHas
      <4> QED  BY <3>1, <3>2, <4>1 DEF t
    <3>6. Meets(Visit(t), f, n + 1)
      <4>1. Meets(Visit(SubSeq(f, 1, n + 1)), f, n + 1)
        BY <3>4, ListingHas
      <4> QED  BY <3>5, <4>1
    <3> QED  BY <1>9, <1>10, <3>6 DEF ToBeMet
  <2> QED  BY <2>2, <2>3, <2>4
<1> QED  BY <1>11, <1>12, <1>13

\* A file with the pattern in its name is renamed when it is met, and no other
\* gets such a name.
LEMMA FileRenamed ==
  ASSUME TreeInv, Plain, NEW path \in FileNames, rename(path, Renamed(path))
  PROVE  /\ path[Len(path)] = Pattern => path \notin (FileNames)'
         /\ \A g \in (FileNames)' : g[Len(g)] = Pattern => g \in FileNames
<1> DEFINE new == Renamed(path)  n == Len(path)
<1>1. /\ path \in Routes /\ n \in Nat \ {0} /\ n >= 2
      /\ new \in Routes /\ Len(new) = n
      /\ \A k \in 1 .. n : new[k] = IF path[k] = Pattern THEN Replacement ELSE path[k]
  <2>1. path \in Routes
    BY DEF TreeInv
  <2> QED  BY <2>1, RouteParts, RenamedRoute, FilesAreDeep
<1>2. n \in 1 .. n /\ Pattern # Replacement
  BY <1>1, ReplacerAssumption
<1>3. Parent(path) \in disk.dirs
  BY DEF TreeInv
<1>4. ASSUME path[n] = Pattern PROVE CanRename(path, new)
  <2>1. new[n] = Replacement
    BY <1>1, <1>2, <1>4
  <2>2. new # path
    BY <1>2, <1>4, <2>1
  <2>3. Parent(new) = Parent(path)
    <3> HIDE DEF new
    <3>1. /\ Parent(path) \in Seq(STRING) /\ Len(Parent(path)) = n - 1
          /\ \A k \in 1 .. n - 1 : Parent(path)[k] = path[k]
      BY <1>1, RouteParts
    <3>2. /\ Parent(new) \in Seq(STRING) /\ Len(Parent(new)) = n - 1
          /\ \A k \in 1 .. n - 1 : Parent(new)[k] = new[k]
      BY <1>1, RouteParts
    <3>3. \A k \in 1 .. n - 1 : Parent(path)[k] # Pattern
      BY <1>3, <3>1, PlainDirectory
    <3>4. \A k \in 1 .. n - 1 : k \in 1 .. n
      BY <1>1
    <3>5. \A k \in 1 .. n - 1 : Parent(new)[k] = Parent(path)[k]
      BY <1>1, <3>1, <3>2, <3>3, <3>4
    <3> QED  BY ONLY <3>1, <3>2, <3>5, SeqEqual
  <2>4. new \notin disk.dirs
    BY <1>1, <1>2, <2>1, PlainDirectory
  <2> QED  BY <1>3, <2>2, <2>3, <2>4 DEF CanRename
<1>5. CASE ~CanRename(path, new)
  <2>1. (FileNames)' = FileNames
    BY <1>5 DEF rename, FileNames
  <2> QED  BY <1>4, <1>5, <2>1
<1>6. CASE CanRename(path, new)
  <2>1. TreeMoved(path, new)
    BY <1>6, RenameEffect
  <2>2. path \notin disk.dirs
    BY <1>6, PlainDirectory DEF CanRename
  <2> HIDE DEF new
  <2>3. \A g \in (FileNames)' : \E f \in FileNames : g = Moved(f, path, new)
    <3>1. (FileNames)' = {Moved(f, path, new) : f \in Staying(path, new)}
      BY ONLY <2>1, Zenon DEF TreeMoved
    <3> QED  BY <3>1 DEF Staying
  <2>4. ASSUME NEW f \in FileNames, Below(f, path)
        PROVE  Len(f) = n
    <3> SUFFICES ASSUME Len(f) # n PROVE FALSE
      OBVIOUS
    <3>1. f \in Routes
      BY DEF TreeInv
    <3>2. Len(f) \in Nat /\ Len(f) >= n /\ SubSeq(f, 1, n) = path
      BY <1>1, <2>4, <3>1, RouteParts, BelowPrefix
    <3>3. n \in 1 .. Len(f) - 1
      BY <1>1, <3>2
    <3>4. path \in disk.dirs
      BY <3>2, <3>3, WayThere
    <3> QED  BY <2>2, <3>4
  <2>5. ASSUME NEW f \in FileNames, Below(f, path)
        PROVE  /\ Len(Moved(f, path, new)) = n
               /\ Moved(f, path, new)[n] = IF path[n] = Pattern THEN Replacement ELSE path[n]
    <3>1. f \in Routes /\ Len(f) = n
      BY <2>4, <2>5 DEF TreeInv
    <3>2. Len(Moved(f, path, new)) = n /\ Moved(f, path, new)[n] = new[n]
      BY <1>1, <1>2, <2>5, <3>1, MovedRoute
    <3> QED  BY <1>1, <1>2, <3>2
  <2>6. \A f \in FileNames : ~Below(f, path) => Moved(f, path, new) = f
    BY <1>1, MovedRoute DEF TreeInv
  <2>7. \A g \in (FileNames)' : g[Len(g)] = Pattern => g \in FileNames
    BY <1>2, <2>3, <2>5, <2>6
  <2>8. ASSUME path[n] = Pattern, path \in (FileNames)' PROVE FALSE
    <3>1. PICK f \in FileNames : path = Moved(f, path, new)
      BY <2>3, <2>8
    <3>2. CASE Below(f, path)
      BY <1>2, <2>5, <2>8, <3>1, <3>2
    <3>3. CASE ~Below(f, path)
      <4>1. f = path
        BY <2>6, <3>1, <3>3
      <4>2. Below(path, path)
        BY <1>1 DEF Below
      <4> QED  BY <3>3, <4>1, <4>2
    <3> QED  BY <3>2, <3>3
  <2> QED  BY <2>7, <2>8
<1> QED  BY <1>5, <1>6

\* An entry is passed over only when no file is below it.
LEMMA NothingPassed ==
  ASSUME TreeInv, CallsInv, Plain, VisitsSound, OneBase,
         NEW entry, entry.kind = "dir", entry.name \in Dots \/ Target(entry.name) \notin disk.dirs,
         NEW f \in FileNames, Meets(Current, f, Len(visits)), Item(f, Len(visits)) = entry
  PROVE  FALSE
<1> DEFINE n == Len(visits)
<1>1. n \in Nat \ {0}
  BY TopCall
<1>2. n < Len(f) /\ SubSeq(f, 1, n) = Current.dir
  BY DEF Meets
<1>3. f[n + 1] = entry.name /\ n + 1 # Len(f)
  BY DEF Item
<1>4. f \in Seq(STRING) /\ Len(f) \in Nat /\ \A k \in 1 .. Len(f) : f[k] \in STRING
  BY RouteParts DEF TreeInv
<1> HIDE DEF n
<1>5. n \in 1 .. Len(f) - 1 /\ n + 1 \in 1 .. Len(f) - 1 /\ n + 1 \in 1 .. Len(f) /\ n + 1 \in 0 .. Len(f)
      /\ n + 1 \in 1 .. n + 1
  BY <1>1, <1>2, <1>3, <1>4
<1>6. entry.name \in STRING
  BY <1>3, <1>4, <1>5
<1> DEFINE d == SubSeq(f, 1, n + 1)
<1>7. d \in disk.dirs
  BY <1>5, WayThere
<1>8. d = Append(Current.dir, entry.name)
  <2>1. d = Append(SubSeq(f, 1, n), f[n + 1])
    BY <1>5, ListingHas
  <2> QED  BY <1>2, <1>3, <2>1
<1>9. Target(entry.name) \in disk.dirs
  BY <1>6, <1>7, <1>8, TargetPlain
<1>10. Len(d) = n + 1 /\ d[n + 1] = f[n + 1]
  BY ONLY <1>4, <1>5, FrontOf
<1> HIDE DEF d
<1>11. d[n + 1] \in Names
  <2>1. d \in Seq(Names)
    BY <1>7 DEF OneBase
  <2> QED  BY ONLY <1>5, <1>10, <2>1, ElementOfSeq
<1> QED  BY <1>3, <1>9, <1>10, <1>11 DEF Names

\* The path of the entry of a file.
LEMMA PlainPath ==
  ASSUME TreeInv, CallsInv, VisitsSound,
         NEW entry \in Current.todo, entry.kind = "file",
         NEW f \in FileNames, Meets(Current, f, Len(visits)), Item(f, Len(visits)) = entry
  PROVE  FilePath(entry) = f
<1> DEFINE n == Len(visits)
<1>1. n \in Nat \ {0} /\ DOMAIN visits = 1 .. n /\ Current = visits[n]
  BY TopCall
<1>2. n < Len(f) /\ SubSeq(f, 1, n) = Current.dir
  BY DEF Meets
<1>3. f[n + 1] = entry.name /\ n + 1 = Len(f)
  BY DEF Item
<1>4. f \in Seq(STRING) /\ Len(f) \in Nat
  BY RouteParts DEF TreeInv
<1>5. Current.search_path = Current.dir
  <2>1. n \in 1 .. n
    BY <1>1
  <2> QED  BY <1>1, <2>1 DEF VisitsSound, VisitSound
<1>6. FilePath(entry) = Append(Current.dir, entry.name)
  BY <1>5 DEF FilePath
<1> HIDE DEF n
<1>7. n \in 1 .. Len(f) - 1
  BY <1>1, <1>2, <1>4
<1>8. SubSeq(f, 1, n + 1) = Append(SubSeq(f, 1, n), f[n + 1])
  BY <1>7, ListingHas
<1>9. SubSeq(f, 1, Len(f)) = f
  BY ONLY <1>4, SubSeqFull
<1> QED  BY <1>2, <1>3, <1>6, <1>8, <1>9

LEMMA PlainStep ==
  ASSUME TreeInv, CallsInv, PlainInv, ReplacerNext
  PROVE  PlainInv'
<1> SUFFICES ASSUME Plain', params'.mode = 0
             PROVE  VisitsSound' /\ OneBase' /\ NothingMissed' /\ AtEnd'
  BY DEF PlainInv
<1> DEFINE n == Len(visits)
<1>1. state = "running" /\ UNCHANGED params
  BY DEF ReplacerNext, VisitDirectory, PassDirectory, EndVisit, EditFile, Finish
<1>2. disk'.dirs = disk.dirs
  BY <1>1, PlainDirs
<1>3. Plain /\ VisitsSound /\ OneBase /\ NothingMissed
  <2>1. Plain
    BY <1>2 DEF Plain
  <2> QED  BY <1>1, <2>1 DEF PlainInv
<1>4. /\ n \in Nat \ {0} /\ DOMAIN visits = 1 .. n /\ n \in 1 .. n
      /\ Current = visits[n] /\ Current \in VisitsOf
      /\ \A k \in 1 .. n : visits[k].dir \in disk.dirs /\ visits[k].search_path = visits[k].dir
  <2>1. n \in Nat \ {0} /\ DOMAIN visits = 1 .. n /\ Current = visits[n] /\ Current \in VisitsOf
    BY TopCall
  <2> QED  BY <1>3, <2>1 DEF VisitsSound, VisitSound
<1>5. \A f : (Selected(f))' <=> Selected(f)
  BY <1>1 DEF Selected
<1>6. ASSUME UNCHANGED disk, \A f \in FileNames : Selected(f) /\ f[Len(f)] = Pattern /\ ToBeMet(f) => (ToBeMet(f))'
      PROVE  NothingMissed'
  <2>1. (FileNames)' = FileNames
    BY <1>6 DEF FileNames
  <2> HIDE DEF n
  <2> QED  BY <1>3, <1>5, <1>6, <2>1 DEF NothingMissed
<1>7. CASE VisitDirectory
  <2>1. PICK entry \in Current.todo :
             /\ entry.kind = "dir" /\ entry.name \notin Dots
             /\ visits' = Append(Append(Callers, Without(entry)), Visit(Target(entry.name)))
             /\ UNCHANGED <<disk, params, state>>
    BY <1>7 DEF VisitDirectory
  <2>2. VisitsSound' /\ OneBase' /\ \A f \in FileNames : ToBeMet(f) => (ToBeMet(f))'
    BY <1>3, <2>1, VisitBegun
  <2>3. AtEnd'
    BY <1>1, <2>1 DEF AtEnd
  <2> QED  BY <1>6, <2>1, <2>2, <2>3
<1>8. CASE PassDirectory
  <2> DEFINE path == Current.search_path
  <2>1. PICK entry \in Current.todo :
             /\ entry.kind = "dir" /\ (entry.name \in Dots \/ Target(entry.name) \notin disk.dirs)
             /\ rename(path, RenameDirectory(path))
             /\ visits' = Append(Callers, [Without(entry) EXCEPT !.search_path = RenameDirectory(path)])
             /\ UNCHANGED <<params, state>>
    BY <1>8 DEF PassDirectory
  <2>2. path \in disk.dirs
    BY <1>4
  <2>3. RenameDirectory(path) = path /\ UNCHANGED disk
    BY <1>3, <2>1, <2>2, PlainDirectory
  <2>4. [Without(entry) EXCEPT !.search_path = path] = Without(entry)
    BY <1>4 DEF Without, VisitsOf
  <2>5. visits' = Append(Callers, Without(entry))
    BY <2>1, <2>3, <2>4
  <2>6. /\ VisitsSound' /\ OneBase'
        /\ \A f : ToBeMet(f) => \/ (ToBeMet(f))'
                                \/ Meets(Current, f, n) /\ Item(f, n) = entry
    BY <1>2, <1>3, <2>5, EntryDone
  <2>7. \A f \in FileNames : ToBeMet(f) => (ToBeMet(f))'
    BY <1>3, <2>1, <2>6, NothingPassed
  <2>8. AtEnd'
    BY <1>1, <2>1 DEF AtEnd
  <2> QED  BY <1>6, <2>3, <2>6, <2>7, <2>8
<1>9. CASE EndVisit
  <2> DEFINE path == visits[n - 1].search_path
  <2>1. /\ Current.todo = {} /\ n > 1 /\ rename(path, RenameDirectory(path))
        /\ visits' = [Callers EXCEPT ![Len(Callers)].search_path = RenameDirectory(path)]
        /\ UNCHANGED <<params, state>>
    BY <1>9 DEF EndVisit
  <2>2. path \in disk.dirs
    <3>1. n - 1 \in 1 .. n
      BY <1>4, <2>1
    <3> QED  BY <1>4, <3>1
  <2>3. RenameDirectory(path) = path /\ UNCHANGED disk
    BY <1>3, <2>1, <2>2, PlainDirectory
  <2>4. visits' = [Callers EXCEPT ![Len(Callers)].search_path = path]
    BY <2>1, <2>3
  <2>5. VisitsSound' /\ OneBase' /\ \A f : ToBeMet(f) => (ToBeMet(f))'
    BY <1>2, <1>3, <2>1, <2>4, VisitEnded
  <2>6. AtEnd'
    BY <1>1, <2>1 DEF AtEnd
  <2> QED  BY <1>6, <2>3, <2>5, <2>6
<1>10. CASE EditFile
  <2>1. PICK entry \in Current.todo :
             /\ entry.kind = "file"
             /\ IF FilePath(entry) \notin FileNames \/ ~Selected(FilePath(entry)) THEN UNCHANGED <<disk, state>>
                ELSE IF params.mode = 0
                     THEN rename(FilePath(entry), Renamed(FilePath(entry))) /\ UNCHANGED state
                ELSE EditText(FilePath(entry))
             /\ visits' = Append(Callers, Without(entry))
    BY <1>10 DEF EditFile, FilePath
  <2>2. /\ VisitsSound' /\ OneBase'
        /\ \A f : ToBeMet(f) => \/ (ToBeMet(f))'
                                \/ Meets(Current, f, n) /\ Item(f, n) = entry
    BY <1>2, <1>3, <2>1, EntryDone
  <2>3. \A f \in FileNames : ToBeMet(f) => (ToBeMet(f))' \/ f = FilePath(entry)
    BY <1>3, <2>1, <2>2, PlainPath
  <2>4. params.mode = 0
    BY <1>1
  <2>5. UNCHANGED state
    BY <2>1, <2>4
  <2>6. AtEnd'
    BY <1>1, <2>5 DEF AtEnd
  <2> DEFINE path == FilePath(entry)
  <2>7. CASE path \notin FileNames \/ ~Selected(path)
    <3>1. UNCHANGED disk
      BY <2>1, <2>7
    <3> HIDE DEF path
    <3>2. \A f \in FileNames : Selected(f) /\ f[Len(f)] = Pattern /\ ToBeMet(f) => (ToBeMet(f))'
      BY <2>3, <2>7 DEF path
    <3> QED  BY <1>6, <2>2, <2>6, <3>1, <3>2
  <2>8. CASE path \in FileNames /\ Selected(path)
    <3>1. rename(path, Renamed(path))
      BY <2>1, <2>4, <2>8
    <3> HIDE DEF path
    <3>2. /\ path[Len(path)] = Pattern => path \notin (FileNames)'
          /\ \A g \in (FileNames)' : g[Len(g)] = Pattern => g \in FileNames
      BY <1>3, <2>8, <3>1, FileRenamed
    <3>3. ASSUME NEW g \in (FileNames)', Selected(g), g[Len(g)] = Pattern
          PROVE  (ToBeMet(g))'
      <4>1. g \in FileNames /\ g # path
        BY <3>2, <3>3
      <4>2. ToBeMet(g)
        BY <1>3, <3>3, <4>1 DEF NothingMissed
      <4> QED  BY <2>3, <4>1, <4>2 DEF path
    <3>4. NothingMissed'
      BY <1>5, <3>3 DEF NothingMissed
    <3> QED  BY <2>2, <2>6, <3>4
  <2> QED  BY <2>7, <2>8
<1>11. CASE Finish
  <2>1. Len(visits) = 1 /\ Current.todo = {} /\ UNCHANGED <<disk, params, visits>>
    BY <1>11 DEF Finish
  <2>2. VisitsSound' /\ OneBase'
    BY <1>3, <2>1 DEF VisitsSound, OneBase, base
  <2>3. NothingMissed'
    <3>1. \A f : ToBeMet(f) => (ToBeMet(f))'
      BY <2>1 DEF ToBeMet
    <3> QED  BY <1>6, <2>1, <3>1
  <2>4. AtEnd'
    BY <1>4, <2>1 DEF AtEnd
  <2> QED  BY <2>2, <2>3, <2>4
<1> QED  BY <1>7, <1>8, <1>9, <1>10, <1>11 DEF ReplacerNext

LEMMA BeginsPlain == ReplacerInit => PlainInv
<1> SUFFICES ASSUME NEW start \in Disks, ReplacerInitWith(start), Plain
             PROVE  VisitsSound /\ OneBase /\ NothingMissed /\ AtEnd
  BY DEF ReplacerInit, PlainInv
<1> DEFINE dirs == start.disk.dirs  b == start.base
<1>1. /\ b \in dirs /\ Len(b) = 1 /\ dirs \subseteq Seq(Names)
      /\ \A d \in dirs : d[1] = b[1]
  BY ReplacerAssumption DEF DisksAssumption
<1>2. disk = start.disk /\ visits = <<Visit(b)>> /\ state = "running"
  BY DEF ReplacerInitWith
<1>3. TreeInv /\ CallsInv
  BY BeginsTyped DEF ReplacerInit
<1>4. disk.dirs = dirs /\ DOMAIN visits = 1 .. 1 /\ visits[1] = Visit(b) /\ base = b
  BY <1>2 DEF base, Visit
<1> HIDE DEF dirs, b
<1>5. VisitsSound
  <2>1. VisitSound(Visit(b), 1, disk.dirs)
    BY <1>1, <1>3, <1>4, VisitIsSound
  <2> QED  BY <1>4, <2>1 DEF VisitsSound
<1>6. OneBase
  BY <1>1, <1>4 DEF OneBase
<1>7. ASSUME NEW f \in FileNames PROVE ToBeMet(f)
  <2>1. f \in Seq(STRING) /\ Len(f) \in Nat /\ Len(f) >= 2
    BY <1>3, FilesAreDeep, RouteParts DEF TreeInv
  <2>2. 1 \in 1 .. Len(f) - 1 /\ 1 \in 0 .. Len(f)
    BY <2>1
  <2>3. SubSeq(f, 1, 1) \in disk.dirs /\ SubSeq(f, 1, 1) \in Seq(STRING) /\ Len(SubSeq(f, 1, 1)) = 1
    BY <1>3, <2>1, <2>2, WayThere, FrontOf
  <2>4. SubSeq(f, 1, 1) = b
    <3> DEFINE d == SubSeq(f, 1, 1)
    <3> HIDE DEF d
    <3>1. d[1] = b[1] /\ Len(b) = 1 /\ b \in Seq(STRING)
      <4>1. d \in dirs /\ b \in Routes
        BY <1>1, <1>3, <1>4, <2>3 DEF TreeInv, d
      <4> QED  BY <1>1, <4>1 DEF Routes
    <3>2. \A k \in 1 .. 1 : d[k] = b[k]
      BY <3>1
    <3>3. d \in Seq(STRING) /\ Len(d) = 1
      BY <2>3 DEF d
    <3>4. d = b
      BY ONLY <3>1, <3>2, <3>3, SeqEqual
    <3> QED  BY <3>4 DEF d
  <2>5. Meets(Visit(b), f, 1)
    BY <1>3, <2>2, <2>4, ListingHas
  <2> QED  BY <1>4, <2>5 DEF ToBeMet
<1>8. NothingMissed
  BY <1>7 DEF NothingMissed
<1> QED  BY <1>2, <1>5, <1>6, <1>8 DEF AtEnd

LEMMA NothingLeft ==
  ASSUME CallsInv, PlainInv
  PROVE  PatternGone
<1> SUFFICES ASSUME state = "returned", params.mode = 0, Plain,
                    NEW f \in FileNames, Selected(f), f[Len(f)] = Pattern
             PROVE  FALSE
  BY DEF PatternGone
<1>1. Len(visits) = 1 /\ visits[1].todo = {} /\ ToBeMet(f)
  BY DEF PlainInv, AtEnd, NothingMissed
<1>2. DOMAIN visits = 1 .. 1
  BY <1>1, TopCall
<1> QED  BY <1>1, <1>2 DEF ToBeMet, Meets

\* In a plain tree of two levels nothing that is selected keeps the pattern in
\* its name, and the pattern is put in front of a replacement once, whatever was
\* renamed, edited or overflowed on the way, for the texts a disk starts with do
\* not have it doubled.
THEOREM NamesAndTexts == FreshTexts => (ReplacerSpec => []Replaced)
<1>1. FreshTexts /\ ReplacerInit => TreeInv /\ CallsInv /\ PatternOnce /\ PlainInv
  BY BeginsTyped, BeginsFresh, BeginsPlain
<1>2. TreeInv /\ CallsInv /\ PatternOnce /\ PlainInv /\ [ReplacerNext]_replacerVars =>
        (TreeInv /\ CallsInv /\ PatternOnce /\ PlainInv)'
  <2> SUFFICES ASSUME TreeInv, CallsInv, PatternOnce, PlainInv, [ReplacerNext]_replacerVars
               PROVE  TreeInv' /\ CallsInv' /\ PatternOnce' /\ PlainInv'
    OBVIOUS
  <2>1. CASE ReplacerNext
    BY <2>1, TreeStep, CallsStep, OnceStep, PlainStep
  <2>2. CASE UNCHANGED replacerVars
    <3>1. TreeInv' /\ CallsInv' /\ UNCHANGED <<disk, params, visits, state>> /\ (FileNames)' = FileNames
      BY <2>2, Stuttered
    <3>2. PatternOnce'
      BY <3>1 DEF PatternOnce
    <3>3. PlainInv'
      BY <3>1 DEF PlainInv, Plain, VisitsSound, OneBase, NothingMissed, AtEnd, ToBeMet, Selected, base
    <3> QED  BY <3>1, <3>2, <3>3
  <2> QED  BY <2>1, <2>2
<1>3. TreeInv /\ CallsInv /\ PatternOnce /\ PlainInv => Replaced
  BY NothingLeft DEF Replaced
<1>4. FreshTexts => (ReplacerInit => TreeInv /\ CallsInv /\ PatternOnce /\ PlainInv)
  BY <1>1
<1> QED  BY <1>2, <1>3, <1>4, PTL DEF ReplacerSpec

==============================================================================
