------------------------------ MODULE FileSync -------------------------------
(***************************************************************************)
(* The directory synchroniser (L2 - file manip/src/sync.c): the master is   *)
(* scanned and its files are copied, then the slave is scanned and what the *)
(* master has not is removed.  A directory is its path below the base; all  *)
(* files are regular and readable.  The order of the entries of a directory *)
(* is any.                                                                  *)
(***************************************************************************)
EXTENDS Directories

CONSTANTS
  Trees,    \* the pairs [master, slave] of trees to start from
  Block     \* the size of copy_file's buffer (1024)

VARIABLES
  tree,     \* what is on the disk: dirs, and files as a function of their path
  mode,     \* 0 while the master is scanned, 1 the slave, 2 at the end
  scans     \* the calls of scan_dir: directory, and the entries still to come

syncVars == <<tree, mode, scans>>

Now == 9   \* the time of a copy, later than that of any file there was
Base == <<>>
Self == mode
Other == 1 - mode

File(dir, name) == [dir |-> dir, name |-> name]
Files(side) == DOMAIN tree[side].files
Subdirs(side, dir) == {d \in tree[side].dirs : d # Base /\ Parent(d) = dir}

Entries(side, dir) ==
  {[kind |-> "file", name |-> f.name] : f \in {g \in Files(side) : g.dir = dir}} \cup
  {[kind |-> "dir", name |-> d[Len(d)]] : d \in Subdirs(side, dir)} \cup
  {[kind |-> "dir", name |-> dot] : dot \in Dots}

\* scan_dir is given its directory and the name of that one's parent only.
Sub(dir, name) == IF dir = Base THEN <<name>> ELSE <<dir[Len(dir)], name>>

Scan(side, dir) == [dir |-> dir, todo |-> Entries(side, dir)]

\* sync_directories(master, slave).
SyncInitWith(trees) ==
  /\ tree = [side \in {0, 1} |-> IF side = 0 THEN trees.master ELSE trees.slave]
  /\ mode = 0
  /\ scans = <<Scan(0, Base)>>
SyncInit == \E trees \in Trees : SyncInitWith(trees)

Top == scans[Len(scans)]
Rest == SubSeq(scans, 1, Len(scans) - 1)
Done(entry) == [Top EXCEPT !.todo = @ \ {entry}]

\* copy_file writes its whole buffer after each read, the short one at the end
\* included: what follows the text, or one block more when the last was full, is
\* what the buffer held before.  "padded" counts the times this happened; two
\* files of one version have the same content if it happened to neither.
Padded(length) == (length \div Block + 1) * Block
Copy(file) == [file EXCEPT !.length = Padded(@), !.padded = @ + 1, !.time = Now]

\* The file, put over another or where there is none.
Put(files, f, file) == [g \in DOMAIN files \cup {f} |-> IF g = f THEN file ELSE files[g]]
Unlink(files, f) == [g \in DOMAIN files \ {f} |-> files[g]]

\* rmdir fails when the directory is not there or not empty.
Empty(side, dir) == Subdirs(side, dir) = {} /\ \A f \in Files(side) : f.dir # dir
rmdir(dir) ==
  IF dir # Base /\ mode = 1 /\ dir \notin tree[Other].dirs /\ Empty(Self, dir)
  THEN tree' = [tree EXCEPT ![Self].dirs = @ \ {dir}]
  ELSE UNCHANGED tree

\* A subdirectory: it is scanned if it can be opened, "." and ".." are not.
EnterDirectory ==
  \E entry \in Top.todo :
    /\ entry.kind = "dir" /\ entry.name \notin Dots
    /\ Sub(Top.dir, entry.name) \in tree[Self].dirs
    /\ scans' = Append(Append(Rest, Done(entry)), Scan(Self, Sub(Top.dir, entry.name)))
    /\ UNCHANGED <<tree, mode>>

\* After the call, whatever it did, the directory that is being scanned is
\* removed if the other side has not got it.
SkipDirectory ==
  \E entry \in Top.todo :
    /\ entry.kind = "dir"
    /\ entry.name \in Dots \/ Sub(Top.dir, entry.name) \notin tree[Self].dirs
    /\ rmdir(Top.dir)
    /\ scans' = Append(Rest, Done(entry))
    /\ UNCHANGED mode

LeaveDirectory ==
  /\ Top.todo = {} /\ Len(scans) > 1
  /\ rmdir(scans[Len(scans) - 1].dir)
  /\ scans' = Rest
  /\ UNCHANGED mode

\* Missing on the slave: copied, its directory made if the parent is there.
CopyMissing(f) ==
  LET other == tree[Other]
      dirs == IF f.dir \notin other.dirs /\ Parent(f.dir) \in other.dirs
              THEN other.dirs \cup {f.dir} ELSE other.dirs
  IN  IF f.dir \in dirs
      THEN tree' = [tree EXCEPT ![Other].dirs = dirs,
                                ![Other].files = Put(@, f, Copy(tree[Self].files[f]))]
      ELSE UNCHANGED tree

\* Mutant: the time of the other file is not looked at.
CopyAlways(f) == tree' = [tree EXCEPT ![Other].files = Put(@, f, Copy(tree[Self].files[f]))]
\* On both sides: only the scanned file, if it is newer, is copied; the branch
\* for the other direction tests the same condition again.
CopyNewer(f) ==
  IF tree[Self].files[f].time > tree[Other].files[f].time
  THEN tree' = [tree EXCEPT ![Other].files = Put(@, f, Copy(tree[Self].files[f]))]
  ELSE UNCHANGED tree

\* Mutant: the slave's own files are kept.
KeepExtra(f) == UNCHANGED tree
RemoveExtra(f) == tree' = [tree EXCEPT ![Self].files = Unlink(@, f)]

SyncFile ==
  \E entry \in Top.todo :
    /\ entry.kind = "file"
    /\ LET f == File(Top.dir, entry.name) IN
       IF f \notin Files(Self) THEN UNCHANGED tree
       ELSE IF f \in Files(Other) THEN CopyNewer(f)
       ELSE IF mode = 0 THEN CopyMissing(f)
       ELSE RemoveExtra(f)
    /\ scans' = Append(Rest, Done(entry))
    /\ UNCHANGED mode

\* The master is done, then the slave.
NextPass ==
  /\ Len(scans) = 1 /\ Top.todo = {}
  /\ mode' = mode + 1
  /\ scans' = IF mode = 0 THEN <<Scan(1, Base)>> ELSE <<>>
  /\ UNCHANGED tree

SyncNext ==
  /\ mode < 2
  /\ EnterDirectory \/ SkipDirectory \/ LeaveDirectory \/ SyncFile \/ NextPass

SyncSpec == SyncInit /\ [][SyncNext]_syncVars

-----------------------------------------------------------------------------
SyncTypeOK ==
  /\ mode \in 0 .. 2
  /\ \A side \in {0, 1} :
       /\ Base \in tree[side].dirs
       /\ \A f \in Files(side) : f.dir \in tree[side].dirs

\* What the trees are taken to be: each directory is in one that is there, each
\* file in a directory, and of two files in the same place the one of a later
\* version is the later one.
Sound(t) ==
  /\ t = [dirs |-> t.dirs, files |-> t.files]
  /\ Base \in t.dirs /\ t.dirs \subseteq Seq(Names) /\ \A d \in t.dirs : Parent(d) \in t.dirs
  /\ DOMAIN t.files \subseteq [dir : t.dirs, name : STRING]
  /\ t.files \in [DOMAIN t.files -> [version : Nat, time : 0 .. Now - 1, length : Nat, padded : {0}]]
Dated(old, new) ==
  /\ old.version < new.version <=> old.time < new.time
  /\ old.version = new.version => old = new
SyncAssumption ==
  /\ Block \in Nat \ {0}
  /\ \A trees \in Trees :
       /\ Sound(trees.master) /\ Sound(trees.slave)
       /\ \A f \in DOMAIN trees.master.files \cap DOMAIN trees.slave.files :
            LET m == trees.master.files[f]  s == trees.slave.files[f]
            IN  Dated(m, s) /\ Dated(s, m)

\* Two levels of directories are all that is scanned.
Reached(f) == Len(f.dir) <= 2

\* "If the directories both contain a certain file, the more recent one should
\* be copied to the opposite directory" (README.txt), and what is only in the
\* master is kept: the master never loses a file, a file never goes back to an
\* older version, and no copy is shorter than what was copied.
VersionsAdvance ==
  [][/\ DOMAIN tree[0].files \subseteq DOMAIN tree'[0].files
     /\ \A side \in {0, 1} : \A f \in DOMAIN tree[side].files \cap DOMAIN tree'[side].files :
          LET old == tree[side].files[f]  new == tree'[side].files[f]
          IN  /\ new.version >= old.version
              /\ new.version = old.version => new.length >= old.length]_syncVars

\* What a file is on both sides in the end: untouched, or the master's is a copy
\* of the slave's, for the slave is copied back even where it has just got the
\* master's.  The two are then of one text but not alike: the master's is padded
\* once more and up to a block longer.
Same(f) ==
  LET m == tree[0].files[f]  s == tree[1].files[f] IN
  \/ m = s
  \/ m.version = s.version /\ m.padded = s.padded + 1 /\ m.length = Padded(s.length)

\* At the end each file that both sides have, within the two levels, is one text
\* on both, and the slave has no file that the master has not; directories that
\* became empty may stay behind.
SidesMatch ==
  mode = 2 =>
    /\ \A f \in Files(0) \cap Files(1) : Reached(f) => Same(f)
    /\ \A f \in Files(1) : Reached(f) => f \in Files(0)

\* A file of the master within the two levels is on the slave in the end if
\* its directory is there or could be made.
Delivered ==
  mode = 2 =>
    \A f \in Files(0) : Len(f.dir) <= 1 \/ (Reached(f) /\ f.dir \in tree[1].dirs) =>
      f \in Files(1)

\* What "synced" comes to when sync_directories ends, as far as its two scans
\* go: what both sides have is one version, unchanged or padded once more on the
\* master, the slave has nothing more, and what can be delivered to it has been.
Synchronised == SidesMatch /\ Delivered

==============================================================================
