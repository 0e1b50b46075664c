------------------------------- MODULE Replacer ------------------------------
(***************************************************************************)
(* The file replacer (G2 - file replacer/src/replacer.c): it scans a        *)
(* directory, renames what has the pattern in its path, or puts the pattern *)
(* in front of the replacement in the files' text.  A path is the sequence  *)
(* of its names, the base directory first; Pattern stands for a name with   *)
(* the pattern in it and becomes Replacement, and in a text they are the    *)
(* pattern and the replacement.  A directory's entries come in any order.   *)
(***************************************************************************)
EXTENDS Directories, Strings

CONSTANTS
  Disks,                  \* what the program may start from: see DisksAssumption
  Pattern, Replacement    \* a name with the pattern, or the replacement, in it

VARIABLES
  disk,     \* the directories, and the text of each file
  params,   \* mode, and fname, or NULL
  visits,   \* the calls of scan_dir: its directory as it was given, the path it
            \* uses by now, and the entries still to come
  state     \* "running", "returned", or "aborted" by an overflow of the heap

replacerVars == <<disk, params, visits, state>>

FileNames == DOMAIN disk.files

Listing(path) ==
  {[kind |-> "file", name |-> f[Len(f)]] : f \in {g \in FileNames : Parent(g) = path}} \cup
  {[kind |-> "dir", name |-> d[Len(d)]] : d \in {e \in disk.dirs : Len(e) > 1 /\ Parent(e) = path}}
  \cup {[kind |-> "dir", name |-> dot] : dot \in Dots}

Visit(path) == [dir |-> path, search_path |-> path, todo |-> Listing(path)]

ReplacerInitWith(start) ==
  /\ disk = start.disk /\ params = start.params
  /\ visits = <<Visit(start.base)>> /\ state = "running"
ReplacerInit == \E start \in Disks : ReplacerInitWith(start)

Current == visits[Len(visits)]
Callers == SubSeq(visits, 1, Len(visits) - 1)
Without(entry) == [Current EXCEPT !.todo = @ \ {entry}]
base == visits[1].dir

\* The directory and its parent's name is all a call of scan_dir is given.
Target(name) == IF Current.dir = base THEN Append(base, name)
                ELSE base \o <<Current.dir[Len(Current.dir)], name>>

Selected(path) == params.fname = NULL \/ \E k \in DOMAIN path : path[k] = params.fname

\* Mutant: the pattern and the replacement change places.
RenamedBack(path) == str_replace(path, <<Replacement>>, <<Pattern>>)
\* The pattern is replaced in the whole path.
Renamed(path) == str_replace(path, <<Pattern>>, <<Replacement>>)

\* What rename does to a path at or below old.
Moved(path, old, new) ==
  IF Len(path) >= Len(old) /\ SubSeq(path, 1, Len(old)) = old
  THEN new \o SubSeq(path, Len(old) + 1, Len(path)) ELSE path

HasEntries(path) == \E p \in FileNames \cup disk.dirs : Len(p) > 1 /\ Parent(p) = path

\* rename fails when its source or the directory it goes to is not there, and
\* takes the place of a file, or of an empty directory.
CanRename(old, new) ==
  /\ old # new /\ (Len(new) = 1 \/ Parent(new) \in disk.dirs)
  /\ \/ old \in FileNames /\ new \notin disk.dirs
     \/ old \in disk.dirs /\ new \notin FileNames /\ ~HasEntries(new)

rename(old, new) ==
  IF CanRename(old, new)
  THEN LET names == {f \in FileNames : f # new \/ f = old}
       IN  disk' = [dirs |-> {Moved(d, old, new) : d \in disk.dirs},
                    files |-> [g \in {Moved(f, old, new) : f \in names} |->
                                 disk.files[CHOOSE f \in names : Moved(f, old, new) = g]]]
  ELSE UNCHANGED disk

\* The directory that is scanned gets its new name, at every entry that is a
\* directory; the path is the new one whether or not rename has failed.
RenameDirectory(path) == IF Selected(path) THEN Renamed(path) ELSE path

VisitDirectory ==
  \E entry \in Current.todo :
    /\ entry.kind = "dir" /\ entry.name \notin Dots /\ Target(entry.name) \in disk.dirs
    /\ visits' = Append(Append(Callers, Without(entry)), Visit(Target(entry.name)))
    /\ UNCHANGED <<disk, params, state>>

PassDirectory ==
  \E entry \in Current.todo :
    LET path == Current.search_path  new == RenameDirectory(path) IN
    /\ entry.kind = "dir" /\ (entry.name \in Dots \/ Target(entry.name) \notin disk.dirs)
    /\ rename(path, new)
    /\ visits' = Append(Callers, [Without(entry) EXCEPT !.search_path = new])
    /\ UNCHANGED <<params, state>>

EndVisit ==
  /\ Current.todo = {} /\ Len(visits) > 1
  /\ LET caller == visits[Len(visits) - 1]  new == RenameDirectory(caller.search_path) IN
     /\ rename(caller.search_path, new)
     /\ visits' = [Callers EXCEPT ![Len(Callers)].search_path = new]
  /\ UNCHANGED <<params, state>>

\* Mutant: the text is not looked at for the pattern first.
NeverThere(text) == FALSE
HasPattern(text) == \E k \in DOMAIN text : strstr(text[k], <<Pattern>>, 1) # 0
Prepended(text) ==
  [k \in DOMAIN text |-> str_replace(text[k], <<Replacement>>, <<Pattern, Replacement>>)]

\* After a line that was changed the buffer is as long as that line: a longer
\* one that is read before the next change overflows it.  In the end all lines
\* are read again, with their changes, into the buffer of the last one changed.
Overflows(text) ==
  LET changed == {k \in DOMAIN text : Prepended(text)[k] # text[k]}
      latest(n) == {k \in changed : k < n /\ \A m \in changed : m < n => m <= k}
  IN  \/ \E n \in DOMAIN text : \E k \in latest(n) :
           Len(text[n]) > Len(Prepended(text)[k])
      \/ \E n \in DOMAIN text : \E k \in latest(Len(text) + 1) :
           Len(Prepended(text)[n]) > Len(Prepended(text)[k])

\* The search reads on behind the text, which may look like the pattern; an
\* overflow may be fatal, and then nothing has been written back, the text being
\* shorter than the buffer of the stream.
EditText(path) ==
  \/ /\ ~HasPattern(disk.files[path])
     /\ disk' = [disk EXCEPT !.files[path] = Prepended(@)]
     /\ UNCHANGED state
  \/ UNCHANGED <<disk, state>>
  \/ /\ ~HasPattern(disk.files[path]) /\ Overflows(disk.files[path])
     /\ state' = "aborted" /\ UNCHANGED disk

\* In the base directory the path begins as it was given.
EditFile ==
  \E entry \in Current.todo :
    LET path == Append(IF Current.dir = base THEN base ELSE Current.search_path, entry.name) IN
    /\ entry.kind = "file"
    /\ IF path \notin FileNames \/ ~Selected(path) THEN UNCHANGED <<disk, state>>
       ELSE IF params.mode = 0 THEN rename(path, Renamed(path)) /\ UNCHANGED state
       ELSE EditText(path)
    /\ visits' = Append(Callers, Without(entry))
    /\ UNCHANGED params

Finish ==
  /\ Len(visits) = 1 /\ Current.todo = {}
  /\ state' = "returned"
  /\ UNCHANGED <<disk, params, visits>>

ReplacerNext ==
  /\ state = "running"
  /\ VisitDirectory \/ PassDirectory \/ EndVisit \/ EditFile \/ Finish

ReplacerSpec == ReplacerInit /\ [][ReplacerNext]_replacerVars

-----------------------------------------------------------------------------
\* What the program may start from: the disk is a tree below the base directory.
DisksAssumption ==
  \A start \in Disks :
    LET dirs == start.disk.dirs  files == start.disk.files IN
    /\ start.disk = [dirs |-> dirs, files |-> files]
    /\ start.params \in [mode : {0, 1}, fname : {NULL} \cup STRING]
    /\ start.base \in dirs /\ Len(start.base) = 1
    /\ dirs \subseteq Seq(Names) /\ <<>> \notin dirs
    /\ \A d \in dirs : d[1] = start.base[1] /\ (Len(d) > 1 => Parent(d) \in dirs)
    /\ files \in [DOMAIN files -> Seq(Seq(STRING))]
    /\ DOMAIN files \subseteq Seq(STRING) /\ \A f \in DOMAIN files : Parent(f) \in dirs
ASSUME ReplacerAssumption ==
  /\ {Pattern, Replacement} \subseteq Names /\ Pattern # Replacement
  /\ NULL \notin Seq(STRING) /\ DisksAssumption

ReplacerTypeOK ==
  /\ params.mode \in {0, 1} /\ params.fname \in {NULL} \cup STRING
  /\ state \in {"running", "returned", "aborted"}
  /\ \A f \in FileNames : Parent(f) \in disk.dirs
  /\ \A d \in disk.dirs : Len(d) > 1 => Parent(d) \in disk.dirs

\* However many renames fail on the way, a step moves whole files: each file
\* is there afterwards, with its text, at its old path or at one that has the
\* pattern replaced in some of its names, unless another has come in its place.
OnlyNamesChange ==
  [][params.mode = 0 => \A f \in FileNames :
       \E g \in DOMAIN disk'.files :
         /\ Len(g) = Len(f) /\ \A k \in DOMAIN f : g[k] \in {f[k], IF f[k] = Pattern THEN Replacement ELSE f[k]}
         /\ disk'.files[g] = disk.files[f] \/ g \in FileNames]_replacerVars

\* A directory tree of two levels whose directories have neither the pattern
\* nor the replacement in their names is renamed completely: no selected file
\* has the pattern in its name afterwards.
Plain == \A d \in disk.dirs : Len(d) <= 3 /\ \A k \in DOMAIN d : d[k] \notin {Pattern, Replacement}
PatternGone ==
  state = "returned" /\ params.mode = 0 /\ Plain =>
    \A f \in FileNames : Selected(f) => f[Len(f)] # Pattern

\* However often a file is visited, the pattern is put into it once: in front
\* of a replacement there is never more than one.
Doubled(text) == \E k \in DOMAIN text : strstr(text[k], <<Pattern, Pattern, Replacement>>, 1) # 0
PatternOnce == \A f \in FileNames : ~Doubled(disk.files[f])

\* The pattern is gone from the names in the end, and is put in front of a
\* replacement once, unless a text has it twice from the start.
Replaced == PatternGone /\ PatternOnce
FreshTexts == \A start \in Disks : \A f \in DOMAIN start.disk.files : ~Doubled(start.disk.files[f])

==============================================================================
