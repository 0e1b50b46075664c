# A verification project for the systems-programming collection

The repository is a collection of small C programs, one directory each: a job
control shell, games between processes, a chat with its server, a web service,
thread exercises, file tools. This directory holds TLA+ modules that model
them, TLC configurations that check the models on small instances, and proofs
of theorems about them that TLAPS checks. `PROJECT.json` lists the components,
the runs, the mutant each property was tried on, which lines each definition
models, the hazards, the findings and the theorems.

Where to start: `Shell.tla` is the core. `Barrier`, `Philosophers`, `Game`,
`Chat` and `Web` are systems of their own; the smaller programs are gathered in
`Programs.tla`.

## 1. Inventory

| Component (directory) | State it keeps | Operations | Interaction |
|---|---|---|---|
| **Shell** (`G5 - shell/shell.c`) | the job list `jobs[MAXJOBS]`, `nextjid`, the signal mask, locals of `eval`, `do_bgfg`, `kill_job` that outlive a step | `eval` (fork, exec, pipelines of two), `fg`, `bg`, `kill`, `jobs`, `quit`, `waitfg`; handlers for SIGCHLD, SIGINT, SIGTSTP, SIGQUIT | the handlers interrupt `main` and share the list with it; the kernel delivers signals, children run beside |
| Shell parsing (`parseline`, `checkForRedirects`) | `argv`, rewritten in place | splitting, `<`, `>`, `&` | its result decides what `eval` does |
| Shell test programs (`myint.c`, ..., `sdriver.pl`) | none | stop, spin, split, interrupt themselves | children of the shell |
| **Barrier** (`L4/barrier.c`, `barrier_example.c`) | `counter`, `threshold`, `valid`, mutex, condition | `barrier_init`, `barrier_wait`, `barrier_wait_verbose`, `barrier_destroy` | threads through mutex and condition; `main` destroys |
| **Philosophers** (`L4/philosophers.c`) | forks (mutexes), `running`, each thread's two fork pointers and `tries_left` | think, lock, trylock, swap, eat; create, stop, join | threads through the forks, `main` through `running` |
| Concurrent list (`L4/linked_list.c`) | a list; a mutex in each node made with `alloc`, shared by what is appended | `insert`, `append`, `deleteNodeWithValue`, `printList`, `dealloc` | threads and `main` |
| Counters (`L3 - concurrency`) | one counter, one mutex | increment without lock, with it, with it around the loop | threads through the counter |
| **IPC game** (`G4 - IPC`) | the boards of parent and child, `lastMove`, `games_complete`, two pipes per game | choose a column, place a piece, send a move, test for a win, kill the child | processes through pipes and signals |
| **Chat** (`G2 - crypto chat`: `server.c`, `client.c`) | `clients[]`, `connections`, `current_client`, buddies; keys | accept, pair, forward, disconnect; send, receive, quit | a thread per client, sockets, shared `clients[]` |
| Cipher (`crypt.c`, `keygen.c`) | none | `coprime`, `mod_inverse`, `modulo`, `totient`, `GCD`, key generation, the search for a key | called by the chat's client |
| **Web service** (`G3 - web service`) | `connfd`, a descriptor per thread | accept, parse a request, make and write a response, close | the accept loop hands `&connfd` to each thread |
| Synchroniser (`L2/sync.c`) | two directory trees | scan, compare, copy, remove | the file system |
| File replacer (`G2 - file replacer`) | a directory tree, pattern and replacement | scan, rename, edit | the file system |
| Anagram finder (`G1`) | a chained hash table per word length | load, look up, find anagrams and words | none |
| Pointer exercises (`L1`) | lists, arrays | sort, grow, remove | none |
| String helpers (`stringly.c`, three copies and a fourth in G1) | none | `str_replace`, `sanitize` | called by the tools above |
| `csapp.c` (five identical copies) | Rio's read buffer | Rio; wrappers that exit on an error | vendored with the textbook |

What is hard in it, and what makes each part correct:

* **Shell.** Handlers interrupt `main` between any two instructions where the
  signals are not masked. SIGCHLDs merge. `do_bgfg` and `kill_job` hold a
  pointer into the list across a `kill()`; `eval` looks a job up after it has
  unmasked the signals. Correct means: no child that ended or stopped is
  forgotten, the list names no child that is gone, each process has one entry,
  a live foreground entry is the job `main` waits for, job IDs name one job
  each, dead children are reaped, `waitfg` returns.
* **Barrier.** A thread may be back in the next round before the others have
  left the last; `barrier_destroy` goes by a counter that is reset before they
  leave; there is no loop around `pthread_cond_wait`. Correct means: it is a
  rendezvous of `threshold` threads; one call per round returns -1; nobody is
  left behind; it is not destroyed under a waiting thread.
* **Philosophers.** Fork pointers are swapped after each failed try, and the
  third attempt blocks. Correct means: neighbours never eat together, each
  unlock matches its lock, somebody eats, and the threads end when told to.
* **IPC game.** Each side keeps its own board and places the other's piece by
  the row and column it was sent. A column fills up, a child is killed or
  leaves, a pipe is closed late because another child has inherited its end.
  Correct means: pieces lie on pieces, at most one move is on its way in a
  game, the boards agree on the parent's pieces, a finished game has a line.
* **Chat, web service.** The address of a loop variable is handed to a new
  thread, which may read it after the next accept has changed it; the clients
  array and `connections` are shared without a lock; a client leaves while its
  buddy sends, or sends nothing or half of what it should. Correct means:
  buddies are mutual, what one sends the other gets, whole and in order; the
  count of clients stays within the array; everybody gets one answer, to his
  own request.
* **List, counters.** Lost updates; a deletion that goes on from a freed node;
  a node allocated before the lock is taken; a mutex that is another node's.
* **File tools.** A directory is renamed or removed while it is scanned; the
  recursion passes on two names of a path, not all; single calls fail.
* **Algorithms.** Zero and one as inputs, bounds of arrays, in-place edits.

The `hazards` of `PROJECT.json` give these with their lines.

## 2. The modules

| Module | What it is |
|---|---|
| `ProcessIds` | the process IDs, and the 0 that is none |
| `JobList` | `jobs`, `nextjid` and the helper routines of `shell.c`, as operators and actions |
| `Kernel` | the kernel as the shell uses it: states of the children, pending signals, what `waitpid` reports, `kill` on a group (external to the repository) |
| `Shell`, `MCShell` | `main`, `eval`, the builtins and the handlers, on top of `JobList` and `Kernel` |
| `JobListUse` | the job list alone, under any sequence of calls, long enough for `nextjid` to wrap around; one of `Programs` |
| `ShellProofs` | theorems about `Shell` and `JobListUse`, headed by lemmas on what the updates of the list do |
| `Rendezvous` | what a barrier promises |
| `Barrier`, `MCBarrier`, `BarrierProofs` | `barrier.c` and the `main` that destroys the barrier; implements `Rendezvous` |
| `Philosophers`, `PhilosophersProofs` | `philosophers.c` and its theorems |
| `Board` | `game-lib.c`: placing a piece, the choice of a column, the test for a win |
| `Game`, `GameProofs` | `G4 - IPC/main.c`: the parent, its children and the pipes, on `Board`, and theorems about both |
| `Chat`, `ChatProofs` | `server.c` and `client.c` on streams of words, and theorems about the server |
| `Web`, `MCWeb`, `WebProofs` | `web_service.c`: threads, requests and their answers, and theorems |
| `Counters` | the three counting programs |
| `SharedList` | `linked_list.c` on a heap whose nodes are freed and allocated again |
| `ThreadsProofs` | theorems about these two |
| `Directories` | what the two file tools have in common: paths, and the entries "." and ".." |
| `FileSync` | the directory synchroniser on two trees of files |
| `Strings` | `str_replace` and its kin, on strings as sequences |
| `Replacer` | the file replacer on a tree of files, on `Strings` |
| `FilesProofs` | theorems about the synchroniser, the replacer and `str_replace` |
| `Anagram`, `Crypt`, `Exercises`, `Rio`, `ShellParse` | sequential algorithms, as operators |
| `Programs`, `MCPrograms` | the small programs of the last eight lines together, one per behaviour, and the job list |

### Shell

One thread runs `main` and, on top of it, the handlers. `pc` says where `main`
is, `chld` where `sigchld_handler` is; `main` takes a step only when `chld` is
"idle". A step of `main` is cut wherever a handler in between matters: after
`fork`, after `addjob`, between the unmasking and the lookup of the background
job, between `kill()` and the assignment to `job->state`, between the parts of
`kill_job`, and inside its `deletejob` between `clearjob`, `maxjid` and the
assignment of `nextjid`. The two keyboard handlers are single steps: while they
run, `main` does not, and nothing they read is changed by it.

The variables are the program's: `jobs`, `nextjid`; `cmd`, `piped`, `isBGtask`,
`pid`, `job`, `max` are locals of the function `main` is in, forgotten
(`Return`) when the command is done; `masked` is the signal mask; `got` and
`status` are `sigchld_handler`'s. Of a job the command line is left out. The
command the user types is a nondeterministic choice of what it comes to: a
program in foreground or background, with or without a pipe, a builtin with a
process or job ID, the end of the shell. How the text is taken apart is
`ShellParse`: `parseline` and `checkForRedirects`, as functions.

At the right side of a pipeline `builtin_cmd(argv_right)` is called before
`parseline` has filled `argv_right` (line 236). What it reads is undefined; the
model lets it be any builtin or none.

The kernel side (`Kernel`) has a child "forked" until it has called `setpgid`
and `execvp`; a signal to its group is lost until then. Merged signals are a
set of pending signals. A child may exit, stop, continue, ignore ctrl-c and
ctrl-z, or be killed at any time. SIGINT sent to a stopped process waits until
it continues ("doomed"); it does not die of it while it is stopped.

A NULL dereference ends the model in a state of its own: `segv_announce` (line
231), `segv_kill` (line 434), `segv_chld` (line 574). The safety properties say
what holds up to there.

### Barrier

`pc` says where each thread is in `barrier_wait`; `main` where `main` is in
`barrier_destroy`. `counter` and `lock` are the fields of `barrier_t`;
`threshold` is a constant. `Spurious` allows `pthread_cond_wait` to return
without a broadcast; `JoinFirst` makes `main` join its threads before it
destroys the barrier, as `barrier_example.c` does; without it `main` may call
`barrier_destroy` at any time, as a user of the library may. `barrier_destroy`
checks the counter under the mutex, gives the mutex up and then destroys it and
the condition, in steps of their own; a thread may come in between. When mutex
and condition have been destroyed the model stops: what a thread does then is
undefined. `arrivals`, `passed` and `serials` are history variables.

`Rendezvous` is the abstract specification: threads gather, and when there are
`Threshold` of them exactly these are released. The refinement maps `gathered`
to the threads in `pthread_cond_wait` and `released` to those that have been
woken or are about to return.

### Philosophers

`fork_left` and `fork_right` are `PhilPhunction`'s local pointers, which are
swapped on each failure; `Left(i)` and `Right(i)` the fields `main` set.
A failed `pthread_mutex_trylock` and the unlock after it are separate steps:
were they one, three philosophers could not deadlock. `main` creates the
threads one by one while earlier ones run, a creation may fail, and `main` then
skips the join, as the code does. `running` is read between calls that the
compiler cannot look into (`printf`, the mutex calls), so each read sees the
value of that moment.

### Game

A board is the function from row and column to 0, 1 (the parent) or 2 (the
child). `board` and `finished` are the parent's, `childBoard` each child's.
`down` and `up` are the contents of the two pipes of a game; who still holds
their ends, and so when a read sees the end or a write kills the writer, is
worked out from which processes live (`ChildEndHeld`, `ParentEndHeld`): a child
keeps what it inherited from the games forked before it. The parent's choice of
a column is the evaluation function of `placePieceAtBestPosition`, with any
column when several are best; the children's `rand()` is any of
`RandomColumns`. The parent puts the child's piece where its own last move
went, in whatever game that was (line 162); the model does so too.

### Chat

The slots of `clients[]`, `connections` and `current_client` are as in
`server.c`; `thread[c]` is the thread made for the c-th client, with the index
it found behind its pointer. What goes over a socket is a stream of words of
four bytes, so that a reader that is out of step reads parts of two things, as
the program does.

`main`'s loop is cut into `Accept`, `Create` (`pthread_create`) and `Load` and
`Store`, the two halves of `connections++`: the new thread, and any other, may
run in between. What a thread does between two calls that may block is one
step, except for the clean-up of a client that leaves: looking the buddy up
(`LookUp`), parting the two (`Clear`), and loading and storing `connections--`
(`LoadCount`, `StoreCount`) are steps of their own. None of this is locked in
the code, and updates get lost in the run. Once `connections` is wrong,
`Accept` writes the new descriptor to the slot it names, whosever that is;
below zero it is in front of the array, which the model leaves alone.

A `read` that fails, on a descriptor closed before, or that finds the end of
the stream, returns too: the words that are missing are then `Stale`, what the
buffer held before, and the thread goes on with them where the code does
(`PassKey`, `PassText`, `PassExit`). A client leaves with ".quit" (`Quit`) or
without a word, at any point (`Vanish`). A write to a client that is gone may
kill the server (SIGPIPE).

### Web

`connfd` is `main`'s variable, read by a thread when it gets to run. A client
connects, and then sends its request at once, or a part and later the rest, or
nothing; it may leave at any time (`Accept`, `Send`, `SendRest`, `Leave`). A
thread reads once, whatever has come by then. A request is a record of what
parsing it comes to; `parse_request` maps a whole one to the set of answers it
may get, `PartRead` and `NothingRead` are the sets for the others, among them
the NULL pointers that `strtok_r` returns and `strncmp` reads.

They are sets because the code puts much of what it answers into memory it has
never written: a response has `Garbage` in front, or overflows (`front`,
`build_response`); the list of `fibonacci` is printed behind what its buffer
held (`before`); the name that is echoed, the location of a redirection and the
response to an unknown method may be anything. The page of a video is written
with `snprintf` to 128 bytes and has its end cut off (`cut`). `echo` is this
service's own: it returns the name it is sent, and fetches nothing. `fibonacci`
computes modulo `2 ^ Width`, as `long long` does with 64 bits; the power is a
function, `pow2`, for the provers know nothing of `^`.

### Programs

`Programs` holds the variables of the smaller programs side by side; `chosen`
says which of them runs in a behaviour, by the actions of its own module, while
the others stay in an initial state. `Counters`, `SharedList`, `FileSync`,
`Replacer` and `JobListUse` are extended, so that what the run checks is what
the theorems state, and so their specifications have names of their own
(`CountersSpec`, `ListSpec`, `SyncSpec`, `ReplacerSpec`, `UseSpec`); the other
modules are instantiated. When "call" is chosen, one step leads from the
arguments of a sequential algorithm to its result. The properties of `Programs`
are those of the modules, and of the algorithms' results against reference
definitions.

* `Counters`: an increment is a load and a store; `register` is what a thread
  has loaded.
* `SharedList`: nodes have a `live` flag; a read of a freed node may give
  garbage, and `malloc` any node that is free. `chain` is the list as the
  pointers have it. An allocation comes before the lock, so a freed node may be
  handed out while a deletion still holds it. Each node points to a mutex: what
  is appended to the list's, a node from `alloc` to its own; `insert` locks the
  one of the node it is given. The program goes on after a write through a
  freed node, up to `dealloc`, which may then free a node twice ("abort") or
  follow a pointer to nowhere ("segv"). `stray` is a history variable: from the
  step on at which a call uses a node that is not in the list as if it were, or
  locks another mutex than the list's, the properties promise nothing. It takes
  a deletion of two equal neighbours, an insertion behind a node that has been
  deleted, or one behind a node with a mutex of its own; the threads of the
  program's `main`, which append and print, never get there.
* `FileSync`, `Replacer`: `scans`, and in the replacer `visits`, is the stack
  of calls of `scan_dir`, each with the entries it has still to read, in any
  order. A path is what the code makes of it: from the third level on it is not
  the one the entry has. `rename`, `rmdir` and `mkdir` fail as the system calls
  do, which the programs ignore. The replacer's pattern is one name, and one
  word of a text, by which the two can be told apart from what stands around
  them; `Renamed` replaces it in the whole path, by `str_replace`.
  `copy_file` writes its whole buffer, whatever it has read, so a copy is longer
  than the original by what the buffer held (`Padded`), and is dated now; a
  file's `padded` counts how often that happened to it, and only files of one
  version and the same count are alike.
* `Strings`, `Anagram`, `Exercises`, `Crypt`, `Rio`, `ShellParse` say in their
  headers what their functions stand for. Memory outside an array is a fault in
  the result; memory never written is any value.

## 3. The runs

Every property of a passing run has been seen to fail on a mutant, a definition
marked "Mutant:" that stands for a plausible mistake in the code.

| Run | Checks | Shows |
|---|---|---|
| `ShellSafety` | `IInv`, `NoLostChild`, `TableFaithful`, `FgIsAwaited`, `JidsUnique` | in every interleaving of `main`, handlers and children the list stays true to the children |
| `ShellLive` | `ZombieReaped`, `ForegroundReturns` | with a list that fills up, dead children are reaped and `waitfg` returns |
| `Barrier` | `CounterCounts`, `RoundsComplete`, `RendezvousSpec` | without spurious wakeups the barrier is a rendezvous, also for threads that come back at once, and up to its destruction; nobody gets through early, and each round has one -1 |
| `BarrierLive` | `AllReturn` | `barrier_example.c`: with spurious wakeups, too, all threads return |
| `Philosophers` | `IInv`, `Exclusion`, `StuckOnlyInCircle`, `SomebodyEats`, `StopsOrStuck` | exclusion; the full circle is the only way to get stuck; otherwise progress, and an end |
| `Game` | `Inv`, `ParentPiecesAgree`, `FinishedHasLine`, `StuckForAReason`, `ComesToAnEnd` | boards and pipes stay in order although the parent misplaces the child's pieces; why all may wait for each other; the processes end, stand still or the parent spins |
| `Chat` | `Inv`, `UpWhileNobodyLeaves`, `NothingLost`, `BuddiesGetToChat` | updates of `connections` get lost once somebody leaves, but it never counts beyond the clients that have come; as long as nobody leaves buddies are mutual and the server lives, late threads or not; with threads on time, and nobody else's at the two clients, nothing sent is lost and buddies get to chat |
| `Web` | `Inv`, `AsPromised`, `CrashNeedsCause`, `Answered` | with threads on time: one answer, to one's own request; in it, behind whatever the memory held, what README.txt promises; a NULL pointer is read only for a client that gave cause; who has sent something is answered |
| `Programs` | `Synchronised`, `Replaced`, `KeysWork`, `NodesAccounted`, `ResultsRight`, `NoIncrementLost`, `ListAsSequence`, `VersionsAdvance`, `OnlyNamesChange`, `JidsFresh` | the smaller programs and the job list, each on its own instance |
| `Shell_CtrlCReachesJob` | violated | ctrl-c is lost on a child that has not reached `execvp` |
| `Barrier_DestroyRespectsWaiters` | violated | a thread calls `barrier_wait` between `barrier_destroy`'s unlock and its destruction of mutex and condition, and waits on what is then destroyed, although comments say "nothing happens while we're destroying" |
| `Chat_ReadsBuddyKey` | violated | a key overtakes the notice of the connection and is read out of step |

### Disagreements met without a run of their own

Seen as counterexamples while the models were written; the properties of the
runs are stated so that they hold beside them.

* `do_bgfg` writes FG into an entry that the handler has cleared since (line
  486), which leaves a free entry in state FG; a comment says "At most 1 job
  can be in the FG state."
* A background child that ends before `eval` looks it up, or that a full list
  has no entry for, makes `eval` dereference NULL (line 231): `segv_announce`.
* A spurious wakeup lets a thread through the barrier alone (`barrier.c`, line
  71). `RoundsComplete`, `RendezvousSpec` and `CounterCounts` are therefore
  stated for `Spurious = FALSE`; `BarrierLive` allows spurious wakeups.
* `barrier_destroy` may also come while woken threads have still to lock the
  mutex (line 40), for the counter it goes by has been reset; the run
  `Barrier_DestroyRespectsWaiters` is about the waiting ones only.
* The philosophers can deadlock in a full circle, and `main` then never
  returns: `StopsOrStuck`.
* The game's parent places the child's piece at its own last move (line 162),
  so the two boards do not agree on the child's pieces; `games_complete` can
  step past the number of games, and the parent then reads the end of file for
  ever (`ComesToAnEnd`).
* README.txt of L4 says of the list that "these threading problems can be
  quelled by adding a mutex attribute to the Node struct", so that it "can lock
  on non-thread-safe functions to ensure safety". One thread that appends two
  twos and deletes 2 is enough to disprove it: the second match is unlinked in
  the node freed for the first, is freed while it is still linked, and `dealloc`
  frees it again. And a node made with `alloc` has a mutex of its own, by which
  an `insert` behind it does not keep anybody out. `NodesAccounted` and
  `ListAsSequence` are stated up to such a call (`stray`).
* The web service puts each response together behind what `malloc` returned
  (`web_service.c`, lines 84 and 129-131), the list of `fibonacci` behind what
  its buffer held (286-307), and cuts the page of a video at 127 characters
  (259, 276): a client gets what README.txt promises, but with garbage in front
  of it or without its end (`AsPromised`). An empty or cut request, and a client
  that goes without a word, can crash it (`Provoked`).
* The synchroniser says copied, and README.txt "synced"; the copy has the
  original's text and, up to the end of a block, what the buffer held. As it is
  also the newer file then, the slave's pass copies it back, longer by up to one
  block: the two sides end with different files (`Same`).
* A blank line makes `parseline` read `argv[-1]`, before the line that is
  commented "ignore blank line" (`shell.c`, line 318): `LineSplit` says so.
* Each of the file tools passes on two names of a path: what lies deeper is
  not synchronised (`Reached`), and `replacer`'s `scan_dir`, when it meets a
  directory `x/x/x`, calls itself with the same arguments until it is out of
  stack. Such trees are left out of the run.
* `KeysWork` says that primes that do not exist make the modulus zero; equal
  primes, whose keys do not undo each other either, are left out of it.

### Bounds

* `MAXJOBS` is 16 in the code. `ShellSafety` has 3 entries, more than the
  processes alive at once, so the list never fills; `ShellLive` has one, so it
  does. Nothing in the code depends on the size otherwise, except the wrap of
  `nextjid`, which `Programs` reaches with 3 entries and 4 processes.
* Two process IDs and up to three forks: IDs are reused after a child is
  reaped; two children are the left and right side of a pipeline, or a
  foreground and a background job.
* `MaxSignals`, two in `ShellSafety` and one in the others: ctrl-c, ctrl-z and
  stops. Two let a job stop, be continued and stop again.
* The barrier: four threads that meet in pairs, twice each, so that a round
  begins while the last is leaving; for liveness six threads in threes that call
  once, as the ten of `barrier_example.c` do (threads that come back may be left
  without partners, whether or not they woke up spuriously). `MaxCalls` bounds
  the calls of each thread.
* The philosophers: four in the run with liveness. The code has five, where
  the invariants hold as well and the deadlock is found too (checked with
  `N = 5`, about 2.8 million states).
* The game: two children, as in the code, on boards of four by four instead of
  eight, the smallest with a line of four in each direction; a child plays in
  one of two columns, so that a column fills up.
* The chat: three clients, so that the third meets two that are paired, or one
  left over; the second types one letter and may leave, so that `main` counts
  the third while the thread of the second counts down; `MaxQueue` only keeps a
  thread from greeting the same client for ever, and `MaxHeard` a client from
  being sent stale words for ever. Three clients do not show everything: from
  four on, the thread of a later client can be late and sit on the slot of one
  that is paired and chats, beside its own thread, and swallow its words (a key
  for a name). So `NothingLost` and `BuddiesGetToChat` ask that no other thread
  has come to the two clients (`Undisturbed`); with four clients they were
  checked as long as nobody leaves, and `NothingLost` is proved for any number.
  That two who leave lose updates to each other takes two leavers; `Inv`, which
  says what comes of it, is proved for any number.
* The web service: two clients and eight kinds of request, one per kind of
  answer; five bits for a long long, so that the tenth number overflows.
* `Programs`: two threads that increment twice, or make one or two calls each,
  by seven scripts, on a list of up to five nodes, which is enough to delete two
  equal neighbours and to hand a freed node out while a deletion holds it; file
  trees of up to two files, three levels deep, from which two differ by age; all
  strings, lines, arguments and arrays up to the lengths in `MCPrograms`; Rio
  with a buffer of three bytes and every kind of short count, interruption and
  error.

### Fairness

* Shell: the kernel delivers a pending SIGCHLD once it is not masked (strong
  fairness, for the mask comes and goes), a handler that runs goes on (weak),
  and `main` goes on in the middle of a command in spite of handlers that
  interrupt it (strong, for each handler returns). Nothing is assumed of the
  user or of the children.
* Barrier: each thread and `main` are scheduled (weak). No order of the mutex.
* Philosophers: each thread is scheduled (weak), and `main` creates and joins
  them; that its `sleep` ends is not assumed, so that `SomebodyEats` is about
  philosophers that are left to themselves for ever. No philosopher is
  promised a meal, only somebody.
* Game: each process is scheduled (weak).
* Chat: the server's threads and `main` between accept and the next are
  scheduled, and the clients read (weak); nobody has to come, type or leave.
* Web: each thread is scheduled (weak).

Deadlock checking is off where the system stops by right: the shell exits; a
thread may find no others to complete its round; the philosophers end, or get
stuck, which `StuckOnlyInCircle` says how; the game ends or gets stuck, which
`StuckForAReason` says why; nobody else connects; a program has returned.

## 4. What is proved

TLAPS proves these for all values of the constants, from the assumptions named
in the modules (`NoPidAssumption`, `MaxJobsAssumption`, `BoundsAssumption`,
`ThreadsAssumption`, `ThresholdAssumption`, `MaxCallsAssumption`, `NAssumption`,
`DimensionAssumption`, `ChildrenAssumption`, `ChatAssumption`, `WebAssumption`,
`ListAssumption`, `ReplacerAssumption`), which say no more than that numbers are
numbers, that there is at least one of what there must be, and that what a
program starts from is what it takes it for: a script is of calls of the list, a
disk is a tree. Three hypotheses are written into the theorems that need them:
`Sized` (the counting threads are finitely many and increment at least once),
`SyncAssumption` (the synchroniser's trees are trees, and the times of their
files tell which version is the later one) and `FreshTexts` (no text has the
pattern twice in front of a replacement from the start, which the replacer would
not mend). TLC evaluates all three on the run's instance (`InstancesSized` in
`MCPrograms`). In each module the inductive invariant was first checked by TLC,
where it is not only a matter of types.

* `ShellProofs`: `Spec => []IInv`, and from it `TypeOK`, `NoLostChild`,
  `TableFaithful`, `PidsUnique`, `FgIsAwaited`, `JidsUnique`. `NoLostChild` and
  the rest are not inductive as they stand. `MaskInv` says that masked signals
  keep `sigchld_handler` away, which is what protects the child between `fork`
  and `addjob` (`NewChildInv`); `ReapedInv` says what the handler knows between
  `waitpid` and its update of the list. Each action is one lemma, grouped by
  what it changes; what the updates do to the list are lemmas of their own.
  These make up `ListInv`. For `JidsUnique` it takes `NextIsFresh`: `nextjid`
  is above each job ID and at most one above the number of calls of `addjob`
  (`Added`), and the `max` that `kill_job`'s `deletejob` holds is not below any
  job ID, though the handler's `deletejob` may lower `nextjid` before it is
  assigned. The bound by `Added` is what keeps `nextjid` from wrapping around
  before `MAXJOBS` calls, and both end with them.
  For the list alone, `JobListUse`: `UseSpec => []JidsFresh`.
* `BarrierProofs`: `TypeOK` and `LockOwner` always; `CounterCounts`,
  `RoundsComplete` and `RendezvousSpec` under `Spurious = FALSE`. The inductive
  invariant is `TypeOK`, `LockOwner` and `CounterCounts`: the step that breaks
  the barrier is abstract `Break` only because `counter = 1` means that
  `Threshold - 1` threads wait, and the mutex keeps the thread at the counter
  out of the waiting ones. For `RoundsComplete`, `RoundsInv` names the number
  `q` of rounds completed: those that have arrived are `q` thresholds and the
  waiting threads, those that have passed or are about to make up `q`
  thresholds, and so do the -1s make up `q`.
* `PhilosophersProofs`: `Spec => []IInv`, and from it `TypeOK`,
  `ForksAccounted`, `Exclusion`, `ForksFreeAtEnd` and `StuckOnlyInCircle`, for
  any number of philosophers from two on. `OwnForks` and `SwappedPerTry` carry
  the swaps, `FailedTry` bounds `tries_left` from below, `InOrder` ties `main`'s
  loops to the threads. That only the circle is stuck goes around the table:
  who blocks does so on a fork whose holder holds it as its first fork, so on
  the neighbour's, who blocks in turn. The induction is on a least
  counterexample, for which the well-foundedness of the inclusion of finite
  sets stands in: the library's induction theorems cannot be used.
* `GameProofs`: `Spec => []Inv` and, from the same induction,
  `ParentPiecesAgree`, `FinishedHasLine` and `StuckForAReason`, for any number
  of games on boards of any size. The first lemmas say what the searches of
  `Board` find: the lowest empty square, the topmost piece, a run that is a line
  (`WinIsLine`), and how many pieces of the parent a column has when one has
  fallen (`PiecesCounted`). A piece of the parent makes no win for the child
  (`NoNewWin`), so such a win is one that the parent has just read (`WinSeen`);
  without this the boards would have to agree in games that are over.
  `ParentsTurn` says that nothing is in the pipes of the game that is to be
  answered, `TurnKept` that in each game with a child at play somebody is to
  move, unless a full column swallowed the child's move. `Counted` says that
  `games_complete` is the number of finished games or some child is gone for
  good (`Lost`). Together they leave a parent in `read` or in `waitpid` no
  other reason to wait for a child that waits for it. `Opening` is about the
  two loops before.
* `ChatProofs`: `Spec => []Inv`, `Spec => []UpWhileNobodyLeaves`, `Spec =>
  []NothingLost`, and the action property that, as long as nobody has left,
  `Accept` writes no other client's slot, for any number of clients. `Ordered`
  holds whoever comes and leaves, whichever threads run between the halves of
  `connections++` and `connections--`, and whatever updates are lost: slots and
  descriptors in use lie below the number of clients accepted, so `accept` finds
  free ones, and at most one client awaits its thread (`Awaited`). Of
  `connections`, and of each copy of it that somebody has loaded and not yet
  stored, it says that it is at most the number of clients that have come
  (`NeverTooMany`): a stale copy was right once, and clients only come; until a
  first thread leaves, it is the number of the threads (`ThreadsCounted`).
  `Calm` holds as long as nobody leaves: the c-th client has slot c - 1 and
  descriptor c, buddies are each other's, at most one client is alone, what
  waits for a thread past the name are whole longs (`LongsWhole`), so that no
  read falls short, as one may that comes after somebody has left, and a thread
  past the handshake sits on a slot whose buddy is found. It does not say that a
  thread sits on its own slot, which the code does not ensure; that the server
  stays up holds even so. `Kept` is about the streams of the clients that their
  own thread and no other serves (`OwnThread`): `HandshakeKept` says that a
  client waits until its thread has told it of a buddy, and sends its key after
  that; `NothingBefore` that nobody hears anything without a buddy; and
  `WordsMerged` that what a client has heard, followed by what its buddy's
  thread has not read, is the buddy's words with the notice somewhere in
  between. Passing words then only moves them from one of the two streams to the
  other (`PassedKept`), and greeting puts the notice where the two meet. The
  notice and the key come from two threads, so the place is not fixed; only a
  client that has been overtaken is left out, for it takes the key for something
  else. `TakeDrop` and `SplitInserts` are what is needed of sequences.
* `WebProofs`: `Spec => []Inv`, `Spec => []CrashNeedsCause`, `Spec =>
  []AsPromised`, and the action property that who has come late stays late.
  `Served` follows a client on time from `accept` to `close`: what it has sent,
  be it nothing or a part, is what waits for its thread, and what its thread then
  has in hand is an answer to that. `OwnDescriptor` says that no two open
  connections share a number, so that a thread on time reads, answers and closes
  its own client's. A NULL pointer is read in the step that would have written
  the answer, and the invariant keeps the culprit: a thread past it, whose client
  has provoked it (`Provoked`) and got nothing. That `accept` finds a free number
  is the pigeonhole principle. `AsPromised` is about `fib`, `trueFib` and
  `pow2`, which are recursive: the lemma `Iteration` makes the sequence of
  values of any step, by the least number up to which there is none, and with
  it each of the three is shown to satisfy its equation (`FibExists` and so
  on); induction is again by the least number for which something fails. The
  two sequences agree up to the first number that is too large (`FibAgrees`),
  which is less than twice what a long long holds, so that its sign shows it
  (`OverflowFound`). What stands around the text, `front`, `before` and `cut`, is
  any, and so nothing is said of it.
* `ThreadsProofs`, the counting programs: `CountersTypeOK` and `FreshRegister`
  always: with a mutex, who is between lock and unlock is alone, and what it has
  loaded is still the counter's value; from it the action property
  `NoIncrementLost`, that each increment a thread makes takes the counter up by
  one, one that would store what is there already included, for any threads and
  any number of increments; these need no assumption on the constants.
  `CountInBounds`, what `main` prints, needs `Sized`. The number of increments
  made is the cardinality of a set of pairs (`Made`), which the counter never
  exceeds and, with a mutex, always is (`NumberInv`). That two threads that
  increment twice leave at least a two without a mutex is `AboveOne`: a one can
  only have been written by a thread's first increment, and that thread then has
  another one to make, which loads no zero.
* `ThreadsProofs`, the list: `ListSpec => []ListInv`, and from it `ListTypeOK`,
  `NodesAccounted` and the action property `ListAsSequence`, for any threads,
  scripts and number of nodes. What has to be known of the heap is that the list
  is one chain of pointers from the first node, none of them twice (`IsChain`),
  and that `chain` is that chain (`ChainFound`); a new node put behind one of
  its nodes, and one taken out, leave a chain with one node more or less
  (`ChainInserted`, `ChainRemoved`). `Locked` keeps the walks apart; `OwnNode`
  says that a node which was allocated before the lock is its thread's own until
  it is linked, whoever frees what meanwhile, and `OnTheList` where a walk has
  come to: after a deletion it stands on a freed node, whose `next` still leads
  back into the list as long as nobody has been given the node, and which a
  further match would write through. All this holds up to the first call that
  goes astray, which is what both properties are about; `ListTypeOK` also after
  it, so that the heap, the mutexes and the threads stay what they are through
  the double free. `NothingLeaks` says that whatever is allocated is linked or
  some thread's new node, which is why `dealloc` frees everything, and nothing
  twice.
* `FilesProofs`, the synchroniser: `SyncSpec => []IInv`, and from it
  `SyncTypeOK`, `Synchronised` and the action property `VersionsAdvance`, for
  trees of any size and depth. `Pending` says that a file's entry, or that of a
  directory on the way to it, is still to come in some call of `scan_dir`; what
  is not pending is settled (`MasterInv`, `SlaveInv`): on the slave in the
  master's version or a later one, and after the second pass the same on both or
  padded once more on the master (`Same`).
  `ScanInv` gives the lengths of the paths of the calls, which are not the
  depths from the third level on; up to there `Sub` is the entry's own path
  (`SubOfParent`), which is why the two levels suffice and no more do. A
  directory that `CopyMissing` makes becomes the place of files that had none:
  `Untouched` says that none of them has been passed by then. `VersionsDated`,
  that the later version has the later time, also holds of the copies, which
  are the latest; with `CopyAsLong`, that whole blocks are no shorter than what
  they hold, it gives `VersionsAdvance`.
* `FilesProofs`, `str_replace`: for any strings, the copy has exactly as many
  characters as memory was allocated for (`ReplacedFits`): after k replacements
  the loop has written what it has read plus k times the difference in length
  (`LoopFits`), and it makes as many as were counted, behind the last of which
  there is none. With a pattern of one character, what is not brought in by the
  replacement is gone (`Sanitized`), the result has the replacement at each
  place of the pattern and is the same elsewhere (`ReplacesOne`), and with the
  pattern put in front of each replacement, no text gets it twice
  (`PrependsOne`, `FollowedOnce`). The functions that count (`CountFound`) and
  that copy (`LoopRight`, `CopyMade`) are recursive; that they exist and what
  holds of each value is shown by the least number for which it does not
  (`LeastElement`), in place of the induction theorems.
* `FilesProofs`, the replacer: `ReplacerTypeOK`, the action property
  `OnlyNamesChange` and `Replaced`, for trees, names and texts of any size.
  `TreeInv` and `CallsInv` are the types: whatever has been renamed, each path
  has its parent. A `rename` moves all that lies below a directory, and two
  paths that it moves to one place are a file and the one it takes the place of
  (`MovedTogether`), so that no other file loses its text (`RenameKeeps`). Of
  `Replaced`, the part about texts needs no more than the lemmas above. The
  part about names is `PlainInv`: in a tree of two levels whose directories are
  not renamed (`PlainDirs`), a selected file with the pattern in its name is
  still to be met in the call of one of the directories on its path
  (`NothingMissed`), whatever files were renamed meanwhile, and the calls that
  are open are those of the directories on one path (`VisitsSound`). In deeper
  trees `Target` is another path than the entry's, and the invariant fails, as
  the code does.

Only model-checked:

* all liveness, for which the installed backends have no rule, and `ENABLED`;
* `KeysWork`, the cipher: that the keys undo each other is number theory, and
  the search for a key an induction over the powers of a message;
* `ResultsRight`, apart from `CountInBounds`, the four type invariants and what
  `ReplacedFits` says of `ReplacedInRoom`, which are proved: that the
  sequential algorithms compute what their reference definitions do would need
  induction over their data, and some of them are RECURSIVE operators, which
  the provers do not read.

## 5. What the models leave out

* Memory never written that holds no zero for more than a buffer's length: the
  list of `fibonacci` would not fit behind it.
* Text: messages, the command line kept in a job, names and colours, options
  of the programs. Argument errors only print and change nothing.
* Of the shell's descriptors: where redirections and pipes lead. So the
  blocking of a foreground left side on a full pipe (line 233) and the
  descriptors `eval` leaks (line 182) are named as hazards and not checked.
* `printf` in handlers, and other undefined behaviour of the C library.
* Failures of `pthread_mutex_*`, `malloc`, `sigaction` and `kill`, and in the
  file tools of reading and writing.
* The dry run of the synchroniser. It copies nothing, but opens the destinations
  with "w" or "w+" all the same (`sync.c`, lines 191, 223, 241), which makes or
  empties them; the model is of a run that copies.
* What becomes of the job IDs after `nextjid` has wrapped around: in a list of
  four entries or more two jobs may have the same one (`JidsFresh` ends there).
* `do_bgfg` may also write FG over the ST that the handler has just written: the
  shell then waits for a stopped job, until something from outside continues it.
  No property forbids that.
* `kill` deletes the entry of a process that may have caught or not yet taken
  the signal. The model has what follows: such a process runs on, or stays
  stopped, unknown to the shell, and if it stops again the handler dereferences
  NULL (`segv_chld`). `kill %k` with no job `k` ends in `segv_kill`.
* The wrappers of `csapp.c`, each of which calls one function of the system and
  exits on an error, and its helpers to open sockets; only Rio is modelled.
* The shell's test programs: children that do what the model's children may.
* `findPieceAtBestPosition` and `printBoard` of the game, `fib` of the cipher,
  `strextend`: never called, or output only.

## 6. What could come next

* `Descriptors` of the shell: `dup`, `pipe` and the redirections, with a pipe
  of bounded capacity.
* An abstract specification of job control as a user sees it (a set of jobs,
  each foreground, background or stopped), implemented by `Shell` as long as no
  stale pointer is used; an abstract relay for `Chat`.
* Proofs about single algorithms of `ResultsRight`, by least counterexamples as
  for `str_replace`: `sort`, `parseline`, Rio's reads.
