----------------------------- MODULE SharedList ------------------------------
(***************************************************************************)
(* The concurrent linked list (L4, linked_list.c): threads append, insert,  *)
(* delete and print under a mutex, which they find through a node.  Memory  *)
(* is allocated before the mutex is locked, and freed nodes are read again, *)
(* so a node may be in another thread's hands while a delete still looks at *)
(* it.  What a freed node holds is what it held or garbage; a second free   *)
(* is taken to be noticed, as the C library does.                           *)
(***************************************************************************)
EXTENDS Integers, Sequences, SequencesExt

CONSTANTS
  Workers,
  Scripts,     \* the calls a thread makes: sequences of [op, value]
  MaxNodes     \* bound: the nodes malloc can return

ASSUME ListAssumption ==
  /\ MaxNodes \in Nat \ {0}
  /\ Scripts \subseteq Seq([op : {"append", "insert", "delete", "print"}, value : Int])

VARIABLES
  heap,        \* the nodes: value, next, the mutex they point to (named after
               \* the node it was made for), and whether they are allocated
  lock,        \* for each mutex, the thread that holds it, as a set
  thread,      \* where each thread is, its calls, and its local variables
  status,      \* "running", "returned", "segv", or "abort": freed twice
  stray        \* history: a call has used a node that is not in the list as if
               \* it were, or has locked a mutex that is not the list's

listVars == <<heap, lock, thread, status, stray>>

Null == 0
Garbage == -1
first == 1   \* main allocates the first node
Nodes == 1 .. MaxNodes

\* The list, as the pointers have it, with as many nodes as there can be.
ChainOf(nodes) ==
  LET node[k \in Nodes] == IF k = 1 THEN first
                           ELSE IF node[k - 1] \notin Nodes THEN Null ELSE nodes[node[k - 1]].next
  IN  SubSeq(node, 1, Cardinality({k \in Nodes : node[k] \in Nodes}))
chain == ChainOf(heap)
Linked == ToSet(chain)

\* What a read of a node can give: a freed one may have been overwritten.
Seen(n, field) == {field} \cup (IF heap[n].live THEN {} ELSE {Garbage})
NextOf(n) == Seen(n, heap[n].next)
ValueOf(n) == Seen(n, heap[n].value)

ListInitWith(scripts) ==
  /\ heap = [n \in Nodes |-> [value |-> 1, next |-> Null, mutex |-> first, live |-> n = first]]
  /\ lock = [m \in Nodes |-> {}] /\ status = "running" /\ stray = FALSE
  /\ thread = [t \in Workers |-> [at |-> "call", calls |-> scripts[t], iter |-> Null,
                                  previous |-> Null, new |-> Null]]
ListInit == \E scripts \in [Workers -> Scripts] : ListInitWith(scripts)

Running(t, point) == status = "running" /\ thread[t].at = point
Op(t) == Head(thread[t].calls).op
Value(t) == Head(thread[t].calls).value

\* A read through garbage, or another error of memory, ends the program.
Crash(how) == status' = how /\ UNCHANGED <<heap, lock, thread, stray>>

\* malloc returns any node that is free, and it is filled before the mutex is
\* locked.  insert is given a node that is in the list by now, and a new one
\* that has the list's mutex, as appendWithValue makes it, or its own (alloc).
Allocate(t) ==
  /\ Running(t, "call") /\ thread[t].calls # <<>> /\ Op(t) \in {"append", "insert"}
  /\ \E new \in {n \in Nodes : ~heap[n].live}, previous \in IF Op(t) = "insert" THEN Linked ELSE {Null} :
     \E mutex \in {heap[first].mutex} \cup (IF Op(t) = "insert" THEN {new} ELSE {}) :
       /\ heap' = [heap EXCEPT ![new] = [value |-> Value(t), next |-> Null, mutex |-> mutex, live |-> TRUE]]
       /\ lock' = IF mutex = new THEN [lock EXCEPT ![new] = {}] ELSE lock
       /\ thread' = [thread EXCEPT ![t].at = "lock", ![t].new = new, ![t].previous = previous]
  /\ UNCHANGED <<status, stray>>

Call(t) ==
  /\ Running(t, "call") /\ thread[t].calls # <<>> /\ Op(t) \in {"delete", "print"}
  /\ thread' = [thread EXCEPT ![t].at = "lock", ![t].previous = Null]
  /\ UNCHANGED <<heap, lock, status, stray>>

\* The mutex is found through a node, which may have been freed: insert looks at
\* the one it was given, the others at the first.
Via(t) == IF Op(t) = "insert" THEN thread[t].previous ELSE first
Mutex(t) == heap[Via(t)].mutex

LockWith(t, free) ==
  /\ Running(t, "lock")
  /\ \/ /\ free /\ lock' = [lock EXCEPT ![Mutex(t)] = {t}]
        /\ thread' = [thread EXCEPT ![t].at = Op(t), ![t].iter = first]
        /\ stray' = (stray \/ Via(t) \notin Linked \/ Mutex(t) # first)
        /\ UNCHANGED <<heap, status>>
     \/ ~heap[Via(t)].live /\ Crash("segv")

\* Mutant: the mutex is not asked for.
LockListAnyway(t) == LockWith(t, TRUE)
LockList(t) == LockWith(t, lock[Mutex(t)] = {})

\* append goes to the last node, print over all of them.
Walk(t) ==
  /\ Running(t, "append") \/ (Running(t, "print") /\ thread[t].iter # Null)
  /\ \E next \in NextOf(thread[t].iter) :
       /\ thread[t].at = "append" => next # Null
       /\ IF next = Garbage THEN Crash("segv")
          ELSE thread' = [thread EXCEPT ![t].iter = next] /\ UNCHANGED <<heap, lock, status, stray>>

Link(t) ==
  /\ Running(t, "append") /\ Null \in NextOf(thread[t].iter)
  /\ heap' = [heap EXCEPT ![thread[t].iter].next = thread[t].new]
  /\ thread' = [thread EXCEPT ![t].at = "unlock"]
  /\ UNCHANGED <<lock, status, stray>>

Insert(t) ==
  LET previous == thread[t].previous IN
  /\ Running(t, "insert")
  /\ \E next \in NextOf(previous) :
       heap' = [heap EXCEPT ![thread[t].new].next = next, ![previous].next = thread[t].new]
  /\ thread' = [thread EXCEPT ![t].at = "unlock"]
  /\ UNCHANGED <<lock, status, stray>>

Freed(node) == [node EXCEPT !.live = FALSE]

\* A node is unlinked and freed; the first has no previous one.  The node in
\* front of a second match may be the one that was freed for the first, and then
\* the match is freed while it is still linked.
Delete(t) ==
  LET iter == thread[t].iter  previous == thread[t].previous IN
  /\ Running(t, "delete") /\ iter # Null /\ Value(t) \in ValueOf(iter)
  /\ IF previous = Null THEN Crash("segv")
     ELSE IF ~heap[iter].live THEN Crash("abort")
     ELSE /\ heap' = [heap EXCEPT ![previous].next = heap[iter].next, ![iter] = Freed(@)]
          /\ stray' = (stray \/ previous \notin Linked)
          /\ thread' = [thread EXCEPT ![t].at = "next"]
          /\ UNCHANGED <<lock, status>>

\* The loop goes on from the node, freed or not.
Advance(t) ==
  LET iter == thread[t].iter IN
  /\ \/ Running(t, "next")
     \/ Running(t, "delete") /\ iter # Null /\ \E value \in ValueOf(iter) : value # Value(t)
  /\ \E next \in NextOf(iter) :
       IF next = Garbage THEN Crash("segv")
       ELSE /\ thread' = [thread EXCEPT ![t].at = "delete", ![t].iter = next, ![t].previous = iter]
            /\ UNCHANGED <<heap, lock, status, stray>>

\* The mutex is looked up again.
UnlockList(t) ==
  /\ \/ Running(t, "unlock")
     \/ (Running(t, "print") \/ Running(t, "delete")) /\ thread[t].iter = Null
  /\ \/ /\ lock' = [lock EXCEPT ![Mutex(t)] = {}]
        /\ thread' = [thread EXCEPT ![t].at = "call", ![t].calls = Tail(@)]
        /\ UNCHANGED <<heap, status, stray>>
     \/ ~heap[Via(t)].live /\ Crash("segv")

\* main joins the threads and frees the list; what is freed but still linked, or
\* linked twice, is freed a second time or followed to nowhere.
Whole == heap[chain[Len(chain)]].next = Null /\ \A n \in Linked : heap[n].live
dealloc ==
  /\ status = "running" /\ \A t \in Workers : thread[t].calls = <<>>
  /\ IF Whole
     THEN /\ heap' = [n \in Nodes |-> IF n \in Linked THEN Freed(heap[n]) ELSE heap[n]]
          /\ status' = "returned" /\ UNCHANGED <<lock, thread, stray>>
     ELSE Crash("abort") \/ Crash("segv")

list_routine(t) ==
  \/ Allocate(t) \/ Call(t) \/ LockList(t) \/ Walk(t) \/ Link(t) \/ Insert(t)
  \/ Delete(t) \/ Advance(t) \/ UnlockList(t)

ListNext == dealloc \/ \E t \in Workers : list_routine(t)

ListSpec == ListInit /\ [][ListNext]_listVars

-----------------------------------------------------------------------------
ListTypeOK ==
  /\ heap \in [Nodes -> [value : Int, next : Nodes \cup {Null, Garbage}, mutex : Nodes, live : BOOLEAN]]
  /\ lock \in [Nodes -> SUBSET Workers] /\ stray \in BOOLEAN
  /\ status \in {"running", "returned", "segv", "abort"}
  /\ \A t \in Workers :
       /\ thread[t].at \in {"call", "lock", "append", "insert", "delete", "print", "next", "unlock"}
       /\ {thread[t].iter, thread[t].previous, thread[t].new} \subseteq Nodes \cup {Null}

Behind(previous) == 1 + CHOOSE k \in DOMAIN chain : chain[k] = previous

\* The README's "thread-safe", as far as it goes: each change of the list is one
\* whole operation of the thread that has locked the mutex: an append at the end,
\* an insertion behind the node asked for, or the removal of one node with the
\* value.  That ends when a call goes astray, which takes a delete of two equal
\* neighbours, or an insert behind a node that was deleted meanwhile or has a
\* mutex of its own; the threads of main, which append and print, cannot.
ListAsSequence ==
  [][~stray' /\ chain' # chain =>
      \E t \in lock[first] :
        \/ Op(t) = "append" /\ chain' = Append(chain, thread[t].new)
        \/ /\ Op(t) = "insert"
           /\ chain' = InsertAt(chain, Behind(thread[t].previous), thread[t].new)
        \/ /\ Op(t) = "delete" /\ Value(t) = heap[thread[t].iter].value
           /\ chain' = RemoveFirst(chain, thread[t].iter)]_listVars

\* As long as no call has gone astray, what is linked is allocated and no node
\* is linked twice, although malloc hands freed nodes out again while a delete
\* still holds them; when main returns, every node has been freed, and none has
\* been freed twice.
NodesAccounted ==
  ~stray =>
    /\ status = "running" =>
         /\ \A n \in Linked : heap[n].live
         /\ \A j, k \in DOMAIN chain : chain[j] = chain[k] => j = k
    /\ status = "returned" => \A n \in Nodes : ~heap[n].live
    /\ status # "abort"

==============================================================================
