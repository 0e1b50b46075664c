------------------------------ MODULE Exercises ------------------------------
(***************************************************************************)
(* The pointer exercises (L1 - pointers): the selection sorts of an array   *)
(* and of a linked list, and an array that grows.                           *)
(***************************************************************************)
EXTENDS Integers, Sequences, SequencesExt

Swapped(a, i, j) == [a EXCEPT ![i] = a[j], ![j] = a[i]]

\* The first of the least elements from position i on.
Least(a, i) == CHOOSE min \in i .. Len(a) :
  /\ \A j \in i .. Len(a) : a[min] <= a[j]
  /\ \A j \in i .. min - 1 : a[min] < a[j]

\* number_3: the least element of the rest comes to each position; the test
\* before the swap compares with the wrong variable and always holds.
sort(a, size) == FoldLeft(LAMBDA s, i : Swapped(s, i, Least(s, i)), a, [i \in 1 .. size |-> i])

\* number_4: a list is its sequence of nodes, main fills and sorts it.
append(list, data) == Append(list, data)
list_sort(list) ==
  FoldLeft(LAMBDA s, iter : IF Least(s, iter) = iter THEN s ELSE Swapped(s, iter, Least(s, iter)),
           list, [i \in DOMAIN list |-> i])
listMain(data) == list_sort(FoldLeft(append, SubSeq(data, 1, 1), Tail(data)))

-----------------------------------------------------------------------------
(***************************************************************************)
(* number_5: an array with its size, the number of elements set, and the    *)
(* elements its memory has room for.  realloc is given the size of a        *)
(* pointer for each element, which is that of two elements.  fault: memory  *)
(* that is not the array's has been read ("read") or written ("write").     *)
(***************************************************************************)
PerPointer == 2
Garbage == -1

build_array(size) ==
  [array |-> [i \in 1 .. size |-> Garbage], size |-> size, set |-> 0, fault |-> {}]

realloc(a, elements) ==
  [a EXCEPT !.array = [i \in 1 .. PerPointer * elements |->
                         IF i \in DOMAIN a.array THEN a.array[i] ELSE Garbage]]

\* a->array[index] = element, whether or not it is the array's memory.
Put(a, index, element) ==
  IF index + 1 \in DOMAIN a.array THEN [a EXCEPT !.array[index + 1] = element]
  ELSE [a EXCEPT !.fault = @ \cup {"write"}]
PutAndCount(a, index, element) == [Put(a, index, element) EXCEPT !.set = @ + 1]

Grow(a) == IF a.set = a.size THEN realloc([a EXCEPT !.size = @ + 1], a.size + 1) ELSE a
Double(a) == IF a.set = a.size THEN realloc([a EXCEPT !.size = @ * 2], a.size * 4) ELSE a

array_add(a, element) == LET b == Grow(a) IN PutAndCount(b, b.set, element)
array_add_double(a, element) == LET b == Double(a) IN PutAndCount(b, b.set, element)

\* An index equal to the size is ignored; a larger one does not change size.
array_add_at_index(a, index, element) ==
  IF index < a.size THEN PutAndCount(a, index, element)
  ELSE IF index > a.size THEN PutAndCount(realloc(a, index), index, element)
  ELSE a

\* Everything behind the index moves, the element behind the last one too; an
\* index that is not set counts as well.
array_remove_by_index(a, index) ==
  LET behind(i) == IF i + 1 \in DOMAIN a.array THEN a.array[i + 1] ELSE Garbage
  IN  IF index \notin 0 .. a.size - 1 THEN a
      ELSE [a EXCEPT !.array = [i \in DOMAIN @ |->
                                  IF i \in index + 1 .. a.size THEN behind(i) ELSE @[i]],
                     !.set = @ - 1,
                     !.fault = @ \cup IF a.size + 1 \in DOMAIN a.array THEN {} ELSE {"read"}]

array_get(a, index) == IF index \in 0 .. a.size - 1 THEN a.array[index + 1] ELSE -1

\* One call after the other.
Apply(a, call) ==
  CASE call.op = "add" -> array_add(a, call.element)
    [] call.op = "double" -> array_add_double(a, call.element)
    [] call.op = "at" -> array_add_at_index(a, call.index, call.element)
    [] call.op = "remove" -> array_remove_by_index(a, call.index)
Use(size, calls) == FoldLeft(Apply, build_array(size), calls)

\* The elements, as a list would have them.
Expected(calls) ==
  FoldLeft(LAMBDA s, call : IF call.op = "remove" THEN RemoveAt(s, call.index + 1)
                            ELSE Append(s, call.element), <<>>, calls)

==============================================================================
