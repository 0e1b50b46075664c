------------------------------- MODULE Anagram -------------------------------
(***************************************************************************)
(* The anagram finder (G1 - anagram finder/main.c).  A character is its     *)
(* ASCII code.  The array of hash tables is the sequence of its nodes: the  *)
(* table, which is the length of the line with its newline, the bucket, and *)
(* the word; in a bucket the last one added comes first.  The buckets are   *)
(* never set to NULL, but the heap they come from is fresh.                 *)
(***************************************************************************)
EXTENDS Strings, SequencesExt

WORD_SIZE == 128
BUCKET_COUNT == 255
Newline == 10
Nul == 0

Lower(c) == IF c \in 65 .. 90 THEN c + 32 ELSE c
ToLower(word) == FoldLeft(LAMBDA lower, c : Append(lower, Lower(c)), <<>>, word)

\* hash also leaves the word in lower case.
hash(word) ==
  LET letters == SelectSeq(ToLower(word), LAMBDA c : c \in 97 .. 122)
  IN  Min({BUCKET_COUNT - 1, FoldLeft(LAMBDA sum, c : sum + c - 96, 0, letters)})

Bucket(hash_array, size, index) ==
  LET nodes == SelectSeq(hash_array, LAMBDA n : n.table = size /\ n.bucket = index)
  IN  [k \in DOMAIN nodes |-> nodes[k].data]

hash_lookup(bucket, val) == \E k \in DOMAIN bucket : bucket[k] = val

\* A line without a newline is lost, and the lookup, which compares with the
\* newline, finds nothing.
add_to_hash_array(hash_array, line) ==
  LET data == ToLower(line)
      index == hash(line)
      word == str_replaceOrNull(data, <<Newline>>, <<>>)
  IN  IF hash_lookup(Bucket(hash_array, Len(data), index), data) \/ word = NULL THEN hash_array
      ELSE <<[table |-> Len(data), bucket |-> index, data |-> word]>> \o hash_array

Load(dict) == FoldLeft(add_to_hash_array, <<>>, dict)

\* The exchange sort, a pass per position: the least of the rest comes there.
string_sort(a) ==
  LET swap(s, i, j) == IF s[i] > s[j] THEN [s EXCEPT ![i] = s[j], ![j] = s[i]] ELSE s
      pass(s, i) == FoldLeft(LAMBDA t, j : swap(t, i, j), s, [k \in 1 .. Len(a) - i |-> i + k])
  IN  FoldLeft(pass, a, [i \in 1 .. Len(a) - 1 |-> i])

\* The character asked for: a read behind the NUL may find it or not.
AtPlace(word, letter, place) ==
  IF letter = Nul \/ place < 0 THEN {TRUE}
  ELSE IF place > Len(word) THEN BOOLEAN
  ELSE {place < Len(word) /\ word[place + 1] = letter}

generate_anagrams(hash_array, arg, letter, place) ==
  LET word == ToLower(arg)
      fits(w) == string_sort(w) = string_sort(word) /\ w # word
                 /\ TRUE \in AtPlace(w, letter, place)
  IN  SelectSeq(Bucket(hash_array, Len(arg) + 1, hash(arg)), fits)

\* Mutant: a letter may be used again and again.
UseKept(left, c) == left
\* The letters of the argument that are left over after one of a word.
Use(left, c) == IF Contains(left, c) THEN RemoveFirst(left, c) ELSE left

\* Each letter of the word is taken out of a copy of the argument.
Formed(word, arg) ==
  LET left[k \in 0 .. Len(word)] == IF k = 0 THEN arg ELSE Use(left[k - 1], word[k])
  IN  \A k \in DOMAIN word : Contains(left[k - 1], word[k])

\* WORD_SIZE, not the number of buckets, bounds the search.
find_all_words(hash_array, size, arg, letter, place) ==
  LET words == FlattenSeq([j \in 1 .. WORD_SIZE |-> Bucket(hash_array, size, j - 1)])
      formed == SelectSeq(words, LAMBDA w : Formed(w, arg))
  IN  {SelectSeq(formed, LAMBDA w : w \in shown) :
         shown \in {s \in SUBSET ToSet(formed) :
                      \A w \in ToSet(formed) : (w \in s) \in AtPlace(w, letter, place)}}

\* One list per length, each of which has several possible outcomes.
permutations(hash_array, arg, letter, place) ==
  [size \in 3 .. Len(arg) + 1 |-> find_all_words(hash_array, size, arg, letter, place)]

Valid(letter) == letter = Nul \/ letter \in 65 .. 90 \cup 97 .. 122
InRange(arg, place) == IF place < 0 \/ place > Len(arg) THEN 0 ELSE place

\* main with three arguments (letter = Nul) or five.
main(dict, mode, arg, letter, place) ==
  IF ~Valid(letter) THEN <<>>
  ELSE LET at == IF letter = Nul THEN -1 ELSE InRange(arg, place)
       IN  IF mode = "anagram" THEN generate_anagrams(Load(dict), arg, Lower(letter), at)
           ELSE permutations(Load(dict), arg, Lower(letter), at)

-----------------------------------------------------------------------------
Letters(w) == [c \in ToSet(w) |-> Cardinality({k \in DOMAIN w : w[k] = c})]

\* The words of the dictionary, as they should be found.
Words(dict) == {ToLower(SubSeq(dict[k], 1, Len(dict[k]) - 1)) :
                  k \in {n \in DOMAIN dict : Last(dict[n]) = Newline}}

\* What "anagram" prints: the words with the same letters, and no other.
AnagramsOf(dict, arg, letter, place) ==
  {w \in Words(dict) :
     /\ Letters(w) = Letters(ToLower(arg)) /\ w # ToLower(arg)
     /\ letter # Nul => place < Len(w) /\ w[place + 1] = Lower(letter)}

\* The words of one length that can be made of the letters of arg.
WordsIn(dict, arg, length) ==
  {w \in Words(dict) :
     /\ Len(w) = length
     /\ \A c \in ToSet(w) : c \in ToSet(arg) /\ Letters(w)[c] <= Letters(arg)[c]}

==============================================================================
