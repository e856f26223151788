----------------------------- MODULE ArrayTools -----------------------------
(***************************************************************************)
(* The array algorithms of util/rand.h and util/sort.h, as functions of    *)
(* sequences: the Knuth shuffler, which goes down from the end of the list *)
(* where std::random_shuffle goes up, and the merge sort of integers.      *)
(* Nothing that is built includes these headers.                           *)
(***************************************************************************)
EXTENDS Integers, Sequences

\* irand(ub): a random word modulo ub.
Irand(word, ub) == word % ub

\* Two entries of a list change places, through tmp; one with itself, nothing.
SwapHalf(list, i, j) == [list EXCEPT ![i] = list[j]]
Swap(list, i, j) == [list EXCEPT ![i] = list[j], ![j] = list[i]]

\* shuffle(type): for each len from the length down to 1, the last of the
\* first len entries changes places with the one that is rolled.
KnuthShuffled(list, words) ==
  LET n == Len(list)
      after[len \in 1 .. n + 1] ==
        IF len = n + 1 THEN list
        ELSE Swap(after[len + 1], Irand(words[len], len) + 1, len)
  IN after[1]

\* a[j] < a[i]: the entry of the right half goes first.
RightFirstWrong(right, left) == right > left
RightFirst(right, left) == right < left

\* The next entry is of the left half, of which i are used, and j of the
\* right one: if that is used up or its next entry does not go first.
FromLeft(left, right, i, j) ==
  \/ j = Len(right)
  \/ i < Len(left) /\ ~RightFirst(right[j + 1], left[i + 1])

\* merge: used[k] is how many of the left half the first k entries are.
Merge(left, right) ==
  LET n == Len(left) + Len(right)
      used[k \in 0 .. n] ==
        IF k = 0 THEN 0
        ELSE LET i == used[k - 1]
             IN IF FromLeft(left, right, i, k - 1 - i) THEN i + 1 ELSE i
  IN [k \in 1 .. n |-> IF used[k] > used[k - 1] THEN left[used[k]]
                                                ELSE right[k - used[k]]]

\* The parts of a list: where one begins, and its length.
Parts(a) ==
  {part \in (1 .. Len(a) + 1) \X (0 .. Len(a)) : part[1] + part[2] <= Len(a) + 1}

\* merge_sort(a, n): the first n \div 2 entries and the rest, then merge.
MergeSort(a) ==
  LET sorted[part \in Parts(a)] ==
        LET first == part[1]
            n == part[2]
            m == n \div 2
        IN IF n < 2 THEN SubSeq(a, first, first + n - 1)
           ELSE Merge(sorted[<<first, m>>], sorted[<<first + m, n - m>>])
  IN sorted[<<1, Len(a)>>]

=============================================================================
