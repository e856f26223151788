-------------------------- MODULE IndexRandomizer --------------------------
(***************************************************************************)
(* random::index_randomizer (util/fast_random.hpp) and the constructor of  *)
(* mms::elemental_vector: where fingerprints come from.                    *)
(*                                                                         *)
(* Every database owns one generator.  It lists the dimensions in order    *)
(* once, and shuffle() goes on from the order the last shuffle left, one   *)
(* roll of the engine and one exchange at a time; a fingerprint is the     *)
(* first BasisSize entries of the shuffled list.  The engine is seeded     *)
(* with its default: what it rolls is not known, but it rolls the same for *)
(* every generator, so the rolls are a tape that the generators share and  *)
(* the first to reach a place of it writes.                                *)
(*                                                                         *)
(* An operator that stands directly before a definition and is used by     *)
(* none is a wrong version of it, for the mutants PROJECT.json lists.      *)
(***************************************************************************)
EXTENDS ArrayTools, FiniteSets

CONSTANTS
  Generators,     \* the generators, one for each session of a database
  Dimensions,     \* bits of a semantic vector
  BasisSize,      \* elements of a fingerprint (elemental_bits)
  MaxDraws,       \* bound: shuffles of one generator
  None

Dims == 0 .. Dimensions - 1
Places == 1 .. Dimensions
Positions == 1 .. BasisSize
Fingerprint == [Positions -> Dims]

ASSUME SizeAssumption ==
  /\ Dimensions \in Nat \ {0, 1}
  /\ BasisSize \in Nat \ {0}
  /\ BasisSize <= Dimensions
  /\ MaxDraws \in Nat

ASSUME NothingAssumption == None \notin Fingerprint

VARIABLES
  pc,             \* the step a generator takes next
  idx,            \* _idx: the dimensions, in the order of the last shuffle
  at,             \* the place that is exchanged next
  read,           \* rolls its engine has made
  draws,          \* shuffles it has begun
  drawn,          \* the fingerprint taken of each shuffle, None if none was
  tape,           \* the rolls of an engine with the default seed, as known
  trail,          \* history: the list, place and shuffle after each roll of it
  rolls, from     \* history: the rolls of the last shuffle, and its start

vars == <<pc, idx, at, read, draws, drawn, tape, trail, rolls, from>>

-----------------------------------------------------------------------------

\* index_randomizer's constructor: the dimensions in ascending order.
Ascending == [i \in Places |-> i - 1]

\* uniform_random: std::random_shuffle asks at place i for one of 0 .. i - 1.
SpanWhole(i) == 0 .. Dimensions - 1
Span(i) == 0 .. i - 1

\* elemental_vector takes the first BasisSize entries of the list.
FirstOf(list) == [i \in Positions |-> list[i]]

\* A generator after a roll: its list, the place that is next, its shuffle.
Mark(list, place, shuffle) == [list |-> list, at |-> place, draws |-> shuffle]
Marks == [list : [Places -> Dims], at : 2 .. Dimensions + 1, draws : 0 .. MaxDraws]

Goto(g, step) == pc' = [pc EXCEPT ![g] = step]

\* A session begins: the engine has its default seed again.
Construct(g) ==
  /\ pc[g] = "none"
  /\ Goto(g, "idle")
  /\ UNCHANGED <<idx, at, read, draws, drawn, tape, trail, rolls, from>>

\* index_randomizer::shuffle begins, on the list as it is.
Shuffle(g) ==
  /\ pc[g] = "idle"
  /\ draws[g] < MaxDraws
  /\ draws' = [draws EXCEPT ![g] = @ + 1]
  /\ at' = [at EXCEPT ![g] = 2]
  /\ from' = [from EXCEPT ![g] = idx[g]]
  /\ rolls' = [rolls EXCEPT ![g] = <<>>]
  /\ Goto(g, "exchange")
  /\ UNCHANGED <<idx, read, drawn, tape, trail>>

\* The engine's next roll: what another has rolled there, or a new one.
RollsAnew(g, r) == UNCHANGED tape
Rolls(g, r) ==
  \/ /\ read[g] < Len(tape)
     /\ r = tape[read[g] + 1]
     /\ UNCHANGED tape
  \/ /\ read[g] = Len(tape)
     /\ tape' = Append(tape, r)

Exchange(g) ==
  /\ pc[g] = "exchange"
  /\ at[g] <= Dimensions
  /\ \E r \in Span(at[g]) :
        /\ Rolls(g, r)
        /\ idx' = [idx EXCEPT ![g] = IF r + 1 = at[g] THEN @
                                     ELSE Swap(@, at[g], r + 1)]
        /\ rolls' = [rolls EXCEPT ![g] = Append(@, r)]
  /\ trail' = IF read[g] < Len(tape) THEN trail
              ELSE Append(trail, Mark(idx'[g], at[g] + 1, draws[g]))
  /\ read' = [read EXCEPT ![g] = @ + 1]
  /\ at' = [at EXCEPT ![g] = @ + 1]
  /\ UNCHANGED <<pc, draws, drawn, from>>

\* The shuffled list is handed to the constructor of a symbol, which copies
\* its fingerprint, or throws before it does.
Take(g) ==
  /\ pc[g] = "exchange"
  /\ at[g] > Dimensions
  /\ \/ drawn' = [drawn EXCEPT ![g][draws[g]] = FirstOf(idx[g])]
     \/ UNCHANGED drawn
  /\ Goto(g, "idle")
  /\ UNCHANGED <<idx, at, read, draws, tape, trail, rolls, from>>

-----------------------------------------------------------------------------

Init ==
  /\ pc = [g \in Generators |-> "none"]
  /\ idx = [g \in Generators |-> Ascending]
  /\ at = [g \in Generators |-> Dimensions + 1]
  /\ read = [g \in Generators |-> 0]
  /\ draws = [g \in Generators |-> 0]
  /\ drawn = [g \in Generators |-> [k \in 1 .. MaxDraws |-> None]]
  /\ tape = <<>>
  /\ trail = <<Mark(Ascending, Dimensions + 1, 0)>>
  /\ rolls = [g \in Generators |-> <<>>]
  /\ from = [g \in Generators |-> Ascending]

Next ==
  \E g \in Generators : Construct(g) \/ Shuffle(g) \/ Exchange(g) \/ Take(g)

Spec == Init /\ [][Next]_vars

-----------------------------------------------------------------------------
(* Safety.                                                                 *)

TypeOK ==
  /\ pc \in [Generators -> {"none", "idle", "exchange"}]
  /\ idx \in [Generators -> [Places -> Dims]]
  /\ at \in [Generators -> 2 .. Dimensions + 1]
  /\ read \in [Generators -> Nat]
  /\ draws \in [Generators -> 0 .. MaxDraws]
  /\ drawn \in [Generators -> [1 .. MaxDraws -> Fingerprint \cup {None}]]
  /\ tape \in Seq(Dims)
  /\ trail \in Seq(Marks)
  /\ rolls \in [Generators -> Seq(Dims)]
  /\ from \in [Generators -> [Places -> Dims]]

Injective(f) == \A i, j \in DOMAIN f : f[i] = f[j] => i = j

(* A fingerprint has as many bits as it has entries, however many shuffles *)
(* went before it: the list is an order of all the dimensions between any  *)
(* two exchanges, so no dimension is in a fingerprint twice and none has   *)
(* left the list for good (fast_random.hpp:108-119, elemental_vector.hpp:  *)
(* 23-26).                                                                 *)
FingerprintsSound ==
  /\ TypeOK
  /\ \A g \in Generators :
        /\ Injective(idx[g])
        /\ \A k \in 1 .. MaxDraws :
              drawn[g][k] # None => Injective(drawn[g][k])

\* The order that a shuffle makes of a list if it rolls r at each place.
Shuffled(list, r) ==
  LET after[i \in Places] ==
        IF i = 1 THEN list ELSE Swap(after[i - 1], i, r[i - 1] + 1)
  IN after[Dimensions]

RollsOfAShuffle ==
  {r \in [1 .. Dimensions - 1 -> Dims] :
     \A i \in 1 .. Dimensions - 1 : r[i] \in Span(i + 1)}

(* Every order of the dimensions comes up once: no other rolls would have  *)
(* made the same order of the same list, so a fair engine favours no       *)
(* fingerprint, in the first shuffle or a later one (fast_random.hpp:82-85 *)
(* and 116-119).                                                           *)
Unbiased ==
  \A g \in Generators :
     pc[g] = "exchange" /\ at[g] > Dimensions
       => {r \in RollsOfAShuffle : Shuffled(from[g], r) = idx[g]} = {rolls[g]}

(* Two sessions draw the same fingerprints in the same places, whatever    *)
(* each of them threw away: the k-th symbol of one has the fingerprint of  *)
(* the k-th of the other (fast_random.hpp:105, database.cpp:24-25).  What  *)
(* tells symbols of different sessions apart is nothing but their place.   *)
SessionsReplay ==
  \A g, h \in Generators : \A k \in 1 .. MaxDraws :
     None \notin {drawn[g][k], drawn[h][k]} => drawn[g][k] = drawn[h][k]

-----------------------------------------------------------------------------
(* The array tools on what the generators make.                            *)

Sorted(a) == \A i \in 1 .. Len(a) - 1 : a[i] <= a[i + 1]
HowMany(a, v) == Cardinality({i \in 1 .. Len(a) : a[i] = v})

(* The merge sort puts what a shuffle mixed up back in ascending order,    *)
(* whatever the order, and a list with entries that are equal is sorted    *)
(* too, and loses none of them (sort.h:4-27); the Knuth shuffler only      *)
(* reorders, whatever the words it rolls with (rand.h:78-91).              *)
SortUndoesShuffle ==
  /\ \A g \in Generators :
        /\ MergeSort(idx[g]) = Ascending
        /\ MergeSort(KnuthShuffled(idx[g], idx[g])) = Ascending
  /\ Sorted(MergeSort(tape))
  /\ \A v \in Dims : HowMany(MergeSort(tape), v) = HowMany(tape, v)

=============================================================================
