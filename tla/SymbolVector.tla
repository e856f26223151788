---------------------------- MODULE SymbolVector ----------------------------
(* mms::symbol down to the elements: the vector is an array of machine     *)
(* words, and superpose shifts, ors and ands them (mms/symbol.hpp) where   *)
(* SdmDatabase has sets of dimensions.  The measures count the bits of     *)
(* words (mms/bitvector.hpp, ephemeral_vector.hpp).                        *)
(*                                                                         *)
(* A machine word is the set of its bits that are one, so that the bitwise *)
(* operators are those of sets within the bits of a word.                  *)
(*                                                                         *)
(* One thread: what other processes do to the elements is SdmDatabase's.   *)
(* An operator that stands directly before a definition and is used by     *)
(* none is a wrong version of it, for the mutants PROJECT.json lists.      *)
EXTENDS Integers, FiniteSets

CONSTANTS
  SymId,          \* names of symbols
  Words,          \* elements of a vector (n_elements)
  WordBits,       \* bits of an element (element_t)
  UnsignedSize,   \* 2 ^ 32: unsigned arithmetic wraps there
  BasisSize,      \* elements of a fingerprint
  Fingerprints,   \* those the callers construct symbols with
  DitherScale,    \* a dither d stands for the probability d / DitherScale
  Dithers,        \* dithers of the symbols
  Rotations,      \* rotations the callers of superpose pass
  None

Dimensions == Words * WordBits
Dims       == 0 .. Dimensions - 1
Positions  == 1 .. BasisSize
BitsOfWord == 0 .. WordBits - 1
Word       == SUBSET BitsOfWord
Elements   == 0 .. Words - 1

ASSUME VectorAssumption ==
  /\ Words \in Nat \ {0}
  /\ WordBits \in Nat \ {0}
  /\ UnsignedSize \in Nat \ {0}
  /\ BasisSize \in Nat \ {0}
  /\ Fingerprints \subseteq [Positions -> Dims]
  /\ \A f \in Fingerprints : \A i, j \in Positions : f[i] = f[j] => i = j
  /\ DitherScale \in Nat \ {0}
  /\ Dithers \subseteq 0 .. DitherScale
  /\ Rotations \subseteq Int

(* That is harmless in the sum `*it + rotations', which may be negative,   *)
(* because the dimensions divide it, both being powers of two: a build     *)
(* with another number of elements would not do.                           *)
ASSUME PowerAssumption == UnsignedSize % Dimensions = 0

VARIABLES
  index,      \* symbols constructed
  basis,      \* their fingerprints, None before
  dither,     \* their _dither
  words,      \* their vectors, as words
  pc,         \* the loop superpose is in
  call,       \* its target, source, rotations and the turn of the loop
  before,     \* history: bits of the target when the call began
  lessons,    \* history, [target][source]: positions applied
  contested   \* history of the database: nothing is, in one thread

vars == <<index, basis, dither, words, pc, call, before, lessons, contested>>

-----------------------------------------------------------------------------
(* Words.                                                                  *)

\* ONE << b: with a ONE of half the bits the shift would go astray above.
OneShiftedShort(b) == {b % ((WordBits + 1) \div 2)}
OneShifted(b) == {b}

Complement(x) == BitsOfWord \ x
Xor(x, y) == (x \ y) \cup (y \ x)

\* __builtin_popcountll; __builtin_popcount has half the bits.
PopcountShort(x) == Cardinality(x \cap (0 .. WordBits \div 2 - 1))
Popcount(x) == Cardinality(x)

\* The loops over the elements, of one vector and of two.
Total(f) ==
  LET sum[e \in 0 .. Words] == IF e = 0 THEN 0 ELSE sum[e - 1] + f[e - 1]
  IN sum[Words]

Count(v)       == Total([e \in Elements |-> Popcount(v[e])])
Distance(u, v) == Total([e \in Elements |-> Popcount(Xor(u[e], v[e]))])
Inner(u, v)    == Total([e \in Elements |-> Popcount(u[e] \cap v[e])])
CountSum(u, v) == Total([e \in Elements |-> Popcount(u[e] \cup v[e])])

\* similarity and overlap, in units of 1 / Dimensions
Similarity(u, v) == Dimensions - Distance(u, v)
Overlap(u, v)    == Inner(u, v)

\* symbol::inner is not bitvector::inner.
SymbolInner(u, v) == Distance(u, v)

Zeros == [e \in Elements |-> {}]
Ones  == [e \in Elements |-> BitsOfWord]

\* The bits of a vector, by dimension.
Bits(v) == {d \in Dims : d % WordBits \in v[d \div WordBits]}

\* (*it + rotations) % dimensions
RotatedBack(d, rotations) ==
  (IF d + rotations < 0 THEN -(d + rotations) ELSE d + rotations) % Dimensions
Rotated(d, rotations) == ((d + rotations) % UnsignedSize) % Dimensions

-----------------------------------------------------------------------------

Heads(d) == (d * BasisSize) \div DitherScale

Idle == [tgt |-> None, src |-> None, rotations |-> 0, it |-> 1]

Construct ==
  /\ pc = "idle"
  /\ \E id \in SymId \ index, f \in Fingerprints, d \in Dithers :
        /\ index' = index \cup {id}
        /\ basis' = [basis EXCEPT ![id] = f]
        /\ dither' = [dither EXCEPT ![id] = d]
  /\ UNCHANGED <<words, pc, call, before, lessons, contested>>

Superpose ==
  /\ pc = "idle"
  /\ \E t, s \in index, k \in Rotations :
        /\ call' = [tgt |-> t, src |-> s, rotations |-> k, it |-> 1]
        /\ before' = Bits(words[t])
  /\ pc' = "set"
  /\ UNCHANGED <<index, basis, dither, words, lessons, contested>>

\* Where the element of the fingerprint the loop is at goes.
Place == Rotated(basis[call.src][call.it], call.rotations)

\* The element is done with: word is the element's new value.
Store(word) ==
  /\ words' = [words EXCEPT ![call.tgt][Place \div WordBits] = word]
  /\ lessons' = [lessons EXCEPT ![call.tgt][call.src] = @ \cup {call.it}]
  /\ call' = [call EXCEPT !.it = @ + 1]
  /\ UNCHANGED <<index, basis, dither, pc, before, contested>>

Current == words[call.tgt][Place \div WordBits]
Mask    == OneShifted(Place % WordBits)

OrredIn(word, mask)   == word \cup mask
MaskedOut(word, mask) == word \cap Complement(mask)

SetHead ==
  /\ pc = "set"
  /\ call.it <= Heads(dither[call.src])
  /\ Store(OrredIn(Current, Mask))

ClearRemainder ==
  /\ pc = "set"
  /\ call.it > Heads(dither[call.src])
  /\ pc' = "clear"
  /\ UNCHANGED <<index, basis, dither, words, call, before, lessons, contested>>

ClearTail ==
  /\ pc = "clear"
  /\ call.it <= BasisSize
  /\ Store(MaskedOut(Current, Mask))

Done ==
  /\ pc = "clear"
  /\ call.it > BasisSize
  /\ pc' = "idle"
  /\ UNCHANGED <<index, basis, dither, words, call, before, lessons, contested>>

Init ==
  /\ index = {}
  /\ basis = [id \in SymId |-> None]
  /\ dither = [id \in SymId |-> 0]
  /\ words = [id \in SymId |-> Zeros]
  /\ pc = "idle"
  /\ call = Idle
  /\ before = {}
  /\ lessons = [t \in SymId |-> [s \in SymId |-> {}]]
  /\ contested = {}

Next == Construct \/ Superpose \/ SetHead \/ ClearRemainder \/ ClearTail \/ Done

Spec == Init /\ [][Next]_vars

-----------------------------------------------------------------------------

TypeOK ==
  /\ index \subseteq SymId
  /\ words \in [SymId -> [Elements -> Word]]
  /\ pc \in {"idle", "set", "clear"}
  /\ call.it \in 1 .. BasisSize + 1

(* After a superpose the target has, beside what it had, the fingerprint   *)
(* of the source rotated by any number of places, either way round the     *)
(* dimensions: no bit lands in a wrong word, and none of the others moves  *)
(* (symbol.hpp:151-164).                                                   *)
RotationExact ==
  /\ TypeOK
  /\ pc = "idle" /\ call.tgt # None =>
       LET place(i) == (basis[call.src][i] + call.rotations) % Dimensions
           h == Heads(dither[call.src])
       IN Bits(words[call.tgt])
            = (before \cup {place(i) : i \in 1 .. h})
                \ {place(i) : i \in h + 1 .. BasisSize}

(* The measures of words are those of the sets of bits, and so obey the    *)
(* laws of sets: distance is the size of the symmetric difference, and     *)
(* density, overlap and union add up (bitvector.hpp:43-131).               *)
MeasuresAgree ==
  \A s, t \in SymId :
     LET u == words[s]
         v == words[t]
     IN /\ Distance(u, v) = Cardinality(Xor(Bits(u), Bits(v)))
        /\ Inner(u, v) = Cardinality(Bits(u) \cap Bits(v))
        /\ CountSum(u, v) = Cardinality(Bits(u) \cup Bits(v))
        /\ Count(u) + Count(v) = CountSum(u, v) + Inner(u, v)
        /\ Similarity(u, v) \in 0 .. Dimensions
        /\ Similarity(u, v) = Dimensions <=> u = v
        /\ Overlap(u, v) + Overlap(u, [e \in Elements |-> Complement(v[e])])
             = Overlap(u, Ones)

Turn(k) == [d \in Dims |-> (d + k) % Dimensions]

Memory == INSTANCE AssociativeMemory
            WITH vector <- [id \in SymId |-> Bits(words[id])],
                 Turns <- {Turn(k) : k \in Rotations}

(* Words taught bit by bit are the associative memory that SdmDatabase     *)
(* implements with sets, whatever the rotations its lessons are turned by. *)
WordsImplementMemory == Memory!Spec

-----------------------------------------------------------------------------

(* "inner product is the commonality/overlap" (symbol.hpp:117): what       *)
(* symbol::inner returns for two symbols is the number of bits they share. *)
InnerIsOverlap ==
  \A s, t \in index :
     SymbolInner(words[s], words[t]) = Cardinality(Bits(words[s]) \cap Bits(words[t]))

=============================================================================
