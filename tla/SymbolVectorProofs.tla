------------------------- MODULE SymbolVectorProofs -------------------------
(* Theorems about SymbolVector, for any number of words, of bits of a word *)
(* and of entries of a fingerprint, and for any rotations: no bit goes     *)
(* astray on its way into a word, the measures of words are those of sets, *)
(* and words implement the associative memory.                             *)
EXTENDS SymbolVector, TLAPS, FiniteSetTheorems, WellFoundedInduction

-----------------------------------------------------------------------------
(* Arithmetic.                                                             *)

LEMMA Parts ==
  ASSUME NEW n \in Nat \ {0}, NEW x \in Int
  PROVE  x \div n \in Int /\ x % n \in 0 .. n - 1 /\ x = n * (x \div n) + (x % n)
  OBVIOUS

LEMMA Division ==
  ASSUME NEW n \in Nat \ {0}, NEW q \in Int, NEW r \in 0 .. n - 1
  PROVE  (n * q + r) \div n = q /\ (n * q + r) % n = r
  OBVIOUS

LEMMA Times ==
  ASSUME NEW n \in Nat \ {0}, NEW p \in Int, NEW q \in Int
  PROVE  n * p < n * q <=> p < q
  <1>1. n * q - n * p = n * (q - p)
    OBVIOUS
  <1>2. CASE q - p >= 1
    <2>1. n * (q - p) >= n
      BY <1>2
    <2> QED
      BY <1>1, <1>2, <2>1
  <1>3. CASE q - p <= 0
    <2>1. n * (q - p) <= 0
      BY <1>3
    <2> QED
      BY <1>1, <1>3, <2>1
  <1> QED
    BY <1>2, <1>3

LEMMA DimensionsNat == Dimensions \in Nat \ {0} /\ WordBits * Words = Dimensions
  BY VectorAssumption DEF Dimensions

\* A dimension is a bit of a word, and the only one there.
LEMMA WordOf ==
  ASSUME NEW d \in Dims
  PROVE  /\ d \div WordBits \in Elements /\ d % WordBits \in BitsOfWord
         /\ d = WordBits * (d \div WordBits) + (d % WordBits)
  <1>1. d \in Int /\ 0 <= d /\ d < WordBits * Words
    BY DimensionsNat DEF Dims
  <1>2. PICK q \in Int, r \in 0 .. WordBits - 1 :
           q = d \div WordBits /\ r = d % WordBits /\ d = WordBits * q + r
    BY <1>1, VectorAssumption, Parts
  <1>3. WordBits * q < WordBits * Words
    BY <1>1, <1>2, VectorAssumption
  <1>4. q < Words
    BY <1>3, VectorAssumption, Times
  <1>5. WordBits * (-1) < WordBits * q
    BY <1>1, <1>2, VectorAssumption
  <1>6. -1 < q
    BY <1>5, VectorAssumption, Times
  <1> QED
    BY <1>2, <1>4, <1>6, VectorAssumption DEF Elements, BitsOfWord

LEMMA OneDimension ==
  ASSUME NEW d \in Dims, NEW x \in Dims,
         x \div WordBits = d \div WordBits, x % WordBits = d % WordBits
  PROVE  x = d
  <1>1. /\ x = WordBits * (x \div WordBits) + (x % WordBits)
        /\ d = WordBits * (d \div WordBits) + (d % WordBits)
    BY WordOf
  <1> QED
    BY <1>1

LEMMA BitOf ==
  ASSUME NEW e \in Elements, NEW b \in BitsOfWord
  PROVE  /\ WordBits * e + b \in Dims
         /\ (WordBits * e + b) \div WordBits = e
         /\ (WordBits * e + b) % WordBits = b
  <1>1. b \in 0 .. WordBits - 1 /\ e \in Nat /\ e < Words
    BY VectorAssumption DEF Elements, BitsOfWord
  <1>2. WordBits * e + b < WordBits * (e + 1)
    BY <1>1, VectorAssumption
  <1>3. ~(WordBits * Words < WordBits * (e + 1))
    BY <1>1, VectorAssumption, Times
  <1>4. WordBits * e + b \in Dims
    <2>1. WordBits * e \in Nat
      BY <1>1, VectorAssumption
    <2> QED
      BY <1>1, <1>2, <1>3, <2>1, DimensionsNat, VectorAssumption DEF Dims
  <1> QED
    <2>1. WordBits \in Nat \ {0} /\ e \in Int /\ b \in 0 .. WordBits - 1
      BY <1>1, VectorAssumption
    <2>2. (WordBits * e + b) \div WordBits = e /\ (WordBits * e + b) % WordBits = b
      BY <2>1, Division
    <2> QED
      BY <1>4, <2>2

\* Unsigned arithmetic on a sum that may be negative.
LEMMA RotatedIs ==
  ASSUME NEW d \in Dims, NEW k \in Int
  PROVE  Rotated(d, k) = (d + k) % Dimensions /\ Rotated(d, k) \in Dims
  <1>1. PICK n \in Nat \ {0} : n = Dimensions
    BY DimensionsNat
  <1>2. PICK x \in Int : x = d + k
    BY <1>1 DEF Dims
  <1>3. PICK m \in Int : UnsignedSize = n * m
    <2>1. UnsignedSize \in Int /\ UnsignedSize % n = 0
      BY <1>1, VectorAssumption, PowerAssumption
    <2>2. UnsignedSize \div n \in Int
          /\ UnsignedSize = n * (UnsignedSize \div n) + (UnsignedSize % n)
      BY <2>1, Parts
    <2>3. PICK m \in Int : m = UnsignedSize \div n
      BY <2>2
    <2>4. UnsignedSize = n * m
      BY <2>1, <2>2, <2>3
    <2> QED
      BY <2>4
  <1>4. PICK q \in Int, y \in Int : y = x % UnsignedSize /\ x = UnsignedSize * q + y
    <2>1. /\ x \div UnsignedSize \in Int /\ x % UnsignedSize \in Int
          /\ x = UnsignedSize * (x \div UnsignedSize) + (x % UnsignedSize)
      BY VectorAssumption, Parts
    <2> QED
      BY <2>1
  <1>5. PICK p \in Int, r \in 0 .. n - 1 : r = y % n /\ y = n * p + r
    <2>1. /\ y \div n \in Int /\ y % n \in 0 .. n - 1
          /\ y = n * (y \div n) + (y % n)
      BY Parts
    <2> QED
      BY <2>1
  <1>6. x = n * (m * q + p) + r
    BY <1>1, <1>3, <1>4, <1>5
  <1>7. x % n = r
    <2>1. m * q + p \in Int
      BY <1>3, <1>4, <1>5
    <2> QED
      BY <1>6, <2>1, Division
  <1>8. Rotated(d, k) = r
    BY <1>1, <1>2, <1>4, <1>5 DEF Rotated
  <1> QED
    BY <1>1, <1>2, <1>5, <1>7, <1>8 DEF Dims

LEMMA HeadsAre ==
  ASSUME NEW d \in 0 .. DitherScale
  PROVE  Heads(d) \in 0 .. BasisSize
  <1>1. PICK q \in Int, r \in 0 .. DitherScale - 1 :
           q = Heads(d) /\ d * BasisSize = DitherScale * q + r
    <2>1. d * BasisSize \in Int
      BY VectorAssumption
    <2> QED
      BY <2>1, VectorAssumption, Parts DEF Heads
  <1>2. DitherScale * q < DitherScale * (BasisSize + 1)
    <2>1. d * BasisSize <= DitherScale * BasisSize
      BY VectorAssumption
    <2>2. DitherScale * BasisSize < DitherScale * (BasisSize + 1)
      BY VectorAssumption
    <2> QED
      BY <1>1, <2>1, <2>2, VectorAssumption
  <1>3. DitherScale * (-1) < DitherScale * q
    <2>1. d * BasisSize >= 0
      BY VectorAssumption
    <2> QED
      BY <1>1, <2>1, VectorAssumption
  <1>4. q < BasisSize + 1
    BY <1>2, VectorAssumption, Times
  <1>5. -1 < q
    BY <1>3, VectorAssumption, Times
  <1> QED
    BY <1>1, <1>4, <1>5, VectorAssumption

-----------------------------------------------------------------------------
(* One bit of a word is one dimension of the vector.                       *)

LEMMA SetBit ==
  ASSUME NEW v \in [Elements -> Word], NEW d \in Dims,
         NEW u, u = [v EXCEPT ![d \div WordBits] =
                       OrredIn(v[d \div WordBits], OneShifted(d % WordBits))]
  PROVE  u \in [Elements -> Word] /\ Bits(u) = Bits(v) \cup {d}
  <1>1. /\ d \div WordBits \in Elements /\ d % WordBits \in BitsOfWord
        /\ \A x \in Dims : x \div WordBits \in Elements
    BY WordOf
  <1>a. ASSUME NEW x \in Dims, x \div WordBits = d \div WordBits,
               x % WordBits = d % WordBits
        PROVE  x = d
    BY <1>a, OneDimension
  <1>2. u = [v EXCEPT ![d \div WordBits] = v[d \div WordBits] \cup {d % WordBits}]
    BY DEF OrredIn, OneShifted
  <1>3. u \in [Elements -> Word]
    BY <1>1, <1>2 DEF Word
  <1>4. ASSUME NEW x \in Dims
        PROVE  x % WordBits \in u[x \div WordBits]
                 <=> x % WordBits \in v[x \div WordBits] \/ x = d
    BY <1>1, <1>a, <1>2
  <1> QED
    BY <1>3, <1>4 DEF Bits

LEMMA ClearBit ==
  ASSUME NEW v \in [Elements -> Word], NEW d \in Dims,
         NEW u, u = [v EXCEPT ![d \div WordBits] =
                       MaskedOut(v[d \div WordBits], OneShifted(d % WordBits))]
  PROVE  u \in [Elements -> Word] /\ Bits(u) = Bits(v) \ {d}
  <1>1. /\ d \div WordBits \in Elements /\ d % WordBits \in BitsOfWord
        /\ \A x \in Dims : x \div WordBits \in Elements
    BY WordOf
  <1>a. ASSUME NEW x \in Dims, x \div WordBits = d \div WordBits,
               x % WordBits = d % WordBits
        PROVE  x = d
    BY <1>a, OneDimension
  <1>2. v[d \div WordBits] \subseteq BitsOfWord
    BY <1>1 DEF Word
  <1>3. u = [v EXCEPT ![d \div WordBits] = v[d \div WordBits] \ {d % WordBits}]
    BY <1>2 DEF MaskedOut, Complement, OneShifted
  <1>4. u \in [Elements -> Word]
    BY <1>1, <1>2, <1>3 DEF Word
  <1>5. ASSUME NEW x \in Dims
        PROVE  x % WordBits \in u[x \div WordBits]
                 <=> x % WordBits \in v[x \div WordBits] /\ x # d
    BY <1>1, <1>a, <1>3
  <1> QED
    BY <1>4, <1>5 DEF Bits

-----------------------------------------------------------------------------
(* The course of a superpose.                                              *)

\* A call runs or is the last that did.
Called == pc # "idle" \/ call.tgt # None

Typed ==
  /\ TypeOK
  /\ basis \in [SymId -> Fingerprints \cup {None}]
  /\ \A id \in index : basis[id] \in Fingerprints
  /\ dither \in [SymId -> 0 .. DitherScale]
  /\ lessons \in [SymId -> [SymId -> SUBSET Positions]]
  /\ contested = {}
  /\ call \in [tgt : SymId \cup {None}, src : SymId \cup {None},
               rotations : Int, it : 1 .. BasisSize + 1]
  /\ Called => {call.tgt, call.src} \subseteq index /\ call.rotations \in Rotations

\* Where the loops are.
Looping ==
  LET h == Heads(dither[call.src])
  IN /\ pc = "set" => call.it <= h + 1
     /\ pc = "clear" => call.it >= h + 1
     /\ pc = "idle" /\ call.tgt # None => call.it = BasisSize + 1

\* Where an entry of the fingerprint goes.
Goes(i) == (basis[call.src][i] + call.rotations) % Dimensions

\* The positions the loops are done with, those they set and those they clear.
Set     == {i \in Positions : i < call.it /\ i <= Heads(dither[call.src])}
Cleared == {i \in Positions : i < call.it /\ i > Heads(dither[call.src])}

Turned == Called => Bits(words[call.tgt])
                      = (before \cup {Goes(i) : i \in Set}) \ {Goes(i) : i \in Cleared}

Superposing == Typed /\ Looping /\ Turned

LEMMA SuperposingInit == Init => Superposing
  <1> SUFFICES ASSUME Init PROVE Superposing
    OBVIOUS
  <1>1. Zeros \in [Elements -> Word]
    BY DEF Zeros, Word
  <1>2. TypeOK
    BY <1>1, VectorAssumption DEF Init, TypeOK, Idle
  <1>3. Idle \in [tgt : SymId \cup {None}, src : SymId \cup {None},
                 rotations : Int, it : 1 .. BasisSize + 1]
    BY VectorAssumption DEF Idle
  <1>4. ~Called
    BY DEF Init, Called, Idle
  <1>5. Typed
    BY <1>2, <1>3, <1>4, VectorAssumption DEF Init, Typed
  <1> QED
    BY <1>4, <1>5 DEF Superposing, Looping, Turned, Init, Called

\* A position of the fingerprint and the word it goes to.
LEMMA PlaceIs ==
  ASSUME Typed, Called, call.it \in Positions
  PROVE  /\ Place = Goes(call.it) /\ Place \in Dims
         /\ words[call.tgt] \in [Elements -> Word]
  <1>1. /\ call.src \in index /\ call.tgt \in SymId /\ call.rotations \in Int
        /\ basis[call.src] \in [Positions -> Dims]
    BY VectorAssumption DEF Typed, TypeOK
  <1>2. basis[call.src][call.it] \in Dims
    BY <1>1
  <1>3. Place = Goes(call.it) /\ Place \in Dims
    BY <1>1, <1>2, RotatedIs DEF Place, Goes
  <1> QED
    BY <1>1, <1>3 DEF Typed, TypeOK

\* An element is stored, and the loop goes on to the next position.
LEMMA StoreIs ==
  ASSUME Typed, pc \in {"set", "clear"}, call.it \in Positions, NEW word, Store(word),
         NEW u, u = [words[call.tgt] EXCEPT ![Place \div WordBits] = word],
         u \in [Elements -> Word]
  PROVE  /\ Typed'
         /\ words' = [words EXCEPT ![call.tgt] = u]
         /\ call' = [call EXCEPT !.it = call.it + 1]
         /\ UNCHANGED <<index, basis, dither, pc, before, contested>>
         /\ lessons' = [lessons EXCEPT ![call.tgt][call.src] = @ \cup {call.it}]
  <1>1. /\ call.tgt \in SymId /\ call.src \in SymId
        /\ {call.tgt, call.src} \subseteq index /\ call.rotations \in Rotations
    BY DEF Typed, TypeOK, Called
  <1>2. words' = [words EXCEPT ![call.tgt] = u]
    BY <1>1 DEF Store, Typed, TypeOK
  <1>3. UNCHANGED <<index, basis, dither, pc, before, contested>>
    BY DEF Store
  <1>4. call' = [call EXCEPT !.it = call.it + 1]
    BY DEF Store
  <1>5. /\ call' \in [tgt : SymId \cup {None}, src : SymId \cup {None},
                      rotations : Int, it : 1 .. BasisSize + 1]
        /\ call'.tgt = call.tgt /\ call'.src = call.src
        /\ call'.rotations = call.rotations /\ call'.it = call.it + 1
    <2>1. call.it + 1 \in 1 .. BasisSize + 1
      BY VectorAssumption DEF Positions
    <2> QED
      BY <1>4, <2>1 DEF Typed
  <1>6. lessons' = [lessons EXCEPT ![call.tgt][call.src] = @ \cup {call.it}]
    BY DEF Store
  <1>7. lessons' \in [SymId -> [SymId -> SUBSET Positions]]
    BY <1>1, <1>6 DEF Typed
  <1>8. TypeOK'
    <2>1. words' \in [SymId -> [Elements -> Word]]
      BY <1>1, <1>2 DEF Typed, TypeOK
    <2> QED
      BY <1>3, <1>5, <2>1 DEF Typed, TypeOK
  <1>9. Typed'
    BY <1>1, <1>3, <1>5, <1>7, <1>8 DEF Typed
  <1> QED
    BY <1>2, <1>3, <1>4, <1>6, <1>9

\* One position more is done with.
LEMMA OneMore ==
  ASSUME Superposing, Called, call.it \in Positions,
         call' = [call EXCEPT !.it = call.it + 1],
         UNCHANGED <<basis, dither>>
  PROVE  LET h == Heads(dither[call.src])
         IN /\ \A i : Goes(i)' = Goes(i)
            /\ Set' = IF call.it <= h THEN Set \cup {call.it} ELSE Set
            /\ Cleared' = IF call.it <= h THEN Cleared ELSE Cleared \cup {call.it}
  <1>1. /\ call'.src = call.src /\ call'.rotations = call.rotations
        /\ call'.it = call.it + 1 /\ call.it \in Int
    BY VectorAssumption DEF Superposing, Typed, Positions
  <1>2. \A i : Goes(i)' = Goes(i)
    BY <1>1 DEF Goes
  <1>3. Heads(dither[call.src])' = Heads(dither[call.src])
    BY <1>1 DEF Heads
  <1>4. Heads(dither[call.src]) \in Int
    BY HeadsAre, VectorAssumption DEF Superposing, Typed, Called, TypeOK
  <1>5. Positions \subseteq Int
    BY DEF Positions
  <1>6. PICK h \in Int : h = Heads(dither[call.src]) /\ h = Heads(dither[call.src])'
    BY <1>3, <1>4
  <1>7. /\ Set = {i \in Positions : i < call.it /\ i <= h}
        /\ Set' = {i \in Positions : i < call.it + 1 /\ i <= h}
        /\ Cleared = {i \in Positions : i < call.it /\ i > h}
        /\ Cleared' = {i \in Positions : i < call.it + 1 /\ i > h}
    BY <1>1, <1>6 DEF Set, Cleared
  <1>8. Set' = IF call.it <= h THEN Set \cup {call.it} ELSE Set
    BY <1>1, <1>5, <1>7
  <1>9. Cleared' = IF call.it <= h THEN Cleared ELSE Cleared \cup {call.it}
    BY <1>1, <1>5, <1>7
  <1> QED
    BY <1>2, <1>6, <1>8, <1>9

LEMMA SetHeadStep == Superposing /\ SetHead => Superposing'
  <1> SUFFICES ASSUME Superposing, SetHead PROVE Superposing'
    OBVIOUS
  <1>1. pc = "set" /\ Called /\ call.it <= Heads(dither[call.src]) /\ Store(OrredIn(Current, Mask))
    BY DEF SetHead, Called
  <1>2. Heads(dither[call.src]) \in 0 .. BasisSize
    BY <1>1, HeadsAre DEF Superposing, Typed, TypeOK
  <1>3. call.it \in Positions
    BY <1>1, <1>2, VectorAssumption DEF Superposing, Typed, Positions
  <1>4. /\ Place = Goes(call.it) /\ Place \in Dims
        /\ words[call.tgt] \in [Elements -> Word]
    BY <1>1, <1>3, PlaceIs DEF Superposing
  <1>5. PICK v, u : /\ v = words[call.tgt]
                    /\ u = [v EXCEPT ![Place \div WordBits] = OrredIn(Current, Mask)]
    OBVIOUS
  <1>6. u \in [Elements -> Word] /\ Bits(u) = Bits(v) \cup {Place}
    BY <1>4, <1>5, SetBit DEF Current, Mask
  <1>7. /\ Typed'
        /\ words' = [words EXCEPT ![call.tgt] = u]
        /\ call' = [call EXCEPT !.it = call.it + 1]
        /\ UNCHANGED <<index, basis, dither, pc, before, contested>>
    BY <1>1, <1>3, <1>5, <1>6, StoreIs DEF Superposing
  <1>8. /\ \A i : Goes(i)' = Goes(i)
        /\ Set' = Set \cup {call.it} /\ Cleared' = Cleared
    BY <1>1, <1>3, <1>7, OneMore
  <1>9. /\ call'.tgt = call.tgt /\ call'.src = call.src /\ call'.it = call.it + 1
        /\ words'[call.tgt] = u /\ call.it \in Int /\ Called'
    BY <1>1, <1>7 DEF Superposing, Typed, TypeOK, Called
  <1>10. Looping'
    <2>1. Heads(dither[call.src])' = Heads(dither[call.src])
      BY <1>7, <1>9 DEF Heads
    <2> QED
      BY <1>1, <1>2, <1>7, <1>9, <2>1 DEF Looping
  <1>11. Cleared = {}
    BY <1>1, <1>2, <1>9 DEF Cleared, Positions
  <1>12. Turned'
    <2>1. Bits(words[call.tgt])' = Bits(v) \cup {Goes(call.it)}
      BY <1>4, <1>6, <1>9 DEF Bits
    <2>2. Bits(v) = (before \cup {Goes(i) : i \in Set}) \ {Goes(i) : i \in Cleared}
      BY <1>1, <1>5 DEF Superposing, Turned
    <2> QED
      BY <1>7, <1>8, <1>11, <2>1, <2>2 DEF Turned
  <1> QED
    BY <1>7, <1>10, <1>12 DEF Superposing

LEMMA ClearTailStep == Superposing /\ ClearTail => Superposing'
  <1> SUFFICES ASSUME Superposing, ClearTail PROVE Superposing'
    OBVIOUS
  <1>1. pc = "clear" /\ Called /\ Store(MaskedOut(Current, Mask))
    BY DEF ClearTail, Called
  <1>2. Heads(dither[call.src]) \in 0 .. BasisSize
    BY <1>1, HeadsAre DEF Superposing, Typed, TypeOK
  <1>3. call.it \in Positions /\ call.it > Heads(dither[call.src])
    BY <1>1, <1>2, VectorAssumption DEF Superposing, Typed, Looping, ClearTail, Positions
  <1>4. /\ Place = Goes(call.it) /\ Place \in Dims
        /\ words[call.tgt] \in [Elements -> Word]
    BY <1>1, <1>3, PlaceIs DEF Superposing
  <1>5. PICK v, u : /\ v = words[call.tgt]
                    /\ u = [v EXCEPT ![Place \div WordBits] = MaskedOut(Current, Mask)]
    OBVIOUS
  <1>6. u \in [Elements -> Word] /\ Bits(u) = Bits(v) \ {Place}
    BY <1>4, <1>5, ClearBit DEF Current, Mask
  <1>7. /\ Typed'
        /\ words' = [words EXCEPT ![call.tgt] = u]
        /\ call' = [call EXCEPT !.it = call.it + 1]
        /\ UNCHANGED <<index, basis, dither, pc, before, contested>>
    BY <1>1, <1>3, <1>5, <1>6, StoreIs DEF Superposing
  <1>8. /\ \A i : Goes(i)' = Goes(i)
        /\ Set' = Set /\ Cleared' = Cleared \cup {call.it}
    <2>1. ~(call.it <= Heads(dither[call.src]))
      BY <1>2, <1>3 DEF Positions
    <2> QED
      BY <1>1, <1>3, <1>7, <2>1, OneMore
  <1>9. /\ call'.tgt = call.tgt /\ call'.src = call.src /\ call'.it = call.it + 1
        /\ words'[call.tgt] = u /\ call.it \in Int /\ Called'
    BY <1>1, <1>7 DEF Superposing, Typed, TypeOK, Called
  <1>10. Looping'
    <2>1. Heads(dither[call.src])' = Heads(dither[call.src])
      BY <1>7, <1>9 DEF Heads
    <2> QED
      BY <1>1, <1>2, <1>3, <1>7, <1>9, <2>1 DEF Looping
  <1>11. Turned'
    <2>1. Bits(words[call.tgt])' = Bits(v) \ {Goes(call.it)}
      BY <1>4, <1>6, <1>9 DEF Bits
    <2>2. Bits(v) = (before \cup {Goes(i) : i \in Set}) \ {Goes(i) : i \in Cleared}
      BY <1>1, <1>5 DEF Superposing, Turned
    <2> QED
      BY <1>7, <1>8, <2>1, <2>2 DEF Turned
  <1> QED
    BY <1>7, <1>10, <1>11 DEF Superposing

\* A step that leaves the call, its symbols and the vectors as they are.
LEMMA SameCall ==
  ASSUME Superposing, UNCHANGED <<words, call, before>>, Called' = Called,
         Called => dither'[call.src] = dither[call.src] /\ basis'[call.src] = basis[call.src]
  PROVE  Turned'
  <1> SUFFICES ASSUME Called PROVE Turned'
    BY DEF Turned
  <1>1. Heads(dither[call.src])' = Heads(dither[call.src])
    BY DEF Heads
  <1>2. Set' = Set /\ Cleared' = Cleared
    BY <1>1 DEF Set, Cleared
  <1>3. \A i : Goes(i)' = Goes(i)
    BY DEF Goes
  <1>4. Bits(words[call.tgt])' = Bits(words[call.tgt])
    BY DEF Bits
  <1>5. Called' /\ before' = before
    OBVIOUS
  <1> QED
    BY <1>2, <1>3, <1>4, <1>5 DEF Turned, Superposing

LEMMA SuperposingStep == Superposing /\ [Next]_vars => Superposing'
  <1> SUFFICES ASSUME Superposing, [Next]_vars PROVE Superposing'
    OBVIOUS
  <1>1. CASE Construct
    <2>1. PICK id \in SymId \ index, f \in Fingerprints, d \in Dithers :
             /\ index' = index \cup {id}
             /\ basis' = [basis EXCEPT ![id] = f]
             /\ dither' = [dither EXCEPT ![id] = d]
      BY <1>1 DEF Construct
    <2>2. /\ pc = "idle" /\ Called' = Called
          /\ UNCHANGED <<words, pc, call, before, lessons, contested>>
      BY <1>1 DEF Construct, Called
    <2>3. Called => dither'[call.src] = dither[call.src] /\ basis'[call.src] = basis[call.src]
      BY <2>1 DEF Superposing, Typed
    <2>4. Typed'
      BY <2>1, <2>2, VectorAssumption DEF Superposing, Typed, TypeOK
    <2>5. Looping'
      BY <2>2 DEF Superposing, Looping
    <2> QED
      BY <2>2, <2>3, <2>4, <2>5, SameCall DEF Superposing
  <1>2. CASE Superpose
    <2>1. PICK t \in index, s \in index, k \in Rotations :
             /\ call' = [tgt |-> t, src |-> s, rotations |-> k, it |-> 1]
             /\ before' = Bits(words[t])
      BY <1>2 DEF Superpose
    <2>2. pc' = "set" /\ UNCHANGED <<index, basis, dither, words, lessons, contested>>
      BY <1>2 DEF Superpose
    <2>3. Typed'
      BY <2>1, <2>2, VectorAssumption DEF Superposing, Typed, TypeOK
    <2>4. Heads(dither[call.src])' \in 0 .. BasisSize
      <3>1. dither'[call'.src] \in 0 .. DitherScale
        BY <2>1, <2>2 DEF Superposing, Typed, TypeOK
      <3>2. Heads(dither'[call'.src]) \in 0 .. BasisSize
        BY <3>1, HeadsAre
      <3> QED
        BY <3>2 DEF Heads
    <2>5. Looping'
      BY <2>1, <2>2, <2>4 DEF Looping
    <2>6. Set' = {} /\ Cleared' = {}
      BY <2>1 DEF Set, Cleared, Positions
    <2>7. Bits(words[call.tgt])' = before'
      BY <2>1, <2>2 DEF Bits
    <2>8. Turned'
      BY <2>6, <2>7 DEF Turned
    <2> QED
      BY <2>3, <2>5, <2>8 DEF Superposing
  <1>3. CASE SetHead
    BY <1>3, SetHeadStep
  <1>4. CASE ClearRemainder
    <2>1. /\ pc = "set" /\ pc' = "clear" /\ call.it > Heads(dither[call.src])
          /\ UNCHANGED <<index, basis, dither, words, call, before, lessons, contested>>
      BY <1>4 DEF ClearRemainder
    <2>2. Called' = Called
      BY <2>1 DEF Called
    <2>3. Typed'
      BY <2>1, <2>2 DEF Superposing, Typed, TypeOK
    <2>4. Heads(dither[call.src]) \in Int /\ call.it \in Int
      BY <2>1, HeadsAre, VectorAssumption DEF Superposing, Typed, Called, TypeOK
    <2>5. Looping'
      BY <2>1, <2>4 DEF Superposing, Looping, Heads
    <2> QED
      BY <2>1, <2>2, <2>3, <2>5, SameCall DEF Superposing
  <1>5. CASE ClearTail
    BY <1>5, ClearTailStep
  <1>6. CASE Done
    <2>1. /\ pc = "clear" /\ pc' = "idle" /\ call.it > BasisSize
          /\ UNCHANGED <<index, basis, dither, words, call, before, lessons, contested>>
      BY <1>6 DEF Done
    <2>2. call.it = BasisSize + 1
      BY <2>1, VectorAssumption DEF Superposing, Typed
    <2>3. CASE call.tgt = None
      <3>1. Typed' /\ Looping' /\ Turned'
        BY <2>1, <2>2, <2>3 DEF Superposing, Typed, TypeOK, Looping, Turned, Called
      <3> QED
        BY <3>1 DEF Superposing
    <2>4. CASE call.tgt # None
      <3>1. Called' = Called
        BY <2>1, <2>4 DEF Called
      <3>2. Typed' /\ Looping'
        BY <2>1, <2>2, <3>1 DEF Superposing, Typed, TypeOK, Looping
      <3> QED
        BY <2>1, <3>1, <3>2, SameCall DEF Superposing
    <2> QED
      BY <2>3, <2>4
  <1>7. CASE UNCHANGED vars
    <2>1. UNCHANGED <<index, basis, dither, words, pc, call, before, lessons, contested>>
      BY <1>7 DEF vars
    <2>2. Called' = Called
      BY <2>1 DEF Called
    <2>3. Typed' /\ Looping'
      BY <2>1, <2>2 DEF Superposing, Typed, TypeOK, Looping, Heads
    <2> QED
      BY <2>1, <2>2, <2>3, SameCall DEF Superposing
  <1> QED
    BY <1>1, <1>2, <1>3, <1>4, <1>5, <1>6, <1>7 DEF Next

(* A superpose puts the whole fingerprint, turned, into the target: no bit *)
(* goes astray and no other bit moves.                                     *)
THEOREM RotationIsExact == Spec => []RotationExact
  <1>1. Superposing => RotationExact
    <2> SUFFICES ASSUME Superposing, pc = "idle", call.tgt # None
                 PROVE  LET place(i) == (basis[call.src][i] + call.rotations) % Dimensions
                            h == Heads(dither[call.src])
                        IN Bits(words[call.tgt])
                             = (before \cup {place(i) : i \in 1 .. h})
                                 \ {place(i) : i \in h + 1 .. BasisSize}
      BY DEF RotationExact, Superposing, Typed
    <2>1. Called /\ call.it = BasisSize + 1
      BY DEF Called, Superposing, Looping
    <2>2. PICK h \in 0 .. BasisSize : h = Heads(dither[call.src])
      BY <2>1, HeadsAre DEF Superposing, Typed, TypeOK
    <2>3. Set = 1 .. h /\ Cleared = h + 1 .. BasisSize
      BY <2>1, <2>2, VectorAssumption DEF Set, Cleared, Positions
    <2> QED
      BY <2>1, <2>2, <2>3 DEF Superposing, Turned, Goes
  <1> QED
    BY <1>1, SuperposingInit, SuperposingStep, PTL DEF Spec

-----------------------------------------------------------------------------
(* The associative memory: each element stored is a position taught.       *)

Vectors == [id \in SymId |-> Bits(words[id])]

LEMMA TeachStep ==
  ASSUME Superposing, SetHead \/ ClearTail
  PROVE  \E t, s \in SymId : Memory!Teach(t, s)
  <1>1. PICK t \in SymId, s \in SymId : t = call.tgt /\ s = call.src /\ {t, s} \subseteq index
    BY DEF SetHead, ClearTail, Superposing, Typed, TypeOK, Called
  <1>2. Heads(dither[s]) \in 0 .. BasisSize
    BY HeadsAre DEF Superposing, Typed
  <1>3. PICK i \in Positions : i = call.it
    BY <1>1, <1>2, VectorAssumption DEF SetHead, ClearTail, Superposing, Typed, Positions
  <1>4. /\ Called /\ pc \in {"set", "clear"}
        /\ SetHead => i <= Heads(dither[s])
        /\ ClearTail => ~(i <= Heads(dither[s]))
    BY <1>1, <1>2, <1>3 DEF SetHead, ClearTail, Superposing, Looping, Called, Positions
  <1>5. /\ Place = Goes(i) /\ Place \in Dims
        /\ words[t] \in [Elements -> Word]
    BY <1>1, <1>3, <1>4, PlaceIs DEF Superposing
  <1>6. PICK k \in Rotations : k = call.rotations
    BY <1>4 DEF Superposing, Typed
  <1>7. /\ Turn(k) \in {Turn(m) : m \in Rotations}
        /\ Turn(k)[basis[s][i]] = Place
    <2>1. basis[s] \in [Positions -> Dims]
      BY <1>1, VectorAssumption DEF Superposing, Typed
    <2>2. basis[s][i] \in Dims
      BY <2>1
    <2> QED
      BY <1>1, <1>5, <1>6, <2>2 DEF Turn, Goes
  <1>8. i <= Heads(dither[s]) <=> i \in Memory!Leading(dither[s])
    BY DEF Memory!Leading, Heads, Positions
  <1>9. PICK word, u :
          /\ Store(word)
          /\ u = [words[t] EXCEPT ![Place \div WordBits] = word]
          /\ u \in [Elements -> Word]
          /\ Bits(u) = IF i <= Heads(dither[s]) THEN Bits(words[t]) \cup {Place}
                       ELSE Bits(words[t]) \ {Place}
    <2>1. CASE SetHead
      <3>1. PICK v, u : /\ v = words[t]
                        /\ u = [v EXCEPT ![Place \div WordBits] = OrredIn(Current, Mask)]
        OBVIOUS
      <3>2. u \in [Elements -> Word] /\ Bits(u) = Bits(v) \cup {Place}
        BY <1>1, <1>5, <3>1, SetBit DEF Current, Mask
      <3> QED
        BY <1>4, <2>1, <3>1, <3>2 DEF SetHead
    <2>2. CASE ClearTail
      <3>1. PICK v, u : /\ v = words[t]
                        /\ u = [v EXCEPT ![Place \div WordBits] = MaskedOut(Current, Mask)]
        OBVIOUS
      <3>2. u \in [Elements -> Word] /\ Bits(u) = Bits(v) \ {Place}
        BY <1>1, <1>5, <3>1, ClearBit DEF Current, Mask
      <3> QED
        BY <1>4, <2>2, <3>1, <3>2 DEF ClearTail
    <2> QED
      BY <2>1, <2>2
  <1>10. /\ words' = [words EXCEPT ![t] = u]
         /\ UNCHANGED <<index, basis, dither, contested>>
         /\ lessons' = [lessons EXCEPT ![t][s] = @ \cup {i}]
    BY <1>1, <1>3, <1>4, <1>9, StoreIs DEF Superposing
  <1>11. Vectors' = [Vectors EXCEPT ![t] =
                       IF i \in Memory!Leading(dither[s])
                       THEN @ \cup {Turn(k)[basis[s][i]]}
                       ELSE @ \ {Turn(k)[basis[s][i]]}]
    <2>1. ASSUME NEW id \in SymId PROVE Bits(words'[id]) = IF id = t THEN Bits(u) ELSE Bits(words[id])
      BY <1>10 DEF Superposing, Typed, TypeOK
    <2>2. Vectors' = [id \in SymId |-> Bits(words'[id])]
      BY DEF Vectors, Bits
    <2>3. Vectors' = [Vectors EXCEPT ![t] = Bits(u)]
      BY <2>1, <2>2 DEF Vectors
    <2> QED
      BY <1>7, <1>8, <1>9, <2>3 DEF Vectors
  <1>12. t \notin contested /\ i \in 1 .. BasisSize
    BY DEF Superposing, Typed, Positions
  <1>13. Memory!Teach(t, s)
    BY <1>1, <1>7, <1>10, <1>11, <1>12 DEF Memory!Teach, Vectors
  <1> QED
    BY <1>13

\* What the other steps do not touch.
LEMMA SameVectors == UNCHANGED words => Vectors' = Vectors
  BY DEF Vectors, Bits

(* Words taught bit by bit are the associative memory.                     *)
THEOREM WordsAreMemory == Spec => WordsImplementMemory
  <1>1. Init => Memory!Init
    <2>1. Bits(Zeros) = {}
      <3>1. \A d \in Dims : Zeros[d \div WordBits] = {}
        BY WordOf DEF Zeros
      <3> QED
        BY <3>1 DEF Bits
    <2> QED
      BY <2>1 DEF Init, Memory!Init
  <1>2. Superposing /\ [Next]_vars => [Memory!Next]_(Memory!mvars)
    <2> SUFFICES ASSUME Superposing, [Next]_vars
                 PROVE  Memory!Next \/ UNCHANGED Memory!mvars
      OBVIOUS
    <2>1. CASE Construct
      <3>1. PICK id \in SymId \ index, f \in Fingerprints, d \in Dithers :
               /\ index' = index \cup {id}
               /\ basis' = [basis EXCEPT ![id] = f]
               /\ dither' = [dither EXCEPT ![id] = d]
        BY <2>1 DEF Construct
      <3>2. /\ f \in [1 .. BasisSize -> 0 .. Dimensions - 1]
            /\ d \in 0 .. DitherScale
        BY VectorAssumption DEF Positions, Dims
      <3>3. UNCHANGED <<Vectors, lessons, contested>>
        BY <2>1, SameVectors DEF Construct
      <3>4. Memory!Define(id)
        BY <3>1, <3>2, <3>3 DEF Memory!Define, Vectors
      <3> QED
        BY <3>4 DEF Memory!Next
    <2>2. CASE SetHead \/ ClearTail
      BY <2>2, TeachStep DEF Memory!Next
    <2>3. CASE Superpose \/ ClearRemainder \/ Done \/ UNCHANGED vars
      <3>1. UNCHANGED <<index, basis, dither, words, lessons, contested>>
        BY <2>3 DEF Superpose, ClearRemainder, Done, vars
      <3>2. UNCHANGED <<index, basis, dither, Vectors, lessons, contested>>
        BY <3>1, SameVectors
      <3> QED
        BY <3>2 DEF Memory!mvars, Vectors
    <2> QED
      BY <2>1, <2>2, <2>3 DEF Next
  <1> QED
    BY <1>1, <1>2, SuperposingInit, SuperposingStep, PTL
    DEF Spec, WordsImplementMemory, Memory!Spec

-----------------------------------------------------------------------------
(* The measures.  What the loops over the elements add up is the size of a *)
(* set of dimensions.                                                      *)

\* A set of numbers that has 0, and the next after each of its own, has
\* them all.
LEMMA Induction ==
  ASSUME NEW S, NEW n \in Nat, 0 \in S, \A k \in 0 .. n - 1 : k \in S => k + 1 \in S
  PROVE  \A k \in 0 .. n : k \in S
  <1> DEFINE Left == (0 .. n) \ S
  <1> SUFFICES ASSUME Left # {} PROVE FALSE
    OBVIOUS
  <1>1. Left \subseteq Nat
    OBVIOUS
  <1>2. PICK k \in Left : \A m \in Left : ~(<<m, k>> \in OpToRel(<, Nat))
    <2> HIDE DEF Left
    <2> QED
      BY <1>1, NatLessThanWellFounded, WFMin
  <1>3. \A m \in Left : ~(m < k)
    <2> HIDE DEF Left
    <2> QED
      BY <1>1, <1>2 DEF OpToRel
  <1>4. k \in 1 .. n
    OBVIOUS
  <1>5. k - 1 \in 0 .. n - 1 /\ k - 1 \notin Left
    BY <1>3, <1>4
  <1> QED
    BY <1>4, <1>5

\* What a loop has added up after the first e elements.
LEMMA TotalIs ==
  ASSUME NEW f, NEW g, g[0] = 0, \A e \in 1 .. Words : g[e] = g[e - 1] + f[e - 1]
  PROVE  Total(f) = g[Words]
  <1> DEFINE Rec(h) == h = [e \in 0 .. Words |-> IF e = 0 THEN 0 ELSE h[e - 1] + f[e - 1]]
             partial == [e \in 0 .. Words |-> g[e]]
  <1>1. Rec(partial)
    BY VectorAssumption
  <1>2. PICK sum : Rec(sum) /\ Total(f) = sum[Words]
    <2>1. Rec(CHOOSE h : Rec(h))
      BY <1>1
    <2> QED
      BY <2>1 DEF Total
  <1>3. sum[0] = 0 /\ \A e \in 1 .. Words : sum[e] = sum[e - 1] + f[e - 1]
    BY <1>2, VectorAssumption
  <1> DEFINE S == {e \in 0 .. Words : sum[e] = g[e]}
  <1>4. 0 \in S
    BY <1>3, VectorAssumption
  <1>5. ASSUME NEW k \in 0 .. Words - 1, k \in S PROVE k + 1 \in S
    <2>1. k + 1 \in 1 .. Words /\ k + 1 - 1 = k
      BY VectorAssumption
    <2>2. sum[k + 1] = sum[k] + f[k] /\ g[k + 1] = g[k] + f[k]
      BY <1>3, <2>1
    <2> QED
      BY <1>5, <2>1, <2>2
  <1>6. \A k \in 0 .. Words : k \in S
    <2> HIDE DEF S
    <2> QED
      BY <1>4, <1>5, VectorAssumption, Induction
  <1> QED
    BY <1>2, <1>6, VectorAssumption

LEMMA DimsFinite == IsFiniteSet(Dims) /\ Cardinality(Dims) = Dimensions
  <1>1. \A k \in Nat : IsFiniteSet(0 .. k - 1) /\ Cardinality(0 .. k - 1) = k
    BY FS_Interval
  <1> QED
    BY <1>1, DimensionsNat DEF Dims

\* The bits of the first e elements.
First(v, e) == {d \in Bits(v) : d < WordBits * e}

LEMMA OneElementMore ==
  ASSUME NEW v \in [Elements -> Word], NEW e \in Elements
  PROVE  /\ Cardinality(First(v, e)) \in Nat /\ Cardinality(v[e]) \in Nat
         /\ Cardinality(First(v, e + 1)) = Cardinality(First(v, e)) + Cardinality(v[e])
  <1> DEFINE T == {d \in Dims : d \div WordBits = e /\ d % WordBits \in v[e]}
             f == [d \in T |-> d % WordBits]
  <1>1. e \in Nat /\ e + 1 \in Nat /\ WordBits * e \in Nat /\ WordBits * (e + 1) = WordBits * e + WordBits
    BY VectorAssumption DEF Elements
  <1>2. v[e] \subseteq BitsOfWord
    BY DEF Word
  <1>3. ASSUME NEW d \in Dims
        PROVE  /\ d < WordBits * e <=> d \div WordBits < e
               /\ d < WordBits * (e + 1) <=> d \div WordBits < e + 1
    <2>1. PICK q \in Nat, b \in 0 .. WordBits - 1 :
             q = d \div WordBits /\ d = WordBits * q + b
      BY WordOf, VectorAssumption DEF Elements, BitsOfWord
    <2>2. ASSUME NEW m \in Nat PROVE d < WordBits * m <=> q < m
      <3>1. CASE q < m
        <4>1. ~(WordBits * m < WordBits * (q + 1))
          BY <3>1, VectorAssumption, Times
        <4>2. WordBits * (q + 1) = WordBits * q + WordBits
          BY VectorAssumption
        <4>3. WordBits * q \in Nat /\ WordBits * m \in Nat
          BY VectorAssumption
        <4> QED
          BY <2>1, <3>1, <4>1, <4>2, <4>3, VectorAssumption
      <3>2. CASE ~(q < m)
        <4>1. ~(WordBits * q < WordBits * m)
          BY <3>2, VectorAssumption, Times
        <4>3. WordBits * q \in Nat /\ WordBits * m \in Nat
          BY VectorAssumption
        <4> QED
          BY <2>1, <3>2, <4>1, <4>3, VectorAssumption
      <3> QED
        BY <3>1, <3>2
    <2> QED
      BY <1>1, <2>1, <2>2
  <1>4. First(v, e + 1) = First(v, e) \cup T /\ First(v, e) \cap T = {}
    <2>1. ASSUME NEW d \in Dims PROVE d \div WordBits \in Nat
      BY WordOf DEF Elements
    <2>2. ASSUME NEW d \in Dims
          PROVE  d \div WordBits < e + 1 <=> (d \div WordBits < e \/ d \div WordBits = e)
      BY <1>1, <2>1
    <2>3. ASSUME NEW d \in Dims, d \div WordBits = e PROVE ~(d \div WordBits < e)
      BY <1>1, <2>3
    <2> QED
      BY <1>3, <2>2, <2>3 DEF First, Bits
  <1>5. IsFiniteSet(First(v, e)) /\ IsFiniteSet(T)
    <2>1. First(v, e) \in SUBSET Dims /\ T \in SUBSET Dims
      BY DEF First, Bits
    <2> QED
      BY <2>1, DimsFinite, FS_Subset
  <1>6. ExistsBijection(T, v[e])
    <2>1. f \in [T -> v[e]]
      OBVIOUS
    <2>2. ASSUME NEW x \in T, NEW y \in T, f[x] = f[y] PROVE x = y
      BY <2>2, OneDimension
    <2>3. ASSUME NEW b \in v[e] PROVE \E d \in T : f[d] = b
      <3>1. /\ WordBits * e + b \in Dims
            /\ (WordBits * e + b) \div WordBits = e /\ (WordBits * e + b) % WordBits = b
        BY <1>2, BitOf
      <3>2. WordBits * e + b \in T /\ f[WordBits * e + b] = b
        BY <3>1
      <3> QED
        BY <3>2
    <2> QED
      BY <2>1, <2>2, <2>3 DEF ExistsBijection, Bijection, Injection, Surjection, IsInjective
  <1>7. Cardinality(v[e]) = Cardinality(T)
    BY <1>5, <1>6, FS_Bijection
  <1>8. Cardinality(First(v, e) \cup T) = Cardinality(First(v, e)) + Cardinality(T)
    <2>1. /\ Cardinality(First(v, e) \cup T) = Cardinality(First(v, e)) + Cardinality(T)
                                               - Cardinality(First(v, e) \cap T)
          /\ Cardinality(First(v, e) \cap T) = 0
      BY <1>4, <1>5, FS_Union, FS_EmptySet
    <2> QED
      BY <1>5, <2>1, FS_CardinalityType
  <1> QED
    BY <1>4, <1>5, <1>7, <1>8, FS_CardinalityType

LEMMA CountIs ==
  ASSUME NEW v \in [Elements -> Word]
  PROVE  Total([e \in Elements |-> Popcount(v[e])]) = Cardinality(Bits(v))
  <1> DEFINE f == [e \in Elements |-> Popcount(v[e])]
             g == [e \in 0 .. Words |-> Cardinality(First(v, e))]
  <1>1. g[0] = 0
    <2>1. First(v, 0) = {}
      <3>1. WordBits * 0 = 0 /\ \A d \in Dims : ~(d < 0)
        BY VectorAssumption, DimensionsNat DEF Dims
      <3> QED
        BY <3>1 DEF First, Bits
    <2>2. Cardinality(First(v, 0)) = 0
      BY <2>1, FS_EmptySet
    <2>3. 0 \in 0 .. Words
      BY VectorAssumption
    <2> QED
      BY <2>2, <2>3
  <1>2. ASSUME NEW e \in 1 .. Words PROVE g[e] = g[e - 1] + f[e - 1]
    <2>1. PICK k \in Elements : k = e - 1 /\ e = k + 1
      BY VectorAssumption DEF Elements
    <2>2. Cardinality(First(v, k + 1)) = Cardinality(First(v, k)) + Cardinality(v[k])
      BY OneElementMore
    <2>3. k \in 0 .. Words /\ e \in 0 .. Words
      BY <2>1, VectorAssumption DEF Elements
    <2> QED
      BY <2>1, <2>2, <2>3 DEF Popcount
  <1>3. Total(f) = g[Words]
    <2> HIDE DEF f, g
    <2> QED
      BY <1>1, <1>2, TotalIs
  <1>4. First(v, Words) = Bits(v)
    BY DimensionsNat DEF First, Bits, Dims
  <1>5. g[Words] = Cardinality(Bits(v))
    BY <1>4, VectorAssumption
  <1> QED
    BY <1>3, <1>5

\* Element by element is dimension by dimension.
LEMMA DistanceIs ==
  ASSUME NEW u \in [Elements -> Word], NEW v \in [Elements -> Word]
  PROVE  Distance(u, v) = Cardinality(Xor(Bits(u), Bits(v)))
  <1>1. PICK w \in [Elements -> Word] : \A e \in Elements : w[e] = Xor(u[e], v[e])
    <2>1. [e \in Elements |-> Xor(u[e], v[e])] \in [Elements -> Word]
      BY DEF Xor, Word
    <2> QED
      BY <2>1
  <1>2. Bits(w) = Xor(Bits(u), Bits(v))
    BY <1>1, WordOf DEF Bits, Xor
  <1>3. Distance(u, v) = Total([e \in Elements |-> Popcount(w[e])])
    <2>1. [e \in Elements |-> Popcount(Xor(u[e], v[e]))] = [e \in Elements |-> Popcount(w[e])]
      BY <1>1
    <2> QED
      BY <2>1 DEF Distance
  <1> QED
    BY <1>2, <1>3, CountIs

LEMMA InnerIs ==
  ASSUME NEW u \in [Elements -> Word], NEW v \in [Elements -> Word]
  PROVE  Inner(u, v) = Cardinality(Bits(u) \cap Bits(v))
  <1>1. PICK w \in [Elements -> Word] : \A e \in Elements : w[e] = u[e] \cap v[e]
    <2>1. [e \in Elements |-> u[e] \cap v[e]] \in [Elements -> Word]
      BY DEF Word
    <2> QED
      BY <2>1
  <1>2. Bits(w) = Bits(u) \cap Bits(v)
    BY <1>1, WordOf DEF Bits
  <1>3. Inner(u, v) = Total([e \in Elements |-> Popcount(w[e])])
    <2>1. [e \in Elements |-> Popcount(u[e] \cap v[e])] = [e \in Elements |-> Popcount(w[e])]
      BY <1>1
    <2> QED
      BY <2>1 DEF Inner
  <1> QED
    BY <1>2, <1>3, CountIs

LEMMA CountSumIs ==
  ASSUME NEW u \in [Elements -> Word], NEW v \in [Elements -> Word]
  PROVE  CountSum(u, v) = Cardinality(Bits(u) \cup Bits(v))
  <1>1. PICK w \in [Elements -> Word] : \A e \in Elements : w[e] = u[e] \cup v[e]
    <2>1. [e \in Elements |-> u[e] \cup v[e]] \in [Elements -> Word]
      BY DEF Word
    <2> QED
      BY <2>1
  <1>2. Bits(w) = Bits(u) \cup Bits(v)
    BY <1>1, WordOf DEF Bits
  <1>3. CountSum(u, v) = Total([e \in Elements |-> Popcount(w[e])])
    <2>1. [e \in Elements |-> Popcount(u[e] \cup v[e])] = [e \in Elements |-> Popcount(w[e])]
      BY <1>1
    <2> QED
      BY <2>1 DEF CountSum
  <1> QED
    BY <1>2, <1>3, CountIs

\* A set of dimensions is finite and no larger than all of them.
LEMMA SomeDims ==
  ASSUME NEW D \in SUBSET Dims
  PROVE  IsFiniteSet(D) /\ Cardinality(D) \in 0 .. Dimensions
  <1>1. IsFiniteSet(D) /\ Cardinality(D) <= Dimensions
    BY DimsFinite, FS_Subset
  <1> QED
    BY <1>1, FS_CardinalityType, DimensionsNat

\* Words that have the same bits are the same.
LEMMA SameBits ==
  ASSUME NEW u \in [Elements -> Word], NEW v \in [Elements -> Word], Bits(u) = Bits(v)
  PROVE  u = v
  <1>1. ASSUME NEW e \in Elements, NEW b \in BitsOfWord
        PROVE  b \in u[e] <=> b \in v[e]
    <2>1. PICK d \in Dims : d \div WordBits = e /\ d % WordBits = b
      BY BitOf
    <2>2. d \in Bits(u) <=> d \in Bits(v)
      OBVIOUS
    <2> QED
      BY <2>1, <2>2 DEF Bits
  <1>2. ASSUME NEW e \in Elements PROVE u[e] = v[e]
    <2>1. u[e] \subseteq BitsOfWord /\ v[e] \subseteq BitsOfWord
      BY DEF Word
    <2> QED
      BY <1>1, <2>1
  <1> QED
    BY <1>2

(* The measures of words obey the laws of sets of dimensions.              *)
THEOREM MeasuresAreOfSets == Spec => []MeasuresAgree
  <1>1. Superposing => MeasuresAgree
    <2> SUFFICES ASSUME NEW u \in [Elements -> Word], NEW v \in [Elements -> Word]
                 PROVE  /\ Distance(u, v) = Cardinality(Xor(Bits(u), Bits(v)))
                        /\ Inner(u, v) = Cardinality(Bits(u) \cap Bits(v))
                        /\ CountSum(u, v) = Cardinality(Bits(u) \cup Bits(v))
                        /\ Count(u) + Count(v) = CountSum(u, v) + Inner(u, v)
                        /\ Similarity(u, v) \in 0 .. Dimensions
                        /\ Similarity(u, v) = Dimensions <=> u = v
                        /\ Overlap(u, v) + Overlap(u, [e \in Elements |-> Complement(v[e])])
                             = Overlap(u, Ones)
      BY DEF MeasuresAgree, Superposing, Typed, TypeOK
    <2>1. PICK U \in SUBSET Dims, V \in SUBSET Dims : U = Bits(u) /\ V = Bits(v)
      BY DEF Bits
    <2>2. /\ Distance(u, v) = Cardinality(Xor(U, V))
          /\ Inner(u, v) = Cardinality(U \cap V)
          /\ CountSum(u, v) = Cardinality(U \cup V)
          /\ Count(u) = Cardinality(U)
          /\ Count(v) = Cardinality(V)
      BY <2>1, DistanceIs, InnerIs, CountSumIs, CountIs DEF Count
    <2>3. Cardinality(U) + Cardinality(V) = Cardinality(U \cup V) + Cardinality(U \cap V)
      <3>1. Cardinality(U \cup V) = Cardinality(U) + Cardinality(V) - Cardinality(U \cap V)
        BY SomeDims, FS_Union
      <3>2. {U, V, U \cup V, U \cap V} \subseteq SUBSET Dims
        OBVIOUS
      <3>3. \A D \in {U, V, U \cup V, U \cap V} : Cardinality(D) \in Nat
        BY <3>2, SomeDims
      <3> QED
        BY <3>1, <3>3
    <2>4. PICK X \in SUBSET Dims : X = Xor(U, V)
      BY DEF Xor
    <2>5. Cardinality(X) \in 0 .. Dimensions /\ (Cardinality(X) = 0 <=> X = {})
      BY SomeDims, FS_EmptySet
    <2>6. Similarity(u, v) = Dimensions - Cardinality(X)
      BY <2>2, <2>4 DEF Similarity
    <2>7. X = {} <=> u = v
      <3>1. X = {} <=> U = V
        BY <2>4 DEF Xor
      <3> QED
        BY <2>1, <3>1, SameBits
    <2>8. Similarity(u, v) \in 0 .. Dimensions /\ (Similarity(u, v) = Dimensions <=> u = v)
      BY <2>5, <2>6, <2>7, DimensionsNat
    <2>9. Overlap(u, v) + Overlap(u, [e \in Elements |-> Complement(v[e])]) = Overlap(u, Ones)
      <3>1. PICK n \in [Elements -> Word] : n = [e \in Elements |-> Complement(v[e])]
        BY DEF Complement, Word
      <3>2. Bits(n) = Dims \ V
        BY <2>1, <3>1, WordOf DEF Bits, Complement
      <3>3. Ones \in [Elements -> Word] /\ Bits(Ones) = Dims
        BY WordOf DEF Ones, Word, Bits
      <3>4. /\ Overlap(u, v) = Cardinality(U \cap V)
            /\ Overlap(u, n) = Cardinality(U \ V)
            /\ Overlap(u, Ones) = Cardinality(U)
        <4>1. U \cap Bits(n) = U \ V /\ U \cap Bits(Ones) = U
          BY <3>2, <3>3
        <4> QED
          BY <2>1, <2>2, <3>3, <4>1, InnerIs DEF Overlap
      <3>5. Cardinality((U \cap V) \cup (U \ V))
              = Cardinality(U \cap V) + Cardinality(U \ V) - Cardinality((U \cap V) \cap (U \ V))
        BY SomeDims, FS_Union
      <3>6. (U \cap V) \cup (U \ V) = U /\ (U \cap V) \cap (U \ V) = {}
        OBVIOUS
      <3>7. Cardinality(U \cap V) \in Nat /\ Cardinality(U \ V) \in Nat
        BY SomeDims
      <3>8. Cardinality(U) = Cardinality(U \cap V) + Cardinality(U \ V)
        <4>1. Cardinality((U \cap V) \cap (U \ V)) = 0
          BY <3>6, FS_EmptySet
        <4>2. Cardinality(U) = Cardinality((U \cap V) \cup (U \ V))
          BY <3>6
        <4> QED
          BY <3>5, <3>7, <4>1, <4>2
      <3> QED
        BY <3>1, <3>4, <3>8
    <2> QED
      BY <2>1, <2>2, <2>3, <2>8, <2>9
  <1> QED
    BY <1>1, SuperposingInit, SuperposingStep, PTL DEF Spec

=============================================================================
