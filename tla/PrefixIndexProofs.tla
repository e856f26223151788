------------------------- MODULE PrefixIndexProofs -------------------------
(* A search by prefix finds the symbols with that prefix and no others,    *)
(* for every set of names and prefixes: the order of the names is total,   *)
(* cutting names to a length keeps it, so that the matches are an interval *)
(* of the index, and an iterator never leaves the part it has yet to walk. *)
EXTENDS PrefixIndex, TLAPS, FiniteSetTheorems, WellFoundedInduction,
        SequenceTheorems

-----------------------------------------------------------------------------
(* The order of the names.                                                 *)

Strings == Seq(Nat)

\* x comes before y, and the letter that decides it is the k-th.
Splits(x, y, k) ==
  /\ k \in 1 .. Len(y)
  /\ k <= Len(x) + 1
  /\ \A j \in 1 .. k - 1 : x[j] = y[j]
  /\ k <= Len(x) => x[k] < y[k]

\* Every set of numbers has a least one.
LEMMA Smallest ==
  ASSUME NEW S, S \subseteq Nat, S # {}
  PROVE  \E n \in S : \A m \in S : n <= m
  <1>1. PICK n \in S : \A m \in S : ~(<<m, n>> \in OpToRel(<, Nat))
    BY NatLessThanWellFounded, WFMin
  <1>2. \A m \in S : ~(m < n)
    BY <1>1 DEF OpToRel
  <1> QED
    BY <1>2

LEMMA LessSplits ==
  ASSUME NEW x \in Strings, NEW y \in Strings
  PROVE  Less(x, y) <=> \E k \in Nat : Splits(x, y, k)
  <1> USE DEF Strings
  <1>1. ASSUME NEW k \in DOMAIN x \cap DOMAIN y,
               x[k] < y[k], \A j \in 1 .. k - 1 : x[j] = y[j]
        PROVE  k \in Nat /\ Splits(x, y, k)
    BY <1>1 DEF Splits
  <1>2. ASSUME Len(x) < Len(y), \A j \in DOMAIN x : x[j] = y[j]
        PROVE  Len(x) + 1 \in Nat /\ Splits(x, y, Len(x) + 1)
    BY <1>2 DEF Splits
  <1>3. ASSUME NEW k \in Nat, Splits(x, y, k) PROVE Less(x, y)
    <2>1. CASE k <= Len(x)
      <3>1. k \in DOMAIN x \cap DOMAIN y /\ x[k] < y[k]
        BY <1>3, <2>1 DEF Splits
      <3> QED
        BY <1>3, <3>1 DEF Splits, Less
    <2>2. CASE ~(k <= Len(x))
      <3>1. k = Len(x) + 1 /\ Len(x) < Len(y)
        BY <1>3, <2>2 DEF Splits
      <3>2. \A j \in DOMAIN x : x[j] = y[j]
        <4>1. DOMAIN x = 1 .. Len(x) /\ Len(x) = k - 1 /\ k \in Nat
          BY <3>1
        <4> QED
          BY <1>3, <4>1 DEF Splits
      <3> QED
        BY <3>1, <3>2 DEF Less
    <2> QED
      BY <2>1, <2>2
  <1>4. ASSUME Less(x, y) PROVE \E k \in Nat : Splits(x, y, k)
    <2>1. CASE \E k \in DOMAIN x \cap DOMAIN y :
                  x[k] < y[k] /\ \A j \in 1 .. k - 1 : x[j] = y[j]
      BY <1>1, <2>1
    <2>2. CASE Len(x) < Len(y) /\ \A j \in DOMAIN x : x[j] = y[j]
      BY <1>2, <2>2
    <2> QED
      BY <1>4, <2>1, <2>2 DEF Less
  <1> QED
    BY <1>3, <1>4

LEMMA LessIrreflexive == ASSUME NEW x \in Strings PROVE ~Less(x, x)
  <1>1. ASSUME NEW k \in Nat, Splits(x, x, k) PROVE FALSE
    <2>1. x[k] \in Nat /\ x[k] < x[k]
      BY <1>1 DEF Splits, Strings
    <2> QED
      BY <2>1
  <1> QED
    BY <1>1, LessSplits

LEMMA LessTransitive ==
  ASSUME NEW x \in Strings, NEW y \in Strings, NEW z \in Strings,
         Less(x, y), Less(y, z)
  PROVE  Less(x, z)
  <1>1. PICK j \in Nat : Splits(x, y, j)
    BY LessSplits
  <1>2. PICK k \in Nat : Splits(y, z, k)
    BY LessSplits
  <1>l. /\ Len(x) \in Nat /\ Len(y) \in Nat /\ Len(z) \in Nat
        /\ \A i \in 1 .. Len(x) : x[i] \in Nat
        /\ \A i \in 1 .. Len(y) : y[i] \in Nat
        /\ \A i \in 1 .. Len(z) : z[i] \in Nat
    BY DEF Strings
  <1>3. CASE j < k
    <2>1. /\ j \in 1 .. Len(z) /\ j <= Len(x) + 1
          /\ j \in 1 .. Len(y) /\ y[j] = z[j]
      BY <1>1, <1>2, <1>3, <1>l DEF Splits
    <2>2. \A i \in 1 .. j - 1 : x[i] = z[i]
      <3> TAKE i \in 1 .. j - 1
      <3>1. i \in 1 .. k - 1
        BY <1>3
      <3> QED
        BY <1>1, <1>2, <3>1 DEF Splits
    <2>3. j <= Len(x) => x[j] < z[j]
      BY <1>1, <2>1 DEF Splits
    <2>4. Splits(x, z, j)
      BY <2>1, <2>2, <2>3 DEF Splits
    <2> QED
      BY <2>4, LessSplits
  <1>4. CASE j = k
    <2>1. /\ j \in 1 .. Len(z) /\ j <= Len(x) + 1
          /\ j \in 1 .. Len(y) /\ y[j] < z[j]
      BY <1>1, <1>2, <1>4, <1>l DEF Splits
    <2>2. \A i \in 1 .. j - 1 : x[i] = z[i]
      BY <1>1, <1>2, <1>4 DEF Splits
    <2>3. j <= Len(x) => x[j] < z[j]
      <3> SUFFICES ASSUME j <= Len(x) PROVE x[j] < z[j]
        OBVIOUS
      <3>1. x[j] < y[j]
        BY <1>1 DEF Splits
      <3>2. x[j] \in Nat /\ y[j] \in Nat /\ z[j] \in Nat
        BY <1>l, <2>1
      <3> QED
        BY <2>1, <3>1, <3>2
    <2>4. Splits(x, z, j)
      BY <2>1, <2>2, <2>3 DEF Splits
    <2> QED
      BY <2>4, LessSplits
  <1>5. CASE k < j
    <2>1. /\ k \in 1 .. Len(z) /\ k \in 1 .. Len(x) /\ k <= Len(y)
          /\ x[k] = y[k]
      BY <1>1, <1>2, <1>5, <1>l DEF Splits
    <2>2. \A i \in 1 .. k - 1 : x[i] = z[i]
      <3> TAKE i \in 1 .. k - 1
      <3>1. i \in 1 .. j - 1
        BY <1>5
      <3> QED
        BY <1>1, <1>2, <3>1 DEF Splits
    <2>3. x[k] < z[k]
      BY <1>2, <2>1 DEF Splits
    <2>4. Splits(x, z, k)
      BY <1>l, <2>1, <2>2, <2>3 DEF Splits
    <2> QED
      BY <2>4, LessSplits
  <1> QED
    BY <1>3, <1>4, <1>5

LEMMA LessTotal ==
  ASSUME NEW x \in Strings, NEW y \in Strings, x # y
  PROVE  Less(x, y) \/ Less(y, x)
  <1>l. /\ Len(x) \in Nat /\ Len(y) \in Nat
        /\ \A i \in 1 .. Len(x) : x[i] \in Nat
        /\ \A i \in 1 .. Len(y) : y[i] \in Nat
    BY DEF Strings
  <1> DEFINE D == {k \in Nat \ {0} : /\ k <= Len(x) + 1 /\ k <= Len(y) + 1
                                     /\ \/ k > Len(x) \/ k > Len(y)
                                        \/ x[k] # y[k]}
  <1>1. D # {}
    <2>1. CASE Len(x) <= Len(y)
      <3>1. Len(x) + 1 \in D
        BY <1>l, <2>1
      <3> QED
        BY <3>1
    <2>2. CASE ~(Len(x) <= Len(y))
      <3>1. Len(y) + 1 \in D
        BY <1>l, <2>2
      <3> QED
        BY <3>1
    <2> QED
      BY <2>1, <2>2
  <1>2. PICK k \in D : \A m \in D : k <= m
    BY <1>1, Smallest, D \subseteq Nat
  <1>3. \A i \in 1 .. k - 1 : x[i] = y[i]
    <2> TAKE i \in 1 .. k - 1
    <2>1. i \notin D /\ i \in Nat \ {0} /\ i <= Len(x) /\ i <= Len(y)
      BY <1>2, <1>l
    <2> QED
      BY <2>1, <1>l
  <1>4. /\ k \in Nat /\ k >= 1 /\ k <= Len(x) + 1 /\ k <= Len(y) + 1
        /\ k > Len(x) \/ k > Len(y) \/ x[k] # y[k]
    OBVIOUS
  <1> HIDE DEF D
  <1>5. CASE k > Len(x) /\ k > Len(y)
    <2>1. Len(x) = Len(y) /\ k = Len(x) + 1
      BY <1>l, <1>4, <1>5
    <2>2. \A i \in 1 .. Len(x) : x[i] = y[i]
      BY <1>3, <1>l, <2>1
    <2>3. x = y
      BY <2>1, <2>2, SeqEqual DEF Strings
    <2> QED
      BY <2>3
  <1>6. CASE k > Len(x) /\ k <= Len(y)
    <2>1. Splits(x, y, k)
      BY <1>l, <1>3, <1>4, <1>6 DEF Splits
    <2> QED
      BY <1>4, <2>1, LessSplits
  <1>7. CASE k <= Len(x) /\ k > Len(y)
    <2>1. Splits(y, x, k)
      BY <1>l, <1>3, <1>4, <1>7 DEF Splits
    <2> QED
      BY <1>4, <2>1, LessSplits
  <1>8. CASE k <= Len(x) /\ k <= Len(y)
    <2>1. x[k] < y[k] \/ y[k] < x[k]
      BY <1>l, <1>4, <1>8
    <2>2. Splits(x, y, k) \/ Splits(y, x, k)
      BY <1>l, <1>3, <1>4, <1>8, <2>1 DEF Splits
    <2> QED
      BY <1>4, <2>2, LessSplits
  <1> QED
    BY <1>l, <1>4, <1>5, <1>6, <1>7, <1>8

-----------------------------------------------------------------------------
(* Cutting names to a length keeps their order.                            *)

LEMMA SubstrIs ==
  ASSUME NEW x \in Strings, NEW n \in Nat
  PROVE  /\ Substr(x, n) \in Strings
         /\ Len(Substr(x, n)) = IF n <= Len(x) THEN n ELSE Len(x)
         /\ \A i \in 1 .. Len(Substr(x, n)) : Substr(x, n)[i] = x[i]
  <1> DEFINE m == IF n <= Len(x) THEN n ELSE Len(x)
  <1>1. m \in Nat /\ m <= Len(x) /\ Substr(x, n) = SubSeq(x, 1, m)
    BY DEF Substr, Strings
  <1>2. \A i \in 1 .. m : x[i] \in Nat
    BY <1>1 DEF Strings
  <1> HIDE DEF m
  <1>3. /\ SubSeq(x, 1, m) \in Seq(Nat)
        /\ Len(SubSeq(x, 1, m)) = m
        /\ \A i \in 1 .. m : SubSeq(x, 1, m)[i] = x[i]
    BY <1>1, <1>2, SubSeqProperties DEF Strings
  <1> QED
    BY <1>1, <1>3 DEF m, Strings

LEMMA CutKeepsOrder ==
  ASSUME NEW x \in Strings, NEW y \in Strings, NEW n \in Nat, Less(x, y)
  PROVE  Substr(x, n) = Substr(y, n) \/ Less(Substr(x, n), Substr(y, n))
  <1> DEFINE u == Substr(x, n)
             v == Substr(y, n)
  <1>1. PICK k \in Nat : Splits(x, y, k)
    BY LessSplits
  <1>l. Len(x) \in Nat /\ Len(y) \in Nat
    BY DEF Strings
  <1>u. /\ u \in Strings /\ Len(u) = (IF n <= Len(x) THEN n ELSE Len(x))
        /\ \A i \in 1 .. Len(u) : u[i] = x[i]
    BY SubstrIs
  <1>v. /\ v \in Strings /\ Len(v) = (IF n <= Len(y) THEN n ELSE Len(y))
        /\ \A i \in 1 .. Len(v) : v[i] = y[i]
    BY SubstrIs
  <1>k. /\ k >= 1 /\ k <= Len(y) /\ k <= Len(x) + 1
        /\ \A i \in 1 .. k - 1 : x[i] = y[i]
        /\ k <= Len(x) => x[k] < y[k]
    BY <1>1 DEF Splits
  <1> HIDE DEF u, v
  <1>2. CASE k <= n
    <2>1. k \in 1 .. Len(v) /\ k <= Len(u) + 1
      BY <1>2, <1>k, <1>l, <1>u, <1>v
    <2>2. \A i \in 1 .. k - 1 : u[i] = v[i]
      <3> TAKE i \in 1 .. k - 1
      <3>1. i \in 1 .. Len(u) /\ i \in 1 .. Len(v)
        BY <2>1, <1>l, <1>u, <1>v
      <3> QED
        BY <3>1, <1>k, <1>u, <1>v
    <2>3. k <= Len(u) => u[k] < v[k]
      <3> SUFFICES ASSUME k <= Len(u) PROVE u[k] < v[k]
        OBVIOUS
      <3>1. k \in 1 .. Len(u) /\ k <= Len(x)
        BY <1>k, <1>l, <1>u
      <3> QED
        BY <3>1, <2>1, <1>k, <1>u, <1>v
    <2>4. Splits(u, v, k)
      BY <2>1, <2>2, <2>3 DEF Splits
    <2> QED
      BY <2>4, <1>u, <1>v, LessSplits DEF u, v
  <1>3. CASE ~(k <= n)
    <2>1. Len(u) = n /\ Len(v) = n
      BY <1>3, <1>k, <1>l, <1>u, <1>v
    <2>2. \A i \in 1 .. n : u[i] = v[i]
      <3> TAKE i \in 1 .. n
      <3>1. i \in 1 .. k - 1
        BY <1>3
      <3> QED
        BY <3>1, <2>1, <1>k, <1>u, <1>v
    <2>3. u = v
      BY <1>u, <1>v, <2>1, <2>2, SeqEqual DEF Strings
    <2> QED
      BY <2>3 DEF u, v
  <1> QED
    BY <1>2, <1>3

LEMMA StartsWithIs ==
  ASSUME NEW x \in Strings, NEW p \in Strings
  PROVE  StartsWith(x, p) <=> Substr(x, Len(p)) = p
  <1>1. Len(x) \in Nat /\ Len(p) \in Nat
    BY DEF Strings
  <1>2. Len(Substr(x, Len(p))) = IF Len(p) <= Len(x) THEN Len(p) ELSE Len(x)
    BY <1>1, SubstrIs
  <1>3. CASE Len(p) <= Len(x)
    BY <1>3 DEF StartsWith, Substr
  <1>4. CASE ~(Len(p) <= Len(x))
    BY <1>1, <1>2, <1>4 DEF StartsWith
  <1> QED
    BY <1>3, <1>4

(* A name is below a prefix, above it, or starts with it: one of the three.*)
LEMMA ThreeParts ==
  ASSUME NEW x \in Strings, NEW p \in Strings
  PROVE  /\ StartsWith(x, p) <=> ~Below(x, p) /\ ~Above(p, x)
         /\ ~(Below(x, p) /\ Above(p, x))
  <1>1. Len(p) \in Nat
    BY DEF Strings
  <1>2. Substr(x, Len(p)) \in Strings
    BY <1>1, SubstrIs
  <1>3. StartsWith(x, p) <=> Substr(x, Len(p)) = p
    BY StartsWithIs
  <1>4. StartsWith(x, p) => ~Below(x, p) /\ ~Above(p, x)
    BY <1>3, LessIrreflexive DEF Below, Above
  <1>5. ~Below(x, p) /\ ~Above(p, x) => StartsWith(x, p)
    BY <1>2, <1>3, LessTotal DEF Below, Above
  <1>6. ~(Below(x, p) /\ Above(p, x))
    BY <1>2, LessTransitive, LessIrreflexive DEF Below, Above
  <1> QED
    BY <1>4, <1>5, <1>6

(* What comes before a name that is below is below, and what comes after   *)
(* one that is above is above.                                             *)
LEMMA PartsInOrder ==
  ASSUME NEW x \in Strings, NEW y \in Strings, NEW p \in Strings, Less(x, y)
  PROVE  /\ Below(y, p) => Below(x, p)
         /\ Above(p, x) => Above(p, y)
         /\ ~Below(x, p) => ~Below(y, p)
         /\ ~Above(p, y) => ~Above(p, x)
  <1>1. Len(p) \in Nat
    BY DEF Strings
  <1>2. Substr(x, Len(p)) \in Strings /\ Substr(y, Len(p)) \in Strings
    BY <1>1, SubstrIs
  <1>3. \/ Substr(x, Len(p)) = Substr(y, Len(p))
        \/ Less(Substr(x, Len(p)), Substr(y, Len(p)))
    BY <1>1, CutKeepsOrder
  <1>4. Below(y, p) => Below(x, p)
    BY <1>2, <1>3, LessTransitive DEF Below
  <1>5. Above(p, x) => Above(p, y)
    BY <1>2, <1>3, LessTransitive DEF Above
  <1> QED
    BY <1>4, <1>5

-----------------------------------------------------------------------------
(* The first of a finite set of names.                                     *)

IsFirst(x, S) == x \in S /\ \A y \in S \ {x} : Less(x, y)

LEMMA FirstExists ==
  ASSUME NEW S, S \subseteq Strings, IsFiniteSet(S), S # {}
  PROVE  \E x \in S : IsFirst(x, S)
  <1> DEFINE Bad == {T \in SUBSET S : T # {} /\ \A x \in T : ~IsFirst(x, T)}
             Sizes == {Cardinality(T) : T \in Bad}
  <1>1. \A T \in SUBSET S : IsFiniteSet(T) /\ Cardinality(T) \in Nat
    BY FS_Subset, FS_CardinalityType
  <1>2. Sizes \subseteq Nat
    BY <1>1
  <1>3. ASSUME S \in Bad PROVE FALSE
    <2>1. Sizes # {}
      BY <1>3
    <2>2. PICK n \in Sizes : \A m \in Sizes : n <= m
      BY <1>2, <2>1, Smallest
    <2>3. PICK T \in Bad : n = Cardinality(T)
      BY <2>2
    <2>4. T \in SUBSET S /\ T # {} /\ \A x \in T : ~IsFirst(x, T)
      BY <2>3
    <2>5. PICK a \in T : TRUE
      BY <2>4
    <2>6. /\ IsFiniteSet(T \ {a}) /\ T \ {a} \in SUBSET S
          /\ Cardinality(T \ {a}) = Cardinality(T) - 1
      BY <1>1, <2>4, <2>5, FS_RemoveElement
    <2>7. Cardinality(T) \in Nat
      BY <1>1, <2>4
    <2>8. T \ {a} \notin Bad
      <3>1. CASE T \ {a} \in Bad
        <4>1. Cardinality(T \ {a}) \in Sizes
          BY <3>1
        <4>2. n <= Cardinality(T \ {a})
          BY <2>2, <4>1
        <4> HIDE DEF Sizes, Bad
        <4> QED
          BY <2>3, <2>6, <2>7, <4>2
      <3> QED
        BY <3>1
    <2>9. CASE T \ {a} = {}
      <3>1. IsFirst(a, T)
        BY <2>5, <2>9 DEF IsFirst
      <3> QED
        BY <2>4, <2>5, <3>1
    <2>10. CASE T \ {a} # {}
      <3>1. PICK b \in T \ {a} : IsFirst(b, T \ {a})
        BY <2>6, <2>8, <2>10
      <3>2. a \in Strings /\ b \in Strings /\ T \subseteq Strings /\ a # b
        BY <2>4, <2>5, <3>1
      <3> HIDE DEF Sizes, Bad
      <3>3. CASE Less(a, b)
        <4>1. \A y \in T \ {a} : Less(a, y)
          <5> TAKE y \in T \ {a}
          <5>1. CASE y = b
            BY <3>3, <5>1
          <5>2. CASE y # b
            <6>1. Less(b, y) /\ y \in Strings
              BY <3>1, <3>2, <5>2 DEF IsFirst
            <6> QED
              BY <3>2, <3>3, <6>1, LessTransitive
          <5> QED
            BY <5>1, <5>2
        <4>2. IsFirst(a, T)
          BY <2>5, <4>1 DEF IsFirst
        <4> QED
          BY <2>4, <2>5, <4>2
      <3>4. CASE Less(b, a)
        <4>1. \A y \in T \ {b} : Less(b, y)
          BY <3>1, <3>4 DEF IsFirst
        <4>2. IsFirst(b, T)
          BY <3>1, <4>1 DEF IsFirst
        <4> QED
          BY <2>4, <3>1, <4>2
      <3> QED
        BY <3>2, <3>3, <3>4, LessTotal
    <2> QED
      BY <2>9, <2>10
  <1> QED
    BY <1>3

LEMMA FirstIs ==
  ASSUME NEW S, S \subseteq Strings, IsFiniteSet(S), End \notin S
  PROVE  /\ First(S) = End <=> S = {}
         /\ S # {} => /\ First(S) \in S
                      /\ \A y \in S : y = First(S) \/ Less(First(S), y)
  <1>1. CASE S = {}
    BY <1>1 DEF First
  <1>2. CASE S # {}
    <2>1. \E x \in S : \A y \in S \ {x} : Less(x, y)
      BY <1>2, FirstExists DEF IsFirst
    <2>2. First(S) = CHOOSE x \in S : \A y \in S \ {x} : Less(x, y)
      BY <1>2 DEF First
    <2>3. First(S) \in S /\ \A y \in S \ {First(S)} : Less(First(S), y)
      BY <2>1, <2>2
    <2> QED
      BY <1>2, <2>3
  <1> QED
    BY <1>1, <1>2

-----------------------------------------------------------------------------
(* The inductive invariant.                                                *)

\* The iterator is in the part to walk, or at its end.
AtOK ==
  /\ at # End => ~Below(at, prefix)
  /\ at = End => stop = End
  /\ stop # End => at = stop \/ Less(at, stop)

\* The end parts what was above the prefix from the rest.
StopOK ==
  /\ stop # End => Above(prefix, stop)
  /\ \A x \in began : Above(prefix, x) => stop # End /\ ~Less(x, stop)

\* What was printed is between the two ends and behind the iterator.
PrintedOK ==
  \A x \in Printed : /\ ~Below(x, prefix)
                     /\ stop # End => Less(x, stop)
                     /\ at # End => Less(x, at)

NoneLost ==
  \A x \in began : StartsWith(x, prefix) =>
     x \in Printed \/ (at # End /\ (x = at \/ Less(at, x)))

Walking == AtOK /\ StopOK /\ PrintedOK /\ NoneLost

Ordered == \A k, l \in DOMAIN printed : k < l => Less(printed[k], printed[l])

IInv == /\ TypeOK /\ prefix \in Strings
        /\ Ordered
        /\ pc = "walk" => Walking

-----------------------------------------------------------------------------

LEMMA TableOfStrings ==
  ASSUME TypeOK
  PROVE  /\ Names \subseteq Strings /\ End \notin Names
         /\ table \subseteq Strings /\ began \subseteq table /\ End \notin table
         /\ \A S : S \subseteq table => IsFiniteSet(S)
  <1>1. Names \subseteq Strings /\ IsFiniteSet(Names) /\ End \notin Names
    BY PrefixAssumption DEF Strings
  <1>2. table \subseteq Names /\ began \subseteq table
    BY DEF TypeOK
  <1> QED
    BY <1>1, <1>2, FS_Subset

LEMMA PrintedAre ==
  ASSUME TypeOK
  PROVE  Printed \subseteq table
  BY DEF TypeOK, Printed

LEMMA LowerBoundIs ==
  ASSUME TypeOK, NEW p \in Strings
  PROVE  /\ LowerBound(p) \in table \cup {End}
         /\ LowerBound(p) # End => ~Below(LowerBound(p), p)
         /\ \A x \in table : ~Below(x, p) =>
               /\ LowerBound(p) # End
               /\ x = LowerBound(p) \/ Less(LowerBound(p), x)
  <1> DEFINE S == {x \in table : ~Below(x, p)}
  <1>1. S \subseteq Strings /\ IsFiniteSet(S) /\ End \notin S
    BY TableOfStrings
  <1>2. LowerBound(p) = First(S)
    BY DEF LowerBound
  <1>3. /\ First(S) = End <=> S = {}
        /\ S # {} => /\ First(S) \in S
                     /\ \A y \in S : y = First(S) \/ Less(First(S), y)
    <2> HIDE DEF S
    <2> QED
      BY <1>1, FirstIs
  <1> QED
    BY <1>2, <1>3

LEMMA UpperBoundIs ==
  ASSUME TypeOK, NEW p \in Strings
  PROVE  /\ UpperBound(p) \in table \cup {End}
         /\ UpperBound(p) # End => Above(p, UpperBound(p))
         /\ \A x \in table : Above(p, x) =>
               /\ UpperBound(p) # End
               /\ x = UpperBound(p) \/ Less(UpperBound(p), x)
  <1> DEFINE S == {x \in table : Above(p, x)}
  <1>1. S \subseteq Strings /\ IsFiniteSet(S) /\ End \notin S
    BY TableOfStrings
  <1>2. UpperBound(p) = First(S)
    BY DEF UpperBound
  <1>3. /\ First(S) = End <=> S = {}
        /\ S # {} => /\ First(S) \in S
                     /\ \A y \in S : y = First(S) \/ Less(First(S), y)
    <2> HIDE DEF S
    <2> QED
      BY <1>1, FirstIs
  <1> QED
    BY <1>2, <1>3

LEMMA IncrementIs ==
  ASSUME TypeOK, NEW x \in Strings
  PROVE  /\ Increment(x) \in table \cup {End}
         /\ Increment(x) # End => Less(x, Increment(x))
         /\ \A y \in table : Less(x, y) =>
               /\ Increment(x) # End
               /\ y = Increment(x) \/ Less(Increment(x), y)
  <1> DEFINE S == {y \in table : Less(x, y)}
  <1>1. S \subseteq Strings /\ IsFiniteSet(S) /\ End \notin S
    BY TableOfStrings
  <1>2. Increment(x) = First(S)
    BY DEF Increment
  <1>3. /\ First(S) = End <=> S = {}
        /\ S # {} => /\ First(S) \in S
                     /\ \A y \in S : y = First(S) \/ Less(First(S), y)
    <2> HIDE DEF S
    <2> QED
      BY <1>1, FirstIs
  <1> QED
    BY <1>2, <1>3

\* One name comes before another one way only.
LEMMA LessOneWay ==
  ASSUME NEW x \in Strings, NEW y \in Strings, Less(x, y)
  PROVE  x # y /\ ~Less(y, x)
  BY LessIrreflexive, LessTransitive

LEMMA IInvInit == Init => IInv
  <1> SUFFICES ASSUME Init PROVE IInv
    OBVIOUS
  <1>1. <<>> \in Seq(table) /\ <<>> \in Strings /\ DOMAIN <<>> = {}
    BY DEF Strings
  <1>2. TypeOK
    BY <1>1, PrefixAssumption DEF Init, TypeOK
  <1> QED
    BY <1>1, <1>2 DEF Init, IInv, Ordered

\* A search starts the walk where it should.
LEMMA SearchStep ==
  ASSUME IInv, NEW p \in Prefixes, Search(p)
  PROVE  IInv'
  <1>a. TypeOK /\ p \in Strings
    BY PrefixAssumption DEF IInv, Strings
  <1>b. /\ at' = LowerBound(p) /\ stop' = UpperBound(p) /\ prefix' = p
        /\ began' = table /\ printed' = <<>> /\ table' = table
        /\ pc' = "walk" /\ cached' = cached /\ free' = free
    BY DEF Search
  <1>t. table \subseteq Strings /\ End \notin table
    BY <1>a, TableOfStrings
  <1>l. /\ at' \in table \cup {End}
        /\ at' # End => ~Below(at', p)
        /\ \A x \in table : ~Below(x, p) => at' # End /\ (x = at' \/ Less(at', x))
    BY <1>a, <1>b, LowerBoundIs
  <1>u. /\ stop' \in table \cup {End}
        /\ stop' # End => Above(p, stop')
        /\ \A x \in table : Above(p, x) => stop' # End /\ (x = stop' \/ Less(stop', x))
    BY <1>a, <1>b, UpperBoundIs
  <1>1. TypeOK'
    <2>1. <<>> \in Seq(table)
      OBVIOUS
    <2> QED
      BY <1>a, <1>b, <1>l, <1>u, <2>1 DEF TypeOK
  <1>2. Ordered' /\ Printed' = {}
    BY <1>b DEF Ordered, Printed
  <1>3. AtOK'
    <2>1. stop' # End => at' # End /\ (at' = stop' \/ Less(at', stop'))
      <3> SUFFICES ASSUME stop' # End
                   PROVE  at' # End /\ (at' = stop' \/ Less(at', stop'))
        OBVIOUS
      <3>1. stop' \in table /\ Above(p, stop')
        BY <1>u
      <3>2. ~Below(stop', p)
        BY <1>a, <1>t, <3>1, ThreeParts
      <3> QED
        BY <1>l, <3>1, <3>2
    <2> QED
      BY <1>b, <1>l, <2>1 DEF AtOK
  <1>4. StopOK'
    <2>1. ASSUME NEW x \in table, Above(p, x) PROVE stop' # End /\ ~Less(x, stop')
      <3>1. stop' # End /\ (x = stop' \/ Less(stop', x))
        BY <1>u, <2>1
      <3>2. stop' \in Strings /\ x \in Strings
        BY <1>t, <1>u, <3>1
      <3> QED
        BY <3>1, <3>2, LessIrreflexive, LessOneWay
    <2> QED
      BY <1>b, <1>u, <2>1 DEF StopOK
  <1>5. PrintedOK'
    BY <1>2 DEF PrintedOK
  <1>6. NoneLost'
    <2>1. ASSUME NEW x \in table, StartsWith(x, p)
          PROVE  at' # End /\ (x = at' \/ Less(at', x))
      <3>1. ~Below(x, p)
        BY <1>a, <1>t, <2>1, ThreeParts
      <3> QED
        BY <1>l, <3>1
    <2> QED
      BY <1>b, <2>1 DEF NoneLost
  <1> QED
    BY <1>a, <1>b, <1>1, <1>2, <1>3, <1>4, <1>5, <1>6 DEF IInv, Walking

\* A step of the caller goes to the next symbol, whoever linked it when.
LEMMA WalkStep == IInv /\ Walk => IInv'
  <1> SUFFICES ASSUME IInv, Walk PROVE IInv'
    OBVIOUS
  <1>a. TypeOK /\ prefix \in Strings /\ Ordered
        /\ AtOK /\ StopOK /\ PrintedOK /\ NoneLost
    BY DEF IInv, Walk, Walking
  <1>b. /\ at # stop /\ printed' = Append(printed, at) /\ at' = Increment(at)
        /\ pc = "walk" /\ UNCHANGED <<cached, table, free, pc, prefix, stop, began>>
    BY DEF Walk
  <1>t. /\ table \subseteq Strings /\ End \notin table /\ began \subseteq table
        /\ Printed \subseteq table /\ printed \in Seq(table)
        /\ stop \in table \cup {End}
    BY <1>a, TableOfStrings, PrintedAre DEF TypeOK
  <1>c. /\ at \in table /\ at \in Strings /\ ~Below(at, prefix)
        /\ stop # End => Less(at, stop)
    BY <1>a, <1>b, <1>t DEF AtOK, TypeOK
  <1>n. /\ at' \in table \cup {End}
        /\ at' # End => Less(at, at')
        /\ \A y \in table : Less(at, y) => at' # End /\ (y = at' \/ Less(at', y))
    BY <1>a, <1>b, <1>c, IncrementIs
  <1>p. /\ printed' \in Seq(table) /\ DOMAIN printed' = 1 .. Len(printed) + 1
        /\ DOMAIN printed = 1 .. Len(printed) /\ Len(printed) \in Nat
        /\ \A k \in 1 .. Len(printed) : printed'[k] = printed[k]
        /\ printed'[Len(printed) + 1] = at
    <2>1. at \in table /\ printed \in Seq(table)
      BY <1>c, <1>t
    <2> QED
      BY <1>b, <2>1, AppendProperties
  <1>q. Printed' = Printed \cup {at}
    <2>1. \A x \in Printed' : x \in Printed \cup {at}
      BY <1>p DEF Printed
    <2>2. \A x \in Printed \cup {at} : x \in Printed'
      BY <1>p DEF Printed
    <2> QED
      BY <2>1, <2>2
  <1>1. TypeOK'
    BY <1>a, <1>b, <1>n, <1>p DEF TypeOK
  <1>2. Ordered'
    <2> SUFFICES ASSUME NEW k \in DOMAIN printed', NEW l \in DOMAIN printed', k < l
                 PROVE  Less(printed'[k], printed'[l])
      BY DEF Ordered
    <2>1. k \in DOMAIN printed /\ printed'[k] = printed[k]
      BY <1>p
    <2>2. CASE l \in DOMAIN printed
      BY <1>a, <1>p, <2>1, <2>2 DEF Ordered
    <2>3. CASE l \notin DOMAIN printed
      <3>1. printed'[l] = at
        BY <1>p, <2>3
      <3>2. printed[k] \in Printed /\ at # End
        BY <1>c, <1>t, <2>1 DEF Printed
      <3> QED
        BY <1>a, <2>1, <3>1, <3>2 DEF PrintedOK
    <2> QED
      BY <2>2, <2>3
  <1>3. AtOK'
    <2>1. at' # End => ~Below(at', prefix)
      BY <1>a, <1>c, <1>n, <1>t, PartsInOrder
    <2>2. stop # End => at' # End /\ (at' = stop \/ Less(at', stop))
      BY <1>c, <1>n, <1>t
    <2> QED
      BY <1>b, <2>1, <2>2 DEF AtOK
  <1>4. StopOK'
    BY <1>a, <1>b DEF StopOK
  <1>5. PrintedOK'
    <2> SUFFICES ASSUME NEW x \in Printed \cup {at}
                 PROVE  /\ ~Below(x, prefix)
                        /\ stop # End => Less(x, stop)
                        /\ at' # End => Less(x, at')
      BY <1>b, <1>q DEF PrintedOK
    <2>1. CASE x = at
      BY <1>c, <1>n, <2>1
    <2>2. CASE x \in Printed
      <3>1. /\ ~Below(x, prefix)
            /\ stop # End => Less(x, stop)
            /\ Less(x, at) /\ x \in Strings
        BY <1>a, <1>c, <1>t, <2>2 DEF PrintedOK
      <3>2. at' # End => Less(x, at')
        BY <1>c, <1>n, <1>t, <3>1, LessTransitive
      <3> QED
        BY <3>1, <3>2
    <2> QED
      BY <2>1, <2>2
  <1>6. NoneLost'
    <2> SUFFICES ASSUME NEW x \in began, StartsWith(x, prefix), x \notin Printed, x # at
                 PROVE  at' # End /\ (x = at' \/ Less(at', x))
      BY <1>b, <1>q DEF NoneLost
    <2>1. Less(at, x)
      BY <1>a DEF NoneLost
    <2> QED
      BY <1>n, <1>t, <2>1
  <1> QED
    BY <1>a, <1>b, <1>1, <1>2, <1>3, <1>4, <1>5, <1>6 DEF IInv, Walking

LEMMA IInvStep == IInv /\ [Next]_vars => IInv'
  <1> SUFFICES ASSUME IInv, [Next]_vars PROVE IInv'
    OBVIOUS
  <1>1. ASSUME NEW x \in Names, Link(x) PROVE IInv'
    <2>1. TypeOK'
      <3>1. Seq(table) \subseteq Seq(table')
        BY <1>1, SeqMonotonic DEF Link
      <3>2. free' \in 0 .. Heap
        BY <1>1, PrefixAssumption DEF Link, HasRoom, IInv, TypeOK
      <3> QED
        BY <1>1, <3>1, <3>2 DEF Link, IInv, TypeOK
    <2>2. UNCHANGED <<pc, prefix, at, stop, printed, began>>
      BY <1>1 DEF Link
    <2> QED
      BY <2>1, <2>2
      DEF IInv, Ordered, Walking, AtOK, StopOK, PrintedOK, NoneLost, Printed
  <1>2. ASSUME pc' # "walk", pc' \in {"idle", "ESPACE", "terminated"},
               UNCHANGED <<cached, table, free, prefix, at, stop, printed, began>>
        PROVE  IInv'
    BY <1>2 DEF IInv, TypeOK, Ordered
  <1>3. CASE SpaceMissing
    BY <1>2, <1>3 DEF SpaceMissing
  <1>4. CASE Done
    BY <1>2, <1>4 DEF Done
  <1>5. ASSUME NEW p \in Prefixes, SearchEnds(p) PROVE IInv'
    BY <1>2, <1>5 DEF SearchEnds
  <1>6. CASE UNCHANGED vars
    BY <1>6
    DEF vars, IInv, TypeOK, Ordered, Walking, AtOK, StopOK, PrintedOK, NoneLost, Printed
  <1> QED
    BY <1>1, <1>3, <1>4, <1>5, <1>6, SearchStep, WalkStep DEF Next

LEMMA IInvAlways == Spec => []IInv
  BY IInvInit, IInvStep, PTL DEF Spec

-----------------------------------------------------------------------------

(* A walk comes across every symbol that had the prefix when the search    *)
(* was made, wherever others link theirs, and across no other symbol where *)
(* nobody links one.                                                       *)
THEOREM EveryMatchIsFound == Spec => []NoMatchLost
  <1>1. IInv => NoMatchLost
    <2> SUFFICES ASSUME IInv, pc = "walk"
                 PROVE  LET matches == {x \in began : StartsWith(x, prefix)}
                            found   == Printed \cup Remaining
                        IN  /\ matches \subseteq found
                            /\ table = began => found = matches
      BY DEF NoMatchLost
    <2>a. TypeOK /\ prefix \in Strings /\ AtOK /\ StopOK /\ PrintedOK /\ NoneLost
      BY DEF IInv, Walking
    <2>t. /\ table \subseteq Strings /\ End \notin table /\ began \subseteq table
          /\ Printed \subseteq table
          /\ {at, stop} \subseteq table \cup {End}
      BY <2>a, TableOfStrings, PrintedAre DEF TypeOK
    <2>1. ASSUME NEW x \in began, StartsWith(x, prefix), x \notin Printed
          PROVE  x \in Remaining
      <3>1. at # End /\ (x = at \/ Less(at, x))
        BY <2>1, <2>a DEF NoneLost
      <3>2. ASSUME stop # End PROVE Less(x, stop)
        <4>1. stop \in Strings /\ x \in Strings /\ Above(prefix, stop)
          BY <2>a, <2>t, <3>2 DEF StopOK
        <4>2. ~Above(prefix, x)
          BY <2>1, <2>a, <4>1, ThreeParts
        <4>3. ~Less(stop, x) /\ x # stop
          BY <2>a, <4>1, <4>2, PartsInOrder
        <4> QED
          BY <4>1, <4>3, LessTotal
      <3> QED
        BY <2>t, <3>1, <3>2 DEF Remaining
    <2>2. ASSUME table = began, NEW x \in Printed \cup Remaining
          PROVE  x \in began /\ StartsWith(x, prefix)
      <3>1. x \in began /\ x \in Strings
        BY <2>2, <2>t DEF Remaining
      <3>2. stop # End => Less(x, stop)
        BY <2>2, <2>a DEF Remaining, PrintedOK
      <3>3. ~Above(prefix, x)
        BY <2>a, <3>1, <3>2 DEF StopOK
      <3>4. ~Below(x, prefix)
        <4>1. CASE x \in Printed
          BY <2>a, <4>1 DEF PrintedOK
        <4>2. CASE x \in Remaining
          <5>1. at # End /\ at \in Strings /\ ~Below(at, prefix)
            BY <2>a, <2>t, <4>2 DEF Remaining, AtOK
          <5>2. x = at \/ Less(at, x)
            BY <4>2 DEF Remaining
          <5> QED
            BY <2>a, <3>1, <5>1, <5>2, PartsInOrder
        <4> QED
          BY <2>2, <4>1, <4>2
      <3> QED
        BY <2>a, <3>1, <3>3, <3>4, ThreeParts
    <2> QED
      BY <2>1, <2>2
  <1> QED
    BY <1>1, IInvAlways, PTL

(* The symbols come in the order of their names, once each, and every      *)
(* variable has its type.                                                  *)
THEOREM NamesComeInOrder == Spec => []PrintedInOrder
  <1>1. IInv => PrintedInOrder
    BY DEF IInv, Ordered, PrintedInOrder
  <1> QED
    BY <1>1, IInvAlways, PTL
=============================================================================
