----------------------- MODULE IndexRandomizerProofs -----------------------
(* Theorems about IndexRandomizer, for any number of generators, of        *)
(* dimensions, of entries of a fingerprint, and of shuffles; and about the *)
(* array tools, on lists of any length.                                    *)
EXTENDS IndexRandomizer, TLAPS, FiniteSetTheorems, WellFoundedInduction

(* An exchange of two places leaves an order of the dimensions one.        *)
LEMMA SwapKeepsOrder ==
  ASSUME NEW list \in [Places -> Dims], Injective(list),
         NEW i \in Places, NEW j \in Places
  PROVE  Swap(list, i, j) \in [Places -> Dims] /\ Injective(Swap(list, i, j))
  BY DEF Swap, Injective

LEMMA FirstOfOrder ==
  ASSUME NEW list \in [Places -> Dims], Injective(list)
  PROVE  FirstOf(list) \in Fingerprint /\ Injective(FirstOf(list))
  BY SizeAssumption DEF FirstOf, Injective, Fingerprint, Positions, Places

LEMMA AscendingOrder == Ascending \in [Places -> Dims] /\ Injective(Ascending)
  BY SizeAssumption DEF Ascending, Injective, Places, Dims

(* The invariant has a list that is an order besides what the property     *)
(* says of the fingerprints: a fingerprint is a part of the list.          *)
LEMMA SoundInit == Init => FingerprintsSound
  <1> SUFFICES ASSUME Init PROVE FingerprintsSound
    OBVIOUS
  <1> USE SizeAssumption, AscendingOrder
  <1>1. Mark(Ascending, Dimensions + 1, 0) \in Marks
    BY DEF Mark, Marks
  <1>2. trail \in Seq(Marks)
    BY <1>1 DEF Init
  <1>3. TypeOK
    BY <1>2 DEF Init, TypeOK
  <1> QED
    BY <1>3 DEF Init, FingerprintsSound

LEMMA SoundStep == FingerprintsSound /\ [Next]_vars => FingerprintsSound'
  <1> SUFFICES ASSUME FingerprintsSound, [Next]_vars PROVE FingerprintsSound'
    OBVIOUS
  <1> USE SizeAssumption DEF FingerprintsSound, TypeOK
  <1>1. CASE UNCHANGED vars
    BY <1>1 DEF vars
  <1>2. ASSUME NEW g \in Generators, Construct(g) PROVE FingerprintsSound'
    BY <1>2 DEF Construct, Goto
  <1>3. ASSUME NEW g \in Generators, Shuffle(g) PROVE FingerprintsSound'
    BY <1>3 DEF Shuffle, Goto
  <1>4. ASSUME NEW g \in Generators, Exchange(g) PROVE FingerprintsSound'
    <2>1. PICK r \in Span(at[g]) :
            /\ Rolls(g, r)
            /\ idx' = [idx EXCEPT ![g] = IF r + 1 = at[g] THEN @
                                         ELSE Swap(@, at[g], r + 1)]
            /\ rolls' = [rolls EXCEPT ![g] = Append(@, r)]
      BY <1>4 DEF Exchange
    <2>a. at[g] \in 2 .. Dimensions
      BY <1>4 DEF Exchange
    <2>2. at[g] \in Places /\ r + 1 \in Places /\ r \in Dims
      <3> HIDE DEF FingerprintsSound, TypeOK
      <3> QED
        BY <2>a DEF Span, Places, Dims
    <2>3. Swap(idx[g], at[g], r + 1) \in [Places -> Dims]
          /\ Injective(Swap(idx[g], at[g], r + 1))
      BY <2>2, SwapKeepsOrder
    <2>4. /\ idx' \in [Generators -> [Places -> Dims]]
          /\ \A h \in Generators : Injective(idx'[h])
      BY <2>1, <2>3
    <2>5. tape' \in Seq(Dims) /\ rolls' \in [Generators -> Seq(Dims)]
      <3>1. Append(tape, r) \in Seq(Dims) /\ Append(rolls[g], r) \in Seq(Dims)
        BY <2>2
      <3>2. tape' \in Seq(Dims)
        BY <2>1, <3>1 DEF Rolls
      <3> QED
        BY <2>1, <3>1, <3>2
    <2>6. at[g] + 1 \in 2 .. Dimensions + 1
      BY <1>4 DEF Exchange
    <2>7. Mark(idx'[g], at[g] + 1, draws[g]) \in Marks
      BY <2>4, <2>6 DEF Mark, Marks
    <2>8. trail' \in Seq(Marks)
      BY <1>4, <2>7 DEF Exchange
    <2>9. /\ pc' = pc /\ draws' = draws /\ drawn' = drawn /\ from' = from
          /\ read' = [read EXCEPT ![g] = @ + 1]
          /\ at' = [at EXCEPT ![g] = @ + 1]
      BY <1>4 DEF Exchange
    <2>10. read' \in [Generators -> Nat] /\ at' \in [Generators -> 2 .. Dimensions + 1]
      BY <2>6, <2>9
    <2>11. TypeOK'
      BY <2>4, <2>5, <2>8, <2>9, <2>10
    <2> QED
      BY <2>4, <2>9, <2>11
  <1>5. ASSUME NEW g \in Generators, Take(g) PROVE FingerprintsSound'
    <2>1. FirstOf(idx[g]) \in Fingerprint /\ Injective(FirstOf(idx[g]))
      BY FirstOfOrder
    <2>2. CASE drawn' = drawn
      BY <1>5, <2>2 DEF Take, Goto
    <2>3. CASE drawn' = [drawn EXCEPT ![g][draws[g]] = FirstOf(idx[g])]
      <3>1. /\ drawn' \in [Generators -> [1 .. MaxDraws -> Fingerprint \cup {None}]]
            /\ \A h \in Generators : \A k \in 1 .. MaxDraws :
                  drawn'[h][k] # None => Injective(drawn'[h][k])
        BY <2>1, <2>3
      <3> QED
        BY <1>5, <3>1 DEF Take, Goto
    <2> QED
      BY <1>5, <2>2, <2>3 DEF Take
  <1> QED
    BY <1>1, <1>2, <1>3, <1>4, <1>5 DEF Next

(* No dimension is in a fingerprint twice, after any number of shuffles.   *)
THEOREM FingerprintsAreSound == Spec => []FingerprintsSound
  <1> QED
    BY SoundInit, SoundStep, PTL DEF Spec

-----------------------------------------------------------------------------
(* Replay: each generator is somewhere on one trail of lists, and a        *)
(* fingerprint was taken where the trail ends the shuffle of its number.   *)

\* The mark after m, if the engine rolls r there.
Advance(m, r) ==
  LET place == IF m.at = Dimensions + 1 THEN 2 ELSE m.at
  IN Mark(IF r + 1 = place THEN m.list ELSE Swap(m.list, place, r + 1),
          place + 1,
          IF m.at = Dimensions + 1 THEN m.draws + 1 ELSE m.draws)

Earlier(m, n) == m.draws < n.draws \/ (m.draws = n.draws /\ m.at < n.at)

TrailOK ==
  /\ Len(trail) = Len(tape) + 1
  /\ \A k \in 1 .. Len(tape) : trail[k + 1] = Advance(trail[k], tape[k])
  /\ \A i, j \in 1 .. Len(trail) : i < j => Earlier(trail[i], trail[j])

\* Where g is: at a mark, or past it and at the first place of a new shuffle.
PlaceOK(g) ==
  LET m == trail[read[g] + 1]
  IN /\ read[g] <= Len(tape)
     /\ idx[g] = m.list
     /\ \/ at[g] = m.at /\ draws[g] = m.draws
        \/ /\ pc[g] = "exchange"
           /\ at[g] = 2
           /\ m.at = Dimensions + 1
           /\ draws[g] = m.draws + 1
     /\ pc[g] # "exchange" => at[g] = Dimensions + 1

DrawnOK(g) ==
  \A k \in 1 .. MaxDraws : drawn[g][k] # None =>
     \E j \in 1 .. Len(trail) : /\ trail[j].at = Dimensions + 1
                               /\ trail[j].draws = k
                               /\ drawn[g][k] = FirstOf(trail[j].list)

OnTrail == /\ FingerprintsSound
           /\ TrailOK
           /\ \A g \in Generators : PlaceOK(g) /\ DrawnOK(g)

LEMMA OnTrailInit == Init => OnTrail
  BY SoundInit, SizeAssumption DEF Init, OnTrail, TrailOK, PlaceOK, DrawnOK, Mark

LEMMA OnTrailStep == OnTrail /\ [Next]_vars => OnTrail'
  <1> SUFFICES ASSUME OnTrail, [Next]_vars PROVE OnTrail'
    OBVIOUS
  <1> USE SizeAssumption
  <1>0. FingerprintsSound'
    BY SoundStep DEF OnTrail
  <1>t. TypeOK
    BY DEF OnTrail, FingerprintsSound
  <1>1. CASE UNCHANGED vars
    BY <1>0, <1>1 DEF vars, OnTrail, TrailOK, PlaceOK, DrawnOK
  <1>2. ASSUME NEW g \in Generators, Construct(g) PROVE OnTrail'
    BY SMTT(30), <1>0, <1>2, <1>t DEF Construct, Goto, OnTrail, TrailOK, PlaceOK, DrawnOK, TypeOK
  <1>3. ASSUME NEW g \in Generators, Shuffle(g) PROVE OnTrail'
    <2>1. PlaceOK(g)'
      BY <1>3, <1>t DEF Shuffle, Goto, OnTrail, PlaceOK, TypeOK
    <2>2. ASSUME NEW h \in Generators, h # g PROVE PlaceOK(h)'
      BY <1>3, <1>t, <2>2 DEF Shuffle, Goto, OnTrail, PlaceOK, TypeOK
    <2>3. TrailOK' /\ \A h \in Generators : DrawnOK(h)'
      <3>1. UNCHANGED <<drawn, tape, trail>>
        BY <1>3 DEF Shuffle
      <3> QED
        BY <3>1 DEF OnTrail, TrailOK, DrawnOK
    <2> QED
      BY <1>0, <2>1, <2>2, <2>3 DEF OnTrail
  <1>4. ASSUME NEW g \in Generators, Exchange(g) PROVE OnTrail'
    <2> DEFINE m == trail[read[g] + 1]
    <2>1. PICK r \in Span(at[g]) :
            /\ Rolls(g, r)
            /\ idx' = [idx EXCEPT ![g] = IF r + 1 = at[g] THEN @
                                         ELSE Swap(@, at[g], r + 1)]
      BY <1>4 DEF Exchange
    <2>2. at[g] \in 2 .. Dimensions
      BY <1>4, <1>t DEF Exchange, TypeOK
    <2>3. PlaceOK(g) /\ TrailOK
      BY DEF OnTrail
    <2>4. m \in Marks
      BY <1>t, <2>3 DEF PlaceOK, TrailOK, TypeOK
    <2>5. Mark(idx'[g], at[g] + 1, draws[g]) = Advance(m, r)
      <3>1. idx[g] = m.list
        BY <2>3 DEF PlaceOK
      <3>2. idx'[g] = IF r + 1 = at[g] THEN m.list ELSE Swap(m.list, at[g], r + 1)
        BY <1>t, <2>1, <3>1 DEF TypeOK
      <3>3. /\ at[g] = IF m.at = Dimensions + 1 THEN 2 ELSE m.at
            /\ draws[g] = IF m.at = Dimensions + 1 THEN m.draws + 1 ELSE m.draws
        BY <2>2, <2>3, <2>4 DEF PlaceOK, Marks
      <3> QED
        BY <3>2, <3>3 DEF Advance
    <2>6. Earlier(m, Advance(m, r))
      BY <2>2, <2>4 DEF Earlier, Advance, Mark, Marks
    <2>7. TrailOK' /\ PlaceOK(g)' /\ (\A j \in 1 .. Len(trail) : trail'[j] = trail[j])
                   /\ Len(tape') >= Len(tape) /\ Len(trail') >= Len(trail)
      <3>1. CASE read[g] < Len(tape)
        <4>1. UNCHANGED <<tape, trail>> /\ r = tape[read[g] + 1]
          BY <1>4, <1>t, <2>1, <3>1 DEF Exchange, Rolls, TypeOK
        <4>2. trail[read[g] + 2] = Advance(m, r)
          <5>1. read[g] + 1 \in 1 .. Len(tape) /\ (read[g] + 1) + 1 = read[g] + 2
            BY <1>t, <3>1 DEF TypeOK
          <5> QED
            BY <2>3, <4>1, <5>1 DEF TrailOK
        <4>3. PlaceOK(g)'
          BY SMTT(30), <1>4, <1>t, <2>2, <2>3, <2>5, <3>1, <4>1, <4>2
          DEF Exchange, PlaceOK, TypeOK, Mark
        <4> QED
          BY <1>t, <2>3, <4>1, <4>3 DEF TrailOK, TypeOK
      <3>2. CASE read[g] = Len(tape)
        <4>1. tape' = Append(tape, r) /\ trail' = Append(trail, Advance(m, r))
          BY <1>4, <1>t, <2>1, <2>5, <3>2 DEF Exchange, Rolls, TypeOK
        <4>a. tape \in Seq(Dims) /\ trail \in Seq(Marks) /\ read[g] \in Nat
          BY <1>t DEF TypeOK
        <4>b. Advance(m, r) \in Marks /\ r \in Dims
          BY <1>0, <1>t, <2>1, <2>2, <2>4, <2>5, <4>1, <4>a
          DEF FingerprintsSound, TypeOK, Marks, Mark, Span, Dims
        <4>2. /\ Len(tape') = Len(tape) + 1
              /\ Len(trail') = Len(trail) + 1
              /\ \A j \in 1 .. Len(tape) : tape'[j] = tape[j]
              /\ \A j \in 1 .. Len(trail) : trail'[j] = trail[j]
              /\ tape'[Len(tape) + 1] = r
              /\ trail'[Len(trail) + 1] = Advance(m, r)
              /\ Len(trail) = Len(tape) + 1
          BY <2>3, <4>1, <4>a, <4>b DEF TrailOK
        <4>3. \A k \in 1 .. Len(tape') : trail'[k + 1] = Advance(trail'[k], tape'[k])
          BY <2>3, <3>2, <4>2, <4>a DEF TrailOK
        <4>4. \A i, j \in 1 .. Len(trail') : i < j => Earlier(trail'[i], trail'[j])
          <5> SUFFICES ASSUME NEW i \in 1 .. Len(trail'), NEW j \in 1 .. Len(trail'),
                              i < j
                       PROVE  Earlier(trail'[i], trail'[j])
            OBVIOUS
          <5>1. CASE j <= Len(trail)
            BY SMTT(30), <2>3, <4>2, <4>a, <5>1 DEF TrailOK
          <5>2. CASE j = Len(trail) + 1
            <6>1. i = Len(trail) \/ Earlier(trail[i], m)
              BY <2>3, <3>2, <4>2, <4>a, <5>2 DEF TrailOK
            <6>2. trail'[i] = trail[i] /\ trail[i] \in Marks
              BY <4>2, <4>a, <5>2
            <6> QED
              BY <2>4, <2>6, <3>2, <4>2, <4>a, <4>b, <5>2, <6>1, <6>2 DEF Earlier, Marks
          <5> QED
            BY <4>2, <4>a, <5>1, <5>2
        <4>5. PlaceOK(g)'
          BY <1>4, <1>t, <2>2, <2>3, <2>5, <3>2, <4>2, <4>a
          DEF Exchange, PlaceOK, TypeOK, Mark
        <4> QED
          BY <4>2, <4>3, <4>4, <4>5, <4>a DEF TrailOK
      <3> QED
        BY <1>t, <2>1, <3>1, <3>2 DEF Rolls
    <2>8. ASSUME NEW h \in Generators PROVE PlaceOK(h)' /\ DrawnOK(h)'
      <3>1. drawn' = drawn /\ pc' = pc
        BY <1>4 DEF Exchange
      <3>2. DrawnOK(h)'
        <4> SUFFICES ASSUME NEW k \in 1 .. MaxDraws, drawn[h][k] # None
                     PROVE  \E j \in 1 .. Len(trail') :
                               /\ trail'[j].at = Dimensions + 1
                               /\ trail'[j].draws = k
                               /\ drawn[h][k] = FirstOf(trail'[j].list)
          BY <3>1 DEF DrawnOK
        <4>1. PICK j \in 1 .. Len(trail) :
                 /\ trail[j].at = Dimensions + 1
                 /\ trail[j].draws = k
                 /\ drawn[h][k] = FirstOf(trail[j].list)
          BY DEF OnTrail, DrawnOK
        <4>2. trail'[j] = trail[j]
          BY <2>7
        <4>3. Len(trail) \in Nat /\ Len(trail') \in Nat
          <5>1. trail \in Seq(Marks) /\ trail' \in Seq(Marks)
            BY <1>0, <1>t DEF FingerprintsSound, TypeOK
          <5> QED
            BY <5>1
        <4>4. j \in 1 .. Len(trail')
          BY <2>7, <4>3
        <4> QED
          BY <4>1, <4>2, <4>4
      <3>3. CASE h # g
        <4>1. read'[h] = read[h] /\ at'[h] = at[h] /\ draws'[h] = draws[h]
              /\ idx'[h] = idx[h]
          BY <1>4, <1>t, <2>1, <3>3 DEF Exchange, TypeOK
        <4>2. PlaceOK(h) /\ read[h] + 1 \in 1 .. Len(trail)
          BY <1>t, <2>3 DEF OnTrail, PlaceOK, TrailOK, TypeOK
        <4>3. trail'[read'[h] + 1] = trail[read[h] + 1]
          BY <2>7, <4>1, <4>2
        <4>4. read'[h] <= Len(tape')
          <5>1. tape \in Seq(Dims) /\ tape' \in Seq(Dims) /\ read \in [Generators -> Nat]
            BY <1>0, <1>t DEF FingerprintsSound, TypeOK
          <5>2. read[h] <= Len(tape)
            BY <4>2 DEF PlaceOK
          <5> QED
            BY <2>7, <4>1, <5>1, <5>2
        <4>5. PlaceOK(h)'
          BY <3>1, <4>1, <4>2, <4>3, <4>4 DEF PlaceOK
        <4> QED
          BY <3>2, <4>5
      <3>4. CASE h = g
        <4>1. PlaceOK(h)'
          BY <2>7, <3>4 DEF PlaceOK
        <4> QED
          BY <3>2, <4>1
      <3> QED
        BY <3>3, <3>4
    <2> QED
      BY <1>0, <2>7, <2>8 DEF OnTrail
  <1>5. ASSUME NEW g \in Generators, Take(g) PROVE OnTrail'
    <2> DEFINE j == read[g] + 1
    <2>1. /\ j \in 1 .. Len(trail)
          /\ trail[j].at = Dimensions + 1
          /\ trail[j].draws = draws[g]
          /\ trail[j].list = idx[g]
      BY <1>5, <1>t DEF Take, OnTrail, PlaceOK, TrailOK, TypeOK
    <2>2. ASSUME NEW h \in Generators PROVE PlaceOK(h)'
      BY <1>5, <1>t DEF Take, Goto, OnTrail, PlaceOK, TypeOK
    <2>3. ASSUME NEW h \in Generators PROVE DrawnOK(h)'
      <3>1. trail' = trail
        BY <1>5 DEF Take
      <3>2. CASE drawn' = drawn
        BY <3>1, <3>2 DEF OnTrail, DrawnOK
      <3>3. CASE drawn' = [drawn EXCEPT ![g][draws[g]] = FirstOf(idx[g])]
        <4> SUFFICES ASSUME NEW k \in 1 .. MaxDraws, drawn'[h][k] # None
                     PROVE  \E i \in 1 .. Len(trail) :
                               /\ trail[i].at = Dimensions + 1
                               /\ trail[i].draws = k
                               /\ drawn'[h][k] = FirstOf(trail[i].list)
          BY <3>1 DEF DrawnOK
        <4>1. CASE h = g /\ k = draws[g]
          <5>1. drawn'[h][k] = FirstOf(idx[g])
            BY <1>t, <3>3, <4>1 DEF TypeOK
          <5> QED
            BY <2>1, <4>1, <5>1
        <4>2. CASE ~(h = g /\ k = draws[g])
          <5>1. drawn'[h][k] = drawn[h][k]
            BY <1>t, <3>3, <4>2 DEF TypeOK
          <5> QED
            BY <5>1 DEF OnTrail, DrawnOK
        <4> QED
          BY <4>1, <4>2
      <3> QED
        BY <1>5, <3>2, <3>3 DEF Take
    <2>4. TrailOK'
      BY <1>5 DEF Take, OnTrail, TrailOK
    <2> QED
      BY <1>0, <2>2, <2>3, <2>4 DEF OnTrail
  <1> QED
    BY <1>1, <1>2, <1>3, <1>4, <1>5 DEF Next

\* The trail passes the end of a shuffle once.
LEMMA TrailReplays == OnTrail => SessionsReplay
  <1> SUFFICES ASSUME OnTrail, NEW g \in Generators, NEW h \in Generators,
                      NEW k \in 1 .. MaxDraws,
                      None \notin {drawn[g][k], drawn[h][k]}
               PROVE  drawn[g][k] = drawn[h][k]
    BY DEF SessionsReplay
  <1>1. PICK i \in 1 .. Len(trail) : /\ trail[i].at = Dimensions + 1
                                     /\ trail[i].draws = k
                                     /\ drawn[g][k] = FirstOf(trail[i].list)
    BY DEF OnTrail, DrawnOK
  <1>2. PICK j \in 1 .. Len(trail) : /\ trail[j].at = Dimensions + 1
                                     /\ trail[j].draws = k
                                     /\ drawn[h][k] = FirstOf(trail[j].list)
    BY DEF OnTrail, DrawnOK
  <1>3. ~Earlier(trail[i], trail[j]) /\ ~Earlier(trail[j], trail[i])
    BY <1>1, <1>2, SizeAssumption DEF Earlier
  <1>4. i = j
    BY <1>3 DEF OnTrail, TrailOK
  <1> QED
    BY <1>1, <1>2, <1>4

(* What a session draws is decided by how many shuffles went before.       *)
THEOREM Replay == Spec => []SessionsReplay
  <1> QED
    BY OnTrailInit, OnTrailStep, TrailReplays, PTL DEF Spec

-----------------------------------------------------------------------------
(* No order is favoured: what a shuffle makes of a list says which rolls   *)
(* made it.                                                                *)

Orders == {list \in [Places -> Dims] : Injective(list)}

\* A set of numbers that has m, and the next after each of its own, has all
\* from m on.
LEMMA InductionFrom ==
  ASSUME NEW S, NEW m \in Nat, NEW n \in Nat, m \in S,
         \A k \in m .. n - 1 : k \in S => k + 1 \in S
  PROVE  \A k \in m .. n : k \in S
  <1> DEFINE Left == (m .. n) \ S
  <1> SUFFICES ASSUME Left # {} PROVE FALSE
    OBVIOUS
  <1>1. Left \subseteq Nat
    OBVIOUS
  <1>2. PICK k \in Left : \A l \in Left : ~(<<l, k>> \in OpToRel(<, Nat))
    <2> HIDE DEF Left
    <2> QED
      BY <1>1, NatLessThanWellFounded, WFMin
  <1>3. \A l \in Left : ~(l < k)
    <2> HIDE DEF Left
    <2> QED
      BY <1>1, <1>2 DEF OpToRel
  <1>4. k \in m + 1 .. n
    OBVIOUS
  <1>5. k - 1 \in m .. n - 1 /\ k - 1 \notin Left
    BY <1>3, <1>4
  <1> QED
    BY <1>4, <1>5

\* A set of numbers that has 1, and the next after each of its own, has
\* them all.
LEMMA Induction ==
  ASSUME NEW S, NEW n \in Nat, 1 \in S, \A k \in 1 .. n - 1 : k \in S => k + 1 \in S
  PROVE  \A k \in 1 .. n : k \in S
  BY InductionFrom

\* What a shuffle has made of the list by each of the first n places.
Stages(after, list, r, n) ==
  /\ after[1] = list
  /\ \A i \in 2 .. n : after[i] = Swap(after[i - 1], i, r[i - 1] + 1)

LEMMA OneStageMore ==
  ASSUME NEW list, NEW r, NEW n \in 1 .. Dimensions - 1,
         NEW after \in [1 .. n -> Orders], Stages(after, list, r, n), r[n] \in Span(n + 1),
         NEW longer, longer = [i \in 1 .. n + 1 |->
                                 IF i = n + 1 THEN Swap(after[n], n + 1, r[n] + 1)
                                 ELSE after[i]]
  PROVE  longer \in [1 .. n + 1 -> Orders] /\ Stages(longer, list, r, n + 1)
  <1>1. after[n] \in Orders /\ n + 1 \in Places /\ r[n] + 1 \in Places
    BY SizeAssumption DEF Stages, Span, Places
  <1>2. Swap(after[n], n + 1, r[n] + 1) \in Orders
    BY <1>1, SwapKeepsOrder DEF Orders
  <1>3. longer \in [1 .. n + 1 -> Orders]
    BY <1>2, SizeAssumption DEF Stages
  <1>4. longer[1] = list
    BY SizeAssumption DEF Stages
  <1>5. \A i \in 2 .. n + 1 : longer[i] = Swap(longer[i - 1], i, r[i - 1] + 1)
    BY SizeAssumption DEF Stages
  <1> QED
    BY <1>3, <1>4, <1>5 DEF Stages

LEMMA StagesExist ==
  ASSUME NEW list \in Orders, NEW r \in RollsOfAShuffle
  PROVE  \E after \in [Places -> Orders] : Stages(after, list, r, Dimensions)
  <1> DEFINE S == {n \in 1 .. Dimensions : \E after \in [1 .. n -> Orders] : Stages(after, list, r, n)}
  <1>1. 1 \in S
    <2>1. /\ [i \in 1 .. 1 |-> list] \in [1 .. 1 -> Orders]
          /\ Stages([i \in 1 .. 1 |-> list], list, r, 1)
      BY DEF Stages
    <2> QED
      BY <2>1, SizeAssumption
  <1>2. ASSUME NEW k \in 1 .. Dimensions - 1, k \in S PROVE k + 1 \in S
    <2>1. PICK after \in [1 .. k -> Orders] : Stages(after, list, r, k)
      BY <1>2
    <2>2. r[k] \in Span(k + 1)
      BY DEF RollsOfAShuffle
    <2>3. \E longer \in [1 .. k + 1 -> Orders] : Stages(longer, list, r, k + 1)
      BY <2>1, <2>2, OneStageMore
    <2> QED
      BY <2>3, SizeAssumption
  <1>3. \A k \in 1 .. Dimensions : k \in S
    <2> HIDE DEF S
    <2> QED
      BY <1>1, <1>2, SizeAssumption, Induction
  <1> QED
    BY <1>3, SizeAssumption DEF Places

\* Two shuffles of one list that roll the same go the same way.
LEMMA StagesUnique ==
  ASSUME NEW list, NEW r, NEW after, NEW other, NEW n \in Nat \ {0},
         Stages(after, list, r, n), Stages(other, list, r, n)
  PROVE  \A i \in 1 .. n : after[i] = other[i]
  <1> DEFINE S == {i \in 1 .. n : after[i] = other[i]}
  <1>1. 1 \in S
    BY DEF Stages
  <1>2. \A i \in 1 .. n - 1 : i \in S => i + 1 \in S
    BY DEF Stages
  <1>3. \A i \in 1 .. n : i \in S
    <2> HIDE DEF S
    <2> QED
      BY <1>1, <1>2, Induction
  <1> QED
    BY <1>3

LEMMA ShuffledIs ==
  ASSUME NEW list, NEW r, NEW after \in [Places -> Orders], Stages(after, list, r, Dimensions)
  PROVE  Shuffled(list, r) = after[Dimensions]
  <1> DEFINE Rec(f) == f = [i \in Places |->
                             IF i = 1 THEN list ELSE Swap(f[i - 1], i, r[i - 1] + 1)]
  <1>1. Rec(after)
    BY SizeAssumption DEF Stages, Places
  <1>2. PICK last : Rec(last) /\ Shuffled(list, r) = last[Dimensions]
    <2>1. Rec(CHOOSE f : Rec(f))
      BY <1>1
    <2> QED
      BY <2>1 DEF Shuffled
  <1>3. Stages(last, list, r, Dimensions)
    BY <1>2, SizeAssumption DEF Places, Stages
  <1>4. \A i \in 1 .. Dimensions : last[i] = after[i]
    <2> HIDE DEF Rec
    <2> QED
      BY <1>3, StagesUnique, SizeAssumption
  <1> QED
    BY <1>2, <1>4, SizeAssumption

\* A place that was not reached has the entry it began with.
LEMMA NotReached ==
  ASSUME NEW list \in Orders, NEW r \in RollsOfAShuffle,
         NEW after \in [Places -> Orders],
         Stages(after, list, r, Dimensions)
  PROVE  \A i \in Places : \A j \in Places : j > i => after[i][j] = list[j]
  <1> DEFINE S == {i \in Places : \A j \in Places : j > i => after[i][j] = list[j]}
  <1>1. 1 \in S
    BY SizeAssumption DEF Stages, Places
  <1>2. ASSUME NEW i \in 1 .. Dimensions - 1, i \in S PROVE i + 1 \in S
    <2>1. /\ after[i] \in [Places -> Dims] /\ r[i] \in 0 .. i
          /\ after[i + 1] = Swap(after[i], i + 1, r[i] + 1)
      <3>1. i + 1 \in 2 .. Dimensions /\ i + 1 - 1 = i
        BY SizeAssumption
      <3>2. after[i + 1] = Swap(after[i + 1 - 1], i + 1, r[i + 1 - 1] + 1)
        BY <3>1 DEF Stages
      <3> QED
        BY <3>1, <3>2, SizeAssumption DEF Stages, Orders, RollsOfAShuffle, Span, Places
    <2>2. ASSUME NEW j \in Places, j > i + 1 PROVE after[i + 1][j] = list[j]
      BY <1>2, <2>1, <2>2, SizeAssumption DEF Swap, Places
    <2> QED
      BY <2>2, SizeAssumption DEF Places
  <1>3. \A i \in 1 .. Dimensions : i \in S
    <2> HIDE DEF S
    <2> QED
      BY <1>1, <1>2, SizeAssumption, Induction
  <1> QED
    BY <1>3 DEF Places

\* The last exchange can be undone: the entry of its place was put where
\* the roll said.
LEMMA SwapUndone ==
  ASSUME NEW x \in Orders, NEW y \in Orders, NEW i \in Places,
         NEW j \in Places, NEW k \in Places, x[i] = y[i],
         Swap(x, i, j) = Swap(y, i, k)
  PROVE  x = y /\ j = k
  <1>1. Swap(x, i, j)[j] = x[i] /\ Swap(y, i, k)[k] = x[i]
    BY DEF Swap, Orders
  <1>2. Swap(x, i, j) \in [Places -> Dims] /\ Injective(Swap(x, i, j))
    BY SwapKeepsOrder DEF Orders
  <1>3. j = k
    BY <1>1, <1>2 DEF Injective
  <1>4. ASSUME NEW m \in Places PROVE x[m] = y[m]
    <2>1. /\ Swap(x, i, j)[m] = Swap(y, i, j)[m] 
          /\ Swap(x, i, j)[i] = Swap(y, i, j)[i]
          /\ Swap(x, i, j)[j] = Swap(y, i, j)[j]
      BY <1>3
    <2> QED
      BY <2>1 DEF Swap, Orders
  <1> QED
    BY <1>3, <1>4 DEF Orders

LEMMA RollsAreKnown ==
  ASSUME NEW list \in Orders, NEW r \in RollsOfAShuffle, NEW s \in RollsOfAShuffle,
         Shuffled(list, r) = Shuffled(list, s)
  PROVE  r = s
  <1>1. PICK after \in [Places -> Orders] : Stages(after, list, r, Dimensions)
    BY StagesExist
  <1>2. PICK other \in [Places -> Orders] : Stages(other, list, s, Dimensions)
    BY StagesExist
  <1>3. after[Dimensions] = other[Dimensions]
    BY <1>1, <1>2, ShuffledIs
  <1>4. ASSUME NEW i \in 1 .. Dimensions - 1, after[i + 1] = other[i + 1]
        PROVE  after[i] = other[i] /\ r[i] = s[i]
    <2>1. i + 1 \in 2 .. Dimensions /\ i + 1 - 1 = i /\ i \in 1 .. Dimensions
      BY SizeAssumption
    <2>2. after[i] \in Orders /\ other[i] \in Orders
      BY <2>1 DEF Places
    <2>3. /\ after[i + 1] = Swap(after[i], i + 1, r[i] + 1)
          /\ other[i + 1] = Swap(other[i], i + 1, s[i] + 1)
      BY <1>1, <1>2, <2>1 DEF Stages
    <2>4. i + 1 \in Places /\ r[i] \in 0 .. i /\ s[i] \in 0 .. i
      BY SizeAssumption DEF Places, RollsOfAShuffle, Span
    <2>5. r[i] + 1 \in Places /\ s[i] + 1 \in Places
      BY <2>4, SizeAssumption DEF Places
    <2>6. after[i][i + 1] = other[i][i + 1]
      <3>1. i \in Places /\ i + 1 > i
        BY SizeAssumption DEF Places
      <3> QED
        BY <1>1, <1>2, <2>4, <3>1, NotReached
    <2>7. after[i] = other[i] /\ r[i] + 1 = s[i] + 1
      <3>1. Swap(after[i], i + 1, r[i] + 1) = Swap(other[i], i + 1, s[i] + 1)
        BY <1>4, <2>3
      <3> QED
        BY <2>2, <2>4, <2>5, <2>6, <3>1, SwapUndone
    <2> QED
      BY <2>4, <2>7
  <1> DEFINE S == {k \in 1 .. Dimensions :
                     after[Dimensions + 1 - k] = other[Dimensions + 1 - k]}
  <1>5. 1 \in S
    BY <1>3, SizeAssumption
  <1>6. ASSUME NEW k \in 1 .. Dimensions - 1, k \in S PROVE k + 1 \in S
    <2>1. PICK i \in 1 .. Dimensions - 1 : i = Dimensions - k
      BY SizeAssumption
    <2>2. after[i + 1] = other[i + 1]
      <3>1. i + 1 = Dimensions + 1 - k
        BY <2>1, SizeAssumption
      <3> QED
        BY <1>6, <3>1
    <2>3. after[i] = other[i]
      BY <1>4, <2>2
    <2>4. Dimensions + 1 - (k + 1) = i /\ k + 1 \in 1 .. Dimensions
      BY <2>1, SizeAssumption
    <2> QED
      BY <2>3, <2>4
  <1>7. \A k \in 1 .. Dimensions : k \in S
    <2> HIDE DEF S
    <2> QED
      BY <1>5, <1>6, SizeAssumption, Induction
  <1>8. ASSUME NEW i \in 1 .. Dimensions PROVE after[i] = other[i]
    <2>1. Dimensions + 1 - i \in 1 .. Dimensions
          /\ Dimensions + 1 - (Dimensions + 1 - i) = i
      BY SizeAssumption
    <2> QED
      BY <1>7, <2>1
  <1>9. \A i \in 1 .. Dimensions - 1 : r[i] = s[i]
    BY <1>4, <1>8, SizeAssumption
  <1> QED
    <2>1. r \in [1 .. Dimensions - 1 -> Dims] /\ s \in [1 .. Dimensions - 1 -> Dims]
      BY DEF RollsOfAShuffle
    <2>2. r = [i \in 1 .. Dimensions - 1 |-> r[i]] /\ s = [i \in 1 .. Dimensions - 1 |-> s[i]]
      BY <2>1
    <2> QED
      BY <1>9, <2>2

\* The list is what the rolls since the shuffle began have made of it.
RolledOK(g) ==
  pc[g] = "exchange" =>
    /\ from[g] \in Orders
    /\ Len(rolls[g]) = at[g] - 2
    /\ \A i \in 1 .. at[g] - 2 : rolls[g][i] \in Span(i + 1)
    /\ \E after \in [1 .. at[g] - 1 -> Orders] :
          /\ Stages(after, from[g], rolls[g], at[g] - 1)
          /\ after[at[g] - 1] = idx[g]

Rolled == FingerprintsSound /\ \A g \in Generators : RolledOK(g)

LEMMA RolledInit == Init => Rolled
  BY SoundInit DEF Init, Rolled, RolledOK

LEMMA RolledStep == Rolled /\ [Next]_vars => Rolled'
  <1> SUFFICES ASSUME Rolled, [Next]_vars PROVE Rolled'
    OBVIOUS
  <1> USE SizeAssumption
  <1>0. FingerprintsSound'
    BY SoundStep DEF Rolled
  <1>t. TypeOK /\ \A g \in Generators : Injective(idx[g])
    BY DEF Rolled, FingerprintsSound
  <1>1. ASSUME NEW h \in Generators, pc'[h] = "exchange" => pc[h] = "exchange",
               UNCHANGED <<from[h], rolls[h], at[h], idx[h]>>
        PROVE  RolledOK(h)'
    BY <1>1 DEF Rolled, RolledOK, Stages, Orders, Places, Dims
  <1>2. CASE UNCHANGED vars
    BY <1>0, <1>1, <1>2 DEF vars, Rolled
  <1>3. ASSUME NEW g \in Generators, Construct(g) \/ Take(g) PROVE Rolled'
    <2>1. ASSUME NEW h \in Generators
          PROVE  /\ pc'[h] = "exchange" => pc[h] = "exchange"
                 /\ UNCHANGED <<from[h], rolls[h], at[h], idx[h]>>
      BY <1>3, <1>t DEF Construct, Take, Goto, TypeOK
    <2> QED
      BY <1>0, <1>1, <2>1 DEF Rolled
  <1>4. ASSUME NEW g \in Generators, Shuffle(g) PROVE Rolled'
    <2>1. ASSUME NEW h \in Generators, h # g PROVE RolledOK(h)'
      BY <1>1, <1>4, <1>t, <2>1 DEF Shuffle, Goto, TypeOK
    <2>2. /\ from'[g] = idx[g] /\ idx'[g] = idx[g] /\ at'[g] = 2 /\ rolls'[g] = <<>>
      BY <1>4, <1>t DEF Shuffle, TypeOK
    <2>3. idx[g] \in Orders
      BY <1>t DEF TypeOK, Orders
    <2>4. PICK after : after = [i \in 1 .. 1 |-> idx[g]]
      OBVIOUS
    <2>5. /\ after \in [1 .. 1 -> Orders] /\ after[1] = idx[g]
          /\ Stages(after, idx[g], <<>>, 1)
      BY <2>3, <2>4 DEF Stages
    <2>6. RolledOK(g)'
      BY <2>2, <2>3, <2>5 DEF RolledOK
    <2> QED
      BY <1>0, <2>1, <2>6 DEF Rolled
  <1>5. ASSUME NEW g \in Generators, Exchange(g) PROVE Rolled'
    <2>1. PICK r \in Span(at[g]) :
            /\ idx' = [idx EXCEPT ![g] = IF r + 1 = at[g] THEN @
                                         ELSE Swap(@, at[g], r + 1)]
            /\ rolls' = [rolls EXCEPT ![g] = Append(@, r)]
      BY <1>5 DEF Exchange
    <2>2. /\ pc[g] = "exchange" /\ at[g] \in 2 .. Dimensions /\ at'[g] = at[g] + 1
          /\ from' = from /\ pc' = pc
      BY <1>5, <1>t DEF Exchange, TypeOK
    <2>3. ASSUME NEW h \in Generators, h # g PROVE RolledOK(h)'
      BY <1>1, <1>5, <1>t, <2>1, <2>3 DEF Exchange, TypeOK
    <2>4. PICK n \in 1 .. Dimensions - 1 : n = at[g] - 1
      BY <2>2
    <2>5. PICK after \in [1 .. n -> Orders] :
             Stages(after, from[g], rolls[g], n) /\ after[n] = idx[g]
      BY <2>2, <2>4 DEF Rolled, RolledOK
    <2>6. /\ rolls'[g] = Append(rolls[g], r) /\ r \in Span(n + 1) /\ r \in Dims
          /\ rolls[g] \in Seq(Dims) /\ Len(rolls[g]) = n - 1
          /\ \A i \in 1 .. n - 1 : rolls[g][i] \in Span(i + 1)
      <3>1. r \in 0 .. at[g] - 1 /\ r \in Dims
        BY <2>1, <2>2 DEF Span, Dims
      <3>2. rolls[g] \in Seq(Dims) /\ rolls'[g] = Append(rolls[g], r)
        BY <1>t, <2>1 DEF TypeOK
      <3>3. at[g] - 2 = n - 1 /\ at[g] = n + 1
        BY <2>2, <2>4
      <3>4. Len(rolls[g]) = n - 1 /\ \A i \in 1 .. n - 1 : rolls[g][i] \in Span(i + 1)
        BY <2>2, <3>3 DEF Rolled, RolledOK
      <3> QED
        BY <2>1, <3>1, <3>2, <3>3, <3>4
    <2>7. /\ Len(rolls'[g]) = n /\ rolls'[g][n] = r
          /\ \A i \in 1 .. n - 1 : rolls'[g][i] = rolls[g][i]
      BY <2>6
    <2>8. Stages(after, from[g], rolls'[g], n)
      BY <2>5, <2>7 DEF Stages
    <2>9. PICK longer : longer = [i \in 1 .. n + 1 |->
                                    IF i = n + 1 THEN Swap(after[n], n + 1, rolls'[g][n] + 1)
                                    ELSE after[i]]
      OBVIOUS
    <2>10. longer \in [1 .. n + 1 -> Orders] /\ Stages(longer, from[g], rolls'[g], n + 1)
      <3>1. PICK now : now = rolls'[g]
        OBVIOUS
      <3>2. now[n] \in Span(n + 1) /\ Stages(after, from[g], now, n)
        BY <2>6, <2>7, <2>8, <3>1
      <3>3. longer = [i \in 1 .. n + 1 |->
                        IF i = n + 1 THEN Swap(after[n], n + 1, now[n] + 1) ELSE after[i]]
        BY <2>9, <3>1
      <3>4. longer \in [1 .. n + 1 -> Orders] /\ Stages(longer, from[g], now, n + 1)
        BY <3>2, <3>3, OneStageMore
      <3> QED
        BY <3>1, <3>4
    <2>11. longer[n + 1] = idx'[g]
      <3>1. longer[n + 1] = Swap(idx[g], n + 1, r + 1)
        BY <2>5, <2>7, <2>9
      <3>2. idx'[g] = IF r + 1 = n + 1 THEN idx[g] ELSE Swap(idx[g], n + 1, r + 1)
        <4>1. idx \in [Generators -> [Places -> Dims]] /\ at[g] = n + 1
          BY <1>t, <2>2, <2>4 DEF TypeOK
        <4> QED
          BY <2>1, <4>1
      <3>3. n + 1 \in Places /\ idx[g] \in [Places -> Dims]
        BY <1>t DEF TypeOK, Places
      <3>4. Swap(idx[g], n + 1, n + 1) = idx[g]
        BY <3>3 DEF Swap
      <3> QED
        BY <3>1, <3>2, <3>4
    <2>12. RolledOK(g)'
      <3>1. at'[g] - 1 = n + 1 /\ at'[g] - 2 = n /\ from'[g] = from[g]
        BY <2>2, <2>4
      <3>2. from[g] \in Orders
        BY <2>2 DEF Rolled, RolledOK
      <3>3. \A i \in 1 .. n : rolls'[g][i] \in Span(i + 1)
        BY <2>6, <2>7
      <3> QED
        BY <2>7, <2>10, <2>11, <3>1, <3>2, <3>3 DEF RolledOK
    <2> QED
      BY <1>0, <2>3, <2>12 DEF Rolled
  <1> QED
    BY <1>2, <1>3, <1>4, <1>5 DEF Next

\* At the end of a shuffle the rolls are those of a whole one.
LEMMA RolledDecides == Rolled => Unbiased
  <1> SUFFICES ASSUME Rolled, NEW g \in Generators,
                      pc[g] = "exchange", at[g] > Dimensions
               PROVE  {r \in RollsOfAShuffle : Shuffled(from[g], r) = idx[g]} = {rolls[g]}
    BY DEF Unbiased
  <1>1. at[g] = Dimensions + 1 /\ rolls[g] \in Seq(Dims)
    BY SizeAssumption DEF Rolled, FingerprintsSound, TypeOK
  <1>2. at[g] - 1 = Dimensions /\ at[g] - 2 = Dimensions - 1
    BY <1>1, SizeAssumption
  <1>3. /\ from[g] \in Orders /\ Len(rolls[g]) = Dimensions - 1
        /\ \A i \in 1 .. Dimensions - 1 : rolls[g][i] \in Span(i + 1)
    BY <1>2 DEF Rolled, RolledOK
  <1>4. rolls[g] \in RollsOfAShuffle
    BY <1>1, <1>3, SizeAssumption DEF RollsOfAShuffle
  <1>5. PICK after \in [Places -> Orders] :
           Stages(after, from[g], rolls[g], Dimensions) /\ after[Dimensions] = idx[g]
    BY <1>2 DEF Rolled, RolledOK, Places
  <1>6. Shuffled(from[g], rolls[g]) = idx[g]
    BY <1>5, ShuffledIs
  <1>7. ASSUME NEW r \in RollsOfAShuffle, Shuffled(from[g], r) = idx[g]
        PROVE  r = rolls[g]
    BY <1>3, <1>4, <1>6, <1>7, RollsAreKnown
  <1> QED
    BY <1>4, <1>6, <1>7

(* Every order comes up once, for any number of dimensions and shuffles.   *)
THEOREM NoOrderIsFavoured == Spec => []Unbiased
  <1> QED
    BY RolledInit, RolledStep, RolledDecides, PTL DEF Spec

-----------------------------------------------------------------------------
(* The array tools.  merge_sort is a recursive function over the parts of  *)
(* a list: a part that is sorted is in order, and each of its entries is   *)
(* one of the part's, taken once.                                          *)

\* The values a loop makes, each of the one before.
Loops(h, n, first, turn) ==
  /\ h[0] = first
  /\ \A k \in 1 .. n : h[k] = turn[k][h[k - 1]]

\* A loop over values of T, from one of them, makes such values.
LEMMA LoopExists ==
  ASSUME NEW n \in Nat, NEW T, NEW t \in T, NEW F \in [1 .. n -> [T -> T]]
  PROVE  \E h \in [0 .. n -> T] : Loops(h, n, t, F)
  <1> DEFINE S == {m \in 0 .. n : \E h \in [0 .. m -> T] : Loops(h, m, t, F)}
  <1>1. 0 \in S
    <2>1. PICK h \in [0 .. 0 -> T] : h = [k \in 0 .. 0 |-> t]
      OBVIOUS
    <2>2. Loops(h, 0, t, F)
      BY <2>1 DEF Loops
    <2>3. 0 \in 0 .. n
      OBVIOUS
    <2> QED
      BY <2>2, <2>3
  <1>2. ASSUME NEW m \in 0 .. n - 1, m \in S PROVE m + 1 \in S
    <2>1. PICK h \in [0 .. m -> T] : Loops(h, m, t, F)
      BY <1>2
    <2>2. PICK longer : longer = [k \in 0 .. m + 1 |-> IF k = m + 1 THEN F[m + 1][h[m]] ELSE h[k]]
      OBVIOUS
    <2>3. F[m + 1][h[m]] \in T
      OBVIOUS
    <2>4. longer \in [0 .. m + 1 -> T]
      BY <2>2, <2>3
    <2>5. longer[0] = t
      BY <2>1, <2>2 DEF Loops
    <2>6. ASSUME NEW k \in 1 .. m + 1 PROVE longer[k] = F[k][longer[k - 1]]
      <3>1. CASE k = m + 1
        <4>1. longer[k] = F[m + 1][h[m]] /\ longer[m] = h[m] /\ k - 1 = m
          BY <2>2, <3>1
        <4> QED
          BY <3>1, <4>1
      <3>2. CASE k # m + 1
        <4>1. k \in 1 .. m /\ longer[k] = h[k] /\ longer[k - 1] = h[k - 1]
          BY <2>2, <3>2
        <4> QED
          BY <2>1, <4>1 DEF Loops
      <3> QED
        BY <3>1, <3>2
    <2> QED
      BY <2>4, <2>5, <2>6 DEF Loops
  <1>3. \A m \in 0 .. n : m \in S
    <2> HIDE DEF S
    <2> QED
      BY <1>1, <1>2, InductionFrom
  <1>4. n \in S
    BY <1>3
  <1> QED
    BY <1>4

\* What merge keeps of the left half.
Uses(left, right, used) ==
  /\ used[0] = 0
  /\ \A k \in 1 .. Len(left) + Len(right) :
       used[k] = IF FromLeft(left, right, used[k - 1], k - 1 - used[k - 1])
                 THEN used[k - 1] + 1 ELSE used[k - 1]

Taken(left, right, used, n) ==
  [k \in 1 .. n |-> IF used[k] > used[k - 1] THEN left[used[k]] ELSE right[k - used[k]]]

\* merge is such a loop, and it has one list for a result.
LEMMA MergeUses ==
  ASSUME NEW x, NEW y, NEW n \in Nat, Len(x) \in Nat, Len(y) \in Nat, n = Len(x) + Len(y)
  PROVE  \E used \in [0 .. n -> Int] :
            Uses(x, y, used) /\ Merge(x, y) = Taken(x, y, used, n)
  <1>1. n = Len(x) + Len(y)
    OBVIOUS
  <1> DEFINE Rec(u) == u = [k \in 0 .. Len(x) + Len(y) |->
                             IF k = 0 THEN 0
                             ELSE IF FromLeft(x, y, u[k - 1], k - 1 - u[k - 1])
                                  THEN u[k - 1] + 1 ELSE u[k - 1]]
  <1>f. PICK F \in [1 .. n -> [Int -> Int]] :
           F = [k \in 1 .. n |-> [i \in Int |->
                  IF FromLeft(x, y, i, k - 1 - i) THEN i + 1 ELSE i]]
    <2>1. ASSUME NEW k \in 1 .. n
          PROVE  [i \in Int |-> IF FromLeft(x, y, i, k - 1 - i) THEN i + 1 ELSE i] \in [Int -> Int]
      OBVIOUS
    <2> QED
      BY <2>1
  <1>2. PICK h \in [0 .. n -> Int] : Loops(h, n, 0, F)
    <2>1. 0 \in Int
      OBVIOUS
    <2>2. \E h \in [0 .. n -> Int] : Loops(h, n, 0, F)
      BY <1>1, <1>f, <2>1, LoopExists
    <2> QED
      BY <2>2
  <1>3. Rec(h)
    <2>1. ASSUME NEW k \in 1 .. n
          PROVE  h[k] = IF FromLeft(x, y, h[k - 1], k - 1 - h[k - 1])
                        THEN h[k - 1] + 1 ELSE h[k - 1]
      <3>k. k - 1 \in 0 .. n
        OBVIOUS
      <3>1. PICK i \in Int : i = h[k - 1]
        BY <1>2, <3>k
      <3>2. h[k] = F[k][i]
        BY <1>2, <3>1 DEF Loops
      <3> QED
        BY <1>f, <3>1, <3>2
    <2>2. ASSUME NEW k \in 0 .. n
          PROVE  h[k] = IF k = 0 THEN 0
                        ELSE IF FromLeft(x, y, h[k - 1], k - 1 - h[k - 1])
                             THEN h[k - 1] + 1 ELSE h[k - 1]
      <3>1. k = 0 \/ k \in 1 .. n
        OBVIOUS
      <3>2. h[0] = 0
        BY <1>2 DEF Loops
      <3> QED
        BY <2>1, <3>1, <3>2
    <2>3. h = [k \in 0 .. Len(x) + Len(y) |-> h[k]]
      BY <1>1
    <2> QED
      BY <2>2, <2>3
  <1>4. PICK used : /\ Rec(used)
                    /\ Merge(x, y) = [k \in 1 .. n |->
                         IF used[k] > used[k - 1] THEN x[used[k]] ELSE y[k - used[k]]]
    <2>1. Rec(CHOOSE u : Rec(u))
      BY <1>3
    <2> QED
      BY <1>1, <2>1 DEF Merge
  <1>5. Uses(x, y, used)
    BY <1>1, <1>4 DEF Uses
  <1> DEFINE S == {k \in 0 .. n : used[k] \in Int}
  <1>6. 0 \in S
    BY <1>5 DEF Uses
  <1>7. ASSUME NEW k \in 0 .. n - 1, k \in S PROVE k + 1 \in S
    <2>1. k + 1 \in 1 .. n /\ k + 1 - 1 = k
      OBVIOUS
    <2> QED
      BY <1>1, <1>5, <1>7, <2>1 DEF Uses
  <1>8. \A k \in 0 .. n : k \in S
    <2> HIDE DEF S
    <2> QED
      BY <1>6, <1>7, InductionFrom
  <1>9. used \in [0 .. n -> Int]
    BY <1>4, <1>8
  <1>10. Merge(x, y) = Taken(x, y, used, n)
    BY <1>4 DEF Taken
  <1> QED
    BY <1>5, <1>9, <1>10

\* It uses no more of either half than there is.
LEMMA UsesWhatIsThere ==
  ASSUME NEW x, NEW y, Len(x) \in Nat, Len(y) \in Nat,
         NEW used \in [0 .. Len(x) + Len(y) -> Int], Uses(x, y, used)
  PROVE  \A k \in 0 .. Len(x) + Len(y) :
            used[k] \in 0 .. Len(x) /\ k - used[k] \in 0 .. Len(y)
  <1>1. PICK n \in Nat : n = Len(x) + Len(y)
    OBVIOUS
  <1> DEFINE S == {k \in 0 .. n : used[k] \in 0 .. Len(x) /\ k - used[k] \in 0 .. Len(y)}
  <1>2. 0 \in S
    BY DEF Uses
  <1>3. ASSUME NEW k \in 0 .. n - 1, k \in S PROVE k + 1 \in S
    <2>1. PICK i \in 0 .. Len(x), j \in 0 .. Len(y) : i = used[k] /\ j = k - i
      BY <1>3
    <2>2. k + 1 \in 1 .. n /\ k + 1 - 1 = k /\ k - i = j
      BY <2>1
    <2>3. used[k + 1] = IF FromLeft(x, y, i, j) THEN i + 1 ELSE i
      BY <1>1, <2>1, <2>2 DEF Uses
    <2>4. FromLeft(x, y, i, j) => i < Len(x)
      BY <1>1, <2>1, <2>2 DEF FromLeft
    <2>5. ~FromLeft(x, y, i, j) => j < Len(y)
      BY <2>1 DEF FromLeft
    <2> QED
      BY <2>1, <2>2, <2>3, <2>4, <2>5
  <1>4. \A k \in 0 .. n : k \in S
    <2> HIDE DEF S
    <2> QED
      BY <1>2, <1>3, InductionFrom
  <1> QED
    BY <1>1, <1>4

\* What is used stays used.
LEMMA UsesMore ==
  ASSUME NEW x, NEW y, Len(x) \in Nat, Len(y) \in Nat,
         NEW used \in [0 .. Len(x) + Len(y) -> Int], Uses(x, y, used),
         NEW k \in 0 .. Len(x) + Len(y), NEW l \in k .. Len(x) + Len(y)
  PROVE  used[k] <= used[l] /\ k - used[k] <= l - used[l]
  <1>1. PICK n \in Nat : n = Len(x) + Len(y)
    OBVIOUS
  <1> DEFINE S == {m \in k .. n : used[k] <= used[m] /\ k - used[k] <= m - used[m]}
  <1>2. k \in S
    BY <1>1
  <1>3. ASSUME NEW m \in k .. n - 1, m \in S PROVE m + 1 \in S
    <2>1. m \in 0 .. n /\ m + 1 \in 1 .. n /\ m + 1 - 1 = m
      BY <1>1
    <2>2. PICK u \in Int, v \in Int : u = used[k] /\ v = used[m]
      BY <1>1, <2>1
    <2>3. used[m + 1] = v \/ used[m + 1] = v + 1
      BY <1>1, <2>1, <2>2 DEF Uses
    <2>4. u <= v /\ k - u <= m - v
      BY <1>3, <2>2
    <2>5. PICK j \in k .. n : j = m + 1
      OBVIOUS
    <2>6. PICK w : w = used[j]
      OBVIOUS
    <2>7. u <= w /\ k - u <= j - w
      BY <2>3, <2>4, <2>5, <2>6
    <2>8. used[k] <= used[j] /\ k - used[k] <= j - used[j]
      BY <2>2, <2>6, <2>7
    <2>9. j \in S
      BY <2>8
    <2> QED
      BY <2>5, <2>9
  <1>4. \A m \in k .. n : m \in S
    <2>1. k \in Nat
      OBVIOUS
    <2> HIDE DEF S
    <2> QED
      BY <1>2, <1>3, <2>1, InductionFrom
  <1> QED
    BY <1>1, <1>4

\* How long a list is, from the places it has.
LEMMA LenIs ==
  ASSUME NEW n \in Nat, NEW T, NEW s \in [1 .. n -> T]
  PROVE  Len(s) = n /\ s \in Seq(T)
  OBVIOUS

\* A list is in order and is the entries of n places of another.
OrderOf(a, s, first, n) ==
  /\ s \in [1 .. n -> Int] /\ Sorted(s)
  /\ \E p \in [1 .. n -> first .. first + n - 1] :
        Injective(p) /\ \A k \in 1 .. n : s[k] = a[p[k]]

\* Each turn of merge takes the next entry of one half, as FromLeft says.
LEMMA MergeTurn ==
  ASSUME NEW m \in Nat, NEW r \in Nat, NEW x \in [1 .. m -> Int], NEW y \in [1 .. r -> Int],
         NEW used \in [0 .. m + r -> Int], Uses(x, y, used),
         NEW k \in 1 .. m + r
  PROVE  /\ used[k] > used[k - 1] =>
              /\ used[k - 1] = used[k] - 1
              /\ used[k] \in 1 .. m
              /\ FromLeft(x, y, used[k] - 1, k - used[k])
         /\ ~(used[k] > used[k - 1]) =>
              /\ used[k - 1] = used[k]
              /\ k - used[k] \in 1 .. r
              /\ used[k] \in 0 .. m
              /\ ~FromLeft(x, y, used[k], k - used[k] - 1)
  <1>1. Len(x) = m /\ Len(y) = r
    BY LenIs
  <1>2. PICK i \in Int, l \in Int : i = used[k - 1] /\ l = used[k]
    OBVIOUS
  <1>3. l = IF FromLeft(x, y, i, k - 1 - i) THEN i + 1 ELSE i
    BY <1>1, <1>2 DEF Uses
  <1>4. i \in 0 .. m /\ k - 1 - i \in 0 .. r /\ l \in 0 .. m /\ k - l \in 0 .. r
    <2>1. k - 1 \in 0 .. m + r /\ k \in 0 .. m + r
      OBVIOUS
    <2> QED
      BY <1>1, <1>2, <2>1, UsesWhatIsThere
  <1>5. CASE l > i
    <2>1. FromLeft(x, y, i, k - 1 - i) /\ i = l - 1 /\ k - 1 - i = k - l
      <3>1. FromLeft(x, y, i, k - 1 - i)
        <4> SUFFICES ASSUME ~FromLeft(x, y, i, k - 1 - i) PROVE FALSE
          OBVIOUS
        <4>1. l = i
          BY <1>3
        <4> QED
          BY <1>5, <4>1
      <3>2. l = i + 1
        BY <1>3, <3>1
      <3> QED
        BY <3>1, <3>2
    <2>2. FromLeft(x, y, l - 1, k - l)
      BY <2>1
    <2> QED
      BY <1>2, <1>4, <1>5, <2>1, <2>2
  <1>6. CASE ~(l > i)
    <2>1. ~FromLeft(x, y, i, k - 1 - i) /\ i = l /\ k - 1 - i = k - l - 1
      BY <1>2, <1>3, <1>6
    <2>2. ~FromLeft(x, y, l, k - l - 1)
      BY <2>1
    <2> QED
      BY <1>2, <1>4, <1>6, <2>1, <2>2
  <1> QED
    BY <1>5, <1>6, <1>2

\* A turn that takes the next entry of the right half.
LEMMA MergeTurnRight ==
  ASSUME NEW m \in Nat, NEW r \in Nat, NEW x \in [1 .. m -> Int], NEW y \in [1 .. r -> Int],
         NEW used \in [0 .. m + r -> Int], Uses(x, y, used),
         NEW k \in 1 .. m + r, used[k] <= used[k - 1]
  PROVE  /\ k - used[k] \in 1 .. r
         /\ used[k] \in 0 .. m
         /\ ~FromLeft(x, y, used[k], k - used[k] - 1)
  <1>1. ~(used[k] > used[k - 1])
    <2>1. used[k] \in Int /\ used[k - 1] \in Int
      OBVIOUS
    <2> QED
      BY <2>1
  <1> QED
    BY <1>1, MergeTurn

\* Two halves in order are merged to one list in order.
LEMMA MergeOrders ==
  ASSUME NEW a, NEW first \in Nat, NEW m \in Nat, NEW r \in Nat, NEW x, NEW y,
         OrderOf(a, x, first, m), OrderOf(a, y, first + m, r)
  PROVE  OrderOf(a, Merge(x, y), first, m + r)
  <1>1. /\ x \in [1 .. m -> Int] /\ y \in [1 .. r -> Int]
        /\ Len(x) = m /\ Len(y) = r
        /\ \A i \in 1 .. m - 1 : x[i] <= x[i + 1]
        /\ \A i \in 1 .. r - 1 : y[i] <= y[i + 1]
    <2>1. x \in [1 .. m -> Int] /\ y \in [1 .. r -> Int] /\ Sorted(x) /\ Sorted(y)
      BY DEF OrderOf
    <2>2. Len(x) = m /\ Len(y) = r
      BY <2>1, LenIs
    <2> QED
      BY <2>1, <2>2 DEF Sorted
  <1>2. PICK used \in [0 .. m + r -> Int] :
           /\ Uses(x, y, used)
           /\ Merge(x, y) = Taken(x, y, used, m + r)
    <2>1. m + r \in Nat
      OBVIOUS
    <2> QED
      BY <1>1, <2>1, MergeUses
  <1>3. PICK z : z = Merge(x, y)
    OBVIOUS
  <1> DEFINE Lefts == {k \in 1 .. m + r : used[k] > used[k - 1]}
             Rights == (1 .. m + r) \ Lefts
  <1>4. ASSUME NEW k \in Lefts
        PROVE  /\ k \in 1 .. m + r /\ used[k] \in 1 .. m /\ z[k] = x[used[k]]
               /\ used[k - 1] = used[k] - 1
               /\ FromLeft(x, y, used[k] - 1, k - used[k])
    <2>1. k \in 1 .. m + r /\ used[k] > used[k - 1]
      OBVIOUS
    <2>2. z[k] = x[used[k]]
      BY <1>2, <1>3, <2>1 DEF Taken
    <2>3. x \in [1 .. m -> Int] /\ y \in [1 .. r -> Int] /\ Uses(x, y, used)
      BY <1>1, <1>2
    <2>4. /\ used[k - 1] = used[k] - 1
          /\ used[k] \in 1 .. m
          /\ FromLeft(x, y, used[k] - 1, k - used[k])
      <3> HIDE DEF Lefts
      <3> QED
        BY <2>1, <2>3, MergeTurn
    <2> QED
      BY <2>1, <2>2, <2>4
  <1>5. ASSUME NEW k \in Rights
        PROVE  /\ k \in 1 .. m + r /\ k - used[k] \in 1 .. r /\ z[k] = y[k - used[k]]
               /\ used[k] \in 0 .. m /\ used[k - 1] = used[k]
               /\ ~FromLeft(x, y, used[k], k - used[k] - 1)
    <2>1. k \in 1 .. m + r /\ ~(used[k] > used[k - 1])
      OBVIOUS
    <2>2. z[k] = y[k - used[k]]
      BY <1>2, <1>3, <2>1 DEF Taken
    <2>3. /\ used[k - 1] = used[k]
          /\ k - used[k] \in 1 .. r
          /\ used[k] \in 0 .. m
          /\ ~FromLeft(x, y, used[k], k - used[k] - 1)
      <3>1. used[k] <= used[k - 1]
        <4>1. used[k] \in Int /\ used[k - 1] \in Int
          BY <2>1
        <4> QED
          BY <2>1, <4>1
      <3>2. /\ k - used[k] \in 1 .. r
            /\ used[k] \in 0 .. m
            /\ ~FromLeft(x, y, used[k], k - used[k] - 1)
        BY <1>1, <1>2, <2>1, <3>1, MergeTurnRight
      <3>3. used[k] = used[k - 1]
        <4>1. k - 1 \in 0 .. m + r /\ k \in k - 1 .. m + r
          BY <2>1
        <4>2. Len(x) + Len(y) = m + r /\ Len(x) \in Nat /\ Len(y) \in Nat
          BY <1>1
        <4>3. used[k - 1] <= used[k]
          BY <1>2, <4>1, <4>2, UsesMore
        <4>4. used[k] \in Int /\ used[k - 1] \in Int
          BY <4>1
        <4> QED
          BY <3>1, <4>3, <4>4
      <3> QED
        BY <3>2, <3>3
    <2> QED
      BY <2>1, <2>2, <2>3
  <1>6. \A k \in 1 .. m + r : k \in Lefts \/ k \in Rights
    OBVIOUS
  <1>r. Rights = (1 .. m + r) \ Lefts
    OBVIOUS
  <1> HIDE DEF Lefts, Rights
  <1>7. z \in [1 .. m + r -> Int]
    <2>1. \A k \in 1 .. m + r : z[k] \in Int
      BY <1>1, <1>4, <1>5, <1>6
    <2> QED
      BY <1>2, <1>3, <2>1 DEF Taken
  <1>8. Sorted(z)
    <2>1. Len(z) = m + r
      BY <1>7, LenIs
    <2> SUFFICES ASSUME NEW k \in 1 .. m + r - 1 PROVE z[k] <= z[k + 1]
      BY <2>1 DEF Sorted
    <2>2. PICK l \in 1 .. m + r : l = k + 1 /\ l - 1 = k
      OBVIOUS
    <2>k. k \in 1 .. m + r
      OBVIOUS
    <2>3. CASE k \in Lefts /\ l \in Lefts
      <3>1. /\ used[l] \in 1 .. m /\ used[l - 1] = used[l] - 1 /\ z[l] = x[used[l]]
            /\ used[k] \in 1 .. m /\ z[k] = x[used[k]]
        BY <1>4, <2>3
      <3>2. PICK i \in 1 .. m : i = used[k]
        BY <3>1
      <3>3. used[l] = i + 1 /\ i \in 1 .. m - 1
        BY <2>2, <3>1, <3>2
      <3> QED
        BY <1>1, <2>2, <3>1, <3>2, <3>3
    <2>4. CASE k \in Lefts /\ l \in Rights
      <3>1. /\ used[l - 1] = used[l] /\ l - used[l] \in 1 .. r /\ z[l] = y[l - used[l]]
            /\ used[k] \in 1 .. m /\ z[k] = x[used[k]] /\ FromLeft(x, y, used[k] - 1, k - used[k])
        BY <1>4, <1>5, <2>4
      <3>2. PICK i \in 1 .. m : i = used[k]
        BY <3>1
      <3>3. PICK j \in 1 .. r : j = l - i
        BY <2>2, <3>1, <3>2
      <3>4. z[k] = x[i] /\ z[l] = y[j]
        BY <2>2, <3>1, <3>2, <3>3
      <3>5. FromLeft(x, y, i - 1, j - 1)
        <4>1. k - i = j - 1
          BY <2>2, <3>3
        <4> QED
          BY <3>1, <3>2, <4>1
      <3>6. ~(y[j] < x[i])
        <4>1. j - 1 + 1 = j /\ i - 1 + 1 = i /\ j - 1 # r
          OBVIOUS
        <4>2. ~(y[j - 1 + 1] < x[i - 1 + 1])
          BY <1>1, <3>5, <4>1 DEF FromLeft, RightFirst
        <4> QED
          BY <4>1, <4>2
      <3>7. x[i] \in Int /\ y[j] \in Int
        BY <1>1
      <3> QED
        BY <2>2, <3>4, <3>6, <3>7
    <2>5. CASE k \in Rights /\ l \in Lefts
      <3>1. /\ used[l - 1] = used[l] - 1 /\ used[l] \in 1 .. m /\ z[l] = x[used[l]]
            /\ k - used[k] \in 1 .. r /\ z[k] = y[k - used[k]]
            /\ ~FromLeft(x, y, used[k], k - used[k] - 1)
        BY <1>4, <1>5, <2>5
      <3>2. PICK i \in 1 .. m : i = used[l]
        BY <3>1
      <3>3. PICK j \in 1 .. r : j = k - (i - 1)
        BY <2>2, <3>1, <3>2
      <3>4. z[k] = y[j] /\ z[l] = x[i]
        BY <2>2, <3>1, <3>2, <3>3
      <3>5. ~FromLeft(x, y, i - 1, j - 1)
        BY <2>2, <3>1, <3>2, <3>3
      <3>6. y[j] < x[i]
        <4>1. j - 1 + 1 = j /\ i - 1 + 1 = i /\ i - 1 < m
          OBVIOUS
        <4>2. y[j - 1 + 1] < x[i - 1 + 1]
          BY <1>1, <3>5, <4>1 DEF FromLeft, RightFirst
        <4> QED
          BY <4>1, <4>2
      <3>7. x[i] \in Int /\ y[j] \in Int
        BY <1>1
      <3> QED
        BY <2>2, <3>4, <3>6, <3>7
    <2>6. CASE k \in Rights /\ l \in Rights
      <3>1. /\ used[l - 1] = used[l] /\ l - used[l] \in 1 .. r /\ z[l] = y[l - used[l]]
            /\ used[k] \in 0 .. m /\ k - used[k] \in 1 .. r /\ z[k] = y[k - used[k]]
        BY <1>5, <2>6
      <3>2. PICK j \in 1 .. r : j = k - used[k]
        BY <3>1
      <3>3. PICK u \in 0 .. m : u = used[k] /\ used[l] = u
        BY <2>2, <3>1
      <3>4. l - u = j + 1
        BY <2>2, <3>2, <3>3
      <3>5. l - u \in 1 .. r
        BY <3>1, <3>3
      <3>6. j \in 1 .. r - 1
        BY <3>4, <3>5
      <3>7. z[k] = y[j] /\ z[l] = y[j + 1]
        BY <3>1, <3>2, <3>3, <3>4
      <3> QED
        BY <1>1, <2>2, <3>6, <3>7
    <2> QED
      BY <1>6, <2>2, <2>k, <2>3, <2>4, <2>5, <2>6
  <1>9. \E p \in [1 .. m + r -> first .. first + (m + r) - 1] :
           Injective(p) /\ \A k \in 1 .. m + r : z[k] = a[p[k]]
    <2>1. PICK p \in [1 .. m -> first .. first + m - 1] :
             Injective(p) /\ \A k \in 1 .. m : x[k] = a[p[k]]
      BY DEF OrderOf
    <2>2. PICK q \in [1 .. r -> first + m .. first + m + r - 1] :
             Injective(q) /\ \A k \in 1 .. r : y[k] = a[q[k]]
      BY DEF OrderOf
    <2>3. PICK f : f = [k \in 1 .. m + r |-> IF k \in Lefts THEN p[used[k]] ELSE q[k - used[k]]]
      OBVIOUS
    <2>4. ASSUME NEW k \in Lefts
          PROVE  f[k] = p[used[k]] /\ f[k] \in first .. first + m - 1 /\ z[k] = a[f[k]]
      BY <1>4, <2>1, <2>3
    <2>5. ASSUME NEW k \in Rights
          PROVE  f[k] = q[k - used[k]] /\ f[k] \in first + m .. first + m + r - 1 /\ z[k] = a[f[k]]
      <3>1. k \in 1 .. m + r /\ k \notin Lefts
        BY <1>r, <1>5
      <3> QED
        BY <1>5, <2>2, <2>3, <3>1
    <2>6. f \in [1 .. m + r -> first .. first + (m + r) - 1]
      <3>1. ASSUME NEW k \in 1 .. m + r PROVE f[k] \in first .. first + (m + r) - 1
        BY <1>6, <2>4, <2>5
      <3> QED
        BY <2>3, <3>1
    <2>7. ASSUME NEW k \in 1 .. m + r, NEW l \in 1 .. m + r, k < l PROVE f[k] # f[l]
      <3>1. k \in 0 .. m + r /\ l - 1 \in k .. m + r
        BY <2>7
      <3>2. used[k] <= used[l - 1] /\ k - used[k] <= (l - 1) - used[l - 1]
        BY <1>1, <1>2, <3>1, UsesMore
      <3>3. CASE k \in Lefts /\ l \in Lefts
        <4>1. used[k] \in 1 .. m /\ used[l] \in 1 .. m /\ used[l - 1] = used[l] - 1
          BY <1>4, <3>3
        <4>2. used[k] # used[l]
          BY <3>2, <4>1
        <4> QED
          BY <2>1, <2>4, <3>3, <4>1, <4>2 DEF Injective
      <3>4. CASE k \in Rights /\ l \in Rights
        <4>1. PICK i \in 1 .. r, j \in 1 .. r : i = k - used[k] /\ j = l - used[l]
          BY <1>5, <3>4
        <4>2. (l - 1) - used[l - 1] = j - 1
          <5>1. PICK u \in 0 .. m : u = used[l] /\ u = used[l - 1]
            BY <1>5, <3>4
          <5>2. j = l - u
            BY <4>1, <5>1
          <5>3. (l - 1) - u = j - 1
            BY <5>2
          <5> QED
            BY <5>1, <5>3
        <4>3. i # j
          <5>1. i <= j - 1
            BY <3>2, <4>1, <4>2
          <5> QED
            BY <5>1
        <4>4. f[k] = q[i] /\ f[l] = q[j]
          BY <2>5, <3>4, <4>1
        <4> QED
          BY <2>2, <4>3, <4>4 DEF Injective
      <3>5. CASE k \in Lefts /\ l \in Rights
        <4>1. f[k] \in first .. first + m - 1 /\ f[l] \in first + m .. first + m + r - 1
          BY <2>4, <2>5, <3>5
        <4> QED
          BY <4>1
      <3>6. CASE k \in Rights /\ l \in Lefts
        <4>1. f[l] \in first .. first + m - 1 /\ f[k] \in first + m .. first + m + r - 1
          BY <2>4, <2>5, <3>6
        <4> QED
          BY <4>1
      <3> QED
        BY <1>6, <3>3, <3>4, <3>5, <3>6
    <2>8. Injective(f)
      <3>1. DOMAIN f = 1 .. m + r
        BY <2>6
      <3>2. \A k, l \in 1 .. m + r : k < l \/ l < k \/ k = l
        OBVIOUS
      <3> QED
        BY <2>7, <3>1, <3>2 DEF Injective
    <2>9. \A k \in 1 .. m + r : z[k] = a[f[k]]
      BY <1>6, <2>4, <2>5
    <2> QED
      BY <2>6, <2>8, <2>9
  <1> QED
    BY <1>3, <1>7, <1>8, <1>9 DEF OrderOf

\* What a call of merge_sort makes of a part, when those for its halves
\* have made sorted.
Halved(a, sorted, part) ==
  IF part[2] < 2 THEN SubSeq(a, part[1], part[1] + part[2] - 1)
  ELSE Merge(sorted[<<part[1], part[2] \div 2>>],
             sorted[<<part[1] + (part[2] \div 2), part[2] - (part[2] \div 2)>>])

\* Both halves of a part that is halved are shorter parts.
LEMMA HalvesAre ==
  ASSUME NEW a, Len(a) \in Nat, NEW part \in Parts(a), ~(part[2] < 2)
  PROVE  \E f \in Nat, m \in Nat, r \in Nat :
            /\ f = part[1] /\ m = part[2] \div 2 /\ r = part[2] - m
            /\ m < part[2] /\ r < part[2] /\ m + r = part[2]
            /\ <<f, m>> \in Parts(a) /\ <<f + m, r>> \in Parts(a)
  <1>1. PICK f \in 1 .. Len(a) + 1, n \in 2 .. Len(a) : part = <<f, n>> /\ f + n <= Len(a) + 1
    BY DEF Parts
  <1>2. PICK m \in Nat, r \in Nat : m = n \div 2 /\ r = n - m /\ m < n /\ r < n
    BY <1>1
  <1>3. <<f, m>> \in Parts(a) /\ <<f + m, r>> \in Parts(a)
    BY <1>1, <1>2 DEF Parts
  <1>4. part[1] = f /\ part[2] = n /\ m + r = n
    BY <1>1, <1>2
  <1>5. /\ f = part[1] /\ m = part[2] \div 2 /\ r = part[2] - m
        /\ m < part[2] /\ r < part[2] /\ m + r = part[2]
    BY <1>2, <1>4
  <1>6. f \in Nat
    BY <1>1
  <1> QED
    BY <1>3, <1>5, <1>6

\* merge_sort has a result for every part, shorter parts first.
LEMMA SortExists ==
  ASSUME NEW a, Len(a) \in Nat
  PROVE  \E sorted : sorted = [part \in Parts(a) |-> Halved(a, sorted, part)]
  <1> DEFINE UpTo(h, n) == /\ h = [part \in Parts(a) |-> h[part]]
                           /\ \A part \in Parts(a) : part[2] <= n => h[part] = Halved(a, h, part)
             S == {n \in 0 .. Len(a) : \E h : UpTo(h, n)}
  <1>1. \A part \in Parts(a) : part[2] \in 0 .. Len(a)
    BY DEF Parts
  <1>2. 0 \in S
    <2>1. PICK h : h = [part \in Parts(a) |-> SubSeq(a, part[1], part[1] + part[2] - 1)]
      OBVIOUS
    <2>2. ASSUME NEW part \in Parts(a), part[2] <= 0 PROVE h[part] = Halved(a, h, part)
      <3>1. part[2] < 2
        BY <1>1, <2>2
      <3> QED
        BY <2>1, <3>1 DEF Halved
    <2>3. UpTo(h, 0)
      BY <2>1, <2>2
    <2>4. 0 \in 0 .. Len(a)
      OBVIOUS
    <2> QED
      BY <2>3, <2>4
  <1>3. ASSUME NEW n \in 0 .. Len(a) - 1, n \in S PROVE n + 1 \in S
    <2>1. PICK h : UpTo(h, n)
      BY <1>3
    <2>2. PICK g : g = [part \in Parts(a) |-> IF part[2] <= n THEN h[part] ELSE Halved(a, h, part)]
      OBVIOUS
    <2>3. ASSUME NEW part \in Parts(a), part[2] <= n + 1
          PROVE  g[part] = Halved(a, h, part) /\ Halved(a, g, part) = Halved(a, h, part)
      <3>1. g[part] = Halved(a, h, part)
        BY <2>1, <2>2
      <3>2. CASE part[2] < 2
        BY <3>1, <3>2 DEF Halved
      <3>3. CASE ~(part[2] < 2)
        <4>1. PICK f \in Nat, m \in Nat, r \in Nat :
                 /\ f = part[1] /\ m = part[2] \div 2 /\ r = part[2] - m
                 /\ m < part[2] /\ r < part[2] /\ m + r = part[2]
                 /\ <<f, m>> \in Parts(a) /\ <<f + m, r>> \in Parts(a)
          BY <3>3, HalvesAre
        <4>2. m <= n /\ r <= n
          <5>1. PICK q \in 0 .. Len(a) : q = part[2]
            BY <1>1
          <5>2. m < q /\ r < q /\ q <= n + 1
            BY <2>3, <4>1, <5>1
          <5> QED
            BY <5>2
        <4>3. g[<<f, m>>] = h[<<f, m>>] /\ g[<<f + m, r>>] = h[<<f + m, r>>]
          BY <2>2, <4>1, <4>2
        <4> QED
          BY <3>1, <3>3, <4>1, <4>3 DEF Halved
      <3> QED
        BY <3>2, <3>3
    <2>4. UpTo(g, n + 1)
      BY <2>2, <2>3
    <2> QED
      BY <2>4
  <1>4. \A n \in 0 .. Len(a) : n \in S
    <2> HIDE DEF S
    <2> QED
      BY <1>2, <1>3, InductionFrom
  <1>5. PICK h : UpTo(h, Len(a))
    BY <1>4
  <1>6. \A part \in Parts(a) : h[part] = Halved(a, h, part)
    BY <1>1, <1>5
  <1> QED
    BY <1>5, <1>6

\* A part of less than two entries is in order as it is.
LEMMA ShortIsInOrder ==
  ASSUME NEW a \in Seq(Int), NEW f \in 1 .. Len(a) + 1, NEW n \in 0 .. 1, f + n <= Len(a) + 1
  PROVE  OrderOf(a, SubSeq(a, f, f + n - 1), f, n)
  <1>1. PICK s : s = SubSeq(a, f, f + n - 1)
    OBVIOUS
  <1>2. s \in [1 .. n -> Int] /\ Len(s) = n /\ \A k \in 1 .. n : s[k] = a[f]
    <2>1. CASE n = 0
      <3>1. s = [k \in 1 .. 0 |-> a[f + k - 1]]
        BY <1>1, <2>1
      <3>2. s \in [1 .. 0 -> Int]
        BY <3>1
      <3> QED
        BY <2>1, <3>2, LenIs
    <2>2. CASE n = 1
      <3>1. f \in 1 .. Len(a) /\ a[f] \in Int
        BY <2>2
      <3>2. s = [k \in 1 .. 1 |-> a[f + k - 1]]
        BY <1>1, <2>2
      <3>3. \A k \in 1 .. 1 : s[k] = a[f]
        BY <3>1, <3>2
      <3>4. s \in [1 .. 1 -> Int]
        BY <3>1, <3>2, <3>3
      <3> QED
        BY <2>2, <3>3, <3>4, LenIs
    <2> QED
      BY <2>1, <2>2
  <1>3. Sorted(s)
    BY <1>2 DEF Sorted
  <1>4. PICK p : p = [k \in 1 .. n |-> f]
    OBVIOUS
  <1>5. p \in [1 .. n -> f .. f + n - 1] /\ Injective(p) /\ \A k \in 1 .. n : s[k] = a[p[k]]
    BY <1>2, <1>4 DEF Injective
  <1> QED
    BY <1>1, <1>2, <1>3, <1>5 DEF OrderOf

\* Each part that merge_sort makes is in order, whatever its length.
LEMMA SortOrders ==
  ASSUME NEW a \in Seq(Int), NEW h, h = [part \in Parts(a) |-> Halved(a, h, part)]
  PROVE  \A part \in Parts(a) : OrderOf(a, h[part], part[1], part[2])
  <1>1. Len(a) \in Nat
    OBVIOUS
  <1>2. ASSUME NEW part \in Parts(a)
        PROVE  /\ part[1] \in 1 .. Len(a) + 1 /\ part[2] \in 0 .. Len(a)
               /\ part[1] + part[2] <= Len(a) + 1
               /\ h[part] = Halved(a, h, part)
    BY DEF Parts
  <1> DEFINE S == {n \in 0 .. Len(a) : \A part \in Parts(a) :
                     part[2] <= n => OrderOf(a, h[part], part[1], part[2])}
  <1>3. ASSUME NEW part \in Parts(a), part[2] < 2
        PROVE  OrderOf(a, h[part], part[1], part[2])
    <2>1. PICK f \in 1 .. Len(a) + 1, n \in 0 .. 1 :
             f = part[1] /\ n = part[2] /\ f + n <= Len(a) + 1
      BY <1>2, <1>3
    <2>2. h[part] = SubSeq(a, f, f + n - 1)
      BY <1>2, <1>3, <2>1 DEF Halved
    <2> QED
      BY <2>1, <2>2, ShortIsInOrder
  <1>4. 0 \in S
    <2>1. \A part \in Parts(a) : part[2] <= 0 => OrderOf(a, h[part], part[1], part[2])
      BY <1>2, <1>3
    <2> QED
      BY <1>1, <2>1
  <1>5. ASSUME NEW n \in 0 .. Len(a) - 1, n \in S PROVE n + 1 \in S
    <2>1. ASSUME NEW part \in Parts(a), part[2] <= n + 1, ~(part[2] < 2)
          PROVE  OrderOf(a, h[part], part[1], part[2])
      <3>1. PICK f \in Nat, m \in Nat, r \in Nat :
               /\ f = part[1] /\ m = part[2] \div 2 /\ r = part[2] - m
               /\ m < part[2] /\ r < part[2] /\ m + r = part[2]
               /\ <<f, m>> \in Parts(a) /\ <<f + m, r>> \in Parts(a)
        BY <1>1, <2>1, HalvesAre
      <3>2. m <= n /\ r <= n
        <4>1. PICK q \in 0 .. Len(a) : q = part[2]
          BY <1>2
        <4>2. m < q /\ r < q /\ q <= n + 1
          BY <2>1, <3>1, <4>1
        <4> QED
          BY <4>2
      <3>3. PICK x, y : x = h[<<f, m>>] /\ y = h[<<f + m, r>>]
        OBVIOUS
      <3>4. OrderOf(a, x, f, m) /\ OrderOf(a, y, f + m, r)
        <4>1. \A p \in Parts(a) : p[2] <= n => OrderOf(a, h[p], p[1], p[2])
          BY <1>5
        <4>2. <<f, m>>[1] = f /\ <<f, m>>[2] = m /\ <<f + m, r>>[1] = f + m /\ <<f + m, r>>[2] = r
          OBVIOUS
        <4> QED
          BY <3>1, <3>2, <3>3, <4>1, <4>2
      <3>5. OrderOf(a, Merge(x, y), f, m + r)
        BY <3>1, <3>4, MergeOrders
      <3>6. h[part] = Merge(x, y)
        BY <1>2, <2>1, <3>1, <3>3 DEF Halved
      <3> QED
        BY <3>1, <3>5, <3>6
    <2>2. \A part \in Parts(a) : part[2] <= n + 1 => OrderOf(a, h[part], part[1], part[2])
      BY <1>3, <2>1
    <2> QED
      BY <1>1, <2>2
  <1>6. \A n \in 0 .. Len(a) : n \in S
    <2> HIDE DEF S
    <2> QED
      BY <1>1, <1>4, <1>5, InductionFrom
  <1>7. Len(a) \in S
    BY <1>1, <1>6
  <1> QED
    BY <1>2, <1>7

\* merge_sort puts the entries of a list in order, and loses none.
LEMMA MergeSortOrders ==
  ASSUME NEW a \in Seq(Int)
  PROVE  OrderOf(a, MergeSort(a), 1, Len(a))
  <1> DEFINE Rec(h) == h = [part \in Parts(a) |-> Halved(a, h, part)]
  <1>1. Len(a) \in Nat
    OBVIOUS
  <1>2. \E h : Rec(h)
    BY <1>1, SortExists
  <1>3. PICK h : Rec(h) /\ MergeSort(a) = h[<<1, Len(a)>>]
    <2>1. Rec(CHOOSE h : Rec(h))
      BY <1>2
    <2> QED
      BY <2>1 DEF MergeSort, Halved
  <1>4. <<1, Len(a)>> \in Parts(a) /\ <<1, Len(a)>>[1] = 1 /\ <<1, Len(a)>>[2] = Len(a)
    BY <1>1 DEF Parts
  <1>5. OrderOf(a, h[<<1, Len(a)>>], 1, Len(a))
    BY <1>3, <1>4, SortOrders
  <1> QED
    BY <1>3, <1>5

\* No entry is lost or made.
LEMMA EntriesKept ==
  ASSUME NEW a \in Seq(Int), NEW s, OrderOf(a, s, 1, Len(a)), NEW v
  PROVE  HowMany(s, v) = HowMany(a, v)
  <1>1. PICK n \in Nat : n = Len(a)
    OBVIOUS
  <1>2. Len(s) = n
    BY <1>1, LenIs DEF OrderOf
  <1>3. PICK p \in [1 .. n -> 1 .. n] : Injective(p) /\ \A k \in 1 .. n : s[k] = a[p[k]]
    <2>1. 1 + n - 1 = n
      OBVIOUS
    <2> QED
      BY <1>1, <2>1 DEF OrderOf
  <1>4. IsFiniteSet(1 .. n)
    <2>1. \A k \in Nat : IsFiniteSet(1 .. k)
      BY FS_Interval
    <2> QED
      BY <2>1
  <1>5. \A i \in 1 .. n : \E k \in 1 .. n : p[k] = i
    <2>1. p \in Injection(1 .. n, 1 .. n)
      BY <1>3 DEF Injection, IsInjective, Injective
    <2>2. p \in Surjection(1 .. n, 1 .. n)
      BY <1>4, <2>1, FS_Injection
    <2> QED
      BY <2>2 DEF Surjection
  <1> DEFINE A == {k \in 1 .. n : s[k] = v}
             B == {i \in 1 .. n : a[i] = v}
  <1>6. PICK f : f = [k \in A |-> p[k]]
    OBVIOUS
  <1>7. f \in [A -> B] /\ \A x, y \in A : f[x] = f[y] => x = y
    BY <1>3, <1>6 DEF Injective
  <1>8. \A i \in B : \E k \in A : f[k] = i
    BY <1>3, <1>5, <1>6
  <1>9. ExistsBijection(A, B)
    <2> HIDE DEF A, B
    <2>1. f \in Injection(A, B)
      BY <1>7 DEF Injection, IsInjective
    <2>2. f \in Surjection(A, B)
      BY <1>7, <1>8 DEF Surjection
    <2> QED
      BY <2>1, <2>2 DEF ExistsBijection, Bijection
  <1>10. IsFiniteSet(A)
    BY <1>4, FS_Subset
  <1>11. Cardinality(B) = Cardinality(A)
    BY <1>9, <1>10, FS_Bijection
  <1> QED
    BY <1>1, <1>2, <1>11 DEF HowMany

\* The dimensions have one order that ascends.
LEMMA OneAscends ==
  ASSUME NEW s \in Orders, Sorted(s)
  PROVE  s = Ascending
  <1> USE SizeAssumption
  <1>1. s \in [1 .. Dimensions -> Dims] /\ Injective(s) /\ Len(s) = Dimensions
    BY LenIs DEF Orders, Places
  <1>2. ASSUME NEW i \in 1 .. Dimensions - 1 PROVE s[i] < s[i + 1]
    <2>1. s[i] <= s[i + 1]
      BY <1>1 DEF Sorted
    <2>2. s[i] # s[i + 1]
      BY <1>1 DEF Injective
    <2>3. s[i] \in Int /\ s[i + 1] \in Int
      BY <1>1 DEF Dims
    <2> QED
      BY <2>1, <2>2, <2>3
  <1>3. \A i \in 1 .. Dimensions : s[i] \in 0 .. Dimensions - 1
    BY <1>1 DEF Dims
  <1> DEFINE S == {i \in 1 .. Dimensions : s[i] >= i - 1}
             T == {k \in 0 .. Dimensions - 1 : s[Dimensions - k] <= Dimensions - k - 1}
  <1>4. \A i \in 1 .. Dimensions : i \in S
    <2>1. 1 \in S
      BY <1>3
    <2>2. ASSUME NEW i \in 1 .. Dimensions - 1, i \in S PROVE i + 1 \in S
      <3>1. s[i] < s[i + 1] /\ s[i] >= i - 1
        BY <1>2, <2>2
      <3>2. i + 1 \in 1 .. Dimensions /\ s[i] \in Int /\ s[i + 1] \in Int
        BY <1>3
      <3> QED
        BY <3>1, <3>2
    <2> HIDE DEF S
    <2> QED
      BY <2>1, <2>2, InductionFrom
  <1>5. \A k \in 0 .. Dimensions - 1 : k \in T
    <2>1. 0 \in T
      BY <1>3
    <2>2. ASSUME NEW k \in 0 .. (Dimensions - 1) - 1, k \in T PROVE k + 1 \in T
      <3>1. PICK i \in 1 .. Dimensions - 1 : i = Dimensions - (k + 1) /\ i + 1 = Dimensions - k
        OBVIOUS
      <3>2. s[i] < s[i + 1] /\ s[i + 1] <= i
        BY <1>2, <2>2, <3>1
      <3>3. s[i] \in Int /\ s[i + 1] \in Int
        BY <1>3
      <3>4. s[i] <= i - 1
        BY <3>2, <3>3
      <3> QED
        BY <3>1, <3>4
    <2>3. Dimensions - 1 \in Nat
      OBVIOUS
    <2> HIDE DEF T
    <2> QED
      BY <2>1, <2>2, <2>3, InductionFrom
  <1>6. ASSUME NEW i \in 1 .. Dimensions PROVE s[i] = i - 1
    <2>1. PICK k \in 0 .. Dimensions - 1 : k = Dimensions - i /\ Dimensions - k = i
      OBVIOUS
    <2>2. s[i] <= i - 1 /\ s[i] >= i - 1
      BY <1>4, <1>5, <2>1
    <2> QED
      BY <1>3, <2>2
  <1> QED
    BY <1>1, <1>6 DEF Ascending, Places

\* An order of the dimensions is sorted to the one that ascends.
LEMMA SortOfOrder ==
  ASSUME NEW list \in Orders
  PROVE  MergeSort(list) = Ascending
  <1> USE SizeAssumption
  <1>1. list \in [1 .. Dimensions -> Int] /\ \A i \in 1 .. Dimensions : list[i] \in Dims
    BY DEF Orders, Places, Dims
  <1>2. list \in Seq(Int) /\ Len(list) = Dimensions
    BY <1>1, LenIs
  <1>3. PICK s : s = MergeSort(list) /\ OrderOf(list, s, 1, Dimensions)
    BY <1>2, MergeSortOrders
  <1>4. PICK p \in [1 .. Dimensions -> 1 .. Dimensions] :
           Injective(p) /\ \A k \in 1 .. Dimensions : s[k] = list[p[k]]
    <2>1. 1 + Dimensions - 1 = Dimensions
      OBVIOUS
    <2> QED
      BY <1>3, <2>1 DEF OrderOf
  <1>5. s \in [Places -> Dims] /\ Sorted(s)
    <2>1. s \in [1 .. Dimensions -> Int] /\ Sorted(s)
      BY <1>3 DEF OrderOf
    <2>2. \A k \in 1 .. Dimensions : s[k] \in Dims
      BY <1>1, <1>4
    <2> QED
      BY <2>1, <2>2 DEF Places
  <1>6. Injective(s)
    BY <1>4, <1>5 DEF Injective, Orders, Places
  <1> QED
    BY <1>3, <1>5, <1>6, OneAscends DEF Orders

\* The Knuth shuffler makes an order of an order.
LEMMA KnuthOrder ==
  ASSUME NEW list \in Orders, NEW words \in [Places -> Dims]
  PROVE  KnuthShuffled(list, words) \in Orders
  <1> USE SizeAssumption
  <1>1. Len(list) = Dimensions
    <2>1. list \in [1 .. Dimensions -> Dims]
      BY DEF Orders, Places
    <2> QED
      BY <2>1, LenIs
  <1> DEFINE Turn(len, l) == Swap(l, Irand(words[len], len) + 1, len)
             Rec(h) == h = [len \in 1 .. Dimensions + 1 |->
                             IF len = Dimensions + 1 THEN list ELSE Turn(len, h[len + 1])]
  <1>2. ASSUME NEW len \in 1 .. Dimensions, NEW l \in Orders PROVE Turn(len, l) \in Orders
    <2>1. words[len] \in Nat
      BY DEF Places, Dims
    <2>2. Irand(words[len], len) \in 0 .. len - 1
      BY <2>1 DEF Irand
    <2>3. Irand(words[len], len) + 1 \in Places /\ len \in Places
      BY <2>2 DEF Places
    <2> QED
      BY <2>3, SwapKeepsOrder DEF Orders
  <1> HIDE DEF Turn
  <1>3. PICK F \in [1 .. Dimensions -> [Orders -> Orders]] :
           F = [k \in 1 .. Dimensions |-> [l \in Orders |-> Turn(Dimensions + 1 - k, l)]]
    <2>1. ASSUME NEW k \in 1 .. Dimensions
          PROVE  [l \in Orders |-> Turn(Dimensions + 1 - k, l)] \in [Orders -> Orders]
      <3>1. Dimensions + 1 - k \in 1 .. Dimensions
        OBVIOUS
      <3> QED
        BY <1>2, <3>1
    <2> QED
      BY <2>1
  <1>4. PICK h \in [0 .. Dimensions -> Orders] : Loops(h, Dimensions, list, F)
    BY LoopExists
  <1>5. PICK g : g = [len \in 1 .. Dimensions + 1 |-> h[Dimensions + 1 - len]]
    OBVIOUS
  <1>6. Rec(g)
    <2>1. ASSUME NEW len \in 1 .. Dimensions PROVE g[len] = Turn(len, g[len + 1])
      <3>1. PICK k \in 1 .. Dimensions : k = Dimensions + 1 - len
        OBVIOUS
      <3>2. Dimensions + 1 - k = len /\ k - 1 = Dimensions + 1 - (len + 1) /\ k - 1 \in 0 .. Dimensions
        BY <3>1
      <3>3. PICK l \in Orders : l = h[k - 1]
        BY <3>2
      <3>4. h[k] = F[k][l]
        BY <1>4, <3>3 DEF Loops
      <3>5. F[k][l] = Turn(len, l)
        BY <1>3, <3>2
      <3>6. g[len] = h[k] /\ g[len + 1] = l
        BY <1>5, <3>1, <3>2, <3>3
      <3> QED
        BY <3>4, <3>5, <3>6
    <2>2. g[Dimensions + 1] = list
      <3>1. Dimensions + 1 - (Dimensions + 1) = 0 /\ Dimensions + 1 \in 1 .. Dimensions + 1
        OBVIOUS
      <3>2. g[Dimensions + 1] = h[0]
        BY <1>5, <3>1
      <3> QED
        BY <1>4, <3>2 DEF Loops
    <2>3. ASSUME NEW len \in 1 .. Dimensions + 1
          PROVE  g[len] = IF len = Dimensions + 1 THEN list ELSE Turn(len, g[len + 1])
      <3>1. len = Dimensions + 1 \/ len \in 1 .. Dimensions
        OBVIOUS
      <3> QED
        BY <2>1, <2>2, <3>1
    <2>4. g = [len \in 1 .. Dimensions + 1 |-> g[len]]
      BY <1>5
    <2> QED
      BY <2>3, <2>4
  <1> DEFINE Order(f) ==
               f = [len \in 1 .. Len(list) + 1 |->
                      IF len = Len(list) + 1 THEN list
                      ELSE Swap(f[len + 1], Irand(words[len], len) + 1, len)]
  <1>7. PICK after : Rec(after) /\ KnuthShuffled(list, words) = after[1]
    <2>1. Order(g)
      BY <1>1, <1>6 DEF Turn
    <2>2. Order(CHOOSE f : Order(f))
      BY <2>1
    <2>3. KnuthShuffled(list, words) = (CHOOSE f : Order(f))[1]
      BY DEF KnuthShuffled
    <2>4. PICK after : after = (CHOOSE f : Order(f))
      OBVIOUS
    <2>5. Order(after) /\ KnuthShuffled(list, words) = after[1]
      BY <2>2, <2>3, <2>4
    <2>6. Rec(after)
      BY <1>1, <2>5 DEF Turn
    <2> QED
      BY <2>5, <2>6
  <1> DEFINE S == {k \in 0 .. Dimensions : after[Dimensions + 1 - k] \in Orders}
  <1>8. 0 \in S
    BY <1>7
  <1>9. ASSUME NEW k \in 0 .. Dimensions - 1, k \in S PROVE k + 1 \in S
    <2>1. PICK len \in 1 .. Dimensions : len = Dimensions - k /\ Dimensions + 1 - k = len + 1
                                         /\ Dimensions + 1 - (k + 1) = len
      OBVIOUS
    <2>2. after[len] = Turn(len, after[len + 1])
      BY <1>7
    <2>3. after[len + 1] \in Orders
      BY <1>9, <2>1
    <2>4. after[len] \in Orders
      BY <1>2, <2>2, <2>3
    <2> QED
      BY <2>1, <2>4
  <1>10. \A k \in 0 .. Dimensions : k \in S
    <2> HIDE DEF S
    <2> QED
      BY <1>8, <1>9, InductionFrom
  <1>11. after[1] \in Orders
    <2>1. Dimensions \in 0 .. Dimensions /\ Dimensions + 1 - Dimensions = 1
      OBVIOUS
    <2> QED
      BY <1>10, <2>1
  <1> QED
    BY <1>7, <1>11

(* The merge sort orders whatever the shufflers, or the engine, made, and  *)
(* loses none of it.                                                       *)
LEMMA SortsAll == FingerprintsSound => SortUndoesShuffle
  <1> SUFFICES ASSUME FingerprintsSound PROVE SortUndoesShuffle
    OBVIOUS
  <1>1. ASSUME NEW g \in Generators
        PROVE  /\ MergeSort(idx[g]) = Ascending
               /\ MergeSort(KnuthShuffled(idx[g], idx[g])) = Ascending
    <2>1. idx[g] \in Orders /\ idx[g] \in [Places -> Dims]
      BY DEF FingerprintsSound, TypeOK, Orders
    <2>2. KnuthShuffled(idx[g], idx[g]) \in Orders
      BY <2>1, KnuthOrder
    <2> QED
      BY <2>1, <2>2, SortOfOrder
  <1>2. tape \in Seq(Int)
    BY SizeAssumption DEF FingerprintsSound, TypeOK, Dims
  <1>3. OrderOf(tape, MergeSort(tape), 1, Len(tape))
    BY <1>2, MergeSortOrders
  <1>4. Sorted(MergeSort(tape))
    BY <1>3 DEF OrderOf
  <1>5. \A v \in Dims : HowMany(MergeSort(tape), v) = HowMany(tape, v)
    BY <1>2, <1>3, EntriesKept
  <1> QED
    BY <1>1, <1>4, <1>5 DEF SortUndoesShuffle

(* merge_sort undoes every shuffle, for any number of dimensions, and      *)
(* sorts any tape of rolls without losing an entry; the Knuth shuffler     *)
(* only reorders.                                                          *)
THEOREM ShufflesAreSorted == Spec => []SortUndoesShuffle
  <1> QED
    BY SoundInit, SoundStep, SortsAll, PTL DEF Spec
=============================================================================
