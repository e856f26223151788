----------------------------- MODULE ToolProofs -----------------------------
(* Theorems about two of the tools, each a program of its own: the         *)
(* affinity tool for any space and any growth of it, and the interactive   *)
(* tool for any words, files and number of commands.                       *)
EXTENDS Affinity, Sdmi, TLAPS, FiniteSetTheorems, SequenceTheorems,
        WellFoundedInduction

-----------------------------------------------------------------------------
(* Affinity.  The bimap numbers the rows of the matrix, and the matrix is  *)
(* that of the space.                                                      *)

(* The inductive invariant.                                                *)

\* Names have indexes from zero on, and the two maps are inverse.
Bimap(m) ==
  /\ DOMAIN m.left \subseteq Names /\ IsFiniteSet(DOMAIN m.left)
  /\ DOMAIN m.right = 0 .. Cardinality(DOMAIN m.left) - 1
  /\ \A l \in DOMAIN m.left : m.left[l] \in DOMAIN m.right /\ m.right[m.left[l]] = l
  /\ \A r \in DOMAIN m.right : m.right[r] \in DOMAIN m.left /\ m.left[m.right[r]] = r

OnceEach(s) == \A i, j \in DOMAIN s : s[i] = s[j] => i = j

Shape ==
  /\ pc \in {"start", "geometry", "points", "neighbours", "done", "failed", "terminated"}
  /\ space \in Seq(Names) /\ OnceEach(space)
  /\ g \in Seq(Names) /\ OnceEach(g)
  /\ at \in 1 .. Len(g) + 1
  /\ pc \in {"start", "geometry", "failed"} => at = 1
  /\ pc = "neighbours" => at <= Len(g)
  /\ pc = "done" => at = Len(g) + 1

\* The points whose neighbours were asked for.
Reached == IF pc = "neighbours" THEN at ELSE at - 1

\* The neighbours of the point that are still to be entered.
Level == 
  /\ level_set \subseteq Names
  /\ pc = "neighbours" => level_set \subseteq Neighbours(g[at])

\* A position was entered for a point and one of its neighbours.
Entered(k, nb) ==
  /\ nb \in DOMAIN map.left
  /\ <<map.left[g[k]], map.left[nb]>> \in triplets

Rows ==
  /\ \A k \in 1 .. Reached : g[k] \in DOMAIN map.left
  /\ \A ij \in triplets :
       \E k \in 1 .. Reached : \E nb \in DOMAIN map.left :
          /\ ij = <<map.left[g[k]], map.left[nb]>>
          /\ nb \in Neighbours(g[k])
          /\ k = at => nb \notin level_set
  /\ ~twice

\* Undisturbed, the tool has the whole space, and no neighbour is cut.
Whole ==
  still /\ pc \in {"geometry", "points", "neighbours", "done"} =>
    /\ card = Len(space)
    /\ pc # "geometry" => g = space
    /\ \A k \in 1 .. Reached : \A nb \in Neighbours(g[k]) :
          (k = at => nb \notin level_set) => Entered(k, nb)

Written == pc = "done" => \A f \in files.mat : f.n = Size

IInv == Shape /\ Bimap(map) /\ Level /\ Rows /\ Whole /\ Written

-----------------------------------------------------------------------------
(* The bimap.                                                              *)

\* A name that is in the map has its index, a new one the next: those that
\* were there keep theirs.
LEMMA EnsuredIs ==
  ASSUME NEW m, Bimap(m), NEW l \in Names
  PROVE  /\ Bimap(Ensured(m, l))
         /\ DOMAIN Ensured(m, l).left = DOMAIN m.left \cup {l}
         /\ \A x \in DOMAIN m.left : Ensured(m, l).left[x] = m.left[x]
  <1>1. CASE l \in DOMAIN m.left
    BY <1>1 DEF Ensured
  <1>2. CASE l \notin DOMAIN m.left
    <2> DEFINE c == Cardinality(DOMAIN m.left)
               e == Ensured(m, l)
    <2>1. /\ e.left = [z \in DOMAIN m.left \cup {l} |-> IF z = l THEN c ELSE m.left[z]]
          /\ e.right = [z \in DOMAIN m.right \cup {c} |-> IF z = c THEN l ELSE m.right[z]]
      BY <1>2 DEF Ensured, Insert, Put, Fresh
    <2>2. /\ IsFiniteSet(DOMAIN e.left) /\ c \in Nat
          /\ Cardinality(DOMAIN e.left) = c + 1
      <3>1. IsFiniteSet(DOMAIN m.left) /\ c \in Nat
        BY FS_CardinalityType DEF Bimap
      <3>2. DOMAIN e.left = DOMAIN m.left \cup {l}
        BY <2>1
      <3>3. /\ IsFiniteSet(DOMAIN m.left \cup {l})
            /\ Cardinality(DOMAIN m.left \cup {l}) = Cardinality(DOMAIN m.left) + 1
        BY <1>2, <3>1, FS_AddElement
      <3> HIDE DEF e
      <3> QED
        BY <3>1, <3>2, <3>3
    <2>3. DOMAIN m.right = 0 .. c - 1 /\ c \notin DOMAIN m.right
      BY <2>2 DEF Bimap
    <2>4. DOMAIN e.right = 0 .. (c + 1) - 1
      BY <2>1, <2>2, <2>3
    <2>5. \A x \in DOMAIN e.left : e.left[x] \in DOMAIN e.right /\ e.right[e.left[x]] = x
      BY <1>2, <2>1, <2>3 DEF Bimap
    <2>6. \A r \in DOMAIN e.right : e.right[r] \in DOMAIN e.left /\ e.left[e.right[r]] = r
      BY <1>2, <2>1, <2>3 DEF Bimap
    <2>7. DOMAIN e.left \subseteq Names
      BY <2>1 DEF Bimap
    <2>8. DOMAIN e.left = DOMAIN m.left \cup {l} /\ \A x \in DOMAIN m.left : e.left[x] = m.left[x]
      BY <1>2, <2>1
    <2> HIDE DEF e, c
    <2>9. Bimap(e)
      BY <2>2, <2>4, <2>5, <2>6, <2>7 DEF Bimap
    <2> QED
      BY <2>8, <2>9 DEF e
  <1> QED
    BY <1>1, <1>2

\* No two names have the same index.
LEMMA LeftInjective ==
  ASSUME NEW m, Bimap(m), NEW x \in DOMAIN m.left, NEW y \in DOMAIN m.left,
         m.left[x] = m.left[y]
  PROVE  x = y
  BY DEF Bimap

-----------------------------------------------------------------------------
(* The steps.                                                              *)

LEMMA IInvInit == Init => IInv
  <1> SUFFICES ASSUME Init PROVE IInv
    OBVIOUS
  <1>1. Shape
    BY NamesAssumption DEF Init, Shape, OnceEach
  <1>2. Bimap(map)
    <2>1. Cardinality({}) = 0 /\ IsFiniteSet({})
      BY FS_EmptySet
    <2>2. map.left = <<>> /\ map.right = <<>> /\ DOMAIN <<>> = {}
      BY DEF Init, NoMap
    <2> QED
      BY <2>1, <2>2 DEF Bimap
  <1> QED
    BY <1>1, <1>2 DEF Init, IInv, Level, Rows, Whole, Written, Reached

\* Another process links a symbol: more neighbours, and the tool disturbed.
LEMMA LinkStep == IInv /\ Link => IInv'
  <1> SUFFICES ASSUME IInv, Link PROVE IInv'
    OBVIOUS
  <1>1. PICK name \in Names \ ToSet(space) : space' = Append(space, name)
    BY DEF Link
  <1>2. still' = FALSE /\ UNCHANGED <<pc, card, g, at, level_set, map, triplets, twice, files>>
    BY DEF Link
  <1>3. /\ space \in Seq(Names) /\ Len(space) \in Nat /\ DOMAIN space = 1 .. Len(space)
        /\ space' \in Seq(Names) /\ DOMAIN space' = 1 .. Len(space) + 1
        /\ \A i \in 1 .. Len(space) : space'[i] = space[i]
        /\ space'[Len(space) + 1] = name
    BY <1>1, AppendProperties DEF IInv, Shape
  <1>4. OnceEach(space')
    <2>1. \A i \in DOMAIN space : space[i] # name
      BY <1>1 DEF ToSet
    <2> QED
      BY <1>3, <2>1 DEF IInv, Shape, OnceEach
  <1>5. ToSet(space) \subseteq ToSet(space')
    BY <1>3 DEF ToSet
  <1>6. \A name1 : Neighbours(name1) \subseteq Neighbours(name1)'
    BY <1>5 DEF Neighbours
  <1>7. Shape'
    BY <1>2, <1>3, <1>4 DEF IInv, Shape
  <1>8. Level'
    BY <1>2, <1>6 DEF IInv, Level
  <1>9. Rows'
    BY <1>2, <1>6 DEF IInv, Rows, Reached
  <1> QED
    BY <1>2, <1>7, <1>8, <1>9 DEF IInv, Whole, Written, Size

LEMMA GeometryStep == IInv /\ (GetCardinality \/ GetGeometry) => IInv'
  <1> SUFFICES ASSUME IInv, GetCardinality \/ GetGeometry PROVE IInv'
    OBVIOUS
  <1>1. /\ UNCHANGED <<space, level_set, map, triplets, twice, still, files>>
        /\ at = 1 /\ at' = 1 /\ pc' # "done" /\ pc' # "neighbours"
        /\ Reached = 0 /\ Reached' = 0 /\ (g' = g \/ g' = space)
    BY DEF GetCardinality, GetGeometry, IInv, Shape, Reached
  <1>2. Shape'
    <2>1. /\ Len(g') \in Nat
          /\ pc' \in {"geometry", "failed", "points"}
      BY <1>1 DEF GetCardinality, GetGeometry, IInv, Shape
    <2> QED
      BY <1>1, <2>1 DEF IInv, Shape
  <1>3. Level' /\ Rows'
    BY <1>1 DEF IInv, Level, Rows
  <1>4. Whole'
    BY <1>1 DEF IInv, Whole, GetCardinality, GetGeometry
  <1> QED
    BY <1>1, <1>2, <1>3, <1>4 DEF IInv, Written

\* What was entered stays where it is when the map grows.
LEMMA StaysEntered ==
  ASSUME NEW l \in Names, Bimap(map), map' = Ensured(map, l),
         triplets \subseteq triplets', g' = g,
         NEW k, g[k] \in DOMAIN map.left, NEW nb, Entered(k, nb)
  PROVE  Entered(k, nb)'
  <1>1. /\ nb \in DOMAIN map'.left
        /\ map'.left[nb] = map.left[nb] /\ map'.left[g[k]] = map.left[g[k]]
    BY EnsuredIs DEF Entered
  <1> QED
    BY <1>1 DEF Entered

\* So many neighbours are not cut, if the space is as it was.
LEMMA NothingCut ==
  ASSUME NEW name, NEW best \in SUBSET Neighbours(name), Shape,
         card = Len(space),
         \/ best = Neighbours(name)
         \/ best # Neighbours(name) /\ Cardinality(best) = card
  PROVE  best = Neighbours(name)
  <1>1. Len(space) \in Nat /\ DOMAIN space = 1 .. Len(space)
    BY DEF Shape
  <1>2. IsFiniteSet(ToSet(space)) /\ Cardinality(ToSet(space)) <= Len(space)
    <2>1. ToSet(space) = {space[i] : i \in 1 .. Len(space)}
      BY <1>1 DEF ToSet
    <2>2. IsFiniteSet(1 .. Len(space)) /\ Cardinality(1 .. Len(space)) = Len(space)
      <3>1. \A nb \in Nat : IsFiniteSet(1 .. nb) /\ Cardinality(1 .. nb) = nb
        BY FS_Interval
      <3> QED
        BY <1>1, <3>1
    <2> DEFINE f == [i \in 1 .. Len(space) |-> space[i]]
    <2>3. ToSet(space) = {f[i] : i \in 1 .. Len(space)}
      BY <2>1
    <2>4. f \in Surjection(1 .. Len(space), ToSet(space))
      BY <2>3 DEF Surjection
    <2> QED
      BY <2>2, <2>4, FS_Surjection, <1>1
  <1>3. /\ IsFiniteSet(Neighbours(name))
        /\ Cardinality(Neighbours(name)) <= Len(space)
    <2>1. Neighbours(name) \subseteq ToSet(space)
      BY DEF Neighbours
    <2> QED
      BY <1>1, <1>2, <2>1, FS_Subset, FS_CardinalityType
  <1>4. ASSUME best # Neighbours(name), Cardinality(best) = card PROVE FALSE
    <2>1. /\ Cardinality(best) <= Cardinality(Neighbours(name))
          /\ Cardinality(best) # Cardinality(Neighbours(name))
      BY <1>3, <1>4, FS_Subset
    <2> QED
      BY <1>1, <1>3, <1>4, <2>1, FS_CardinalityType
  <1> QED
    BY <1>4

LEMMA TopologyStep == IInv /\ GetTopology => IInv'
  <1> SUFFICES ASSUME IInv, GetTopology PROVE IInv'
    OBVIOUS
  <1>a. /\ Shape /\ Bimap(map) /\ Rows /\ Whole /\ Level
        /\ pc = "points" /\ at <= Len(g) /\ at \in 1 .. Len(g)
        /\ g[at] \in Names /\ Reached = at - 1
    BY DEF IInv, GetTopology, Shape, Reached
  <1>b. /\ map' = Ensured(map, g[at]) /\ pc' \in {"neighbours", "terminated"}
        /\ UNCHANGED <<space, card, g, at, triplets, twice, files, still>>
    BY DEF GetTopology
  <1>1. /\ Bimap(map') /\ DOMAIN map'.left = DOMAIN map.left \cup {g[at]}
        /\ \A x \in DOMAIN map.left : map'.left[x] = map.left[x]
    BY <1>a, <1>b, EnsuredIs
  <1>2. Shape'
    BY <1>a, <1>b DEF Shape
  <1>3. Level'
    <2>1. Neighbours(g[at]) \subseteq Names
      BY <1>a DEF Neighbours, Shape, ToSet
    <2>2. pc' = "neighbours" => level_set' \subseteq Neighbours(g[at])
      BY DEF GetTopology
    <2>3. pc' = "terminated" => level_set' = level_set
      BY DEF GetTopology
    <2>4. Neighbours(g[at])' = Neighbours(g[at])
      BY <1>b DEF Neighbours
    <2> QED
      BY <1>a, <1>b, <2>1, <2>2, <2>3, <2>4 DEF Level
  <1>4. Reached' = IF pc' = "neighbours" THEN at ELSE at - 1
    BY <1>b DEF Reached
  <1>5. Rows'
    <2>1. \A k \in 1 .. Reached' : g[k] \in DOMAIN map'.left
      BY <1>a, <1>1, <1>4 DEF Rows
    <2>2. ASSUME NEW ij \in triplets
          PROVE  \E k \in 1 .. Reached' : \E nb \in DOMAIN map'.left :
                   /\ ij = <<map'.left[g[k]], map'.left[nb]>>
                   /\ nb \in Neighbours(g[k])'
                   /\ k = at => nb \notin level_set'
      <3>1. PICK k \in 1 .. at - 1, nb \in DOMAIN map.left :
              ij = <<map.left[g[k]], map.left[nb]>> /\ nb \in Neighbours(g[k])
        BY <1>a DEF Rows
      <3>2. /\ k \in 1 .. Reached' /\ k # at /\ g[k] \in DOMAIN map.left
            /\ Neighbours(g[k])' = Neighbours(g[k])
        BY <1>a, <1>b, <1>4 DEF Rows, Neighbours
      <3> QED
        BY <1>1, <3>1, <3>2
    <2> QED
      BY <1>a, <1>b, <2>1, <2>2 DEF Rows
  <1>6. Whole'
    <2> SUFFICES ASSUME still, pc' = "neighbours"
                 PROVE  /\ card = Len(space) /\ g = space
                        /\ \A k \in 1 .. at : \A nb \in Neighbours(g[k]) :
                              (k = at => nb \notin level_set') => Entered(k, nb)'
      <3>1. \A k : Neighbours(g[k])' = Neighbours(g[k])
        BY <1>b DEF Neighbours
      <3> QED
        BY <1>b, <1>4, <3>1 DEF Whole
    <2>1. card = Len(space) /\ g = space
      BY <1>a DEF Whole
    <2>2. level_set' = Neighbours(g[at])
      BY <1>a, <2>1, NothingCut DEF GetTopology
    <2>3. ASSUME NEW k \in 1 .. at, NEW nb \in Neighbours(g[k]), k = at => nb \notin level_set'
          PROVE  Entered(k, nb)'
      <3>1. k \in 1 .. at - 1
        BY <1>a, <2>2, <2>3
      <3>2. Entered(k, nb) /\ g[k] \in DOMAIN map.left
        BY <1>a, <3>1 DEF Whole, Rows
      <3> QED
        BY <1>a, <1>b, <3>2, StaysEntered
    <2> QED
      BY <2>1, <2>2, <2>3
  <1> QED
    BY <1>b, <1>1, <1>2, <1>3, <1>5, <1>6 DEF IInv, Written

LEMMA NeighbourStep == IInv /\ EnterNeighbour => IInv'
  <1> SUFFICES ASSUME IInv, EnterNeighbour PROVE IInv'
    OBVIOUS
  <1>a. /\ Shape /\ Bimap(map) /\ Rows /\ Whole /\ Level
        /\ pc = "neighbours" /\ at \in 1 .. Len(g) /\ g[at] \in Names
        /\ Reached = at /\ g[at] \in DOMAIN map.left
    BY DEF IInv, EnterNeighbour, Shape, Reached, Rows
  <1>b. PICK nb \in level_set :
          /\ map' = Ensured(map, nb)
          /\ triplets' = triplets \cup {<<map'.left[g[at]], map'.left[nb]>>}
          /\ twice' = (twice \/ <<map'.left[g[at]], map'.left[nb]>> \in triplets)
          /\ level_set' = level_set \ {nb}
    BY DEF EnterNeighbour
  <1>c. UNCHANGED <<space, pc, card, g, at, files, still>>
    BY DEF EnterNeighbour
  <1>d. nb \in Names /\ nb \in Neighbours(g[at])
    BY <1>a DEF Level
  <1>1. /\ Bimap(map') /\ DOMAIN map'.left = DOMAIN map.left \cup {nb}
        /\ \A x \in DOMAIN map.left : map'.left[x] = map.left[x]
    BY <1>a, <1>b, <1>d, EnsuredIs
  <1>2. Shape'
    BY <1>a, <1>c DEF Shape
  <1>3. Reached' = at /\ \A k : Neighbours(g[k])' = Neighbours(g[k])
    BY <1>a, <1>c DEF Reached, Neighbours
  <1>4. Level'
    BY <1>a, <1>b, <1>c, <1>3 DEF Level
  <1>5. ~twice'
    <2> SUFFICES ASSUME <<map'.left[g[at]], map'.left[nb]>> \in triplets PROVE FALSE
      BY <1>a, <1>b DEF Rows
    <2>1. PICK k \in 1 .. at, m \in DOMAIN map.left :
            /\ <<map'.left[g[at]], map'.left[nb]>> = <<map.left[g[k]], map.left[m]>>
            /\ k = at => m \notin level_set
      BY <1>a DEF Rows
    <2>2. g[k] \in DOMAIN map.left
      BY <1>a DEF Rows
    <2>3. map'.left[g[at]] = map'.left[g[k]] /\ map'.left[nb] = map'.left[m]
      BY <1>1, <2>1, <2>2
    <2>4. g[at] = g[k] /\ nb = m
      BY <1>a, <1>1, <2>2, <2>3, LeftInjective
    <2>5. k = at
      BY <1>a, <2>4 DEF Shape, OnceEach
    <2> QED
      BY <2>1, <2>4, <2>5
  <1>6. Rows'
    <2>1. \A k \in 1 .. at : g[k] \in DOMAIN map'.left
      BY <1>a, <1>1 DEF Rows
    <2>2. ASSUME NEW ij \in triplets'
          PROVE  \E k \in 1 .. at : \E m \in DOMAIN map'.left :
                   /\ ij = <<map'.left[g[k]], map'.left[m]>>
                   /\ m \in Neighbours(g[k])
                   /\ k = at => m \notin level_set'
      <3>1. CASE ij \in triplets
        <4>1. PICK k \in 1 .. at, m \in DOMAIN map.left :
                /\ ij = <<map.left[g[k]], map.left[m]>> /\ m \in Neighbours(g[k])
                /\ k = at => m \notin level_set
          BY <1>a, <3>1 DEF Rows
        <4>2. g[k] \in DOMAIN map.left
          BY <1>a DEF Rows
        <4> QED
          BY <1>b, <1>1, <4>1, <4>2
      <3>2. CASE ij = <<map'.left[g[at]], map'.left[nb]>>
        <4>1. at \in 1 .. at /\ nb \in DOMAIN map'.left /\ nb \notin level_set'
          BY <1>a, <1>b, <1>1
        <4> QED
          BY <1>d, <3>2, <4>1
      <3> QED
        BY <1>b, <3>1, <3>2
    <2> QED
      BY <1>c, <1>3, <1>5, <2>1, <2>2 DEF Rows
  <1>7. Whole'
    <2> SUFFICES ASSUME still
                 PROVE  /\ card = Len(space) /\ g = space
                        /\ \A k \in 1 .. at : \A m \in Neighbours(g[k]) :
                              (k = at => m \notin level_set') => Entered(k, m)'
      BY <1>a, <1>c, <1>3 DEF Whole
    <2>1. card = Len(space) /\ g = space
      BY <1>a DEF Whole
    <2>2. ASSUME NEW k \in 1 .. at, NEW m \in Neighbours(g[k]), k = at => m \notin level_set'
          PROVE  Entered(k, m)'
      <3>1. CASE k = at /\ m = nb
        BY <1>b, <1>c, <1>1, <3>1 DEF Entered
      <3>2. CASE ~(k = at /\ m = nb)
        <4>1. Entered(k, m) /\ g[k] \in DOMAIN map.left
          BY <1>a, <1>b, <2>2, <3>2 DEF Whole, Rows
        <4> QED
          BY <1>a, <1>b, <1>c, <1>d, <4>1, StaysEntered
      <3> QED
        BY <3>1, <3>2
    <2> QED
      BY <2>1, <2>2
  <1> QED
    BY <1>a, <1>c, <1>1, <1>2, <1>4, <1>6, <1>7 DEF IInv, Written

LEMMA EndOfPointStep == IInv /\ EndOfPoint => IInv'
  <1> SUFFICES ASSUME IInv, EndOfPoint PROVE IInv'
    OBVIOUS
  <1>a. /\ Shape /\ Bimap(map) /\ Rows /\ Whole /\ Level
        /\ pc = "neighbours" /\ level_set = {} /\ at \in 1 .. Len(g) /\ Len(g) \in Nat
        /\ at' = at + 1 /\ pc' = "points" /\ Reached = at /\ Reached' = at
        /\ UNCHANGED <<space, card, g, level_set, map, triplets, twice, files, still>>
    BY DEF IInv, EndOfPoint, Shape, Reached
  <1>1. \A k : Neighbours(g[k])' = Neighbours(g[k])
    BY <1>a DEF Neighbours
  <1>2. Shape'
    BY <1>a DEF Shape
  <1>3. Level' /\ Rows'
    BY <1>a, <1>1 DEF Level, Rows
  <1>4. Whole'
    BY <1>a, <1>1 DEF Whole, Entered
  <1> QED
    BY <1>a, <1>2, <1>3, <1>4 DEF IInv, Written

LEMMA WriteStep == IInv /\ Write => IInv'
  <1> SUFFICES ASSUME IInv, Write PROVE IInv'
    OBVIOUS
  <1>a. /\ Shape /\ Bimap(map) /\ Rows /\ Whole /\ Level
        /\ pc = "points" /\ at > Len(g) /\ at = Len(g) + 1 /\ pc' = "done"
        /\ UNCHANGED <<space, card, g, at, level_set, map, triplets, twice, still>>
        /\ Reached' = Reached
    BY DEF IInv, Write, Shape, Reached
  <1>1. \A k : Neighbours(g[k])' = Neighbours(g[k])
    BY <1>a DEF Neighbours
  <1>2. Shape'
    BY <1>a DEF Shape
  <1>3. Level' /\ Rows'
    BY <1>a, <1>1 DEF Level, Rows
  <1>4. Whole'
    BY <1>a, <1>1 DEF Whole, Entered
  <1>5. Written'
    <2>1. SerializeMatrix(Matrix).n = Size
      BY DEF SerializeMatrix, Matrix, Compressed, Size
    <2>2. files'.mat = {SerializeMatrix(Matrix)} \/ files'.mat = {}
      BY DEF Write
    <2>3. Size' = Size
      BY <1>a DEF Size
    <2> QED
      BY <2>1, <2>2, <2>3 DEF Written
  <1> QED
    BY <1>a, <1>2, <1>3, <1>4, <1>5 DEF IInv

LEMMA IInvStep == IInv /\ [Next]_vars => IInv'
  <1>1. IInv /\ UNCHANGED vars => IInv'
    <2> SUFFICES ASSUME IInv, UNCHANGED vars PROVE IInv'
      OBVIOUS
    <2>1. /\ UNCHANGED <<space, pc, card, g, at, level_set, map, triplets, twice, files, still>>
          /\ Reached' = Reached /\ Size' = Size
          /\ \A k : Neighbours(g[k])' = Neighbours(g[k])
          /\ \A k, nb : Entered(k, nb)' <=> Entered(k, nb)
      BY DEF vars, Reached, Size, Neighbours, Entered
    <2>2. Shape' /\ Bimap(map')
      BY <2>1 DEF IInv, Shape
    <2>3. Level' /\ Rows'
      BY <2>1 DEF IInv, Level, Rows
    <2>4. Whole' /\ Written'
      BY <2>1 DEF IInv, Whole, Written
    <2> QED
      BY <2>2, <2>3, <2>4 DEF IInv
  <1> QED
    BY <1>1, LinkStep, GeometryStep, TopologyStep, NeighbourStep, EndOfPointStep, WriteStep
    DEF Next

-----------------------------------------------------------------------------

(* The indexes are those of the rows, whatever turns up; no similarity is  *)
(* added to another; and undisturbed the matrix has every near pair.       *)
THEOREM TheIndexesAreRows == Spec => []IndexesAreRows
  <1>1. IInv => IndexesAreRows
    <2> SUFFICES ASSUME IInv PROVE IndexesAreRows
      OBVIOUS
    <2>a. Shape /\ Bimap(map) /\ Level /\ Rows /\ Whole /\ Written
      BY DEF IInv
    <2>1. TypeOK
      BY <2>a DEF TypeOK, Shape, Level, Bimap
    <2>2. /\ DOMAIN map.right = 0 .. Size - 1
          /\ \A l \in DOMAIN map.left : map.right[map.left[l]] = l
          /\ \A r \in DOMAIN map.right : map.left[map.right[r]] = r
      BY <2>a DEF Bimap, Size
    <2>3. ASSUME NEW ij \in triplets PROVE ij[1] \in 0 .. Size - 1 /\ ij[2] \in 0 .. Size - 1
      BY <2>a DEF Rows, Bimap, Size
    <2>4. pc = "done" => \A f \in files.mat : \A ij \in triplets : ij[1] < f.n /\ ij[2] < f.n
      <3>1. Size \in Nat
        BY <2>a, FS_CardinalityType DEF Bimap, Size
      <3> QED
        BY <2>a, <2>3, <3>1 DEF Written
    <2> DEFINE P == {mn \in Near \cap (ToSet(g) \X ToSet(g)) : mn[2] \notin Dense}
               E == {<<map.left[mn[1]], map.left[mn[2]]>> : mn \in P}
    <2>5. ASSUME pc = "done", still PROVE triplets = E
      <3>1. g = space /\ Reached = Len(g) /\ Len(g) \in Nat /\ DOMAIN g = 1 .. Len(g)
        BY <2>5, <2>a DEF Whole, Reached, Shape
      <3>2. ASSUME NEW ij \in triplets PROVE ij \in E
        <4>1. PICK k \in 1 .. Len(g), nb \in DOMAIN map.left :
                ij = <<map.left[g[k]], map.left[nb]>> /\ nb \in Neighbours(g[k])
          BY <2>a, <3>1 DEF Rows
        <4>2. <<g[k], nb>> \in P
          BY <3>1, <4>1 DEF Neighbours, ToSet
        <4> QED
          BY <4>1, <4>2
      <3>3. ASSUME NEW ij \in E PROVE ij \in triplets
        <4>1. PICK mn \in P : ij = <<map.left[mn[1]], map.left[mn[2]]>>
          OBVIOUS
        <4>2. PICK k \in DOMAIN g : mn[1] = g[k]
          BY <4>1 DEF ToSet
        <4>3. mn[2] \in Neighbours(g[k]) /\ k # at
          <5>1. mn = <<g[k], mn[2]>> /\ mn \in Near /\ mn[2] \in ToSet(space) /\ mn[2] \notin Dense
            BY <3>1, <4>1, <4>2
          <5>2. k # at
            BY <2>5, <2>a, <3>1 DEF Shape
          <5> QED
            BY <5>1, <5>2 DEF Neighbours
        <4> QED
          BY <2>5, <2>a, <3>1, <4>1, <4>2, <4>3 DEF Whole, Entered
      <3> QED
        BY <3>2, <3>3
    <2> QED
      BY <2>a, <2>1, <2>2, <2>4, <2>5 DEF IndexesAreRows, Rows
  <1> QED
    BY <1>1, IInvInit, IInvStep, PTL DEF Spec

-----------------------------------------------------------------------------
(* The matrix file.                                                        *)

\* The last outer index, which is not written, is set when the file is read
\* if the one before it is not zero.
LEMMA MatrixBack ==
  ASSUME NEW A, NEW count \in Nat \ {0}, NEW outer \in [0 .. count -> Nat], NEW inner,
         A = [n |-> count, outer |-> outer, inner |-> inner],
         outer[count - 1] > 0, Len(inner) = outer[count]
  PROVE  DeserializeMatrix(SerializeMatrix(A)) = A
  <1> DEFINE read == [j \in 0 .. count |-> IF j < count THEN OuterWritten(A)[j] ELSE 0]
             final == Finalize(read, count, Len(inner))
  <1>1. \A j \in 0 .. count : read[j] = IF j < count THEN outer[j] ELSE 0
    BY DEF OuterWritten
  <1>2. DeserializeMatrix(SerializeMatrix(A)) = [n |-> count, outer |-> final, inner |-> inner]
    BY DEF DeserializeMatrix, SerializeMatrix
  <1>3. /\ count - 1 \in {j \in 0 .. count : read[j] # 0}
        /\ count \notin {j \in 0 .. count : read[j] # 0}
    <2> HIDE DEF read
    <2> QED
      BY <1>1
  <1>4. ASSUME NEW j \in 0 .. count PROVE final[j] = outer[j]
    <2> HIDE DEF read
    <2>1. final[j] = IF \E k \in {i \in 0 .. count : read[i] # 0} : k >= j THEN read[j]
                     ELSE Len(inner)
      BY DEF Finalize
    <2>2. CASE j < count
      <3>1. count - 1 >= j
        BY <2>2
      <3>2. \E k \in {i \in 0 .. count : read[i] # 0} : k >= j
        BY <1>3, <3>1
      <3>3. final[j] = read[j]
        BY <2>1, <3>2
      <3> QED
        BY <1>1, <2>2, <3>3
    <2>3. CASE j = count
      <3>1. \A k \in {i \in 0 .. count : read[i] # 0} : ~(k >= j)
        BY <1>3, <2>3
      <3> QED
        BY <2>1, <2>3, <3>1
    <2> QED
      BY <2>2, <2>3
  <1>5. final = [j \in 0 .. count |-> final[j]]
    BY DEF Finalize
  <1>6. outer = [j \in 0 .. count |-> outer[j]]
    OBVIOUS
  <1>7. final = outer
    <2> HIDE DEF final
    <2> QED
      BY <1>4, <1>5, <1>6
  <1> QED
    BY <1>2, <1>7

\* An entry comes after those before it: their number is its place.
Place(entries, e) == Cardinality({d \in entries : Before(d, e)})

\* No two entries have one place, and every place has an entry.
LEMMA EntryPlaces ==
  ASSUME NEW E, IsFiniteSet(E), E \subseteq Nat \X Nat
  PROVE  /\ Cardinality(E) \in Nat
         /\ \A e \in E : Place(E, e) \in 0 .. Cardinality(E) - 1
         /\ \A d, e \in E : Place(E, d) = Place(E, e) => d = e
         /\ \A k \in 0 .. Cardinality(E) - 1 : \E e \in E : Place(E, e) = k
  <1> DEFINE R(e) == {d \in E : Before(d, e)}
  <1>1. Cardinality(E) \in Nat
    BY FS_CardinalityType
  <1>2. ASSUME NEW e \in E
        PROVE  /\ IsFiniteSet(R(e)) /\ Cardinality(R(e)) \in Nat
               /\ Cardinality(R(e)) = Place(E, e)
    <2>1. IsFiniteSet(R(e))
      BY FS_Subset
    <2>2. Cardinality(R(e)) \in Nat
      BY <2>1, FS_CardinalityType
    <2> QED
      BY <2>1, <2>2 DEF Place
  <1>3. \A d \in E : ~Before(d, d)
    BY DEF Before
  <1>4. ASSUME NEW e \in E PROVE Place(E, e) \in 0 .. Cardinality(E) - 1
    <2>1. R(e) \subseteq E /\ e \notin R(e)
      BY <1>3
    <2>2. R(e) # E
      BY <2>1
    <2> HIDE DEF R
    <2>3. Cardinality(R(e)) <= Cardinality(E) /\ Cardinality(R(e)) # Cardinality(E)
      BY <2>1, <2>2, FS_Subset
    <2> QED
      BY <1>1, <1>2, <2>3
  <1>5. ASSUME NEW d \in E, NEW e \in E, Before(d, e) PROVE Place(E, d) < Place(E, e)
    <2>1. R(d) \subseteq R(e)
      <3> SUFFICES ASSUME NEW c \in E, Before(c, d) PROVE Before(c, e)
        OBVIOUS
      <3>1. c \in Nat \X Nat /\ d \in Nat \X Nat /\ e \in Nat \X Nat
        OBVIOUS
      <3> QED
        BY <1>5, <3>1 DEF Before
    <2>2. d \in R(e) /\ d \notin R(d)
      BY <1>3, <1>5
    <2>3. R(d) # R(e)
      BY <2>2
    <2> HIDE DEF R
    <2>4. Cardinality(R(d)) <= Cardinality(R(e)) /\ Cardinality(R(d)) # Cardinality(R(e))
      BY <1>2, <2>1, <2>3, FS_Subset
    <2> QED
      BY <1>2, <2>4
  <1>6. ASSUME NEW d \in E, NEW e \in E, Place(E, d) = Place(E, e) PROVE d = e
    <2>1. d \in Nat \X Nat /\ e \in Nat \X Nat
      OBVIOUS
    <2>2. d = e \/ Before(d, e) \/ Before(e, d)
      BY <2>1 DEF Before
    <2>3. Place(E, d) \in Int /\ Place(E, e) \in Int
      BY <1>4
    <2> QED
      BY <1>5, <1>6, <2>2, <2>3
  <1>7. PICK f : f = [e \in E |-> Place(E, e)]
    OBVIOUS
  <1>8. f \in Injection(E, 0 .. Cardinality(E) - 1)
    BY <1>4, <1>6, <1>7 DEF Injection, IsInjective
  <1>9. /\ IsFiniteSet(0 .. Cardinality(E) - 1)
        /\ Cardinality(0 .. Cardinality(E) - 1) = Cardinality(E)
    <2>1. \A a, b \in Int : IsFiniteSet(a .. b)
                           /\ Cardinality(a .. b) = IF a > b THEN 0 ELSE b - a + 1
      BY FS_Interval
    <2>2. 0 \in Int /\ Cardinality(E) - 1 \in Int
      BY <1>1
    <2>3. /\ IsFiniteSet(0 .. Cardinality(E) - 1)
          /\ Cardinality(0 .. Cardinality(E) - 1) =
               IF 0 > Cardinality(E) - 1 THEN 0 ELSE Cardinality(E) - 1 - 0 + 1
      BY <2>1, <2>2
    <2> QED
      BY <1>1, <2>3
  <1>10. f \in Surjection(E, 0 .. Cardinality(E) - 1)
    BY <1>8, <1>9, FS_Injection
  <1> QED
    BY <1>1, <1>4, <1>6, <1>7, <1>10 DEF Surjection

\* The first k of the columns.
Columns(entries, k) == {e \in entries : e[2] < k}

\* The outer indexes bound the places of the entries of a column.
LEMMA ColumnPlaces ==
  ASSUME NEW E, IsFiniteSet(E), E \subseteq Nat \X Nat, NEW e \in E, NEW j \in Nat
  PROVE  /\ Cardinality(Columns(E, j)) \in Nat
         /\ e[2] >= j => Cardinality(Columns(E, j)) <= Place(E, e)
         /\ e[2] < j => Place(E, e) < Cardinality(Columns(E, j))
  <1> DEFINE R == {d \in E : Before(d, e)}
             C == Columns(E, j)
  <1>0. \A d \in E : d[1] \in Nat /\ d[2] \in Nat
    OBVIOUS
  <1>1. R \subseteq E /\ C \subseteq E /\ Place(E, e) = Cardinality(R)
    BY DEF Columns, Place
  <1>2. IsFiniteSet(R) /\ IsFiniteSet(C)
    <2> HIDE DEF R, C
    <2> QED
      BY <1>1, FS_Subset
  <1>3. Cardinality(R) \in Nat /\ Cardinality(C) \in Nat
    <2> HIDE DEF R, C
    <2> QED
      BY <1>2, FS_CardinalityType
  <1>4. ASSUME e[2] >= j PROVE C \subseteq R
    BY <1>0, <1>4 DEF Columns, Before
  <1>5. ASSUME e[2] < j PROVE R \subseteq C /\ e \in C /\ e \notin R
    BY <1>0, <1>5 DEF Columns, Before
  <1> HIDE DEF R
  <1>6. e[2] >= j => Cardinality(C) <= Cardinality(R)
    <2> HIDE DEF C
    <2> QED
      BY <1>2, <1>4, FS_Subset
  <1>7. e[2] < j => Cardinality(R) <= Cardinality(C) /\ Cardinality(R) # Cardinality(C)
    <2> HIDE DEF C
    <2>1. e[2] < j => R # C
      BY <1>5
    <2> QED
      BY <1>2, <1>5, <2>1, FS_Subset
  <1> QED
    BY <1>1, <1>3, <1>6, <1>7

\* Column by column, a compressed matrix has the entries it was made of.
LEMMA MatrixKeepsEntries ==
  ASSUME NEW count \in Nat, NEW E, E \subseteq (0 .. count - 1) \X (0 .. count - 1), NEW A,
         A = Compressed(count, E)
  PROVE  /\ A = [n |-> count, outer |-> A.outer, inner |-> A.inner]
         /\ A.outer \in [0 .. count -> Nat] /\ Len(A.inner) = A.outer[count]
         /\ EntriesOf(A) = E
  <1>1. IsFiniteSet(E)
    <2>1. IsFiniteSet(0 .. count - 1)
      <3>1. \A a, b \in Int : IsFiniteSet(a .. b)
        BY FS_Interval
      <3> QED
        BY <3>1
    <2>2. IsFiniteSet((0 .. count - 1) \X (0 .. count - 1))
      BY <2>1, FS_Product
    <2> QED
      BY <2>2, FS_Subset
  <1>2. E \subseteq Nat \X Nat
    OBVIOUS
  <1>3. PICK N \in Nat : N = Cardinality(E)
    BY <1>1, FS_CardinalityType
  <1>4. /\ \A e \in E : Place(E, e) \in 0 .. N - 1
        /\ \A d, e \in E : Place(E, d) = Place(E, e) => d = e
        /\ \A k \in 0 .. N - 1 : \E e \in E : Place(E, e) = k
    BY <1>1, <1>2, <1>3, EntryPlaces
  <1>5. PICK outer : outer = [j \in 0 .. count |-> Cardinality(Columns(E, j))]
    OBVIOUS
  <1>6. PICK entry : entry = [k \in 1 .. N |-> CHOOSE e \in E : Place(E, e) = k - 1]
    OBVIOUS
  <1>7. PICK inner : inner = [k \in 1 .. N |-> entry[k][1]]
    OBVIOUS
  <1>8. A = [n |-> count, outer |-> outer, inner |-> inner]
    <2>1. outer = [j \in 0 .. count |-> Cardinality({e \in E : e[2] < j})]
      BY <1>5 DEF Columns
    <2>2. inner = [k \in 1 .. Cardinality(E) |->
                     (CHOOSE e \in E : Cardinality({d \in E : Before(d, e)}) = k - 1)[1]]
      BY <1>3, <1>6, <1>7 DEF Place
    <2> QED
      BY <2>1, <2>2 DEF Compressed
  <1>9. ASSUME NEW k \in 1 .. N
        PROVE  entry[k] \in E /\ Place(E, entry[k]) = k - 1
    <2>1. k - 1 \in 0 .. N - 1
      OBVIOUS
    <2>2. \E e \in E : Place(E, e) = k - 1
      BY <1>4, <2>1
    <2> QED
      BY <1>6, <2>2
  <1>10. \A j \in 0 .. count : outer[j] \in Nat /\ outer[j] <= N
    <2> SUFFICES ASSUME NEW j \in 0 .. count PROVE outer[j] \in Nat /\ outer[j] <= N
      OBVIOUS
    <2>1. Columns(E, j) \subseteq E
      BY DEF Columns
    <2>2. IsFiniteSet(Columns(E, j)) /\ Cardinality(Columns(E, j)) <= Cardinality(E)
      BY <1>1, <2>1, FS_Subset
    <2>3. Cardinality(Columns(E, j)) \in Nat
      BY <2>2, FS_CardinalityType
    <2> QED
      BY <1>3, <1>5, <2>2, <2>3
  <1>11. outer[count] = N
    <2>1. Columns(E, count) = E
      BY DEF Columns
    <2> QED
      BY <1>3, <1>5, <2>1
  <1>12. Len(inner) = N
    BY <1>7
  <1>13. \A e \in E : e[1] \in 0 .. count - 1 /\ e[2] \in 0 .. count - 1 /\ e = <<e[1], e[2]>>
    OBVIOUS
  <1>14. \A e \in E : \A j \in 0 .. count :
            /\ e[2] >= j => outer[j] <= Place(E, e)
            /\ e[2] < j => Place(E, e) < outer[j]
    BY <1>1, <1>2, <1>5, ColumnPlaces
  <1>15. ASSUME NEW j \in 0 .. count - 1, NEW k \in outer[j] + 1 .. outer[j + 1]
         PROVE  <<inner[k], j>> \in E
    <2>1. j \in 0 .. count /\ j + 1 \in 0 .. count /\ j < j + 1
      OBVIOUS
    <2>2. k \in 1 .. N
      BY <1>10, <2>1
    <2>3. PICK e \in E : e = entry[k] /\ Place(E, e) = k - 1
      BY <1>9, <2>2
    <2>4. ~(e[2] < j) /\ ~(e[2] >= j + 1)
      <3>1. outer[j] \in Nat /\ outer[j + 1] \in Nat
        BY <1>10, <2>1
      <3>2. ~(Place(E, e) < outer[j]) /\ ~(outer[j + 1] <= Place(E, e))
        BY <2>3, <3>1
      <3> QED
        BY <1>14, <2>1, <3>2
    <2>5. e[2] = j
      BY <1>13, <2>4
    <2>6. inner[k] = e[1]
      BY <1>7, <2>2, <2>3
    <2> QED
      BY <1>13, <2>5, <2>6
  <1>16. ASSUME NEW e \in E
         PROVE  \E j \in 0 .. count - 1 : \E k \in outer[j] + 1 .. outer[j + 1] :
                   e = <<inner[k], j>>
    <2>1. PICK j \in 0 .. count - 1 : j = e[2]
      BY <1>13
    <2>2. j \in 0 .. count /\ j + 1 \in 0 .. count
      OBVIOUS
    <2>3. PICK k \in 1 .. N : k - 1 = Place(E, e)
      <3>1. PICK i \in 0 .. N - 1 : i = Place(E, e)
        BY <1>4
      <3>2. i + 1 \in 1 .. N /\ i + 1 - 1 = i
        OBVIOUS
      <3> QED
        BY <3>1, <3>2
    <2>4. outer[j] <= k - 1 /\ k - 1 < outer[j + 1]
      <3>1. e[2] >= j /\ e[2] < j + 1
        BY <2>1
      <3> QED
        BY <1>14, <2>2, <2>3, <3>1
    <2>5. k \in outer[j] + 1 .. outer[j + 1]
      <3>1. outer[j] \in Nat /\ outer[j + 1] \in Nat
        BY <1>10, <2>2
      <3> QED
        BY <2>4, <3>1
    <2>6. entry[k] = e
      BY <1>4, <1>9, <2>3
    <2>7. inner[k] = e[1]
      BY <1>7, <2>6
    <2> QED
      BY <1>13, <2>1, <2>5, <2>7
  <1>17. EntriesOf(A) = E
    <2>1. EntriesOf(A) = UNION {{<<inner[k], j>> : k \in outer[j] + 1 .. outer[j + 1]} :
                                j \in 0 .. count - 1}
      BY <1>8 DEF EntriesOf
    <2>2. EntriesOf(A) \subseteq E
      BY <1>15, <2>1
    <2>3. E \subseteq EntriesOf(A)
      BY <1>16, <2>1
    <2> QED
      BY <2>2, <2>3
  <1> QED
    BY <1>5, <1>8, <1>10, <1>11, <1>12, <1>17

-----------------------------------------------------------------------------
(* The index file.  serialize and deserialize are recursive functions: the *)
(* values they must have are given, and induction shows they have them.    *)

\* A set of numbers that has m, and the next after each of its own, has all
\* from m on.
LEMMA InductionFrom ==
  ASSUME NEW S, NEW m \in Nat, NEW count \in Nat, m \in S,
         \A k \in m .. count - 1 : k \in S => k + 1 \in S
  PROVE  \A k \in m .. count : k \in S
  <1> DEFINE Left == (m .. count) \ S
  <1> SUFFICES ASSUME Left # {} PROVE FALSE
    OBVIOUS
  <1>1. Left \subseteq Nat
    OBVIOUS
  <1>2. PICK k \in Left : \A l \in Left : ~(<<l, k>> \in OpToRel(<, Nat))
    <2> HIDE DEF Left
    <2> QED
      BY <1>1, NatLessThanWellFounded, WFMin
  <1>3. \A l \in Left : ~(l < k)
    <2> HIDE DEF Left
    <2> QED
      BY <1>1, <1>2 DEF OpToRel
  <1>4. k \in m + 1 .. count
    OBVIOUS
  <1>5. k - 1 \in m .. count - 1 /\ k - 1 \notin Left
    BY <1>3, <1>4
  <1> QED
    BY <1>4, <1>5

\* The indexes are those from zero on: the k-th of them is k - 1.
LEMMA NthIs ==
  ASSUME NEW count \in Nat, NEW k \in 1 .. count
  PROVE  Nth(0 .. count - 1, k) = k - 1
  <1>1. ASSUME NEW r \in 0 .. count - 1
        PROVE  Cardinality({q \in 0 .. count - 1 : q < r}) = r
    <2>1. {q \in 0 .. count - 1 : q < r} = 0 .. r - 1
      OBVIOUS
    <2>2. \A a, b \in Int : Cardinality(a .. b) = IF a > b THEN 0 ELSE b - a + 1
      BY FS_Interval
    <2>3. 0 \in Int /\ r - 1 \in Int
      OBVIOUS
    <2>4. Cardinality(0 .. r - 1) = IF 0 > r - 1 THEN 0 ELSE r - 1 - 0 + 1
      BY <2>2, <2>3
    <2>5. Cardinality(0 .. r - 1) = r
      BY <2>4
    <2> QED
      BY <2>1, <2>5
  <1>2. k - 1 \in 0 .. count - 1 /\ Cardinality({q \in 0 .. count - 1 : q < k - 1}) = k - 1
    BY <1>1
  <1>3. \A r \in 0 .. count - 1 : Cardinality({q \in 0 .. count - 1 : q < r}) = k - 1 => r = k - 1
    BY <1>1
  <1> QED
    BY <1>2, <1>3 DEF Nth

\* The right map has the indexes below n, and names of one word.
OneWordMap(m, count) ==
  /\ DOMAIN m.right = 0 .. count - 1 /\ count <= Len(Numerals)
  /\ \A r \in 0 .. count - 1 : m.right[r] \in Names /\ Len(m.right[r]) = 1

\* The words that are written of such a map, place by place.
Word(m, i) == IF i % 2 = 1 THEN Numerals[(i + 1) \div 2] ELSE m.right[(i \div 2) - 1][1]
FirstWords(m, k) == [i \in 1 .. 2 * k |-> Word(m, i)]

\* An index stands at an odd place, its name at the even one after it.
LEMMA WordsAre ==
  ASSUME NEW m, NEW k \in Nat \ {0}
  PROVE  Word(m, 2 * k - 1) = Numerals[k] /\ Word(m, 2 * k) = m.right[k - 1][1]
  <1>1. (2 * k - 1) % 2 = 1 /\ ((2 * k - 1) + 1) \div 2 = k
    OBVIOUS
  <1>2. (2 * k) % 2 = 0 /\ (2 * k) \div 2 = k
    OBVIOUS
  <1> QED
    BY <1>1, <1>2 DEF Word

\* The words of one more entry.
LEMMA MoreWords ==
  ASSUME NEW m, NEW count \in Nat, OneWordMap(m, count), NEW k \in 1 .. count
  PROVE  FirstWords(m, k) = FirstWords(m, k - 1) \o (<<Numerals[k]>> \o m.right[k - 1])
  <1>1. PICK j \in Nat : j = k - 1 /\ k = j + 1
    OBVIOUS
  <1>2. PICK x, w : x = Numerals[k] /\ w = m.right[j][1]
    OBVIOUS
  <1>3. m.right[j] = <<w>>
    <2>1. m.right[j] \in Names /\ Len(m.right[j]) = 1
      BY <1>1 DEF OneWordMap
    <2>2. PICK name : name = m.right[j]
      OBVIOUS
    <2>3. name \in Seq(ToSet(name)) /\ Len(name) = 1
      BY <2>1, <2>2, NamesAssumption
    <2>4. name = <<name[1]>>
      BY <2>3
    <2> QED
      BY <1>2, <2>2, <2>4
  <1>4. PICK S : S = {x, w} \cup {Word(m, i) : i \in 1 .. 2 * k}
    OBVIOUS
  <1>5. PICK a : a = FirstWords(m, j)
    OBVIOUS
  <1>6. a \in Seq(S) /\ Len(a) = 2 * j /\ \A i \in 1 .. 2 * j : a[i] = Word(m, i)
    <2>1. \A i \in 1 .. 2 * j : Word(m, i) \in S
      BY <1>1, <1>4
    <2>2. a = [i \in 1 .. 2 * j |-> Word(m, i)] /\ 2 * j \in Nat
      BY <1>5 DEF FirstWords
    <2> QED
      BY <2>1, <2>2
  <1>7. x \in S /\ w \in S
    BY <1>4
  <1>8. <<x>> \o <<w>> = <<x, w>>
    <2>1. <<x>> \in Seq(S) /\ Len(<<x>>) = 1 /\ <<x>>[1] = x
      BY <1>7
    <2>2. <<w>> \in Seq(S) /\ Len(<<w>>) = 1 /\ <<w>>[1] = w
      BY <1>7
    <2>3. <<x, w>> \in Seq(S) /\ Len(<<x, w>>) = 2 /\ <<x, w>>[1] = x /\ <<x, w>>[2] = w
      BY <1>7
    <2>4. PICK c : c = <<x>> \o <<w>>
      OBVIOUS
    <2>5. c \in Seq(S) /\ Len(c) = 2 /\ c[1] = x /\ c[2] = w
      BY <2>1, <2>2, <2>4, ConcatProperties
    <2>6. PICK d : d = <<x, w>>
      OBVIOUS
    <2>7. d \in Seq(S) /\ Len(d) = 2 /\ d[1] = x /\ d[2] = w
      BY <2>3, <2>6
    <2>8. Len(c) = Len(d) /\ \A i \in 1 .. Len(c) : c[i] = d[i]
      BY <2>5, <2>7
    <2>9. c = d
      BY <2>5, <2>7, <2>8, SeqEqual
    <2> QED
      BY <2>4, <2>6, <2>9
  <1>9. <<x, w>> \in Seq(S) /\ Len(<<x, w>>) = 2 /\ <<x, w>>[1] = x /\ <<x, w>>[2] = w
    BY <1>7
  <1>10. PICK b : b = a \o <<x, w>>
    OBVIOUS
  <1>11. /\ b \in Seq(S) /\ Len(b) = 2 * j + 2
         /\ \A i \in 1 .. 2 * j + 2 : b[i] = IF i <= 2 * j THEN a[i] ELSE <<x, w>>[i - 2 * j]
    BY <1>6, <1>9, <1>10, ConcatProperties
  <1>12. PICK c : c = FirstWords(m, k)
    OBVIOUS
  <1>13. c \in Seq(S) /\ Len(c) = 2 * j + 2 /\ \A i \in 1 .. 2 * j + 2 : c[i] = Word(m, i)
    <2>1. \A i \in 1 .. 2 * k : Word(m, i) \in S
      BY <1>4
    <2>2. c = [i \in 1 .. 2 * k |-> Word(m, i)] /\ 2 * k \in Nat /\ 2 * k = 2 * j + 2
      BY <1>1, <1>12 DEF FirstWords
    <2> QED
      BY <2>1, <2>2
  <1>14. Word(m, 2 * j + 1) = x /\ Word(m, 2 * j + 2) = w
    <2>1. Word(m, 2 * k - 1) = x /\ Word(m, 2 * k) = w
      <3>1. k \in Nat \ {0} /\ k - 1 = j
        BY <1>1
      <3>2. Word(m, 2 * k - 1) = Numerals[k] /\ Word(m, 2 * k) = m.right[k - 1][1]
        BY <3>1, WordsAre
      <3> QED
        BY <1>2, <3>1, <3>2
    <2>2. 2 * k - 1 = 2 * j + 1 /\ 2 * k = 2 * j + 2
      BY <1>1
    <2> QED
      BY <2>1, <2>2
  <1>15. ASSUME NEW i \in 1 .. 2 * j + 2 PROVE c[i] = b[i]
    <2>1. CASE i <= 2 * j
      <3>1. i \in 1 .. 2 * j
        BY <2>1
      <3> QED
        BY <1>6, <1>11, <1>13, <2>1, <3>1
    <2>2. CASE i = 2 * j + 1
      <3>1. ~(i <= 2 * j) /\ i - 2 * j = 1
        BY <2>2
      <3> QED
        BY <1>9, <1>11, <1>13, <1>14, <2>2, <3>1
    <2>3. CASE i = 2 * j + 2
      <3>1. ~(i <= 2 * j) /\ i - 2 * j = 2
        BY <2>3
      <3> QED
        BY <1>9, <1>11, <1>13, <1>14, <2>3, <3>1
    <2>4. i <= 2 * j \/ i = 2 * j + 1 \/ i = 2 * j + 2
      OBVIOUS
    <2> QED
      BY <2>1, <2>2, <2>3, <2>4
  <1>16. c = b
    BY <1>11, <1>13, <1>15, SeqEqual
  <1> QED
    BY <1>1, <1>2, <1>3, <1>5, <1>8, <1>10, <1>12, <1>16

\* serialize writes the words of every entry, in the order of the indexes.
LEMMA SerializeIs ==
  ASSUME NEW m, NEW count \in Nat, OneWordMap(m, count)
  PROVE  Serialize(m) = FirstWords(m, count)
  <1>1. Cardinality(DOMAIN m.right) = count /\ DOMAIN m.right = 0 .. count - 1
    <2>1. DOMAIN m.right = 0 .. count - 1
      BY DEF OneWordMap
    <2>2. \A a, b \in Int : Cardinality(a .. b) = IF a > b THEN 0 ELSE b - a + 1
      BY FS_Interval
    <2>3. Cardinality(0 .. count - 1) = IF 0 > count - 1 THEN 0 ELSE count - 1 - 0 + 1
      BY <2>2
    <2>4. Cardinality(0 .. count - 1) = count
      BY <2>3
    <2> QED
      BY <2>1, <2>4
  <1> DEFINE Rec(f) == f = [k \in 0 .. Cardinality(DOMAIN m.right) |->
                IF k = 0 THEN <<>>
                ELSE f[k - 1] \o (<<Numerals[Nth(DOMAIN m.right, k) + 1]>>
                                  \o m.right[Nth(DOMAIN m.right, k)])]
             Writes(f) == f = [k \in 0 .. count |->
                IF k = 0 THEN <<>> ELSE f[k - 1] \o (<<Numerals[k]>> \o m.right[k - 1])]
  <1>2. \A k \in 1 .. count : Nth(DOMAIN m.right, k) = k - 1 /\ Nth(DOMAIN m.right, k) + 1 = k
    <2> SUFFICES ASSUME NEW k \in 1 .. count
                 PROVE  Nth(DOMAIN m.right, k) = k - 1 /\ Nth(DOMAIN m.right, k) + 1 = k
      OBVIOUS
    <2>1. Nth(DOMAIN m.right, k) = k - 1
      BY <1>1, NthIs
    <2>2. k - 1 + 1 = k
      OBVIOUS
    <2> QED
      BY <2>1, <2>2
  <1>3. ASSUME NEW f PROVE Rec(f) <=> Writes(f)
    <2>1. ASSUME NEW k \in 0 .. count
          PROVE  (IF k = 0 THEN <<>>
                  ELSE f[k - 1] \o (<<Numerals[Nth(DOMAIN m.right, k) + 1]>>
                                    \o m.right[Nth(DOMAIN m.right, k)]))
                 = (IF k = 0 THEN <<>> ELSE f[k - 1] \o (<<Numerals[k]>> \o m.right[k - 1]))
      <3>1. k = 0 \/ k \in 1 .. count
        OBVIOUS
      <3> QED
        BY <1>2, <3>1
    <2> QED
      BY <1>1, <2>1
  <1>4. PICK made : made = [k \in 0 .. count |-> FirstWords(m, k)]
    OBVIOUS
  <1>5. FirstWords(m, 0) = <<>>
    BY DEF FirstWords
  <1>6. Writes(made)
    <2>1. ASSUME NEW k \in 0 .. count
          PROVE  made[k] = IF k = 0 THEN <<>>
                           ELSE made[k - 1] \o (<<Numerals[k]>> \o m.right[k - 1])
      <3>1. CASE k = 0
        BY <1>4, <1>5, <3>1
      <3>2. CASE k # 0
        <4>1. k \in 1 .. count /\ k - 1 \in 0 .. count
          BY <3>2
        <4>2. FirstWords(m, k) = FirstWords(m, k - 1) \o (<<Numerals[k]>> \o m.right[k - 1])
          BY <4>1, MoreWords
        <4> QED
          BY <1>4, <3>2, <4>1, <4>2
      <3> QED
        BY <3>1, <3>2
    <2> QED
      BY <1>4, <2>1
  <1>7. Rec(CHOOSE f : Rec(f))
    <2>1. Rec(made)
      BY <1>3, <1>6
    <2> HIDE DEF Rec
    <2> QED
      BY <2>1
  <1>8. Serialize(m) = (CHOOSE f : Rec(f))[Cardinality(DOMAIN m.right)]
    BY DEF Serialize
  <1>9. PICK f : f = CHOOSE h : Rec(h)
    OBVIOUS
  <1>10. Writes(f) /\ Serialize(m) = f[count]
    <2> HIDE DEF Writes, Rec
    <2>1. Rec(f) /\ Serialize(m) = f[Cardinality(DOMAIN m.right)]
      BY <1>7, <1>8, <1>9
    <2> QED
      BY <1>1, <1>3, <2>1
  <1> HIDE DEF Rec
  <1> DEFINE S == {k \in 0 .. count : f[k] = made[k]}
  <1>11. 0 \in S
    BY <1>4, <1>5, <1>10
  <1>12. ASSUME NEW k \in 0 .. count - 1, k \in S PROVE k + 1 \in S
    <2>1. PICK l \in 1 .. count : l = k + 1 /\ l - 1 = k
      OBVIOUS
    <2>2. l \in 0 .. count /\ l # 0 /\ f[k] = made[k]
      BY <1>12
    <2>3. f[l] = f[l - 1] \o (<<Numerals[l]>> \o m.right[l - 1])
      BY <1>10, <2>2
    <2>4. made[l] = made[l - 1] \o (<<Numerals[l]>> \o m.right[l - 1])
      BY <1>6, <2>2
    <2>5. f[l - 1] = made[l - 1]
      BY <2>1, <2>2
    <2>6. f[l] = made[l]
      <3> HIDE DEF Writes
      <3> QED
        BY <2>3, <2>4, <2>5
    <2>7. l \in S
      BY <2>6
    <2> QED
      BY <2>1, <2>7
  <1>13. \A k \in 0 .. count : k \in S
    <2> HIDE DEF S
    <2> QED
      BY <1>11, <1>12, InductionFrom
  <1>14. f[count] = made[count]
    BY <1>13
  <1>15. made[count] = FirstWords(m, count)
    BY <1>4
  <1> HIDE DEF Writes
  <1> QED
    BY <1>10, <1>14, <1>15

\* The map as it is when the first k entries are in it.
PartOf(m, k) ==
  [left |-> [l \in {m.right[q] : q \in 0 .. k - 1} |-> m.left[l]],
   right |-> [q \in 0 .. k - 1 |-> m.right[q]]]

\* A map is two functions.
TwoMaps(m) ==
  /\ m = [left |-> m.left, right |-> m.right]
  /\ m.left = [l \in DOMAIN m.left |-> m.left[l]]
  /\ m.right = [r \in DOMAIN m.right |-> m.right[r]]

\* The map is made entry by entry.
LEMMA PartsOfMap ==
  ASSUME NEW m, Bimap(m), TwoMaps(m), NEW count \in Nat, count = Cardinality(DOMAIN m.left)
  PROVE  /\ PartOf(m, 0) = NoMap
         /\ PartOf(m, count) = m
         /\ \A k \in 1 .. count : Insert(PartOf(m, k - 1), m.right[k - 1], k - 1) = PartOf(m, k)
  <1>1. /\ DOMAIN m.right = 0 .. count - 1
        /\ \A l \in DOMAIN m.left : m.left[l] \in 0 .. count - 1 /\ m.right[m.left[l]] = l
        /\ \A r \in 0 .. count - 1 : m.right[r] \in DOMAIN m.left /\ m.left[m.right[r]] = r
    BY DEF Bimap
  <1>2. PartOf(m, 0) = NoMap
    <2>1. 0 .. 0 - 1 = {} /\ {m.right[q] : q \in 0 .. 0 - 1} = {}
      OBVIOUS
    <2>2. [l \in {m.right[q] : q \in 0 .. 0 - 1} |-> m.left[l]] = <<>>
      BY <2>1
    <2>3. [q \in 0 .. 0 - 1 |-> m.right[q]] = <<>>
      BY <2>1
    <2> QED
      BY <2>2, <2>3 DEF PartOf, NoMap
  <1>3. PartOf(m, count) = m
    <2>1. {m.right[q] : q \in 0 .. count - 1} = DOMAIN m.left
      BY <1>1
    <2>2. [l \in {m.right[q] : q \in 0 .. count - 1} |-> m.left[l]] = m.left
      BY <2>1 DEF TwoMaps
    <2>3. [q \in 0 .. count - 1 |-> m.right[q]] = m.right
      BY <1>1 DEF TwoMaps
    <2> QED
      BY <2>2, <2>3 DEF PartOf, TwoMaps
  <1>4. ASSUME NEW k \in 1 .. count
        PROVE  Insert(PartOf(m, k - 1), m.right[k - 1], k - 1) = PartOf(m, k)
    <2>1. PICK r \in 0 .. count - 1 : r = k - 1 /\ k = r + 1
      OBVIOUS
    <2>2. PICK x : x = m.right[r]
      OBVIOUS
    <2>3. x \in DOMAIN m.left /\ m.left[x] = r
      BY <1>1, <2>2
    <2> DEFINE Old == {m.right[q] : q \in 0 .. r - 1}
               New == {m.right[q] : q \in 0 .. r}
               left == [l \in Old |-> m.left[l]]
               right == [q \in 0 .. r - 1 |-> m.right[q]]
    <2>4. k - 1 = r /\ (k - 1) - 1 = r - 1
      BY <2>1
    <2>5. PartOf(m, r) = [left |-> left, right |-> right]
      BY DEF PartOf
    <2>6. PartOf(m, k) = [left |-> [l \in New |-> m.left[l]],
                          right |-> [q \in 0 .. r |-> m.right[q]]]
      BY <2>4 DEF PartOf
    <2>7. New = Old \cup {x}
      <3>1. 0 .. r = (0 .. r - 1) \cup {r}
        OBVIOUS
      <3> QED
        BY <2>2, <3>1
    <2>8. Put(left, x, r) = [l \in New |-> m.left[l]]
      <3>1. Put(left, x, r) = [l \in Old \cup {x} |-> IF l = x THEN r ELSE left[l]]
        BY DEF Put
      <3>2. \A l \in Old \cup {x} : (IF l = x THEN r ELSE left[l]) = m.left[l]
        BY <2>3
      <3> HIDE DEF Old, New, left
      <3> QED
        BY <2>7, <3>1, <3>2
    <2>9. Put(right, r, x) = [q \in 0 .. r |-> m.right[q]]
      <3>1. Put(right, r, x) = [q \in (0 .. r - 1) \cup {r} |-> IF q = r THEN x ELSE right[q]]
        BY DEF Put
      <3>2. \A q \in 0 .. r : (IF q = r THEN x ELSE right[q]) = m.right[q]
        BY <2>2
      <3>3. 0 .. r = (0 .. r - 1) \cup {r}
        OBVIOUS
      <3> HIDE DEF right
      <3> QED
        BY <3>1, <3>2, <3>3
    <2>10. Insert(PartOf(m, r), x, r) = [left |-> Put(left, x, r), right |-> Put(right, r, x)]
      BY <2>5 DEF Insert
    <2> QED
      BY <2>2, <2>4, <2>6, <2>8, <2>9, <2>10
  <1> QED
    BY <1>2, <1>3, <1>4

\* deserialize takes the words by twos, and makes the map again.
LEMMA DeserializeIs ==
  ASSUME NEW m, Bimap(m), TwoMaps(m), NEW count \in Nat, count = Cardinality(DOMAIN m.left),
         OneWordMap(m, count)
  PROVE  Deserialize(FirstWords(m, count)) = m
  <1>1. PICK words : words = FirstWords(m, count)
    OBVIOUS
  <1>2. Len(words) = 2 * count /\ \A i \in 1 .. 2 * count : words[i] = Word(m, i)
    <2>1. 2 * count \in Nat
      OBVIOUS
    <2> QED
      BY <1>1, <2>1 DEF FirstWords
  <1>3. \A k \in 1 .. count : words[2 * k - 1] = Numerals[k] /\ words[2 * k] = m.right[k - 1][1]
    <2> SUFFICES ASSUME NEW k \in 1 .. count
                 PROVE  words[2 * k - 1] = Numerals[k] /\ words[2 * k] = m.right[k - 1][1]
      OBVIOUS
    <2>1. k \in Nat \ {0} /\ 2 * k \in 1 .. 2 * count /\ 2 * k - 1 \in 1 .. 2 * count
      OBVIOUS
    <2>2. Word(m, 2 * k - 1) = Numerals[k] /\ Word(m, 2 * k) = m.right[k - 1][1]
      BY <2>1, WordsAre
    <2> QED
      BY <1>2, <2>1, <2>2
  <1>4. /\ Len(Numerals) \in Nat /\ DOMAIN Numerals = 1 .. Len(Numerals) /\ count <= Len(Numerals)
        /\ \A i, j \in 1 .. Len(Numerals) : Numerals[i] = Numerals[j] => i = j
    <2>1. PICK s : s = Numerals
      OBVIOUS
    <2>2. s \in Seq(ToSet(s)) /\ \A i, j \in DOMAIN s : s[i] = s[j] => i = j
      BY <2>1, NamesAssumption
    <2>3. Len(s) \in Nat /\ DOMAIN s = 1 .. Len(s)
      BY <2>2, LenProperties
    <2>4. count <= Len(Numerals)
      BY DEF OneWordMap
    <2> QED
      BY <2>1, <2>2, <2>3, <2>4
  <1>5. ASSUME NEW k \in 1 .. count
        PROVE  /\ words[2 * k - 1] \in ToSet(Numerals)
               /\ (CHOOSE r \in 0 .. Len(Numerals) - 1 : Numerals[r + 1] = words[2 * k - 1]) = k - 1
               /\ <<words[2 * k]>> = m.right[k - 1]
    <2>1. PICK j \in 0 .. count - 1 : j = k - 1 /\ k = j + 1
      OBVIOUS
    <2>2. words[2 * k - 1] = Numerals[k] /\ words[2 * k] = m.right[j][1]
      BY <1>3, <2>1
    <2>3. k \in 1 .. Len(Numerals) /\ j \in 0 .. Len(Numerals) - 1
      BY <1>4, <2>1
    <2>4. words[2 * k - 1] \in ToSet(Numerals)
      BY <1>4, <2>2, <2>3 DEF ToSet
    <2>5. ASSUME NEW r \in 0 .. Len(Numerals) - 1, Numerals[r + 1] = words[2 * k - 1]
          PROVE  r = j
      <3>1. r + 1 \in 1 .. Len(Numerals)
        BY <1>4
      <3>2. r + 1 = k
        BY <1>4, <2>2, <2>3, <2>5, <3>1
      <3> QED
        BY <2>1, <3>2
    <2>6. Numerals[j + 1] = words[2 * k - 1]
      BY <2>1, <2>2
    <2>7. (CHOOSE r \in 0 .. Len(Numerals) - 1 : Numerals[r + 1] = words[2 * k - 1]) = j
      BY <2>3, <2>5, <2>6
    <2>8. <<words[2 * k]>> = m.right[j]
      <3>1. PICK name : name = m.right[j]
        OBVIOUS
      <3>2. name \in Names /\ Len(name) = 1
        BY <3>1 DEF OneWordMap
      <3>3. name \in Seq(ToSet(name))
        BY <3>2, NamesAssumption
      <3>4. name = <<name[1]>>
        BY <3>2, <3>3
      <3> QED
        BY <2>2, <3>1, <3>4
    <2> QED
      BY <2>1, <2>4, <2>7, <2>8
  <1> DEFINE pairs == {k \in Pairs(words) :
                         \A j \in 1 .. k : words[2 * j - 1] \in ToSet(Numerals)}
  <1>6. pairs = 1 .. count
    <2>1. Pairs(words) = {k \in 1 .. 2 * count : 2 * k <= 2 * count}
      BY <1>2 DEF Pairs
    <2>2. {k \in 1 .. 2 * count : 2 * k <= 2 * count} = 1 .. count
      OBVIOUS
    <2>3. \A k \in 1 .. count : \A j \in 1 .. k : words[2 * j - 1] \in ToSet(Numerals)
      BY <1>5
    <2> QED
      BY <2>1, <2>2, <2>3
  <1> DEFINE Rec(f) == f = [k \in 0 .. Len(words) |->
                IF k = 0 THEN NoMap
                ELSE IF k \in pairs
                     THEN Insert(f[k - 1], <<words[2 * k]>>,
                            CHOOSE r \in 0 .. Len(Numerals) - 1 : Numerals[r + 1] = words[2 * k - 1])
                     ELSE f[k - 1]]
             Reads(f) == f = [k \in 0 .. 2 * count |->
                IF k = 0 THEN NoMap
                ELSE IF k \in 1 .. count THEN Insert(f[k - 1], m.right[k - 1], k - 1)
                     ELSE f[k - 1]]
  <1>7. Deserialize(words) = (CHOOSE f : Rec(f))[Len(words)]
    BY DEF Deserialize
  <1> HIDE DEF pairs
  <1>8. ASSUME NEW f PROVE Rec(f) <=> Reads(f)
    <2>1. ASSUME NEW k \in 0 .. 2 * count
          PROVE  (IF k = 0 THEN NoMap
                  ELSE IF k \in pairs
                       THEN Insert(f[k - 1], <<words[2 * k]>>,
                              CHOOSE r \in 0 .. Len(Numerals) - 1 : Numerals[r + 1] = words[2 * k - 1])
                       ELSE f[k - 1])
                 = (IF k = 0 THEN NoMap
                    ELSE IF k \in 1 .. count THEN Insert(f[k - 1], m.right[k - 1], k - 1)
                         ELSE f[k - 1])
      <3>1. CASE k \in 1 .. count
        <4>1. PICK c : c = CHOOSE r \in 0 .. Len(Numerals) - 1 : Numerals[r + 1] = words[2 * k - 1]
          OBVIOUS
        <4>2. c = k - 1 /\ <<words[2 * k]>> = m.right[k - 1]
          BY <1>5, <3>1, <4>1
        <4>3. k # 0 /\ k \in pairs
          BY <1>6, <3>1
        <4>4. Insert(f[k - 1], <<words[2 * k]>>, c) = Insert(f[k - 1], m.right[k - 1], k - 1)
          BY <4>2
        <4> QED
          BY <3>1, <4>1, <4>3, <4>4
      <3>2. CASE k \notin 1 .. count
        BY <1>6, <3>2
      <3> QED
        BY <3>1, <3>2
    <2> QED
      BY <1>2, <2>1
  <1>9. /\ PartOf(m, 0) = NoMap
        /\ PartOf(m, count) = m
        /\ \A k \in 1 .. count : Insert(PartOf(m, k - 1), m.right[k - 1], k - 1) = PartOf(m, k)
    BY PartsOfMap
  <1>10. PICK made : made = [k \in 0 .. 2 * count |->
                               IF k <= count THEN PartOf(m, k) ELSE PartOf(m, count)]
    OBVIOUS
  <1>11. \A k \in 0 .. count : k \in 0 .. 2 * count /\ made[k] = PartOf(m, k)
    BY <1>10
  <1>12. \A k \in count .. 2 * count : k \in 0 .. 2 * count /\ made[k] = PartOf(m, count)
    BY <1>10
  <1>13. Reads(made)
    <2>1. ASSUME NEW k \in 0 .. 2 * count
          PROVE  made[k] = IF k = 0 THEN NoMap
                        ELSE IF k \in 1 .. count THEN Insert(made[k - 1], m.right[k - 1], k - 1)
                             ELSE made[k - 1]
      <3>1. CASE k = 0
        BY <1>9, <1>11, <3>1
      <3>2. CASE k \in 1 .. count
        <4>1. k - 1 \in 0 .. count /\ k \in 0 .. count /\ k # 0
          BY <3>2
        <4>2. made[k] = PartOf(m, k) /\ made[k - 1] = PartOf(m, k - 1)
          BY <1>11, <4>1
        <4> QED
          BY <1>9, <3>2, <4>1, <4>2
      <3>3. CASE k \notin 0 .. count
        <4>1. k \in count .. 2 * count /\ k - 1 \in count .. 2 * count /\ k # 0 /\ k \notin 1 .. count
          BY <3>3
        <4> QED
          BY <1>12, <4>1
      <3>4. k = 0 \/ k \in 1 .. count \/ k \notin 0 .. count
        OBVIOUS
      <3> QED
        BY <3>1, <3>2, <3>3, <3>4
    <2>2. made = [k \in 0 .. 2 * count |-> made[k]]
      BY <1>10
    <2> QED
      BY <2>1, <2>2
  <1>14. PICK f : Reads(f) /\ Deserialize(words) = f[2 * count]
    <2>1. Rec(made)
      BY <1>8, <1>13
    <2>2. Rec(CHOOSE f : Rec(f))
      <3> HIDE DEF Rec
      <3> QED
        BY <2>1
    <2>3. PICK f : f = CHOOSE h : Rec(h)
      OBVIOUS
    <2> HIDE DEF Rec, Reads
    <2>4. Reads(f)
      BY <1>8, <2>2, <2>3
    <2> QED
      BY <1>2, <1>7, <2>3, <2>4
  <1> HIDE DEF Rec
  <1> DEFINE S == {k \in 0 .. 2 * count : f[k] = made[k]}
  <1>15. 0 \in S
    BY <1>13, <1>14
  <1>16. ASSUME NEW k \in 0 .. (2 * count) - 1, k \in S PROVE k + 1 \in S
    <2>1. PICK l \in 1 .. 2 * count : l = k + 1 /\ l - 1 = k
      OBVIOUS
    <2>2. f[k] = made[k]
      BY <1>16
    <2>3. f[l] = IF l \in 1 .. count THEN Insert(f[k], m.right[k], k) ELSE f[k]
      BY <1>14, <2>1
    <2>4. made[l] = IF l \in 1 .. count THEN Insert(made[k], m.right[k], k) ELSE made[k]
      BY <1>13, <2>1
    <2>5. f[l] = made[l]
      BY <2>2, <2>3, <2>4
    <2>6. l \in S
      BY <2>5
    <2> QED
      BY <2>1, <2>6
  <1>17. \A k \in 0 .. 2 * count : k \in S
    <2> HIDE DEF S
    <2>1. 0 \in Nat /\ 2 * count \in Nat
      OBVIOUS
    <2> QED
      BY <1>15, <1>16, <2>1, InductionFrom
  <1>18. f[2 * count] = made[2 * count]
    <2>1. 2 * count \in 0 .. 2 * count
      OBVIOUS
    <2> QED
      BY <1>17, <2>1
  <1>19. made[2 * count] = m
    <2>1. 2 * count \in count .. 2 * count
      OBVIOUS
    <2> QED
      BY <1>9, <1>12, <2>1
  <1> QED
    <2> HIDE DEF Reads, S
    <2> QED
      BY <1>1, <1>14, <1>18, <1>19

-----------------------------------------------------------------------------
(* The files.                                                              *)

\* What was written is of the map and the matrix as they are at the end.
Files ==
  pc = "done" =>
    files.idx \in {Serialize(map), <<>>} /\ files.mat \subseteq {SerializeMatrix(Matrix)}

Kept == IInv /\ TwoMaps(map) /\ Files

\* It stays one when a name is added.
LEMMA EnsuredTwoMaps ==
  ASSUME NEW m, TwoMaps(m), NEW l
  PROVE  TwoMaps(Ensured(m, l))
  <1>1. CASE l \in DOMAIN m.left
    BY <1>1 DEF Ensured
  <1>2. CASE l \notin DOMAIN m.left
    BY <1>2 DEF Ensured, Insert, Put, TwoMaps
  <1> QED
    BY <1>1, <1>2

LEMMA KeptInit == Init => Kept
  <1> SUFFICES ASSUME Init PROVE Kept
    OBVIOUS
  <1>1. TwoMaps(map)
    <2>1. map = [left |-> <<>>, right |-> <<>>] /\ DOMAIN <<>> = {}
      BY DEF Init, NoMap
    <2>2. <<>> = [l \in {} |-> <<>>[l]]
      OBVIOUS
    <2> QED
      BY <2>1, <2>2 DEF TwoMaps
  <1>2. pc # "done"
    BY DEF Init
  <1> QED
    BY <1>1, <1>2, IInvInit DEF Kept, Files

LEMMA KeptStep == Kept /\ [Next]_vars => Kept'
  <1> SUFFICES ASSUME Kept, [Next]_vars PROVE Kept'
    OBVIOUS
  <1>1. IInv' /\ TwoMaps(map) /\ Files
    BY IInvStep DEF Kept
  <1>2. TwoMaps(map')
    <2>1. map' = map \/ \E l : map' = Ensured(map, l)
      BY DEF Next, vars, Link, GetCardinality, GetGeometry, GetTopology, EnterNeighbour,
             EndOfPoint, Write
    <2> QED
      BY <1>1, <2>1, EnsuredTwoMaps
  <1>3. CASE Write
    <2>1. map' = map /\ triplets' = triplets
      BY <1>3 DEF Write
    <2>2. Matrix' = Matrix
      BY <2>1 DEF Matrix
    <2>3. /\ files'.idx \in {Serialize(map), <<>>}
          /\ files'.mat \in {{SerializeMatrix(Matrix)}, {}}
      BY <1>3 DEF Write
    <2>4. Files'
      BY <2>1, <2>2, <2>3 DEF Files
    <2> QED
      BY <1>1, <1>2, <2>4 DEF Kept
  <1>4. CASE Link \/ UNCHANGED vars
    <2>1. UNCHANGED <<pc, map, triplets, files>>
      BY <1>4 DEF Link, vars
    <2>2. Matrix' = Matrix
      BY <2>1 DEF Matrix
    <2>3. Files'
      BY <1>1, <2>1, <2>2 DEF Files
    <2> QED
      BY <1>1, <1>2, <2>3 DEF Kept
  <1>5. CASE GetCardinality \/ GetGeometry \/ GetTopology \/ EnterNeighbour \/ EndOfPoint
    <2>1. pc' # "done"
      BY <1>5 DEF GetCardinality, GetGeometry, GetTopology, EnterNeighbour, EndOfPoint
    <2> QED
      BY <1>1, <1>2, <2>1 DEF Kept, Files
  <1> QED
    BY <1>3, <1>4, <1>5 DEF Next

LEMMA KeptReadsBack == Kept => FilesReadBack
  <1> SUFFICES ASSUME Kept, pc = "done"
               PROVE  /\ files.idx # <<>> /\ (\A name \in DOMAIN map.left : Len(name) = 1)
                           => Deserialize(files.idx) = map
                      /\ Matrix.n > 0 /\ Matrix.outer[Matrix.n - 1] > 0 =>
                           \A f \in files.mat :
                              /\ DeserializeMatrix(f) = Matrix
                              /\ EntriesOf(DeserializeMatrix(f)) = triplets
    BY DEF FilesReadBack
  <1>1. /\ Bimap(map) /\ TwoMaps(map) /\ Rows
        /\ files.idx \in {Serialize(map), <<>>} /\ files.mat \subseteq {SerializeMatrix(Matrix)}
    BY DEF Kept, IInv, Files
  <1>2. PICK count \in Nat : count = Cardinality(DOMAIN map.left)
    BY <1>1, FS_CardinalityType DEF Bimap
  <1>3. count <= Len(Numerals)
    <2>1. IsFiniteSet(Names) /\ DOMAIN map.left \subseteq Names
          /\ Len(Numerals) >= Cardinality(Names)
      BY <1>1, NamesAssumption DEF Bimap
    <2>2. Cardinality(DOMAIN map.left) <= Cardinality(Names) /\ Cardinality(Names) \in Nat
      BY <2>1, FS_Subset, FS_CardinalityType
    <2>3. Len(Numerals) \in Nat
      BY NamesAssumption, LenProperties
    <2> QED
      BY <1>2, <2>1, <2>2, <2>3
  <1>4. ASSUME files.idx # <<>>, \A name \in DOMAIN map.left : Len(name) = 1
        PROVE  Deserialize(files.idx) = map
    <2>1. OneWordMap(map, count)
      BY <1>1, <1>2, <1>3, <1>4 DEF Bimap, OneWordMap
    <2>2. files.idx = FirstWords(map, count)
      BY <1>1, <1>4, <2>1, SerializeIs
    <2> QED
      BY <1>1, <1>2, <2>1, <2>2, DeserializeIs
  <1>5. ASSUME Matrix.n > 0, Matrix.outer[Matrix.n - 1] > 0, NEW f \in files.mat
        PROVE  DeserializeMatrix(f) = Matrix /\ EntriesOf(DeserializeMatrix(f)) = triplets
    <2>1. triplets \subseteq (0 .. count - 1) \X (0 .. count - 1)
      <3>1. \A nb \in DOMAIN map.left : map.left[nb] \in 0 .. count - 1
        BY <1>1, <1>2 DEF Bimap
      <3> SUFFICES ASSUME NEW ij \in triplets
                   PROVE  ij \in (0 .. count - 1) \X (0 .. count - 1)
        OBVIOUS
      <3>2. PICK k \in 1 .. Reached, nb \in DOMAIN map.left :
              ij = <<map.left[g[k]], map.left[nb]>>
        BY <1>1 DEF Rows
      <3>3. g[k] \in DOMAIN map.left
        BY <1>1 DEF Rows
      <3> QED
        BY <3>1, <3>2, <3>3
    <2>2. PICK A : A = Matrix /\ A = Compressed(count, triplets)
      BY <1>2 DEF Matrix
    <2>3. /\ A = [n |-> count, outer |-> A.outer, inner |-> A.inner]
          /\ A.outer \in [0 .. count -> Nat] /\ Len(A.inner) = A.outer[count]
          /\ EntriesOf(A) = triplets
      BY <2>1, <2>2, MatrixKeepsEntries
    <2>4. A.n = count
      BY <2>3
    <2>5. count \in Nat \ {0} /\ A.outer[count - 1] > 0
      BY <1>5, <2>2, <2>4
    <2>6. DeserializeMatrix(SerializeMatrix(A)) = A
      BY <2>3, <2>5, MatrixBack
    <2>7. f = SerializeMatrix(A)
      BY <1>1, <1>5, <2>2
    <2> QED
      BY <2>2, <2>3, <2>6, <2>7
  <1> QED
    BY <1>4, <1>5

(* What is read back is what was written, for any spaces, any growth of    *)
(* them, and any matrix with an entry before its last column.              *)
THEOREM TheFilesReadBack == Spec => []FilesReadBack
  <1> QED
    BY KeptInit, KeptStep, KeptReadsBack, PTL DEF Spec

-----------------------------------------------------------------------------
(* Sdmi.  What it counts and what it puts into the database.               *)

(* Loading.                                                                *)

Loading ==
  /\ shell \in {"prompt", "load", "done", "terminated"}
  /\ commands \in 0 .. MaxCommands
  /\ overread \in BOOLEAN
  /\ fate \in Seq({"loaded", "skipped", "refused"})
  /\ n = Cardinality(Fates("loaded"))
  /\ Fates("refused") \subseteq {Len(fate)}
  /\ shell = "load" => Fates("refused") = {}
  /\ shell = "prompt" /\ Fates("refused") = {} => lines = <<>>

LEMMA FatesAreFinite ==
  ASSUME Loading, NEW what
  PROVE  IsFiniteSet(Fates(what)) /\ Cardinality(Fates(what)) \in 0 .. Len(fate)
  <1>1. DOMAIN fate = 1 .. Len(fate) /\ Len(fate) \in Nat
    BY DEF Loading
  <1>2. IsFiniteSet(1 .. Len(fate)) /\ Cardinality(1 .. Len(fate)) = Len(fate)
    <2>1. \A k \in Nat : IsFiniteSet(1 .. k) /\ Cardinality(1 .. k) = k
      BY FS_Interval
    <2> QED
      BY <1>1, <2>1
  <1>3. Fates(what) \subseteq 1 .. Len(fate)
    BY <1>1 DEF Fates
  <1>4. /\ IsFiniteSet(Fates(what))
        /\ Cardinality(Fates(what)) <= Cardinality(1 .. Len(fate))
    BY <1>2, <1>3, FS_Subset
  <1> QED
    BY <1>1, <1>2, <1>4, FS_CardinalityType

\* What became of a line more.
LEMMA OneLineMore ==
  ASSUME Loading, NEW what \in {"loaded", "skipped", "refused"},
         fate' = Append(fate, what)
  PROVE  /\ fate' \in Seq({"loaded", "skipped", "refused"})
         /\ Len(fate') = Len(fate) + 1
         /\ Fates(what)' = Fates(what) \cup {Len(fate) + 1}
         /\ Cardinality(Fates(what)') = Cardinality(Fates(what)) + 1
         /\ \A other : other # what => Fates(other)' = Fates(other)
  <1>1. /\ fate' \in Seq({"loaded", "skipped", "refused"})
        /\ DOMAIN fate = 1 .. Len(fate) /\ Len(fate) \in Nat
        /\ Len(fate') = Len(fate) + 1 /\ DOMAIN fate' = 1 .. Len(fate) + 1
        /\ \A k \in 1 .. Len(fate) : fate'[k] = fate[k]
        /\ fate'[Len(fate) + 1] = what
    BY AppendProperties DEF Loading
  <1>2. Fates(what)' = Fates(what) \cup {Len(fate) + 1}
    BY <1>1 DEF Fates
  <1>3. Len(fate) + 1 \notin Fates(what)
    BY <1>1 DEF Fates
  <1>4. \A other : other # what => Fates(other)' = Fates(other)
    BY <1>1 DEF Fates
  <1>5. Cardinality(Fates(what)') = Cardinality(Fates(what)) + 1
    BY <1>2, <1>3, FatesAreFinite, FS_AddElement
  <1> QED
    BY <1>1, <1>2, <1>4, <1>5

LEMMA LoadingInit == ShellInit => Loading
  <1> SUFFICES ASSUME ShellInit PROVE Loading
    OBVIOUS
  <1>1. Fates("loaded") = {} /\ Fates("refused") = {}
    BY DEF ShellInit, Fates
  <1>2. /\ Cardinality({}) = 0 /\ MaxCommands \in Nat
        /\ <<>> \in Seq({"loaded", "skipped", "refused"})
    BY FS_EmptySet, SdmiAssumption
  <1>3. fate \in Seq({"loaded", "skipped", "refused"}) /\ commands \in 0 .. MaxCommands
    BY <1>2 DEF ShellInit
  <1>4. n = Cardinality(Fates("loaded")) /\ Fates("refused") \subseteq {Len(fate)}
    BY <1>1, <1>2 DEF ShellInit
  <1> QED
    BY <1>1, <1>3, <1>4 DEF ShellInit, Loading

\* A command that loads nothing.
LEMMA CommandKeepsLoading ==
  ASSUME Loading, NEW typedWords, Command(typedWords), shell' \in {"prompt", "terminated"},
         UNCHANGED file, overread' \in BOOLEAN
  PROVE  Loading'
  <1>1. commands' \in 0 .. MaxCommands /\ shell = "prompt" /\ UNCHANGED <<lines, n, fate>>
    BY SdmiAssumption DEF Command, Loading, file
  <1>2. \A what : Fates(what)' = Fates(what)
    BY <1>1 DEF Fates
  <1> QED
    BY <1>1, <1>2 DEF Loading

LEMMA LoadingStep == Loading /\ [ShellNext]_shellVars => Loading'
  <1> SUFFICES ASSUME Loading, [ShellNext]_shellVars PROVE Loading'
    OBVIOUS
  <1> USE DEF Ends, Superpose
  <1>1. ASSUME NEW word \in Words,
               Define(word) \/ RelateOne(word) \/ Ask({word}) \/ AskOne(word)
        PROVE  Loading'
    <2>1. /\ Command({word}) /\ UNCHANGED file
          /\ shell' = shell \/ shell' = "terminated"
          /\ overread' = overread \/ overread' = TRUE
      BY <1>1 DEF Define, RelateOne, Ask, AskOne
    <2> QED
      BY <2>1, CommandKeepsLoading DEF Command, Loading
  <1>2. ASSUME NEW word \in Words, NEW second \in Words,
               Relate(word, second) \/ Ask({word, second})
        PROVE  Loading'
    <2>1. /\ Command({word, second}) /\ UNCHANGED <<file, overread>>
          /\ shell' = shell \/ shell' = "terminated"
      BY <1>2 DEF Relate, Ask
    <2> QED
      BY <2>1, CommandKeepsLoading DEF Command, Loading
  <1>3. CASE BadEscape \/ CannotOpen
    <2>1. /\ Command({}) /\ UNCHANGED <<file, overread>>
          /\ shell' = shell \/ shell' = "terminated"
      BY <1>3 DEF BadEscape, CannotOpen
    <2> QED
      BY <2>1, CommandKeepsLoading DEF Command, Loading
  <1>4. ASSUME NEW f \in Contents, OpenFile(f) PROVE Loading'
    <2>1. /\ n' = 0 /\ fate' = <<>> /\ shell' = "load" /\ overread' = overread
          /\ commands' = commands + 1 /\ commands < MaxCommands
      BY <1>4 DEF OpenFile, Command
    <2>2. Fates("loaded")' = {} /\ Fates("refused")' = {}
      BY <2>1 DEF Fates
    <2>3. /\ Cardinality({}) = 0 /\ MaxCommands \in Nat
          /\ <<>> \in Seq({"loaded", "skipped", "refused"})
      BY FS_EmptySet, SdmiAssumption
    <2>4. /\ fate' \in Seq({"loaded", "skipped", "refused"})
          /\ commands' \in 0 .. MaxCommands
      BY <2>1, <2>3 DEF Loading
    <2>5. /\ n' = Cardinality(Fates("loaded"))'
          /\ Fates("refused")' \subseteq {Len(fate')}
      BY <2>1, <2>2, <2>3
    <2> QED
      BY <2>1, <2>2, <2>4, <2>5 DEF Loading
  <1>5. CASE LoadLine
    <2>a. /\ shell = "load" /\ Fates("refused") = {} /\ Len(fate) \in Nat
          /\ UNCHANGED <<commands, overread>>
      BY <1>5 DEF LoadLine, Loading
    <2>b. Cardinality(Fates("loaded")) \in Nat
      BY FatesAreFinite
    <2>1. CASE n' = n + 1 /\ fate' = Append(fate, "loaded") /\ shell' = shell
      BY <2>1, <2>a, <2>b, OneLineMore DEF Loading
    <2>2. CASE fate' = Append(fate, "skipped") /\ UNCHANGED <<n, shell>>
      BY <2>2, <2>a, OneLineMore DEF Loading
    <2>3. CASE fate' = Append(fate, "refused") /\ shell' = "prompt" /\ n' = n
      BY <2>3, <2>a, OneLineMore DEF Loading
    <2>4. CASE shell' = "terminated" /\ UNCHANGED <<n, fate>>
      BY <2>4, <2>a DEF Loading, Fates
    <2> QED
      BY <1>5, <2>1, <2>2, <2>3, <2>4 DEF LoadLine, StopLoading
  <1>6. CASE Loaded \/ EndOfInput
    BY <1>6 DEF Loaded, EndOfInput, Loading, Fates, file
  <1>7. CASE UNCHANGED shellVars
    BY <1>7 DEF shellVars, file, Loading, Fates
  <1> QED
    BY <1>1, <1>2, <1>3, <1>4, <1>5, <1>6, <1>7 DEF ShellNext

(* A load counts the lines it took and stops at the first refusal.         *)
THEOREM LoadsAreCounted == ShellSpec => []LoadCounted
  <1>1. Loading => LoadCounted
    <2> SUFFICES ASSUME Loading PROVE LoadCounted
      OBVIOUS
    <2>1. n \in 0 .. Len(fate)
      BY FatesAreFinite DEF Loading
    <2> QED
      BY <2>1 DEF Loading, LoadCounted, ShellTypes
  <1> QED
    BY <1>1, LoadingInit, LoadingStep, PTL DEF ShellSpec

-----------------------------------------------------------------------------
(* What was named.                                                         *)

\* A symbol whose words the given word is.
NamedBy(sym, word) ==
  \/ Len(word) = 2 /\ sym = <<Plain[word[1]], <<Plain[word[2]]>>>>
  \/ Len(word) = 1 /\ sym = <<Prefix, <<Plain[word[1]]>>>>
  \/ Len(word) \in {1, 2} /\ sym = <<Prefix, word>>

Named ==
  /\ lessons \subseteq symbols \X symbols
  /\ ~overread => \A sym \in symbols : \E word \in typed : NamedBy(sym, word)

\* A word that is a symbol names it.
LEMMA ParseNames ==
  ASSUME NEW word, Parse(word) # NoSymbol
  PROVE  NamedBy(Parse(word), word) /\ Len(word) \in {1, 2}
  BY DEF Parse, NamedBy

\* Symbols that are named join those that were.
LEMMA NamedGrows ==
  ASSUME Named, NEW more, symbols' = symbols \cup more,
         ~overread' => /\ ~overread /\ typed \subseteq typed'
                       /\ \A sym \in more : \E word \in typed' : NamedBy(sym, word),
         NEW taught, lessons' = lessons \cup taught, taught \subseteq symbols' \X symbols'
  PROVE  Named'
  BY DEF Named, NamedBy

LEMMA NamedOneMore ==
  ASSUME Named, NEW sym, symbols' = symbols \cup {sym}, lessons' = lessons,
         overread' = overread, NEW word, NamedBy(sym, word), typed' = typed \cup {word}
  PROVE  Named'
  <1>1. lessons' \subseteq symbols' \X symbols'
    BY DEF Named
  <1>2. ASSUME ~overread', NEW x \in symbols' PROVE \E w \in typed' : NamedBy(x, w)
    BY <1>2 DEF Named
  <1>3. \A x, w : NamedBy(x, w)' <=> NamedBy(x, w)
    BY DEF NamedBy
  <1> QED
    BY <1>1, <1>2, <1>3 DEF Named

\* Whatever becomes of a superpose.
LEMMA SuperposeIs ==
  ASSUME NEW target, NEW source, Superpose(target, source)
  PROVE  \E more \in SUBSET {target, source} : \E taught \in SUBSET {<<target, source>>} :
            /\ symbols' = symbols \cup more /\ lessons' = lessons \cup taught
            /\ taught \subseteq symbols' \X symbols'
  <1>1. CASE /\ symbols' = symbols \cup {target, source}
             /\ lessons' = lessons \cup {<<target, source>>}
    <2>1. /\ {target, source} \in SUBSET {target, source}
          /\ {<<target, source>>} \in SUBSET {<<target, source>>}
          /\ {<<target, source>>} \subseteq symbols' \X symbols'
      BY <1>1
    <2> QED
      BY <1>1, <2>1
  <1>2. CASE \E made \in SUBSET {source} : symbols' = symbols \cup made /\ lessons' = lessons
    <2>1. PICK made \in SUBSET {source} : symbols' = symbols \cup made /\ lessons' = lessons
      BY <1>2
    <2>2. made \in SUBSET {target, source} /\ {} \in SUBSET {<<target, source>>}
          /\ lessons' = lessons \cup {} /\ {} \subseteq symbols' \X symbols'
      BY <2>1
    <2> QED
      BY <2>1, <2>2
  <1> QED
    BY <1>1, <1>2 DEF Superpose, Made

LEMMA NamedStep == Named /\ [ShellNext]_shellVars => Named'
  <1> SUFFICES ASSUME Named, [ShellNext]_shellVars PROVE Named'
    OBVIOUS
  <1>0. ASSUME UNCHANGED <<symbols, lessons>>, ~overread' => ~overread /\ typed \subseteq typed'
        PROVE  Named'
    BY <1>0 DEF Named, NamedBy
  <1>1. ASSUME NEW word \in Words, Define(word) PROVE Named'
    <2>1. CASE symbols' = symbols \cup {Parse(word)} /\ lessons' = lessons
      <3>1. /\ typed' = typed \cup {word} /\ overread' = overread
            /\ NamedBy(Parse(word), word)
        BY <1>1, ParseNames DEF Define, Command
      <3> QED
        BY <2>1, <3>1, NamedOneMore
    <2>2. CASE UNCHANGED <<symbols, lessons>>
      BY <1>0, <1>1, <2>2 DEF Define, Command
    <2> QED
      BY <1>1, <2>1, <2>2 DEF Define, Ends
  <1>2. ASSUME NEW word \in Words, NEW second \in Words, Relate(word, second)
        PROVE  Named'
    <2>1. /\ typed' = typed \cup {word, second} /\ overread' = overread
          /\ NamedBy(Parse(word), word) /\ NamedBy(Parse(second), second)
          /\ Superpose(Parse(word), Parse(second))
      BY <1>2, ParseNames DEF Relate, Command
    <2>2. PICK more \in SUBSET {Parse(word), Parse(second)},
               taught \in SUBSET {<<Parse(word), Parse(second)>>} :
             /\ symbols' = symbols \cup more /\ lessons' = lessons \cup taught
             /\ taught \subseteq symbols' \X symbols'
      BY <2>1, SuperposeIs
    <2>3. \A sym \in more : \E w \in typed' : NamedBy(sym, w)
      BY <2>1
    <2> QED
      BY <2>1, <2>2, <2>3, NamedGrows
  <1>3. ASSUME NEW word \in Words, RelateOne(word) PROVE Named'
    <2>1. CASE UNCHANGED <<symbols, lessons>>
      BY <1>3, <2>1 DEF RelateOne, Named
    <2>2. ASSUME NEW second \in Words, Superpose(Parse(word), Parse(second))
          PROVE  Named'
      <3>1. PICK more \in SUBSET {Parse(word), Parse(second)},
                 taught \in SUBSET {<<Parse(word), Parse(second)>>} :
               /\ symbols' = symbols \cup more /\ lessons' = lessons \cup taught
               /\ taught \subseteq symbols' \X symbols'
        BY <2>2, SuperposeIs
      <3>2. overread' = TRUE
        BY <1>3 DEF RelateOne
      <3> QED
        BY <3>1, <3>2, NamedGrows
    <2> QED
      BY <1>3, <2>1, <2>2 DEF RelateOne, Ends
  <1>4. ASSUME NEW words, Ask(words) PROVE Named'
    BY <1>0, <1>4 DEF Ask, Command, Ends
  <1>5. ASSUME NEW word \in Words, AskOne(word) PROVE Named'
    BY <1>5 DEF AskOne, Named, Ends
  <1>6. CASE BadEscape \/ CannotOpen \/ \E f \in Contents : OpenFile(f)
    BY <1>0, <1>6 DEF BadEscape, CannotOpen, OpenFile, Command, Ends
  <1>7. CASE LoadLine
    <2>1. /\ typed' = typed \cup {Head(lines)} /\ UNCHANGED <<lessons, overread>>
          /\ \/ symbols' = symbols
             \/ /\ symbols' = symbols \cup {<<Prefix, Head(lines)>>}
                /\ Parse(Head(lines)) # NoSymbol
      BY <1>7 DEF LoadLine
    <2>2. CASE /\ symbols' = symbols \cup {<<Prefix, Head(lines)>>}
               /\ Parse(Head(lines)) # NoSymbol
      <3>1. NamedBy(<<Prefix, Head(lines)>>, Head(lines))
        BY <2>2, ParseNames DEF NamedBy
      <3> QED
        BY <2>1, <2>2, <3>1, NamedOneMore
    <2> QED
      BY <1>0, <2>1, <2>2
  <1>8. CASE Loaded \/ EndOfInput \/ UNCHANGED shellVars
    BY <1>0, <1>8 DEF Loaded, EndOfInput, shellVars
  <1> QED
    BY <1>1, <1>2, <1>3, <1>4, <1>5, <1>6, <1>7, <1>8 DEF ShellNext

(* Nothing is in the database that was not named, whatever was refused,    *)
(* skipped or left half done.                                              *)
THEOREM OnlyTheNamed == ShellSpec => []OnlyWhatWasNamed
  <1>1. ShellInit => Named
    BY DEF ShellInit, Named
  <1>2. Named => OnlyWhatWasNamed
    BY DEF Named, NamedBy, OnlyWhatWasNamed
  <1> QED
    BY <1>1, <1>2, NamedStep, PTL DEF ShellSpec
=============================================================================
