---------------------------- MODULE TopologyProofs ----------------------------
(***************************************************************************)
(* Proofs about Topology: its five invariants hold for any spaces, team,   *)
(* vectors, bounds and size of the heap.  The inductive invariant IInv     *)
(* says, beside the types, which symbol a row is of while the table grows  *)
(* (RowsOfSymbols), who works at which row (RowsDealt), how much of a      *)
(* vector a copy holds (CopiesTrue), which copies are in the heap (Held),  *)
(* and what of the rows the filter has put into the list (Filtered).       *)
(***************************************************************************)
EXTENDS Topology, FiniteSetTheorems, SequenceTheorems, TLAPS

InCall == {"copy", "scan", "filter", "done", "terminated"}

\* The symbols of a space, and the ids of all.
SymbolsOf(sp) == {order[sp][i] : i \in 1 .. Len(order[sp])}

\* A name is in the random access index of a space once.
NamesOnce ==
  \A sp \in Spaces : \A i, j \in 1 .. Len(order[sp]) :
     order[sp][i] = order[sp][j] => i = j

\* The rows are the first symbols of the index, as they were when it was read.
RowsOfSymbols ==
  /\ pc \in {"idle", "load"} => work = <<>>
  /\ pc \in InCall =>
       /\ query.space \in Spaces
       /\ Len(work) <= Len(order[query.space])
       /\ started = {order[query.space][i] : i \in 1 .. Len(work)}
       /\ \A i \in 1 .. Len(work) :
             work[i] # None => work[i].of = <<query.space, order[query.space][i]>>

\* A worker is at a row that is not scored, and at that alone.
RowsDealt ==
  /\ \A w \in Workers :
       /\ team[w].row = None => team[w] = Idle[w]
       /\ team[w].row # None => /\ team[w].row \in 1 .. Len(work)
                                /\ work[team[w].row] = None
                                /\ pc \in {"scan", "terminated"}
  /\ \A w, x \in Workers : team[w].row # None /\ team[w].row = team[x].row => w = x
  /\ pc = "copy" => \A i \in 1 .. Len(work) : work[i] = None
  /\ pc \in {"filter", "done"} => \A i \in 1 .. Len(work) : work[i] # None

\* The bits in the elements before e.
BitsBefore(e) == {d \in Dims : d \div ElementBits < e}

\* A copy of a vector that nobody stores to is right as far as it goes.
TargetTrue ==
  /\ pc \in {"copy", "load"} => target.of # None
  /\ target.of # None =>
       /\ target.of[1] \in Spaces
       /\ target.of[2] \in SymbolsOf(target.of[1])
       /\ target.of \notin disturbed =>
            /\ pc \in {"copy", "load"}
                 => target.bits = vector[target.of] \cap BitsBefore(target.done)
            /\ pc = "scan" => target.bits = vector[target.of]
            /\ pc = "idle" => buffer = vector[target.of]

CopyTrue(w) ==
  team[w].row # None /\ IdAt(team[w].row) \notin disturbed =>
    team[w].copy = vector[IdAt(team[w].row)] \cap BitsBefore(team[w].done)

TeamTrue == \A w \in Workers : CopyTrue(w)

\* What has been scored is scored truly.
ScoresTrue ==
  \A i \in 1 .. Len(work) :
     work[i] # None =>
       /\ Dimensions - work[i].similarity
            = Count(target.bits) + work[i].density - 2 * work[i].overlap
       /\ work[i].of \notin disturbed
            => work[i] = Scored(work[i].of, target.bits, vector[work[i].of])

\* The copies in the heap.
Held ==
  /\ pc \in {"idle", "done"} => target.held = 0
  /\ pc = "load" => target.held = 1
  /\ CopiesReturned

\* The caller's list: what it held before, and the rows that passed so far.
Given == {earlier[k].score : k \in 1 .. Len(earlier)}
Kept  == {topo[k].score : k \in 1 .. Len(topo)}
Passed(n) == {work[i] : i \in {j \in 1 .. Len(work) : j < n /\ Passes(work[j])}}

Filtered ==
  /\ RowsNamed
  /\ pc \in {"copy", "scan", "terminated"} => topo = earlier /\ row = 1
  /\ pc = "filter" =>
       /\ row \in 1 .. Len(work) + 1
       /\ Kept = Given \cup Passed(row)
       /\ earlier = <<>> =>
            /\ \A k \in 1 .. Len(topo) : \E j \in 1 .. row - 1 : topo[k].score = work[j]
            /\ \A j, k \in 1 .. Len(topo) : topo[j].name = topo[k].name => j = k

\* The cut of the list, as BestFirst says.
Ranked ==
  pc = "done" =>
    /\ \A j, k \in 1 .. Len(topo) :
         j < k => /\ topo[j].score.similarity >= topo[k].score.similarity
                  /\ earlier = <<>> => topo[j].name # topo[k].name
    /\ Kept \subseteq Passed(Len(work) + 1) \cup Given
    /\ Len(topo) <= query.cub
    /\ \A r \in (Passed(Len(work) + 1) \cup Given) \ Kept :
         /\ Len(topo) = query.cub
         /\ \A k \in Kept : k.similarity >= r.similarity

IInv ==
  /\ TypeOK
  /\ NamesOnce
  /\ RowsOfSymbols
  /\ RowsDealt
  /\ TargetTrue
  /\ TeamTrue
  /\ ScoresTrue
  /\ Held
  /\ Filtered
  /\ Ranked


-----------------------------------------------------------------------------
(* Vectors: sets of bits.                                                  *)

LEMMA BitsFinite ==
  /\ IsFiniteSet(Dims)
  /\ \A v \in SUBSET Dims : IsFiniteSet(v) /\ Count(v) \in Nat
  <1>1. IsFiniteSet(Dims)
    BY TopologyAssumption, FS_Interval DEF Dims
  <1>2. ASSUME NEW v \in SUBSET Dims PROVE IsFiniteSet(v) /\ Count(v) \in Nat
    BY <1>1, <1>2, FS_Subset, FS_CardinalityType DEF Count
  <1> QED
    BY <1>1, <1>2

\* The identity of the three measures.
LEMMA MeasuresOfOneVector ==
  ASSUME NEW t \in SUBSET Dims, NEW v \in SUBSET Dims
  PROVE  /\ Distance(t, v) = Count(t) + Count(v) - 2 * Inner(t, v)
         /\ Distance(t, v) \in Nat
         /\ Inner(t, v) \in Nat
  <1>1. /\ IsFiniteSet(t) /\ IsFiniteSet(v)
        /\ Cardinality(t) \in Nat /\ Cardinality(v) \in Nat
        /\ Cardinality(t \cap v) \in Nat
        /\ Cardinality((t \ v) \cup (v \ t)) \in Nat
    BY BitsFinite DEF Count
  <1>2. /\ IsFiniteSet(t \ v)
        /\ Cardinality(t \ v) = Cardinality(t) - Cardinality(t \cap v)
    BY <1>1, FS_Difference
  <1>3. /\ IsFiniteSet(v \ t)
        /\ Cardinality(v \ t) = Cardinality(v) - Cardinality(t \cap v)
    <2>1. v \cap t = t \cap v
      OBVIOUS
    <2> QED
      BY <1>1, <2>1, FS_Difference
  <1>4. Cardinality((t \ v) \cap (v \ t)) = 0
    <2>1. (t \ v) \cap (v \ t) = {}
      OBVIOUS
    <2> QED
      BY <2>1, FS_EmptySet
  <1>5. Cardinality((t \ v) \cup (v \ t)) = Cardinality(t \ v) + Cardinality(v \ t)
    <2>1. Cardinality((t \ v) \cup (v \ t))
            = Cardinality(t \ v) + Cardinality(v \ t) - Cardinality((t \ v) \cap (v \ t))
      BY <1>2, <1>3, FS_Union
    <2> QED
      BY <1>1, <1>2, <1>3, <1>4, <2>1
  <1> QED
    BY <1>1, <1>2, <1>3, <1>5 DEF Distance, Count, Inner

\* Element after element a copy grows until it is the vector.
LEMMA CopyGrows ==
  /\ ElementCount \in Nat
  /\ BitsBefore(0) = {}
  /\ \A v \in SUBSET Dims : v \cap BitsBefore(ElementCount) = v
  /\ \A v \in SUBSET Dims, e \in Nat :
        v \cap BitsBefore(e + 1) = (v \cap BitsBefore(e)) \cup (v \cap Element(e))
  <1>1. /\ ElementCount \in Nat
        /\ \A d \in Dims : d \div ElementBits \in Nat
        /\ \A d \in Dims : d \div ElementBits < ElementCount
    BY TopologyAssumption DEF ElementCount, Dims
  <1>2. BitsBefore(0) = {}
    BY <1>1 DEF BitsBefore
  <1>3. \A v \in SUBSET Dims : v \cap BitsBefore(ElementCount) = v
    BY <1>1 DEF BitsBefore
  <1>4. ASSUME NEW v \in SUBSET Dims, NEW e \in Nat
        PROVE  v \cap BitsBefore(e + 1) = (v \cap BitsBefore(e)) \cup (v \cap Element(e))
    BY <1>1, <1>4 DEF BitsBefore, Element
  <1> QED
    BY <1>1, <1>2, <1>3, <1>4

-----------------------------------------------------------------------------
(* Lists of rows.                                                          *)

IsTurn(turn, list, s) ==
  /\ \A i \in 1 .. Len(list) : turn[i] \in 1 .. Len(list) /\ s[i] = list[turn[i]]
  /\ \A i \in 1 .. Len(list) : \E j \in 1 .. Len(list) : turn[j] = i
  /\ \A i, j \in 1 .. Len(list) : turn[i] = turn[j] => i = j

\* A turn of a list holds each of its rows once.
LEMMA TurnedList ==
  ASSUME NEW R, NEW list \in Seq(R), NEW s \in Permuted(list)
  PROVE  /\ s \in Seq(R)
         /\ Len(s) = Len(list)
         /\ \E turn : IsTurn(turn, list, s)
  <1> DEFINE D == 1 .. Len(list)
  <1>1. PICK turn \in Turns(DOMAIN list) : s = [i \in DOMAIN list |-> list[turn[i]]]
    BY DEF Permuted
  <1>2. Len(list) \in Nat /\ DOMAIN list = D
    BY LenProperties
  <1>3. turn \in [D -> D] /\ \A i \in D : \E j \in D : turn[j] = i
    BY <1>1, <1>2 DEF Turns
  <1>4. turn \in Surjection(D, D)
    BY <1>3 DEF Surjection
  <1>5. turn \in Injection(D, D)
    BY <1>2, <1>4, FS_Interval, FS_SurjSameCardinalityImpliesInj
  <1>6. \A i, j \in D : turn[i] = turn[j] => i = j
    BY <1>5 DEF Injection, IsInjective
  <1>7. s \in Seq(R) /\ Len(s) = Len(list)
    BY <1>1, <1>2, <1>3
  <1> QED
    BY <1>1, <1>2, <1>3, <1>6, <1>7 DEF IsTurn

-----------------------------------------------------------------------------
(* TypeOK in parts, which the steps change one at a time.                  *)

HeapOK ==
  /\ order \in [Spaces -> Seq(Names)]
  /\ vector \in [SymId -> SUBSET Dims]
  /\ room \in Nat

CallOK ==
  /\ pc \in {"idle", "copy", "load", "scan", "filter", "done", "terminated"}
  /\ query \in [asked : SymId \cup {None}, space : (Spaces \cap Asked) \cup {None},
               dub : Nat, mlb : Nat, cub : Nat,
               status : {"none", "AOK", "ESPACE", "ESYMBOL", "throws"}]

TargetOK ==
  target \in [of : SymId \cup {None}, held : {0, 1}, done : 0 .. ElementCount,
              bits : SUBSET Dims]

WorkOK == work \in Seq(Score \cup {None}) /\ row \in Nat

TeamOK ==
  /\ team \in [Workers -> [row : Nat \cup {None}, done : 0 .. ElementCount,
                          copy : SUBSET Dims]]
  /\ \A w \in Workers : team[w].row \in DOMAIN work \cup {None}

ListOK ==
  /\ topo \in Seq(Neighbour)
  /\ earlier \in Seq(Neighbour)
  /\ buffer \subseteq Dims

HistOK ==
  /\ links \in Nat
  /\ stores \in 0 .. MaxStores
  /\ started \subseteq Names
  /\ disturbed \subseteq SymId

LEMMA Parts ==
  /\ TypeOK <=> /\ HeapOK /\ CallOK /\ TargetOK /\ WorkOK
                /\ TeamOK /\ ListOK /\ HistOK
  /\ TypeOK' <=> /\ HeapOK' /\ CallOK' /\ TargetOK' /\ WorkOK'
                 /\ TeamOK' /\ ListOK' /\ HistOK'
  BY DEF TypeOK, HeapOK, CallOK, TargetOK, WorkOK, TeamOK, ListOK, HistOK

-----------------------------------------------------------------------------
(* The initial states, and the steps of other processes.                   *)

\* Only the first symbols of an index and undisturbed vectors are relied on.
HeapKept ==
  /\ \A sp \in Spaces :
       /\ Len(order[sp]) <= Len(order'[sp])
       /\ \A i \in 1 .. Len(order[sp]) :
             /\ order'[sp][i] = order[sp][i]
             /\ <<sp, order[sp][i]>> \notin disturbed'
                  => vector'[<<sp, order[sp][i]>>] = vector[<<sp, order[sp][i]>>]
  /\ disturbed \subseteq disturbed'
  /\ UNCHANGED <<state, started, earlier>>

LEMMA IInvInit == Init => IInv
  <1> SUFFICES ASSUME Init PROVE IInv
    OBVIOUS
  <1> USE TopologyAssumption DEF Init
  <1>0. PICK image \in Images : order = image.order /\ vector = image.vector
    OBVIOUS
  <1>1. TypeOK
    BY <1>0, Parts, CopyGrows, ImagesAssumption
       DEF HeapOK, CallOK, TargetOK, WorkOK, TeamOK, ListOK, HistOK, Idle, NoCall,
           Call, NoTarget
  <1>2. NamesOnce
    BY <1>0, ImagesAssumption DEF NamesOnce
  <1>3. RowsOfSymbols /\ RowsDealt /\ ScoresTrue /\ Ranked /\ Filtered
    BY DEF RowsOfSymbols, RowsDealt, ScoresTrue, Ranked, Filtered, InCall,
           RowsNamed, Idle
  <1>4. TargetTrue /\ TeamTrue
    BY DEF TargetTrue, TeamTrue, CopyTrue, NoTarget, Idle
  <1>5. Held
    <2>1. {w \in Workers : team[w].row # None} = {}
      BY DEF Idle
    <2>2. Cardinality({w \in Workers : team[w].row # None}) = 0
      BY <2>1, FS_EmptySet
    <2> QED
      BY <2>2 DEF Held, CopiesReturned, NoTarget
  <1> QED
    BY <1>1, <1>2, <1>3, <1>4, <1>5 DEF IInv

LEMMA ListKept ==
  ASSUME Filtered, Ranked, UNCHANGED <<pc, query, work, row, topo, earlier>>
  PROVE  Filtered' /\ Ranked'
  <1>1. /\ Kept' = Kept /\ Given' = Given /\ Passed(row)' = Passed(row)
        /\ Passed(Len(work) + 1)' = Passed(Len(work) + 1)
    BY DEF Kept, Given, Passed, Passes
  <1>2. Filtered'
    BY <1>1 DEF Filtered, RowsNamed
  <1>3. Ranked'
    BY <1>1 DEF Ranked
  <1> QED
    BY <1>2, <1>3

LEMMA HeapKeptStep ==
  ASSUME IInv, TypeOK', HeapKept
  PROVE  /\ RowsOfSymbols' /\ RowsDealt' /\ TargetTrue' /\ TeamTrue'
         /\ ScoresTrue' /\ Filtered' /\ Ranked'
  <1> USE DEF IInv
  <1>0. /\ UNCHANGED <<pc, query, target, work, team, row, topo, buffer>>
        /\ UNCHANGED <<started, earlier>>
        /\ disturbed \subseteq disturbed'
    BY DEF HeapKept, state
  <1>1. /\ \A sp \in Spaces : Len(order[sp]) \in Nat
        /\ \A sp \in Spaces : Len(order'[sp]) \in Nat
        /\ Len(work) \in Nat
    BY Parts DEF HeapOK, WorkOK
  <1>2. /\ \A sp \in Spaces : Len(order[sp]) <= Len(order'[sp])
        /\ \A sp \in Spaces : \A i \in 1 .. Len(order[sp]) :
              order'[sp][i] = order[sp][i]
    BY DEF HeapKept
  <1>3. \A sp \in Spaces : \A i \in 1 .. Len(order[sp]) :
           <<sp, order[sp][i]>> \notin disturbed'
             => vector'[<<sp, order[sp][i]>>] = vector[<<sp, order[sp][i]>>]
    BY DEF HeapKept
  <1>4. pc \in InCall =>
          /\ query.space \in Spaces
          /\ \A i \in 1 .. Len(work) : i \in 1 .. Len(order[query.space])
    BY <1>1 DEF RowsOfSymbols
  <1>5. RowsOfSymbols'
    <2>1. pc \in InCall =>
            {order[query.space][i] : i \in 1 .. Len(work)}
              = {order'[query.space][i] : i \in 1 .. Len(work)}
      BY <1>2, <1>4
    <2>2. pc \in InCall => Len(work) <= Len(order'[query.space])
      BY <1>1, <1>2, <1>4 DEF RowsOfSymbols
    <2>3. pc \in InCall =>
            \A i \in 1 .. Len(work) :
               work[i] # None => work[i].of = <<query.space, order'[query.space][i]>>
      BY <1>2, <1>4 DEF RowsOfSymbols
    <2> QED
      BY <1>0, <1>4, <2>1, <2>2, <2>3 DEF RowsOfSymbols
  <1>6. RowsDealt'
    BY <1>0 DEF RowsDealt, Idle
  <1>7. TargetTrue'
    <2> SUFFICES ASSUME target.of # None
                 PROVE  /\ target.of[2] \in SymbolsOf(target.of[1])'
                        /\ target.of \notin disturbed'
                             => vector'[target.of] = vector[target.of]
      BY <1>0 DEF TargetTrue
    <2>1. /\ target.of[1] \in Spaces /\ target.of[2] \in SymbolsOf(target.of[1])
          /\ target.of = <<target.of[1], target.of[2]>>
      BY Parts DEF TargetTrue, TargetOK, SymId
    <2>2. PICK i \in 1 .. Len(order[target.of[1]]) :
            target.of[2] = order[target.of[1]][i]
      BY <2>1 DEF SymbolsOf
    <2>3. /\ i \in 1 .. Len(order'[target.of[1]])
          /\ order'[target.of[1]][i] = target.of[2]
      BY <1>1, <1>2, <2>1, <2>2
    <2>4. target.of \notin disturbed' => vector'[target.of] = vector[target.of]
      BY <1>3, <2>1, <2>2
    <2> QED
      BY <1>0, <2>3, <2>4 DEF SymbolsOf
  <1>10. TeamTrue'
    <2> SUFFICES ASSUME NEW w \in Workers, team[w].row # None,
                        IdAt(team[w].row)' \notin disturbed'
                 PROVE  team[w].copy
                          = vector'[IdAt(team[w].row)'] \cap BitsBefore(team[w].done)
      BY <1>0 DEF TeamTrue, CopyTrue, IdAt
    <2>1. team[w].row \in 1 .. Len(work) /\ pc \in InCall
      BY DEF RowsDealt, InCall
    <2>2. IdAt(team[w].row)' = IdAt(team[w].row)
      BY <1>0, <1>2, <1>4, <2>1 DEF IdAt
    <2> QED
      BY <1>0, <1>3, <1>4, <2>1, <2>2 DEF TeamTrue, CopyTrue, IdAt
  <1>8. ScoresTrue'
    <2> SUFFICES ASSUME NEW i \in 1 .. Len(work), work[i] # None
                 PROVE  work[i].of \notin disturbed'
                          => work[i] = Scored(work[i].of, target.bits, vector'[work[i].of])
      BY <1>0 DEF ScoresTrue
    <2>1. pc \in InCall
      BY <1>1, Parts DEF RowsOfSymbols, InCall, CallOK
    <2>2. /\ query.space \in Spaces
          /\ i \in 1 .. Len(order[query.space])
          /\ work[i].of = <<query.space, order[query.space][i]>>
      BY <1>4, <2>1 DEF RowsOfSymbols
    <2>3. work[i].of \notin disturbed' =>
            /\ work[i].of \notin disturbed
            /\ vector'[work[i].of] = vector[work[i].of]
      BY <1>0, <1>3, <2>2
    <2> QED
      BY <2>3 DEF ScoresTrue
  <1>9. Filtered' /\ Ranked'
    BY <1>0, ListKept
  <1> QED
    BY <1>5, <1>6, <1>7, <1>8, <1>9, <1>10

LEMMA LinkStep == ASSUME IInv, Link PROVE IInv'
  <1> USE DEF IInv
  <1>1. PICK sp \in Spaces : \E name \in Names \ ToSet(order[sp]) :
          /\ order' = [order EXCEPT ![sp] = Linked(@, name)]
          /\ vector' = [vector EXCEPT ![<<sp, name>>] = {}]
    BY DEF Link
  <1>2. PICK name \in Names \ ToSet(order[sp]) :
          /\ order' = [order EXCEPT ![sp] = Linked(@, name)]
          /\ vector' = [vector EXCEPT ![<<sp, name>>] = {}]
    BY <1>1
  <1>3. /\ order' = [order EXCEPT ![sp] = Append(@, name)]
        /\ order \in [Spaces -> Seq(Names)]
        /\ \A i \in 1 .. Len(order[sp]) : order[sp][i] # name
    BY <1>2, Parts DEF Linked, ToSet, HeapOK
  <1>4. /\ room' = room - 1 /\ room > 0 /\ links' = links + 1
        /\ UNCHANGED <<state, stores, started, disturbed, earlier>>
    BY DEF Link, HasRoom
  <1>5. TypeOK'
    <2>1. HeapOK'
      <3>1. order' \in [Spaces -> Seq(Names)]
        BY <1>3
      <3>2. vector' \in [SymId -> SUBSET Dims]
        BY <1>2, Parts DEF HeapOK
      <3>3. room' \in Nat
        BY <1>4, Parts DEF HeapOK
      <3> QED
        BY <3>1, <3>2, <3>3 DEF HeapOK
    <2>2. CallOK' /\ TargetOK' /\ WorkOK' /\ TeamOK' /\ ListOK'
      BY <1>4, Parts DEF CallOK, TargetOK, WorkOK, TeamOK, ListOK, state
    <2>3. HistOK'
      BY <1>4, Parts DEF HistOK
    <2> QED
      BY <2>1, <2>2, <2>3, Parts
  <1>6. NamesOnce'
    <2> SUFFICES ASSUME NEW ss \in Spaces, NEW i \in 1 .. Len(order'[ss]),
                        NEW j \in 1 .. Len(order'[ss]), order'[ss][i] = order'[ss][j]
                 PROVE  i = j
      BY DEF NamesOnce
    <2>1. CASE ss # sp
      BY <1>3, <2>1 DEF NamesOnce
    <2>2. CASE ss = sp
      BY <1>3, <2>2 DEF NamesOnce
    <2> QED
      BY <2>1, <2>2
  <1>7. HeapKept
    <2> SUFFICES ASSUME NEW ss \in Spaces
                 PROVE  /\ Len(order[ss]) <= Len(order'[ss])
                        /\ \A i \in 1 .. Len(order[ss]) :
                              /\ order'[ss][i] = order[ss][i]
                              /\ vector'[<<ss, order[ss][i]>>] = vector[<<ss, order[ss][i]>>]
      BY <1>4 DEF HeapKept
    <2>1. Len(order[ss]) \in Nat /\ order[ss] \in Seq(Names)
      BY <1>3
    <2>2. /\ Len(order[ss]) <= Len(order'[ss])
          /\ \A i \in 1 .. Len(order[ss]) : order'[ss][i] = order[ss][i]
      BY <1>3, <2>1
    <2>3. ASSUME NEW i \in 1 .. Len(order[ss])
          PROVE  vector'[<<ss, order[ss][i]>>] = vector[<<ss, order[ss][i]>>]
      <3>1. <<ss, order[ss][i]>> \in SymId /\ <<ss, order[ss][i]>> # <<sp, name>>
        BY <1>3, <2>1 DEF SymId
      <3> QED
        BY <1>2, <3>1, Parts DEF HeapOK
    <2> QED
      BY <2>2, <2>3
  <1>8. Held'
    <2>1. UNCHANGED <<pc, team, target>> /\ Room \in Int /\ room \in Int /\ links \in Int
      BY <1>4, TopologyAssumption DEF state, TypeOK
    <2> QED
      BY <1>4, <2>1 DEF Held, CopiesReturned
  <1> QED
    BY <1>5, <1>6, <1>7, <1>8, HeapKeptStep

LEMMA StoreStep == ASSUME IInv, Store PROVE IInv'
  <1> USE DEF IInv
  <1>0. PICK sp \in Spaces : \E name \in ToSet(order[sp]), bit \in Dims :
          /\ \/ vector' = [vector EXCEPT ![<<sp, name>>] = @ \cup {bit}]
             \/ vector' = [vector EXCEPT ![<<sp, name>>] = @ \ {bit}]
          /\ disturbed' = disturbed \cup {<<sp, name>>}
    BY DEF Store
  <1>1. PICK name \in ToSet(order[sp]), bit \in Dims :
          /\ \/ vector' = [vector EXCEPT ![<<sp, name>>] = @ \cup {bit}]
             \/ vector' = [vector EXCEPT ![<<sp, name>>] = @ \ {bit}]
          /\ disturbed' = disturbed \cup {<<sp, name>>}
    BY <1>0
  <1>2. /\ stores < MaxStores /\ stores' = stores + 1
        /\ UNCHANGED <<order, room, state, links, started, earlier>>
    BY DEF Store
  <1>3. <<sp, name>> \in SymId /\ vector[<<sp, name>>] \in SUBSET Dims
    BY <1>1 DEF TypeOK, ToSet, SymId
  <1>4. TypeOK'
    <2>1. HeapOK'
      BY <1>1, <1>2, <1>3, Parts DEF HeapOK
    <2>3. HistOK'
      BY <1>1, <1>2, <1>3, TopologyAssumption, Parts DEF HistOK
    <2>2. CallOK' /\ TargetOK' /\ WorkOK' /\ TeamOK' /\ ListOK'
      BY <1>2, Parts DEF CallOK, TargetOK, WorkOK, TeamOK, ListOK, state
    <2> QED
      BY <2>1, <2>2, <2>3, Parts
  <1>5. NamesOnce'
    BY <1>2 DEF NamesOnce
  <1>6. HeapKept
    BY <1>1, <1>2, <1>3 DEF HeapKept, TypeOK, SymId
  <1>7. Held'
    BY <1>2 DEF Held, CopiesReturned, state
  <1> QED
    BY <1>4, <1>5, <1>6, <1>7, HeapKeptStep

LEMMA StutterStep == ASSUME IInv, UNCHANGED vars PROVE IInv'
  <1> USE DEF IInv, vars, heap, state, hist
  <1>1. NamesOnce' /\ Held'
    BY DEF NamesOnce, Held, CopiesReturned
  <1>3. TypeOK'
    BY Parts DEF HeapOK, CallOK, TargetOK, WorkOK, TeamOK, ListOK, HistOK
  <1>2. HeapKept
    BY Parts DEF HeapKept, HeapOK
  <1> QED
    BY <1>1, <1>2, <1>3, HeapKeptStep

-----------------------------------------------------------------------------
(* The caller's thread asks.                                               *)

LEMMA NoTargetOK ==
  /\ NoTarget \in [of : SymId \cup {None}, held : {0, 1}, done : 0 .. ElementCount,
                   bits : SUBSET Dims]
  /\ NoTarget.of = None /\ NoTarget.held = 0
  BY CopyGrows DEF NoTarget

\* Between calls nobody is at a row.
LEMMA IdleTeam ==
  ASSUME IInv, pc \in {"idle", "copy", "load"}
  PROVE  /\ \A w \in Workers : team[w].row = None
         /\ Cardinality({w \in Workers : team[w].row # None}) = 0
         /\ \A i \in 1 .. Len(work) : work[i] = None
  <1>1. \A w \in Workers : team[w].row = None
    BY DEF IInv, RowsDealt
  <1>2. {w \in Workers : team[w].row # None} = {}
    BY <1>1
  <1>3. Cardinality({w \in Workers : team[w].row # None}) = 0
    BY <1>2, FS_EmptySet
  <1>4. \A i \in 1 .. Len(work) : work[i] = None
    BY DEF IInv, RowsDealt, RowsOfSymbols
  <1> QED
    BY <1>1, <1>3, <1>4

LEMMA FailStep ==
  ASSUME IInv, pc = "idle", NEW status \in {"AOK", "ESPACE", "ESYMBOL", "throws"},
         Fail(status)
  PROVE  IInv'
  <1> USE DEF IInv
  <1>0. /\ query' = NoCall(status) /\ target' = NoTarget
        /\ UNCHANGED <<order, vector, room, pc, work, team, row, topo, buffer>>
        /\ UNCHANGED <<links, stores, started, disturbed, earlier>>
    BY DEF Fail, heap, hist
  <1>1. TypeOK'
    <2>1. HeapOK' /\ WorkOK' /\ TeamOK' /\ ListOK' /\ HistOK'
      BY <1>0, Parts DEF HeapOK, WorkOK, TeamOK, ListOK, HistOK
    <2>2. CallOK' /\ TargetOK'
      BY <1>0, NoTargetOK DEF CallOK, TargetOK, NoCall, Call
    <2> QED
      BY <2>1, <2>2, Parts
  <1>2. NamesOnce' /\ RowsOfSymbols' /\ RowsDealt' /\ TargetTrue' /\ TeamTrue'
    <2>1. NamesOnce' /\ RowsOfSymbols'
      BY <1>0 DEF NamesOnce, RowsOfSymbols, InCall
    <2>2. RowsDealt'
      BY <1>0 DEF RowsDealt, Idle
    <2>3. TargetTrue'
      BY <1>0, NoTargetOK DEF TargetTrue
    <2>4. TeamTrue'
      BY <1>0, IdleTeam DEF TeamTrue, CopyTrue, Idle
    <2> QED
      BY <2>1, <2>2, <2>3, <2>4
  <1>3. ScoresTrue' /\ Filtered' /\ Ranked'
    BY <1>0, IdleTeam DEF ScoresTrue, Filtered, Ranked, RowsNamed
  <1>4. Held'
    BY <1>0, NoTargetOK DEF Held, CopiesReturned
  <1> QED
    BY <1>1, <1>2, <1>3, <1>4

\* A call begins: its rows are the symbols of the space as they are now.
LEMMA BeginStep ==
  ASSUME IInv, pc = "idle", NEW sp \in Spaces, Begin(sp),
         HeapOK', CallOK', TargetOK', TargetTrue', Held',
         query'.space = sp, pc' \in {"copy", "scan"}
  PROVE  IInv'
  <1> USE DEF IInv
  <1>0. /\ started' = ToSet(order[sp]) /\ disturbed' = {}
        /\ work' = [i \in 1 .. Len(order[sp]) |-> None]
        /\ row' = 1 /\ earlier' = topo
        /\ UNCHANGED <<order, vector, team, topo, buffer, links, stores>>
    BY DEF Begin, Entries
  <1>1. order[sp] \in Seq(Names) /\ Len(order[sp]) \in Nat
    BY Parts DEF HeapOK
  <1>2. /\ Len(work') = Len(order[sp]) /\ work' \in Seq(Score \cup {None})
        /\ \A i \in 1 .. Len(work') : work'[i] = None
    BY <1>0, <1>1
  <1>3. TypeOK'
    <2>1. WorkOK' /\ ListOK'
      BY <1>0, <1>2, Parts DEF WorkOK, ListOK
    <2>2. TeamOK'
      BY <1>0, IdleTeam, Parts DEF TeamOK
    <2>3. HistOK'
      BY <1>0, <1>1, Parts DEF HistOK, ToSet
    <2> QED
      BY <2>1, <2>2, <2>3, Parts
  <1>4. NamesOnce'
    BY <1>0 DEF NamesOnce
  <1>5. RowsOfSymbols'
    <2>1. ToSet(order[sp]) = {order[sp][i] : i \in 1 .. Len(order[sp])}
      BY <1>1 DEF ToSet
    <2> QED
      BY <1>0, <1>1, <1>2, <2>1 DEF RowsOfSymbols
  <1>6. RowsDealt'
    BY <1>0, <1>2, IdleTeam DEF RowsDealt, Idle
  <1>7. TeamTrue' /\ ScoresTrue'
    BY <1>0, <1>2, IdleTeam DEF TeamTrue, CopyTrue, ScoresTrue
  <1>8. Filtered' /\ Ranked'
    BY <1>0 DEF Filtered, Ranked, RowsNamed
  <1> QED
    BY <1>3, <1>4, <1>5, <1>6, <1>7, <1>8

LEMMA AskByNameStep ==
  ASSUME IInv, NEW ts \in Asked, NEW ss \in Spaces, NEW name \in Names,
         NEW dub \in DensityBounds, NEW mlb \in MetricBounds, NEW cub \in Cuts,
         AskByName(ts, ss, name, dub, mlb, cub)
  PROVE  IInv'
  <1> USE DEF IInv
  <1>1. CASE Fail("ESPACE") \/ Fail("ESYMBOL") \/ Fail("throws")
    BY <1>1, FailStep DEF AskByName
  <1>2. CASE /\ ts \in Cached /\ name \in ToSet(order[ts]) /\ HasRoom /\ Begin(ts)
             /\ query' = Call(<<ss, name>>, ts, dub, mlb, cub, "none")
             /\ target' = HeapCopy(<<ts, name>>)
             /\ room' = room - 1
             /\ pc' = "copy"
    <2>0. pc = "idle" /\ ts \in Spaces
      BY <1>2, TopologyAssumption DEF AskByName
    <2>1. /\ UNCHANGED <<order, vector, team, buffer, links>>
          /\ disturbed' = {}
      BY <1>2 DEF Begin
    <2>2. HeapOK'
      BY <1>2, <2>1, Parts DEF HeapOK, HasRoom
    <2>3. CallOK'
      BY <1>2, <2>0, TopologyAssumption DEF CallOK, Call, SymId
    <2>4. target'.of = <<ts, name>> /\ target'.held = 1 /\ target'.done = 0
          /\ target'.bits = {}
      BY <1>2 DEF HeapCopy
    <2>5. TargetOK'
      BY <1>2, <2>0, CopyGrows DEF TargetOK, HeapCopy, SymId
    <2>6. TargetTrue'
      <3>1. name \in SymbolsOf(ts)'
        BY <1>2, <2>0, <2>1, Parts DEF SymbolsOf, ToSet, HeapOK
      <3>2. <<ts, name>> # None
        BY <2>0, NoneAssumption DEF SymId
      <3> QED
        BY <1>2, <2>0, <2>1, <2>4, <3>1, <3>2, CopyGrows DEF TargetTrue
    <2>7. Held'
      <3>1. Room = room + links + 0 + 0 /\ room \in Nat /\ links \in Nat
        BY <2>0, IdleTeam, Parts DEF Held, CopiesReturned, HeapOK, HistOK
      <3>2. Cardinality({w \in Workers : team[w].row # None})' = 0
        BY <2>0, <2>1, IdleTeam
      <3> QED
        BY <1>2, <2>1, <2>4, <3>1, <3>2 DEF Held, CopiesReturned
    <2> QED
      BY <1>2, <2>0, <2>2, <2>3, <2>5, <2>6, <2>7, BeginStep DEF Call
  <1> QED
    BY <1>1, <1>2 DEF AskByName, Goto

LEMMA AskByVectorStep ==
  ASSUME IInv, NEW ts \in Asked,
         NEW dub \in DensityBounds, NEW mlb \in MetricBounds, NEW cub \in Cuts,
         AskByVector(ts, dub, mlb, cub)
  PROVE  IInv'
  <1> USE DEF IInv
  <1>1. CASE Fail("ESPACE")
    BY <1>1, FailStep DEF AskByVector
  <1>2. CASE /\ ts \in Cached /\ Begin(ts)
             /\ query' = Call(None, ts, dub, mlb, cub, "none")
             /\ target' = Wrapped(buffer)
             /\ pc' = "scan"
             /\ UNCHANGED room
    <2>0. pc = "idle" /\ ts \in Spaces
      BY <1>2, TopologyAssumption DEF AskByVector
    <2>1. UNCHANGED <<order, vector, team, buffer, links>>
      BY <1>2 DEF Begin
    <2>2. HeapOK'
      BY <1>2, <2>1, Parts DEF HeapOK
    <2>3. CallOK'
      BY <1>2, <2>0, TopologyAssumption DEF CallOK, Call
    <2>4. TargetOK' /\ target'.of = None /\ target'.held = 0
      BY <1>2, CopyGrows, Parts DEF TargetOK, Wrapped, NoTarget, ListOK
    <2>5. TargetTrue'
      BY <1>2, <2>4 DEF TargetTrue
    <2>6. Held'
      BY <1>2, <2>0, <2>1, <2>4 DEF Held, CopiesReturned
    <2> QED
      BY <1>2, <2>0, <2>2, <2>3, <2>4, <2>5, <2>6, BeginStep DEF Call
  <1> QED
    BY <1>1, <1>2 DEF AskByVector, Goto

LEMMA LoadVectorStep ==
  ASSUME IInv, NEW sp \in Asked, NEW name \in Names, LoadVector(sp, name)
  PROVE  IInv'
  <1> USE DEF IInv
  <1>1. CASE Fail("ESPACE") \/ Fail("ESYMBOL") \/ Fail("throws")
    BY <1>1, FailStep DEF LoadVector
  <1>2. CASE /\ sp \in Cached /\ name \in ToSet(order[sp]) /\ HasRoom
             /\ query' = NoCall("none")
             /\ target' = HeapCopy(<<sp, name>>)
             /\ room' = room - 1 /\ disturbed' = {} /\ pc' = "load"
             /\ UNCHANGED <<order, vector, work, team, row, topo, buffer, links,
                            stores, started, earlier>>
    <2>0. pc = "idle" /\ sp \in Spaces
      BY <1>2, TopologyAssumption DEF LoadVector
    <2>1. target'.of = <<sp, name>> /\ target'.held = 1 /\ target'.done = 0
          /\ target'.bits = {}
      BY <1>2 DEF HeapCopy
    <2>2. TypeOK'
      <3>1. HeapOK' /\ HistOK'
        BY <1>2, Parts DEF HeapOK, HistOK, HasRoom
      <3>2. WorkOK' /\ TeamOK' /\ ListOK'
        BY <1>2, Parts DEF WorkOK, TeamOK, ListOK
      <3>3. CallOK'
        BY <1>2 DEF CallOK, NoCall, Call
      <3>4. TargetOK'
        BY <1>2, <2>0, CopyGrows DEF TargetOK, HeapCopy, SymId
      <3> QED
        BY <3>1, <3>2, <3>3, <3>4, Parts
    <2>3. TargetTrue'
      <3>1. name \in SymbolsOf(sp)'
        BY <1>2, <2>0, Parts DEF SymbolsOf, ToSet, HeapOK
      <3>2. <<sp, name>> # None
        BY <2>0, NoneAssumption DEF SymId
      <3> QED
        BY <1>2, <2>0, <2>1, <3>1, <3>2, CopyGrows DEF TargetTrue
    <2>4. Held'
      <3>1. Room = room + links + 0 + 0 /\ room \in Nat /\ links \in Nat
        BY <2>0, IdleTeam, Parts DEF Held, CopiesReturned, HeapOK, HistOK
      <3>2. Cardinality({w \in Workers : team[w].row # None})' = 0
        BY <1>2, <2>0, IdleTeam
      <3> QED
        BY <1>2, <2>1, <3>1, <3>2 DEF Held, CopiesReturned
    <2>5. NamesOnce' /\ RowsOfSymbols' /\ RowsDealt' /\ TeamTrue'
      BY <1>2, <2>0, IdleTeam DEF NamesOnce, RowsOfSymbols, RowsDealt, TeamTrue, CopyTrue, InCall,
         Idle
    <2>6. ScoresTrue' /\ Filtered' /\ Ranked'
      BY <1>2, <2>0, IdleTeam DEF ScoresTrue, Filtered, Ranked, RowsNamed
    <2> QED
      BY <2>2, <2>3, <2>4, <2>5, <2>6
  <1> QED
    BY <1>1, <1>2 DEF LoadVector, Goto

LEMMA LoadElementalStep == ASSUME IInv, LoadElemental PROVE IInv'
  BY FailStep DEF LoadElemental

LEMMA CopyTargetStep == ASSUME IInv, CopyTarget PROVE IInv'
  <1> USE DEF IInv
  <1>0. /\ pc \in {"copy", "load"} /\ target.done \in 0 .. ElementCount - 1
        /\ target' = [target EXCEPT !.done = @ + 1,
                        !.bits = @ \cup (vector[target.of] \cap Element(target.done))]
        /\ UNCHANGED <<order, vector, room, pc, query, work, team, row, topo, buffer>>
        /\ UNCHANGED <<links, stores, started, disturbed, earlier>>
    BY DEF CopyTarget, Elements, heap, hist
  <1>1. /\ TargetOK /\ ElementCount \in Nat /\ target.of # None
        /\ target.of \in SymId
        /\ vector[target.of] \in SUBSET Dims
    BY <1>0, Parts, CopyGrows DEF TargetOK, TargetTrue, HeapOK
  <1>2. /\ target'.of = target.of /\ target'.held = target.held
        /\ target'.done = target.done + 1
        /\ target'.bits = target.bits \cup (vector[target.of] \cap Element(target.done))
    BY <1>0, <1>1 DEF TargetOK
  <1>3. TypeOK'
    <2>1. TargetOK'
      <3>1. target.bits \cup (vector[target.of] \cap Element(target.done)) \in SUBSET Dims
        BY <1>1 DEF TargetOK
      <3>2. target.done + 1 \in 0 .. ElementCount
        BY <1>0, <1>1
      <3> QED
        BY <1>0, <1>1, <3>1, <3>2 DEF TargetOK
    <2>2. HeapOK' /\ CallOK' /\ WorkOK' /\ TeamOK' /\ ListOK' /\ HistOK'
      BY <1>0, Parts DEF HeapOK, CallOK, WorkOK, TeamOK, ListOK, HistOK
    <2> QED
      BY <2>1, <2>2, Parts
  <1>4. NamesOnce' /\ RowsOfSymbols' /\ RowsDealt' /\ TeamTrue'
    <2>1. NamesOnce' /\ RowsOfSymbols'
      BY <1>0 DEF NamesOnce, RowsOfSymbols
    <2>2. RowsDealt'
      BY <1>0 DEF RowsDealt, Idle
    <2>3. TeamTrue'
      BY <1>0 DEF TeamTrue, CopyTrue, IdAt
    <2> QED
      BY <2>1, <2>2, <2>3
  <1>5. TargetTrue'
    <2>1. target.of \notin disturbed =>
            target'.bits = vector[target.of] \cap BitsBefore(target.done + 1)
      BY <1>0, <1>1, <1>2, CopyGrows DEF TargetTrue
    <2> QED
      BY <1>0, <1>2, <2>1 DEF TargetTrue, SymbolsOf
  <1>6. ScoresTrue'
    BY <1>0, IdleTeam DEF ScoresTrue
  <1>7. Held'
    BY <1>0, <1>2 DEF Held, CopiesReturned
  <1> QED
    BY <1>0, <1>3, <1>4, <1>5, <1>6, <1>7, ListKept

LEMMA ForkStep == ASSUME IInv, Fork PROVE IInv'
  <1> USE DEF IInv
  <1>0. /\ pc = "copy" /\ pc' = "scan" /\ target.done \notin 0 .. ElementCount - 1
        /\ UNCHANGED <<order, vector, room, query, target, work, team, row, topo, buffer>>
        /\ UNCHANGED <<links, stores, started, disturbed, earlier>>
    BY DEF Fork, Goto, Elements, heap, hist
  <1>1. TypeOK'
    <2>1. HeapOK' /\ CallOK' /\ TargetOK' /\ ListOK' /\ HistOK'
      BY <1>0, Parts DEF HeapOK, CallOK, TargetOK, ListOK, HistOK
    <2>2. WorkOK' /\ TeamOK'
      BY <1>0, Parts DEF WorkOK, TeamOK
    <2> QED
      BY <2>1, <2>2, Parts
  <1>2. NamesOnce' /\ RowsOfSymbols' /\ ScoresTrue'
    BY <1>0 DEF NamesOnce, RowsOfSymbols, ScoresTrue, InCall
  <1>5. RowsDealt' /\ TeamTrue'
    BY <1>0, IdleTeam DEF RowsDealt, TeamTrue, CopyTrue, Idle
  <1>3. TargetTrue'
    <2>1. target.of \in SymId /\ target.done = ElementCount
      BY <1>0, Parts, CopyGrows DEF TargetOK, TargetTrue
    <2>2. vector[target.of] \cap BitsBefore(ElementCount) = vector[target.of]
      BY <2>1, CopyGrows, Parts DEF HeapOK
    <2> QED
      BY <1>0, <2>1, <2>2 DEF TargetTrue, SymbolsOf
  <1>4. Held' /\ Filtered' /\ Ranked'
    BY <1>0 DEF Held, CopiesReturned, Filtered, Ranked, RowsNamed
  <1> QED
    BY <1>1, <1>2, <1>3, <1>4, <1>5

LEMMA CopyOutStep == ASSUME IInv, CopyOut PROVE IInv'
  <1> USE DEF IInv
  <1>0. /\ pc = "load" /\ pc' = "idle" /\ target.done \notin 0 .. ElementCount - 1
        /\ buffer' = target.bits /\ query' = NoCall("AOK") /\ room' = room + 1
        /\ target' = [NoTarget EXCEPT !.of = target.of]
        /\ UNCHANGED <<order, vector, work, team, row, topo>>
        /\ UNCHANGED <<links, stores, started, disturbed, earlier>>
    BY DEF CopyOut, Goto, Elements, hist
  <1>1. /\ target.of \in SymId /\ target.of # None /\ target.done = ElementCount
        /\ target.bits \in SUBSET Dims
    BY <1>0, Parts, CopyGrows DEF TargetOK, TargetTrue
  <1>2. target'.of = target.of /\ target'.held = 0
    BY <1>0 DEF NoTarget
  <1>3. TypeOK'
    <2>1. HeapOK' /\ CallOK' /\ ListOK'
      BY <1>0, <1>1, Parts DEF HeapOK, CallOK, NoCall, Call, ListOK
    <2>2. TargetOK'
      BY <1>0, <1>1, CopyGrows DEF TargetOK, NoTarget
    <2>3. WorkOK' /\ TeamOK' /\ HistOK'
      BY <1>0, Parts DEF WorkOK, TeamOK, HistOK
    <2> QED
      BY <2>1, <2>2, <2>3, Parts
  <1>4. NamesOnce' /\ RowsOfSymbols' /\ RowsDealt' /\ TeamTrue'
    BY <1>0, IdleTeam DEF NamesOnce, RowsOfSymbols, RowsDealt, TeamTrue, CopyTrue, Idle, InCall
  <1>5. TargetTrue'
    <2>1. vector[target.of] \cap BitsBefore(ElementCount) = vector[target.of]
      BY <1>1, CopyGrows, Parts DEF HeapOK
    <2>2. target.of \notin disturbed => target.bits = vector[target.of]
      BY <1>0, <1>1, <2>1 DEF TargetTrue
    <2>3. target.of[1] \in Spaces /\ target.of[2] \in SymbolsOf(target.of[1])'
      BY <1>0, <1>1 DEF TargetTrue, SymbolsOf
    <2> QED
      BY <1>0, <1>1, <1>2, <2>2, <2>3 DEF TargetTrue
  <1>6. ScoresTrue' /\ Filtered' /\ Ranked'
    BY <1>0, IdleTeam DEF ScoresTrue, Filtered, Ranked, RowsNamed
  <1>7. Held'
    <2>1. Room = room + links + 1 + 0 /\ room \in Nat /\ links \in Nat
      BY <1>0, IdleTeam, Parts DEF Held, CopiesReturned, HeapOK, HistOK
    <2>2. Cardinality({w \in Workers : team[w].row # None})' = 0
      BY <1>0, IdleTeam
    <2> QED
      BY <1>0, <1>2, <2>1, <2>2 DEF Held, CopiesReturned
  <1> QED
    BY <1>3, <1>4, <1>5, <1>6, <1>7

LEMMA DropStep == ASSUME IInv, Drop PROVE IInv'
  <1> USE DEF IInv
  <1>0. /\ pc = "done" /\ pc' = "idle" /\ query' = NoCall("none")
        /\ target' = NoTarget /\ work' = <<>> /\ row' = 1 /\ started' = {}
        /\ disturbed' = {} /\ earlier' = <<>>
        /\ topo' = <<>> \/ topo' = topo
        /\ UNCHANGED <<order, vector, room, team, buffer, links, stores>>
    BY DEF Drop, Goto, heap
  <1>1. \A w \in Workers : team[w].row = None
    BY <1>0 DEF RowsDealt
  <1>2. TypeOK'
    <2>1. HeapOK' /\ HistOK'
      BY <1>0, Parts DEF HeapOK, HistOK
    <2>2. CallOK' /\ TargetOK'
      BY <1>0, NoTargetOK DEF CallOK, NoCall, Call, TargetOK
    <2>3. WorkOK'
      <3>1. <<>> \in Seq(Score \cup {None})
        OBVIOUS
      <3> QED
        BY <1>0, <3>1 DEF WorkOK
    <2>5. ListOK'
      <3>1. <<>> \in Seq(Neighbour)
        OBVIOUS
      <3> QED
        BY <1>0, <3>1, Parts DEF ListOK
    <2>4. TeamOK'
      BY <1>0, <1>1, Parts DEF TeamOK
    <2> QED
      BY <2>1, <2>2, <2>3, <2>4, <2>5, Parts
  <1>3. NamesOnce' /\ RowsOfSymbols' /\ RowsDealt' /\ TeamTrue' /\ TargetTrue'
    <2>1. NamesOnce' /\ RowsOfSymbols'
      BY <1>0 DEF NamesOnce, RowsOfSymbols, InCall
    <2>2. RowsDealt'
      BY <1>0, <1>1 DEF RowsDealt, Idle
    <2>3. TargetTrue'
      BY <1>0, NoTargetOK DEF TargetTrue
    <2>4. TeamTrue'
      BY <1>0, <1>1 DEF TeamTrue, CopyTrue, Idle
    <2> QED
      BY <2>1, <2>2, <2>3, <2>4
  <1>4. ScoresTrue' /\ Ranked'
    BY <1>0 DEF ScoresTrue, Ranked
  <1>5. Filtered'
    BY <1>0 DEF Filtered, RowsNamed
  <1>6. Held'
    BY <1>0, NoTargetOK DEF Held, CopiesReturned
  <1> QED
    BY <1>2, <1>3, <1>4, <1>5, <1>6

-----------------------------------------------------------------------------
(* The team.                                                               *)

Busy == {w \in Workers : team[w].row # None}

\* Taking a row is one more at work, scoring it one less.
LEMMA Coming ==
  ASSUME NEW w \in Workers, NEW r,
         \A x \in Workers : team'[x].row = IF x = w THEN r ELSE team[x].row
  PROVE  /\ Cardinality(Busy) \in Nat /\ Cardinality(Busy') \in Nat
         /\ team[w].row = None /\ r # None
              => Cardinality(Busy') = Cardinality(Busy) + 1
         /\ team[w].row # None /\ r = None
              => Cardinality(Busy') = Cardinality(Busy) - 1
         /\ team[w].row # None /\ r # None => Busy' = Busy
  <1>1. IsFiniteSet(Busy) /\ IsFiniteSet(Busy')
    BY TopologyAssumption, FS_Subset DEF Busy
  <1>2. /\ team[w].row = None /\ r # None => Busy' = Busy \cup {w} /\ w \notin Busy
        /\ team[w].row # None /\ r = None => Busy' = Busy \ {w} /\ w \in Busy
        /\ team[w].row # None /\ r # None => Busy' = Busy
    BY DEF Busy
  <1> QED
    BY <1>1, <1>2, FS_AddElement, FS_RemoveElement, FS_CardinalityType

\* Sets of types, and what a scan keeps.
LEMMA ScanTyped ==
  ASSUME IInv, HeapOK', TeamOK', WorkOK', pc' \in {"scan", "terminated"},
         UNCHANGED <<query, target, row, topo, buffer, links, stores, started>>,
         UNCHANGED <<disturbed, earlier>>
  PROVE  TypeOK'
  <1>1. CallOK' /\ TargetOK' /\ ListOK' /\ HistOK'
    BY Parts DEF IInv, CallOK, TargetOK, ListOK, HistOK
  <1> QED
    BY <1>1, Parts

LEMMA DealtKept ==
  ASSUME RowsDealt, pc = "scan", pc' \in {"scan", "terminated"}, work' = work,
         \A x \in Workers : team'[x].row = team[x].row,
         \A x \in Workers : team[x].row = None => team'[x] = team[x]
  PROVE  RowsDealt'
  <1>1. \A x \in Workers : Idle'[x] = Idle[x]
    BY DEF Idle
  <1>2. \A x \in Workers :
          /\ team'[x].row = None => team'[x] = Idle'[x]
          /\ team'[x].row # None => /\ team'[x].row \in 1 .. Len(work)
                                   /\ work[team'[x].row] = None
    BY <1>1 DEF RowsDealt
  <1>3. \A x, y \in Workers : team'[x].row # None /\ team'[x].row = team'[y].row => x = y
    BY DEF RowsDealt
  <1> QED
    BY <1>2, <1>3 DEF RowsDealt

LEMMA TakeRowStep ==
  ASSUME IInv, NEW w \in Workers, TakeRow(w)
  PROVE  IInv'
  <1> USE DEF IInv
  <1>0. /\ pc = "scan" /\ team[w].row = None
        /\ UNCHANGED <<order, vector, query, target, work, row, topo, buffer>>
        /\ UNCHANGED <<links, stores, started, disturbed, earlier>>
    BY DEF TakeRow, hist
  <1>1. CASE ~HasRoom /\ pc' = "terminated" /\ UNCHANGED <<room, team>>
    <2>1. TypeOK'
      <3>1. HeapOK' /\ TeamOK' /\ WorkOK'
        BY <1>0, <1>1, Parts DEF HeapOK, TeamOK, WorkOK
      <3> QED
        BY <1>0, <1>1, <3>1, ScanTyped
    <2>2. NamesOnce' /\ RowsOfSymbols' /\ TeamTrue' /\ ScoresTrue'
      BY <1>0, <1>1 DEF NamesOnce, RowsOfSymbols, TeamTrue, CopyTrue, ScoresTrue, IdAt,
         InCall
    <2>5. RowsDealt'
      BY <1>0, <1>1, DealtKept
    <2>3. TargetTrue' /\ Held'
      BY <1>0, <1>1 DEF TargetTrue, SymbolsOf, Held, CopiesReturned
    <2>4. Filtered' /\ Ranked'
      BY <1>0, <1>1 DEF Filtered, Ranked, RowsNamed
    <2> QED
      BY <2>1, <2>2, <2>3, <2>4, <2>5
  <1>2. CASE HasRoom /\ room' = room - 1 /\ UNCHANGED pc
             /\ \E i \in Rows \ Taken : /\ work[i] = None
                                        /\ team' = [team EXCEPT ![w].row = i]
    <2>0. PICK i \in Rows \ Taken : work[i] = None /\ team' = [team EXCEPT ![w].row = i]
      BY <1>2
    <2>1. /\ i \in 1 .. Len(work) /\ Len(work) \in Nat
          /\ \A x \in Workers : team[x].row # i
      BY <2>0, Parts DEF Rows, Taken, WorkOK
    <2>2. /\ team' = [team EXCEPT ![w] = [row |-> i, done |-> 0, copy |-> {}]]
          /\ \A x \in Workers : team'[x] = IF x = w THEN [row |-> i, done |-> 0, copy |-> {}]
                                           ELSE team[x]
      <3>1. team \in [Workers -> [row : Nat \cup {None}, done : 0 .. ElementCount,
                                 copy : SUBSET Dims]]
        BY Parts DEF TeamOK
      <3>2. team[w] = [row |-> None, done |-> 0, copy |-> {}]
        BY <1>0 DEF RowsDealt, Idle
      <3>3. [team[w] EXCEPT !.row = i] = [row |-> i, done |-> 0, copy |-> {}]
        BY <3>2
      <3> QED
        BY <2>0, <3>1, <3>3
    <2>3. i # None
      BY <2>1, TopologyAssumption
    <2>4. TypeOK'
      <3>1. TeamOK'
        BY <1>0, <2>1, <2>2, Parts, CopyGrows DEF TeamOK, WorkOK
      <3>2. HeapOK' /\ WorkOK'
        BY <1>0, <1>2, Parts DEF HeapOK, HasRoom, WorkOK
      <3> QED
        BY <1>0, <1>2, <3>1, <3>2, ScanTyped
    <2>5. NamesOnce' /\ RowsOfSymbols' /\ ScoresTrue' /\ TargetTrue'
      BY <1>0, <1>2 DEF NamesOnce, RowsOfSymbols, ScoresTrue, TargetTrue, SymbolsOf
    <2>6. RowsDealt'
      <3>1. /\ \A x \in Workers : team'[x].row = IF x = w THEN i ELSE team[x].row
            /\ \A x \in Workers : x # w => team'[x] = team[x]
        BY <2>2
      <3>2. \A x \in Workers : Idle'[x] = Idle[x]
        BY DEF Idle
      <3>3. \A x \in Workers :
               /\ team'[x].row = None => team'[x] = Idle'[x]
               /\ team'[x].row # None => /\ team'[x].row \in 1 .. Len(work)
                                        /\ work[team'[x].row] = None
        BY <2>0, <2>1, <2>3, <3>1, <3>2 DEF RowsDealt
      <3>4. \A x, y \in Workers : team'[x].row # None /\ team'[x].row = team'[y].row => x = y
        BY <2>1, <3>1 DEF RowsDealt
      <3> QED
        BY <1>0, <1>2, <3>3, <3>4 DEF RowsDealt
    <2>7. TeamTrue'
      <3>1. vector[IdAt(i)] \cap BitsBefore(0) = {}
        BY CopyGrows
      <3> QED
        BY <1>0, <2>2, <3>1 DEF TeamTrue, CopyTrue, IdAt
    <2>8. Held'
      <3>1. Cardinality(Busy') = Cardinality(Busy) + 1 /\ Cardinality(Busy) \in Nat
        <4>1. \A x \in Workers : team'[x].row = IF x = w THEN i ELSE team[x].row
          BY <2>2
        <4> QED
          BY <1>0, <2>3, <4>1, Coming
      <3>2. Room = room + links + target.held + Cardinality(Busy)
        BY DEF Held, CopiesReturned, Busy
      <3>3. room \in Nat /\ links \in Nat /\ target.held \in Nat
        BY Parts DEF HeapOK, HistOK, TargetOK
      <3>4. CopiesReturned'
        BY <1>0, <1>2, <3>1, <3>2, <3>3 DEF CopiesReturned, Busy
      <3> QED
        BY <1>0, <1>2, <3>4 DEF Held
    <2>9. Filtered' /\ Ranked'
      BY <1>0, <1>2, ListKept
    <2> QED
      BY <2>4, <2>5, <2>6, <2>7, <2>8, <2>9
  <1> QED
    BY <1>1, <1>2 DEF TakeRow, Goto

LEMMA CopyElementStep ==
  ASSUME IInv, NEW w \in Workers, CopyElement(w)
  PROVE  IInv'
  <1> USE DEF IInv
  <1> DEFINE t == team[w]
             id == IdAt(t.row)
             copy == t.copy \cup (vector[id] \cap Element(t.done))
  <1>0. /\ pc = "scan" /\ t.row # None /\ t.done \in 0 .. ElementCount - 1
        /\ team' = [team EXCEPT ![w].done = @ + 1,
                      ![w].copy = @ \cup (vector[id] \cap Element(t.done))]
        /\ UNCHANGED <<order, vector, room, pc, query, target, work, row, topo, buffer>>
        /\ UNCHANGED <<links, stores, started, disturbed, earlier>>
    BY DEF CopyElement, Elements, heap, hist
  <1>1. /\ team'[w].row = t.row /\ team'[w].done = t.done + 1 /\ team'[w].copy = copy
        /\ \A x \in Workers : x # w => team'[x] = team[x]
    BY <1>0, Parts DEF TeamOK
  <1>2. /\ t.row \in 1 .. Len(work) /\ Len(work) \in Nat /\ Len(work) <= Len(order[query.space])
        /\ query.space \in Spaces
        /\ order[query.space] \in Seq(Names)
    BY <1>0, Parts DEF RowsDealt, RowsOfSymbols, InCall, WorkOK, HeapOK
  <1>3. id \in SymId /\ vector[id] \in SUBSET Dims
    BY <1>2, Parts DEF IdAt, SymId, HeapOK
  <1>4. TypeOK'
    <2>1. copy \in SUBSET Dims /\ t.done + 1 \in 0 .. ElementCount
      BY <1>0, <1>3, Parts, CopyGrows DEF TeamOK
    <2>2. TeamOK'
      BY <1>0, <1>1, <2>1, Parts DEF TeamOK
    <2>3. HeapOK' /\ WorkOK'
      BY <1>0, Parts DEF HeapOK, WorkOK
    <2> QED
      BY <1>0, <2>2, <2>3, ScanTyped
  <1>5. NamesOnce' /\ RowsOfSymbols' /\ ScoresTrue' /\ TargetTrue'
    BY <1>0 DEF NamesOnce, RowsOfSymbols, ScoresTrue, TargetTrue, SymbolsOf
  <1>10. /\ \A x \in Workers : team'[x].row = team[x].row
         /\ \A x \in Workers : x # w => team'[x] = team[x]
    BY <1>1
  <1>6. RowsDealt'
    BY <1>0, <1>10, DealtKept
  <1>7. TeamTrue'
    <2>1. id \notin disturbed => copy = vector[id] \cap BitsBefore(t.done + 1)
      <3>1. t.done \in Nat
        BY <1>0, CopyGrows
      <3> QED
        BY <1>0, <1>3, <3>1, CopyGrows DEF TeamTrue, CopyTrue
    <2>3. UNCHANGED <<query, order, vector, disturbed>>
      BY <1>0
    <2>2. ASSUME NEW x \in Workers PROVE CopyTrue(x)'
      <3>1. CASE x = w
        BY <1>1, <2>1, <2>3, <3>1 DEF CopyTrue, IdAt
      <3>2. CASE x # w
        <4>1. team'[x] = team[x] /\ CopyTrue(x)
          BY <1>1, <3>2 DEF TeamTrue
        <4> QED
          BY <2>3, <4>1 DEF CopyTrue, IdAt
      <3> QED
        BY <3>1, <3>2
    <2> QED
      BY <2>2 DEF TeamTrue
  <1>8. Held'
    <2>1. Busy' = Busy
      BY <1>10 DEF Busy
    <2> QED
      BY <1>0, <2>1 DEF Held, CopiesReturned, Busy
  <1>9. Filtered' /\ Ranked'
    BY <1>0, ListKept
  <1> QED
    BY <1>4, <1>5, <1>6, <1>7, <1>8, <1>9

LEMMA ScoreRowStep ==
  ASSUME IInv, NEW w \in Workers, ScoreRow(w)
  PROVE  IInv'
  <1> USE DEF IInv
  <1> DEFINE t == team[w]
             id == IdAt(t.row)
             score == Scored(id, target.bits, t.copy)
  <1>0. /\ pc = "scan" /\ t.row # None /\ t.done \notin 0 .. ElementCount - 1
        /\ work' = [work EXCEPT ![t.row] = score]
        /\ team' = [team EXCEPT ![w] = Idle[w]]
        /\ room' = room + 1
        /\ UNCHANGED <<order, vector, pc, query, target, row, topo, buffer>>
        /\ UNCHANGED <<links, stores, started, disturbed, earlier>>
    BY DEF ScoreRow, Elements, Measured, FreeCopy, hist
  <1>1. /\ t.row \in 1 .. Len(work) /\ Len(work) \in Nat /\ work[t.row] = None
        /\ Len(work) <= Len(order[query.space])
        /\ query.space \in Spaces /\ order[query.space] \in Seq(Names)
        /\ t.done = ElementCount /\ t.copy \in SUBSET Dims /\ target.bits \in SUBSET Dims
    BY <1>0, Parts, CopyGrows DEF RowsDealt, RowsOfSymbols, InCall, WorkOK, HeapOK, TeamOK,
       TargetOK
  <1>2. /\ id = <<query.space, order[query.space][t.row]>>
        /\ id \in SymId /\ vector[id] \in SUBSET Dims
    BY <1>1, Parts DEF IdAt, SymId, HeapOK
  <1>3. /\ Dimensions \in Nat
        /\ Count(t.copy) \in Nat /\ Count(target.bits) \in Nat
        /\ Inner(target.bits, t.copy) \in Nat /\ Distance(target.bits, t.copy) \in Nat
        /\ Distance(target.bits, t.copy)
             = Count(target.bits) + Count(t.copy) - 2 * Inner(target.bits, t.copy)
    BY <1>1, BitsFinite, MeasuresOfOneVector, TopologyAssumption
  <1>4. /\ score \in Score /\ score # None /\ score.of = id
        /\ score.density = Count(t.copy)
        /\ score.similarity = Dimensions - Distance(target.bits, t.copy)
        /\ score.overlap = Inner(target.bits, t.copy)
    BY <1>2, <1>3, NoneAssumption DEF Scored, Score
  <1>5. /\ work \in Seq(Score \cup {None}) /\ work' \in Seq(Score \cup {None})
        /\ Len(work') = Len(work)
        /\ \A i \in 1 .. Len(work) : work'[i] = IF i = t.row THEN score ELSE work[i]
    <2>1. work \in Seq(Score \cup {None}) /\ score \in Score \cup {None}
      BY <1>4, Parts DEF WorkOK
    <2> HIDE DEF score
    <2> QED
      BY <1>0, <1>1, <2>1, ExceptSeq
  <1>6. \A x \in Workers : team'[x] = IF x = w THEN Idle[w] ELSE team[x]
    BY <1>0, Parts DEF TeamOK
  <1>7. /\ Idle[w].row = None /\ Idle[w].done = 0 /\ Idle[w].copy = {}
        /\ Idle[w] \in [row : Nat \cup {None}, done : 0 .. ElementCount, copy : SUBSET Dims]
        /\ \A x \in Workers : Idle'[x] = Idle[x]
    BY CopyGrows DEF Idle
  <1> HIDE DEF score
  <1>8. TypeOK'
    <2>1. HeapOK' /\ WorkOK'
      BY <1>0, <1>5, Parts DEF HeapOK, WorkOK
    <2>2. TeamOK'
      <3>1. team' \in [Workers -> [row : Nat \cup {None}, done : 0 .. ElementCount,
                                  copy : SUBSET Dims]]
        BY <1>0, <1>7, Parts DEF TeamOK
      <3>2. DOMAIN work' = 1 .. Len(work) /\ DOMAIN work = 1 .. Len(work)
        BY <1>5
      <3>3. \A x \in Workers : team'[x].row \in DOMAIN work' \cup {None}
        BY <1>6, <1>7, <3>2, Parts DEF TeamOK
      <3> QED
        BY <3>1, <3>3 DEF TeamOK
    <2> QED
      BY <1>0, <2>1, <2>2, ScanTyped
  <1>9. NamesOnce' /\ TargetTrue'
    BY <1>0 DEF NamesOnce, TargetTrue, SymbolsOf
  <1>10. RowsOfSymbols'
    BY <1>0, <1>1, <1>2, <1>4, <1>5 DEF RowsOfSymbols, InCall
  <1>11. RowsDealt'
    <2>1. \A x \in Workers :
            /\ team'[x].row = None => team'[x] = Idle'[x]
            /\ team'[x].row # None => /\ team'[x].row \in 1 .. Len(work)
                                     /\ work'[team'[x].row] = None
      BY <1>0, <1>5, <1>6, <1>7 DEF RowsDealt
    <2>2. \A x, y \in Workers : team'[x].row # None /\ team'[x].row = team'[y].row => x = y
      BY <1>6, <1>7 DEF RowsDealt
    <2> QED
      BY <1>0, <1>5, <2>1, <2>2 DEF RowsDealt
  <1>12. TeamTrue'
    <2>1. UNCHANGED <<query, order, vector, disturbed>>
      BY <1>0
    <2> SUFFICES ASSUME NEW x \in Workers PROVE CopyTrue(x)'
      BY DEF TeamTrue
    <2>2. CASE x = w
      BY <1>6, <1>7, <2>2 DEF CopyTrue
    <2>3. CASE x # w
      <3>1. team'[x] = team[x] /\ CopyTrue(x)
        BY <1>6, <2>3 DEF TeamTrue
      <3> QED
        BY <2>1, <3>1 DEF CopyTrue, IdAt
    <2> QED
      BY <2>2, <2>3
  <1>13. ScoresTrue'
    <2>1. Dimensions - score.similarity
            = Count(target.bits) + score.density - 2 * score.overlap
      BY <1>3, <1>4
    <2>2. id \notin disturbed => score = Scored(id, target.bits, vector[id])
      <3>1. id \notin disturbed => t.copy = vector[id]
        BY <1>0, <1>1, <1>2, CopyGrows DEF TeamTrue, CopyTrue
      <3> QED
        BY <3>1 DEF score
    <2> QED
      BY <1>0, <1>4, <1>5, <2>1, <2>2 DEF ScoresTrue
  <1>14. Held'
    <2>1. \A x \in Workers : team'[x].row = IF x = w THEN None ELSE team[x].row
      BY <1>6, <1>7
    <2>2. Cardinality(Busy') = Cardinality(Busy) - 1 /\ Cardinality(Busy) \in Nat
      BY <1>0, <2>1, Coming
    <2>3. Room = room + links + target.held + Cardinality(Busy)
      BY DEF Held, CopiesReturned, Busy
    <2>4. room \in Nat /\ links \in Nat /\ target.held \in Nat
      BY Parts DEF HeapOK, HistOK, TargetOK
    <2>5. CopiesReturned'
      BY <1>0, <2>2, <2>3, <2>4 DEF CopiesReturned, Busy
    <2> QED
      BY <1>0, <2>5 DEF Held
  <1>15. Filtered' /\ Ranked'
    BY <1>0 DEF Filtered, Ranked, RowsNamed
  <1> QED
    BY <1>8, <1>9, <1>10, <1>11, <1>12, <1>13, <1>14, <1>15

LEMMA JoinStep == ASSUME IInv, Join PROVE IInv'
  <1> USE DEF IInv
  <1>0. /\ pc = "scan" /\ pc' = "filter" /\ \A i \in DOMAIN work : work[i] # None
        /\ UNCHANGED <<order, vector, room, query, target, work, team, row, topo, buffer>>
        /\ UNCHANGED <<links, stores, started, disturbed, earlier>>
    BY DEF Join, Goto, heap, hist
  <1>1. /\ Len(work) \in Nat /\ \A i \in 1 .. Len(work) : work[i] # None
        /\ \A w \in Workers : team[w].row = None
    BY <1>0, Parts DEF WorkOK, RowsDealt
  <1>2. TypeOK'
    <2>1. HeapOK' /\ CallOK' /\ TargetOK' /\ ListOK' /\ HistOK'
      BY <1>0, Parts DEF HeapOK, CallOK, TargetOK, ListOK, HistOK
    <2>2. WorkOK' /\ TeamOK'
      BY <1>0, Parts DEF WorkOK, TeamOK
    <2> QED
      BY <2>1, <2>2, Parts
  <1>3. NamesOnce' /\ RowsOfSymbols' /\ ScoresTrue' /\ TargetTrue'
    BY <1>0 DEF NamesOnce, RowsOfSymbols, ScoresTrue, InCall, TargetTrue, SymbolsOf
  <1>4. RowsDealt' /\ TeamTrue'
    BY <1>0, <1>1 DEF RowsDealt, TeamTrue, CopyTrue, Idle
  <1>5. Held' /\ Ranked'
    BY <1>0 DEF Held, CopiesReturned, Ranked
  <1>6. Filtered'
    <2>1. Kept = Given /\ row = 1 /\ topo = earlier
      BY <1>0 DEF Filtered, Kept, Given
    <2>2. Passed(1) = {}
      BY DEF Passed
    <2>3. Kept' = Kept /\ Given' = Given /\ Passed(1)' = Passed(1)
      BY <1>0 DEF Kept, Given, Passed, Passes
    <2> QED
      BY <1>0, <1>1, <2>1, <2>2, <2>3 DEF Filtered, RowsNamed
  <1> QED
    BY <1>2, <1>3, <1>4, <1>5, <1>6

-----------------------------------------------------------------------------
(* The filter and the sort.                                                *)

LEMMA FilterStep == ASSUME IInv, Filter PROVE IInv'
  <1> USE DEF IInv
  <1> DEFINE r == work[row]
             next == [name |-> order[query.space][row], score |-> r]
  <1>0. /\ pc = "filter" /\ row \in DOMAIN work /\ row' = row + 1
        /\ topo' = IF Passes(r) THEN Append(topo, next) ELSE topo
        /\ UNCHANGED <<order, vector, room, pc, query, target, work, team, buffer>>
        /\ UNCHANGED <<links, stores, started, disturbed, earlier>>
    BY DEF Filter, heap, hist
  <1>1. /\ Len(work) \in Nat /\ row \in 1 .. Len(work) /\ work[row] # None
        /\ Len(work) <= Len(order[query.space])
        /\ query.space \in Spaces /\ order[query.space] \in Seq(Names)
        /\ topo \in Seq(Neighbour)
    BY <1>0, Parts DEF RowsDealt, RowsOfSymbols, InCall, WorkOK, HeapOK, ListOK
  <1>2. r \in Score /\ r.of = <<query.space, order[query.space][row]>>
    BY <1>0, <1>1, Parts DEF WorkOK, RowsOfSymbols, InCall
  <1>3. next \in Neighbour /\ next.name = order[query.space][row] /\ next.score = r
        /\ r.of[2] = next.name
    BY <1>1, <1>2 DEF Neighbour
  <1> HIDE DEF next
  <1>4. topo' \in Seq(Neighbour)
    BY <1>0, <1>1, <1>3
  <1>5. TypeOK'
    <2>1. HeapOK' /\ CallOK' /\ TargetOK' /\ HistOK'
      BY <1>0, Parts DEF HeapOK, CallOK, TargetOK, HistOK
    <2>2. TeamOK'
      BY <1>0, Parts DEF TeamOK
    <2>3. WorkOK' /\ ListOK'
      BY <1>0, <1>1, <1>4, Parts DEF WorkOK, ListOK
    <2> QED
      BY <2>1, <2>2, <2>3, Parts
  <1>6. NamesOnce' /\ RowsOfSymbols' /\ ScoresTrue' /\ TargetTrue'
    BY <1>0 DEF NamesOnce, RowsOfSymbols, ScoresTrue, TargetTrue, SymbolsOf
  <1>7. RowsDealt' /\ TeamTrue'
    BY <1>0 DEF RowsDealt, TeamTrue, CopyTrue, Idle, IdAt
  <1>8. Held' /\ Ranked'
    BY <1>0 DEF Held, CopiesReturned, Ranked
  <1>10. /\ pc' = pc /\ work' = work /\ earlier' = earlier
         /\ row' \in 1 .. Len(work) + 1
    BY <1>0, <1>1
  <1>9. Filtered'
    <2>1. Given' = Given /\ Passed(row)' = Passed(row + 1)
      BY <1>0 DEF Given, Passed, Passes
    <2>2. Passed(row + 1) = IF Passes(r) THEN Passed(row) \cup {r} ELSE Passed(row)
      <3>1. \A j \in 1 .. Len(work) : j < row + 1 <=> j < row \/ j = row
        BY <1>1
      <3> QED
        BY <1>1, <3>1 DEF Passed
    <2>3. /\ Kept = Given \cup Passed(row)
          /\ RowsNamed
          /\ earlier = <<>> =>
               /\ \A k \in 1 .. Len(topo) : \E j \in 1 .. row - 1 : topo[k].score = work[j]
               /\ \A j, k \in 1 .. Len(topo) : topo[j].name = topo[k].name => j = k
      BY <1>0 DEF Filtered
    <2>4. CASE ~Passes(r)
      <3>1. topo' = topo /\ Kept' = Kept
        BY <1>0, <2>4 DEF Kept
      <3>2. Kept' = Given' \cup Passed(row)'
        BY <1>0, <2>1, <2>2, <2>3, <2>4, <3>1
      <3> QED
        BY <1>0, <1>1, <2>3, <3>1, <3>2 DEF Filtered, RowsNamed
    <2>5. CASE Passes(r)
      <3>1. /\ topo' = Append(topo, next) /\ Len(topo) \in Nat
            /\ Len(topo') = Len(topo) + 1 /\ DOMAIN topo' = 1 .. Len(topo) + 1
            /\ DOMAIN topo = 1 .. Len(topo)
            /\ \A k \in 1 .. Len(topo) : topo'[k] = topo[k]
            /\ topo'[Len(topo) + 1] = next
        BY <1>0, <1>1, <1>3, <2>5
      <3>2. Kept' = Kept \cup {r}
        BY <1>3, <3>1 DEF Kept
      <3>3. Kept' = Given' \cup Passed(row)'
        BY <1>0, <2>1, <2>2, <2>3, <2>5, <3>2
      <3>4. RowsNamed'
        BY <1>3, <2>3, <3>1 DEF RowsNamed
      <3>5. ASSUME earlier = <<>>
            PROVE  /\ \A k \in 1 .. Len(topo') : \E j \in 1 .. row : topo'[k].score = work[j]
                   /\ \A j, k \in 1 .. Len(topo') : topo'[j].name = topo'[k].name => j = k
        <4>1. \A k \in 1 .. Len(topo) : topo[k].name # next.name
          <5> SUFFICES ASSUME NEW k \in 1 .. Len(topo), topo[k].name = next.name
                       PROVE  FALSE
            OBVIOUS
          <5>1. PICK j \in 1 .. row - 1 : topo[k].score = work[j]
            BY <2>3, <3>5
          <5>2. /\ j \in 1 .. Len(work)
                /\ work[j].of = <<query.space, order[query.space][j]>>
            <6>1. j \in 1 .. Len(work)
              BY <1>1, <5>1
            <6>2. work[j] # None
              BY <1>0, <6>1 DEF RowsDealt
            <6> QED
              BY <1>0, <6>1, <6>2 DEF RowsOfSymbols, InCall
          <5>3. topo[k].name = order[query.space][j]
            BY <2>3, <3>1, <5>1, <5>2 DEF RowsNamed
          <5> QED
            BY <1>1, <1>3, <5>1, <5>2, <5>3 DEF NamesOnce
        <4>2. \A k \in 1 .. Len(topo') : \E j \in 1 .. row : topo'[k].score = work[j]
          BY <1>1, <1>3, <2>3, <3>1, <3>5
        <4>3. \A j, k \in 1 .. Len(topo') : topo'[j].name = topo'[k].name => j = k
          BY <2>3, <3>1, <3>5, <4>1
        <4> QED
          BY <4>2, <4>3
      <3> QED
        <4>1. row' - 1 = row
          BY <1>0, <1>1
        <4> QED
          BY <1>0, <1>10, <3>3, <3>4, <3>5, <4>1 DEF Filtered
    <2> QED
      BY <2>4, <2>5
  <1> QED
    BY <1>5, <1>6, <1>7, <1>8, <1>9

LEMMA RankStep == ASSUME IInv, Rank PROVE IInv'
  <1> USE DEF IInv
  <1>0. /\ pc = "filter" /\ pc' = "done" /\ row \notin DOMAIN work
        /\ query' = [query EXCEPT !.status = "AOK"]
        /\ room' = room + target.held
        /\ target' = [target EXCEPT !.held = 0]
        /\ UNCHANGED <<order, vector, work, team, row, buffer>>
        /\ UNCHANGED <<links, stores, started, disturbed, earlier>>
    BY DEF Rank, Goto, hist
  <1>1. PICK s \in Permuted(topo) : Sorted(s) /\ topo' = SubSeq(s, 1, Cut(Len(s)))
    BY DEF Rank
  <1>2. /\ query'.space = query.space /\ query'.dub = query.dub /\ query'.mlb = query.mlb
        /\ query'.cub = query.cub /\ query.cub \in Nat
    BY <1>0, Parts DEF CallOK
  <1>3. /\ target'.of = target.of /\ target'.held = 0 /\ target'.bits = target.bits
        /\ target.held \in Nat
    BY <1>0, Parts DEF TargetOK
  <1>4. topo \in Seq(Neighbour) /\ Len(work) \in Nat /\ DOMAIN work = 1 .. Len(work)
    BY Parts DEF ListOK, WorkOK
  <1>5. /\ Kept = Given \cup Passed(Len(work) + 1) /\ RowsNamed
        /\ earlier = <<>> => \A j, k \in 1 .. Len(topo) : topo[j].name = topo[k].name => j = k
    <2>1. row = Len(work) + 1
      BY <1>0, <1>4 DEF Filtered
    <2> QED
      BY <1>0, <2>1 DEF Filtered
  <1>6. /\ s \in Seq(Neighbour) /\ Len(s) = Len(topo) /\ Len(s) \in Nat
        /\ DOMAIN s = 1 .. Len(s)
    BY <1>1, <1>4, TurnedList
  <1>17. PICK turn : IsTurn(turn, topo, s)
    BY <1>1, <1>4, TurnedList
  <1>7. /\ \A i \in 1 .. Len(topo) : turn[i] \in 1 .. Len(topo) /\ s[i] = topo[turn[i]]
        /\ \A i \in 1 .. Len(topo) : \E j \in 1 .. Len(topo) : turn[j] = i
        /\ \A i, j \in 1 .. Len(topo) : turn[i] = turn[j] => i = j
    BY <1>17 DEF IsTurn
  <1> DEFINE n == Cut(Len(s))
  <1>8. n \in 0 .. Len(s) /\ n <= query.cub /\ (n < Len(s) => n = query.cub)
    BY <1>2, <1>6 DEF Cut
  <1> HIDE DEF n
  <1>9. /\ topo' \in Seq(Neighbour) /\ Len(topo') = n /\ DOMAIN topo' = 1 .. n
        /\ \A k \in 1 .. n : topo'[k] = s[k]
    BY <1>1, <1>6, <1>8, SubSeqProperties DEF n
  <1>10. TypeOK'
    <2>1. HeapOK'
      BY <1>0, <1>3, Parts DEF HeapOK
    <2>2. CallOK'
      BY <1>0, Parts DEF CallOK
    <2>3. TargetOK'
      BY <1>0, Parts DEF TargetOK
    <2>4. WorkOK' /\ TeamOK' /\ HistOK'
      BY <1>0, Parts DEF WorkOK, TeamOK, HistOK
    <2>5. ListOK'
      BY <1>0, <1>9, Parts DEF ListOK
    <2> QED
      BY <2>1, <2>2, <2>3, <2>4, <2>5, Parts
  <1>11. NamesOnce' /\ RowsOfSymbols' /\ ScoresTrue'
    BY <1>0, <1>2, <1>3 DEF NamesOnce, RowsOfSymbols, ScoresTrue, InCall
  <1>12. RowsDealt' /\ TeamTrue'
    BY <1>0 DEF RowsDealt, TeamTrue, CopyTrue, Idle
  <1>16. TargetTrue'
    BY <1>0, <1>3 DEF TargetTrue, SymbolsOf
  <1>13. Held'
    <2>1. UNCHANGED Cardinality({w \in Workers : team[w].row # None}) /\ links' = links
      BY <1>0
    <2>2. \A w \in Workers : team[w].row = None
      BY <1>0 DEF RowsDealt
    <2>3. {w \in Workers : team[w].row # None} = {}
      BY <2>2
    <2>4. Cardinality({w \in Workers : team[w].row # None}) = 0
      BY <2>3, FS_EmptySet
    <2>5. room \in Nat /\ links \in Nat
      BY Parts DEF HeapOK, HistOK
    <2> QED
      BY <1>0, <1>3, <2>1, <2>4, <2>5 DEF Held, CopiesReturned
  <1>14. Filtered'
    <2>1. ASSUME NEW k \in 1 .. n PROVE topo'[k].score.of[2] = topo'[k].name
      <3>1. topo'[k] = topo[turn[k]] /\ turn[k] \in DOMAIN topo
        <4>1. k \in 1 .. Len(topo)
          BY <1>6, <1>8
        <4>2. topo'[k] = s[k]
          BY <1>9
        <4>3. DOMAIN topo = 1 .. Len(topo)
          BY <1>4
        <4> QED
          BY <1>7, <4>1, <4>2, <4>3
      <3> QED
        BY <1>5, <3>1 DEF RowsNamed
    <2> QED
      BY <1>0, <1>9, <2>1 DEF Filtered, RowsNamed
  <1>15. Ranked'
    <2>1. /\ Given' = Given /\ Passed(Len(work) + 1)' = Passed(Len(work) + 1)
      BY <1>0, <1>2 DEF Given, Passed, Passes
    <2>2. ASSUME NEW j \in 1 .. Len(s), NEW k \in 1 .. Len(s), j < k
          PROVE  /\ s[j].score.similarity >= s[k].score.similarity
                 /\ earlier = <<>> => s[j].name # s[k].name
      <3>1. s[j] \in Neighbour /\ s[k] \in Neighbour
        BY <1>6
      <3>2. s[j].score.similarity \in Int /\ s[k].score.similarity \in Int
        BY <3>1 DEF Neighbour, Score
      <3>3. ~(s[k].score.similarity > s[j].score.similarity)
        BY <1>1, <1>6, <2>2 DEF Sorted, Before
      <3>4. earlier = <<>> => s[j].name # s[k].name
        <4>1. /\ j \in 1 .. Len(topo) /\ k \in 1 .. Len(topo) /\ j # k
          BY <1>6, <2>2
        <4>2. /\ turn[j] \in 1 .. Len(topo) /\ turn[k] \in 1 .. Len(topo)
              /\ turn[j] # turn[k]
              /\ s[j] = topo[turn[j]] /\ s[k] = topo[turn[k]]
          BY <1>7, <4>1
        <4> QED
          BY <1>5, <4>2
      <3> QED
        BY <3>2, <3>3, <3>4
    <2>3. Kept = {s[k].score : k \in 1 .. Len(s)}
      <3>1. ASSUME NEW k \in 1 .. Len(topo)
            PROVE  topo[k].score \in {s[i].score : i \in 1 .. Len(s)}
        <4>1. PICK i \in 1 .. Len(topo) : turn[i] = k
          BY <1>7
        <4>2. s[i] = topo[k] /\ i \in 1 .. Len(s)
          BY <1>6, <1>7, <4>1
        <4> QED
          BY <4>2
      <3>2. ASSUME NEW k \in 1 .. Len(s) PROVE s[k].score \in Kept
        <4>1. turn[k] \in 1 .. Len(topo) /\ s[k] = topo[turn[k]]
          BY <1>6, <1>7
        <4> QED
          BY <4>1 DEF Kept
      <3> QED
        BY <3>1, <3>2 DEF Kept
    <2>4. Kept' = {s[k].score : k \in 1 .. n}
      BY <1>9 DEF Kept
    <2>5. Kept' \subseteq Kept
      BY <1>6, <1>8, <2>3, <2>4
    <2>6. ASSUME NEW r \in Kept, r \notin Kept'
          PROVE  n = query.cub /\ \A k \in Kept' : k.similarity >= r.similarity
      <3>1. PICK m \in 1 .. Len(s) : r = s[m].score
        BY <2>3
      <3>2. m > n
        BY <1>6, <1>8, <2>4, <2>6, <3>1
      <3>3. n = query.cub
        BY <1>6, <1>8, <3>1, <3>2
      <3>4. ASSUME NEW k \in 1 .. n PROVE s[k].score.similarity >= r.similarity
        BY <1>6, <1>8, <2>2, <3>1, <3>2
      <3> QED
        BY <2>4, <3>3, <3>4
    <2>7. \A j, k \in 1 .. n : j < k =>
            /\ topo'[j].score.similarity >= topo'[k].score.similarity
            /\ earlier = <<>> => topo'[j].name # topo'[k].name
      BY <1>6, <1>8, <1>9, <2>2
    <2> QED
      BY <1>0, <1>2, <1>5, <1>8, <1>9, <2>1, <2>5, <2>6, <2>7 DEF Ranked
  <1> QED
    BY <1>10, <1>11, <1>12, <1>13, <1>14, <1>15, <1>16

-----------------------------------------------------------------------------
(* The invariants of the runs.                                             *)

LEMMA IInvStep == ASSUME IInv, [Next]_vars PROVE IInv'
  <1>1. CASE UNCHANGED vars
    BY <1>1, StutterStep
  <1>2. CASE Thread
    BY <1>2, CopyTargetStep, ForkStep, CopyOutStep, JoinStep, FilterStep, RankStep,
       TakeRowStep, CopyElementStep, ScoreRowStep DEF Thread, Team
  <1>3. CASE Ask
    BY <1>3, AskByNameStep, AskByVectorStep DEF Ask
  <1>4. CASE Load \/ LoadElemental
    BY <1>4, LoadVectorStep, LoadElementalStep DEF Load
  <1>5. CASE Drop \/ Link \/ Store
    BY <1>5, DropStep, LinkStep, StoreStep
  <1> QED
    BY <1>1, <1>2, <1>3, <1>4, <1>5 DEF Next

LEMMA IInvHolds == Spec => []IInv
  BY IInvInit, IInvStep, PTL DEF Spec

(* The measures of a row are of one vector, and true ones if nobody has    *)
(* stored to it (manifold.cpp:138-151, 203-215).                           *)
THEOREM RowsAreTrue == Spec => []RowsAgree
  <1>1. IInv => RowsAgree
    <2> SUFFICES ASSUME IInv PROVE RowsAgree
      OBVIOUS
    <2>1. DOMAIN work = 1 .. Len(work)
      BY Parts DEF IInv, WorkOK
    <2> QED
      BY <2>1 DEF IInv, RowsAgree, ScoresTrue, TargetTrue
  <1> QED
    BY <1>1, IInvHolds, PTL

(* A neighbour bears the name of the symbol it was scored for              *)
(* (manifold.cpp:203, 221-225).                                            *)
THEOREM NamesAreTrue == Spec => []RowsNamed
  BY IInvHolds, PTL DEF IInv, Filtered

(* The result is the top of the rows that passed and of those the list     *)
(* held before (manifold.cpp:218-237).                                     *)
THEOREM BestComeFirst == Spec => []BestFirst
  <1>1. IInv => BestFirst
    <2> SUFFICES ASSUME IInv, pc = "done" PROVE BestFirst
      BY DEF BestFirst
    <2>1. /\ DOMAIN work = 1 .. Len(work) /\ Len(work) \in Nat
          /\ DOMAIN topo = 1 .. Len(topo) /\ DOMAIN earlier = 1 .. Len(earlier)
      BY Parts DEF IInv, WorkOK, ListOK
    <2>2. /\ {work[i] : i \in {j \in DOMAIN work : /\ work[j].density <= query.dub
                                                  /\ work[j].similarity >= query.mlb}}
               = Passed(Len(work) + 1)
          /\ {topo[k].score : k \in DOMAIN topo} = Kept
          /\ {earlier[k].score : k \in DOMAIN earlier} = Given
      BY <2>1 DEF Passed, Passes, Kept, Given
    <2> QED
      BY <2>1, <2>2 DEF BestFirst, Ranked, IInv
  <1> QED
    BY <1>1, IInvHolds, PTL

(* When the loop has ended each symbol of the space as it was at the       *)
(* beginning has a row, and nothing else has; and every variable has its   *)
(* type (manifold.cpp:185, 201-207, 270-276).                              *)
THEOREM EveryoneScored == Spec => []AllScored
  <1>1. IInv => AllScored
    <2> SUFFICES ASSUME IInv, pc \in {"filter", "done"}
                 PROVE  /\ {work[i].of : i \in DOMAIN work} = {query.space} \X started
                        /\ Len(work) = Cardinality(started)
      BY DEF AllScored, IInv
    <2> DEFINE sp == query.space
               symbol == [i \in 1 .. Len(work) |-> order[sp][i]]
    <2>1. /\ DOMAIN work = 1 .. Len(work) /\ Len(work) \in Nat
          /\ sp \in Spaces /\ Len(work) <= Len(order[sp]) /\ Len(order[sp]) \in Nat
          /\ started = {order[sp][i] : i \in 1 .. Len(work)}
          /\ \A i \in 1 .. Len(work) : work[i].of = <<sp, order[sp][i]>>
      <3>1. DOMAIN work = 1 .. Len(work) /\ Len(work) \in Nat
        BY Parts DEF IInv, WorkOK
      <3>2. /\ sp \in Spaces /\ Len(work) <= Len(order[sp])
            /\ started = {order[sp][i] : i \in 1 .. Len(work)}
            /\ \A i \in 1 .. Len(work) : work[i].of = <<sp, order[sp][i]>>
        BY DEF IInv, RowsOfSymbols, RowsDealt, InCall
      <3>3. Len(order[sp]) \in Nat
        BY <3>2, Parts DEF IInv, HeapOK
      <3> QED
        BY <3>1, <3>2, <3>3
    <2>2. {work[i].of : i \in DOMAIN work} = {sp} \X started
      <3>1. {work[i].of : i \in DOMAIN work} = {<<sp, order[sp][i]>> : i \in 1 .. Len(work)}
        BY <2>1
      <3>2. {<<sp, order[sp][i]>> : i \in 1 .. Len(work)} = {sp} \X started
        BY <2>1
      <3> QED
        BY <3>1, <3>2
    <2>3. symbol \in Bijection(1 .. Len(work), started)
      <3>1. symbol \in Surjection(1 .. Len(work), started)
        BY <2>1 DEF Surjection
      <3>2. symbol \in Injection(1 .. Len(work), started)
        BY <2>1 DEF Injection, IsInjective, IInv, NamesOnce
      <3> QED
        BY <3>1, <3>2 DEF Bijection
    <2>4. Cardinality(started) = Cardinality(1 .. Len(work))
      BY <2>1, <2>3, FS_Interval, FS_Bijection DEF ExistsBijection
    <2> QED
      <3>1. Cardinality(1 .. Len(work)) = Len(work)
        <4>1. Len(work) \in Int /\ 1 \in Int
          BY <2>1
        <4>2. Cardinality(1 .. Len(work)) = IF 1 > Len(work) THEN 0 ELSE Len(work) - 1 + 1
          BY <4>1, FS_Interval, Zenon
        <4> QED
          BY <2>1, <4>2
      <3> QED
        BY <2>2, <2>4, <3>1
  <1> QED
    BY <1>1, IInvHolds, PTL

(* The copies made in the heap are given back (manifold.cpp:148-150, 195,  *)
(* 203).                                                                   *)
THEOREM CopiesComeBack == Spec => []CopiesReturned
  BY IInvHolds, PTL DEF IInv, Held

=============================================================================
