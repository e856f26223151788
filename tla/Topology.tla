------------------------------ MODULE Topology ------------------------------
(* manifold::get_topology (rtl/manifold.cpp): the nearest neighbours of a  *)
(* vector in a space.  The caller's thread counts the symbols, forks a     *)
(* team that scores one row of a work array per symbol, each from a copy   *)
(* of the symbol's vector made in the heap, and then filters, sorts and    *)
(* cuts the rows, with those that were in the caller's list before.  The   *)
(* vector may be one that the caller has had from load_vector, of the same *)
(* file, which the C interface exports as sdm_load_vector.  Other          *)
(* processes go on linking symbols into the space and storing elements of  *)
(* the vectors all the while.                                              *)
(*                                                                         *)
(* A measure is a count of bits: the code divides it by Dimensions.  An    *)
(* operator that stands directly before a definition and is used by none   *)
(* is a wrong version of it, for the mutants PROJECT.json lists.           *)
EXTENDS Integers, Sequences, FiniteSets

CONSTANTS
  Spaces,         \* names of spaces
  Cached,         \* those the caller's run time cache holds
  Asked,          \* names of spaces it gives, those of no space among them
  Names,          \* names of symbols
  Dimensions,     \* bits of a vector
  ElementBits,    \* bits of an element of the array that stores it
  Workers,        \* the team of the parallel loop
  Images,         \* the images a query may find: records of order and vector
  Queries,        \* what a caller's array holds at first
  DensityBounds,  \* dub: the upper bounds of density they pass, as counts
  MetricBounds,   \* mlb: the lower bounds of similarity, as counts
  Cuts,           \* cub: the upper bounds of the number of neighbours
  Room,           \* copies of a vector the heap has room for at first
  MaxStores,      \* bound: elements other processes store
  MaxKept,        \* bound: rows in the list a caller has filled once more
  None

Dims == 0 .. Dimensions - 1
ElementCount == Dimensions \div ElementBits
Elements == 0 .. ElementCount - 1
Element(e) == {d \in Dims : d \div ElementBits = e}
SymId == Spaces \X Names

\* A row of the work array, and a row of the caller's list.
Score == [of : SymId, density : Nat, similarity : Int, overlap : Nat]
Neighbour == [name : Names, score : Score]

ASSUME TopologyAssumption ==
  /\ Cached \subseteq Spaces
  /\ Dimensions \in Nat \ {0}
  /\ ElementBits \in Nat \ {0}
  /\ Dimensions % ElementBits = 0
  /\ IsFiniteSet(Workers)
  /\ Queries \subseteq SUBSET Dims
  /\ DensityBounds \subseteq Nat
  /\ MetricBounds \subseteq Nat
  /\ Cuts \subseteq Nat
  /\ Room \in Nat
  /\ MaxStores \in Nat
  /\ MaxKept \in Nat
  /\ None \notin Spaces \cup Names \cup Workers \cup Nat

ASSUME NoneAssumption == None \notin SymId \cup Score

\* An image lists the symbols of each space once, in the order of insertion.
ASSUME ImagesAssumption ==
  \A image \in Images :
     /\ image.order \in [Spaces -> Seq(Names)]
     /\ image.vector \in [SymId -> SUBSET Dims]
     /\ \A sp \in Spaces : \A i, j \in 1 .. Len(image.order[sp]) :
           image.order[sp][i] = image.order[sp][j] => i = j

VARIABLES
  order,      \* [space]: its symbols in the order of the random access index
  vector,     \* [id]: the semantic vector in the heap
  room,       \* vectors the heap still has room for
  pc,         \* the caller's thread
  query,      \* the arguments of its call, and the status it returns
  target,     \* its copy of the vector whose neighbours it wants, elements
              \* copied, and whether the copy is in the heap
  work,       \* rows scored, by position, None before
  team,       \* [worker]: the row it is at, elements copied, and the copy
  row,        \* the row the filter is at
  topo,       \* the caller's list, and the result
  buffer,     \* the caller's array for a vector
  links,      \* history: symbols linked by other processes
  stores,     \* history: elements they stored
  started,    \* history: the symbols of the space when the call began
  disturbed,  \* history: symbols whose vectors were stored to since then
  earlier     \* history: the caller's list when the call began

heap  == <<order, vector, room>>
state == <<pc, query, target, work, team, row, topo, buffer>>
hist  == <<links, stores, started, disturbed, earlier>>
vars  == <<heap, state, hist>>

-----------------------------------------------------------------------------
(* Measures: bitvector.hpp and ephemeral_vector.hpp.                       *)

Count(v)       == Cardinality(v)
Distance(t, v) == Cardinality((t \ v) \cup (v \ t))
Inner(t, v)    == Cardinality(t \cap v)

\* What one turn of the loop writes to work: density, similarity, overlap.
Scored(id, t, v) ==
  [of |-> id, density |-> Count(v), similarity |-> Dimensions - Distance(t, v),
   overlap |-> Inner(t, v)]

ToSet(s) == {s[i] : i \in DOMAIN s}

\* An allocation of one more vector in the heap succeeds.
HasRoom == room > 0

-----------------------------------------------------------------------------
(* Other processes.                                                        *)

\* A linked symbol is the last of the random access index.
LinkedFirst(symbols, name) == <<name>> \o symbols
Linked(symbols, name) == Append(symbols, name)

Link ==
  /\ HasRoom
  /\ \E sp \in Spaces : \E name \in Names \ ToSet(order[sp]) :
        /\ order' = [order EXCEPT ![sp] = Linked(@, name)]
        /\ vector' = [vector EXCEPT ![<<sp, name>>] = {}]
  /\ room' = room - 1
  /\ links' = links + 1
  /\ UNCHANGED <<state, stores, started, disturbed, earlier>>

\* A lesson stores one element with one bit set or cleared.
Store ==
  /\ stores < MaxStores
  /\ \E sp \in Spaces : \E name \in ToSet(order[sp]), bit \in Dims :
        LET id == <<sp, name>>
        IN /\ \/ vector' = [vector EXCEPT ![id] = @ \cup {bit}]
              \/ vector' = [vector EXCEPT ![id] = @ \ {bit}]
           /\ disturbed' = disturbed \cup {id}
  /\ vector' # vector
  /\ stores' = stores + 1
  /\ UNCHANGED <<order, room, state, links, started, earlier>>

-----------------------------------------------------------------------------
(* The caller's thread.                                                    *)

Idle == [w \in Workers |-> [row |-> None, done |-> 0, copy |-> {}]]

Goto(step) == pc' = step

Call(asked, sp, dub, mlb, cub, status) ==
  [asked |-> asked, space |-> sp, dub |-> dub, mlb |-> mlb, cub |-> cub,
   status |-> status]

NoCall(status) == Call(None, None, 0, 0, 0, status)

NoTarget == [of |-> None, held |-> 0, done |-> 0, bits |-> {}]

\* svector(vector): a copy of the caller's array, outside the heap.
Wrapped(array) == [NoTarget EXCEPT !.bits = array]

\* sym->vector() is a copy: memory for it is had in the heap.
HeapCopy(id) == [of |-> id, held |-> 1, done |-> 0, bits |-> {}]

\* The call ends before it has looked at a row.
Fail(status) ==
  /\ query' = NoCall(status)
  /\ target' = NoTarget
  /\ UNCHANGED <<heap, pc, work, team, row, topo, buffer, hist>>

\* The rows are as many as the space has symbols now.
EntriesLess(sp) == Len(order[sp]) - 1
Entries(sp) == Len(order[sp])

Begin(sp) ==
  /\ started' = ToSet(order[sp])
  /\ disturbed' = {}
  /\ work' = [i \in 1 .. Entries(sp) |-> None]
  /\ row' = 1
  /\ earlier' = topo
  /\ UNCHANGED <<order, vector, team, topo, buffer, links, stores>>

\* get_topology by name.  The source space too is looked up by the name of
\* the target space.  bad_alloc from the copy of the vector is the caller's.
AskByName(ts, ss, name, dub, mlb, cub) ==
  /\ pc = "idle"
  /\ \/ /\ ts \notin Cached
        /\ Fail("ESPACE")
     \/ /\ ts \in Cached
        /\ name \notin ToSet(order[ts])
        /\ Fail("ESYMBOL")
     \/ /\ ts \in Cached
        /\ name \in ToSet(order[ts])
        /\ ~HasRoom
        /\ Fail("throws")
     \/ /\ ts \in Cached
        /\ name \in ToSet(order[ts])
        /\ HasRoom
        /\ Begin(ts)
        /\ query' = Call(<<ss, name>>, ts, dub, mlb, cub, "none")
        /\ target' = HeapCopy(<<ts, name>>)
        /\ room' = room - 1
        /\ Goto("copy")

\* get_topology by vector.
AskByVector(ts, dub, mlb, cub) ==
  /\ pc = "idle"
  /\ \/ /\ ts \notin Cached
        /\ Fail("ESPACE")
     \/ /\ ts \in Cached
        /\ Begin(ts)
        /\ query' = Call(None, ts, dub, mlb, cub, "none")
        /\ target' = Wrapped(buffer)
        /\ Goto("scan")
        /\ UNCHANGED room

Ask ==
  \E ts \in Asked, dub \in DensityBounds, mlb \in MetricBounds, cub \in Cuts :
     \/ \E ss \in Spaces, name \in Names : AskByName(ts, ss, name, dub, mlb, cub)
     \/ AskByVector(ts, dub, mlb, cub)

\* load_vector; what it does not find leaves the caller's array as it was.
LoadVector(sp, name) ==
  /\ pc = "idle"
  /\ \/ /\ sp \notin Cached
        /\ Fail("ESPACE")
     \/ /\ sp \in Cached
        /\ name \notin ToSet(order[sp])
        /\ Fail("ESYMBOL")
     \/ /\ sp \in Cached
        /\ name \in ToSet(order[sp])
        /\ ~HasRoom
        /\ Fail("throws")
     \/ /\ sp \in Cached
        /\ name \in ToSet(order[sp])
        /\ HasRoom
        /\ query' = NoCall("none")
        /\ target' = HeapCopy(<<sp, name>>)
        /\ room' = room - 1
        /\ disturbed' = {}
        /\ Goto("load")
        /\ UNCHANGED <<order, vector, work, team, row, topo, buffer, links, stores,
                       started, earlier>>

Load == \E sp \in Asked, name \in Names : LoadVector(sp, name)

\* load_elemental copies a fingerprint, which nobody changes, by way of a copy
\* in the heap that is gone by its end.
LoadElemental ==
  /\ pc = "idle"
  /\ \E sp \in Asked, name \in Names :
        Fail(IF sp \notin Cached THEN "ESPACE"
             ELSE IF name \notin ToSet(order[sp]) THEN "ESYMBOL"
             ELSE IF ~HasRoom THEN "throws"
             ELSE "AOK")

\* The copy is made one element after another.
CopyTarget ==
  /\ pc \in {"copy", "load"}
  /\ target.done \in Elements
  /\ target' = [target EXCEPT !.done = @ + 1,
                  !.bits = @ \cup (vector[target.of] \cap Element(target.done))]
  /\ UNCHANGED <<heap, pc, query, work, team, row, topo, buffer, hist>>

\* The team is forked.
Fork ==
  /\ pc = "copy"
  /\ target.done \notin Elements
  /\ Goto("scan")
  /\ UNCHANGED <<heap, query, target, work, team, row, topo, buffer, hist>>

\* copyto, and the copy in the heap goes out of scope.
CopyOut ==
  /\ pc = "load"
  /\ target.done \notin Elements
  /\ buffer' = target.bits
  /\ query' = NoCall("AOK")
  /\ room' = room + 1
  /\ target' = [NoTarget EXCEPT !.of = target.of]
  /\ Goto("idle")
  /\ UNCHANGED <<order, vector, work, team, row, topo, hist>>

-----------------------------------------------------------------------------
(* The team.  Which worker takes which row is left to the runtime.         *)

RowsButLast == 1 .. Len(work) - 1
Rows == DOMAIN work

Taken == {team[w].row : w \in Workers}

\* symbol_at(i).vector() makes a copy in the heap.  bad_alloc does not leave
\* a parallel region: the process ends, and the copies stay in the image.
TakeRow(w) ==
  /\ pc = "scan"
  /\ team[w].row = None
  /\ \E i \in Rows \ Taken :
        /\ work[i] = None
        /\ \/ /\ HasRoom
              /\ room' = room - 1
              /\ team' = [team EXCEPT ![w].row = i]
              /\ UNCHANGED pc
           \/ /\ ~HasRoom
              /\ Goto("terminated")
              /\ UNCHANGED <<room, team>>
  /\ UNCHANGED <<order, vector, query, target, work, row, topo, buffer, hist>>

IdAt(i) == <<query.space, order[query.space][i]>>

CopyElement(w) ==
  LET t == team[w]
  IN /\ pc = "scan"
     /\ t.row # None
     /\ t.done \in Elements
     /\ team' = [team EXCEPT ![w].done = @ + 1,
                   ![w].copy = @ \cup (vector[IdAt(t.row)] \cap Element(t.done))]
     /\ UNCHANGED <<heap, pc, query, target, work, row, topo, buffer, hist>>

MeasuredLive(t) ==
  [Scored(IdAt(t.row), target.bits, t.copy)
     EXCEPT !.density = Count(vector[IdAt(t.row)])]
Measured(t) == Scored(IdAt(t.row), target.bits, t.copy)

KeepCopy == room
FreeCopy == room + 1

ScoreRow(w) ==
  LET t == team[w]
  IN /\ pc = "scan"
     /\ t.row # None
     /\ t.done \notin Elements
     /\ work' = [work EXCEPT ![t.row] = Measured(t)]
     /\ team' = [team EXCEPT ![w] = Idle[w]]
     /\ room' = FreeCopy
     /\ UNCHANGED <<order, vector, pc, query, target, row, topo, buffer, hist>>

-----------------------------------------------------------------------------
(* The caller's thread again.                                              *)

\* The end of the parallel loop is a barrier.
Join ==
  /\ pc = "scan"
  /\ \A i \in DOMAIN work : work[i] # None
  /\ Goto("filter")
  /\ UNCHANGED <<heap, query, target, work, team, row, topo, buffer, hist>>

Passes(r) == r.density <= query.dub /\ r.similarity >= query.mlb

\* The p-d-filter; the name of a row is read from the space only here.
Filter ==
  /\ pc = "filter"
  /\ row \in DOMAIN work
  /\ topo' = IF Passes(work[row])
             THEN Append(topo, [name |-> order[query.space][row],
                                score |-> work[row]])
             ELSE topo
  /\ row' = row + 1
  /\ UNCHANGED <<heap, pc, query, target, work, team, buffer, hist>>

\* neighbour::operator< puts the more similar first; sort is not stable.
BeforeReversed(a, b) == a.score.similarity < b.score.similarity
Before(a, b) == a.score.similarity > b.score.similarity

Sorted(s) == \A i, j \in DOMAIN s : i < j => ~Before(s[j], s[i])

Turns(D) == {turn \in [D -> D] : \A i \in D : \E j \in D : turn[j] = i}

Permuted(s) ==
  {[i \in DOMAIN s |-> s[turn[i]]] : turn \in Turns(DOMAIN s)}

Cut(n) == IF query.cub < n THEN query.cub ELSE n

\* sort, erase, and the copy of the target goes out of scope.
Rank ==
  /\ pc = "filter"
  /\ row \notin DOMAIN work
  /\ \E s \in Permuted(topo) :
        /\ Sorted(s)
        /\ topo' = SubSeq(s, 1, Cut(Len(s)))
  /\ query' = [query EXCEPT !.status = "AOK"]
  /\ room' = room + target.held
  /\ target' = [target EXCEPT !.held = 0]
  /\ Goto("done")
  /\ UNCHANGED <<order, vector, work, team, row, buffer, hist>>

\* The caller drops the result, or passes the list again as it is.
Drop ==
  /\ pc = "done"
  /\ Goto("idle")
  /\ query' = NoCall("none")
  /\ target' = NoTarget
  /\ work' = <<>>
  /\ row' = 1
  /\ started' = {}
  /\ disturbed' = {}
  /\ earlier' = <<>>
  /\ \/ topo' = <<>>
     \/ /\ Len(topo) <= MaxKept
        /\ UNCHANGED topo
  /\ UNCHANGED <<heap, team, buffer, links, stores>>

-----------------------------------------------------------------------------

Init ==
  /\ \E image \in Images :
        /\ order = image.order
        /\ vector = image.vector
  /\ room = Room
  /\ pc = "idle"
  /\ query = NoCall("none")
  /\ target = NoTarget
  /\ work = <<>>
  /\ team = Idle
  /\ row = 1
  /\ topo = <<>>
  /\ buffer \in Queries
  /\ links = 0
  /\ stores = 0
  /\ started = {}
  /\ disturbed = {}
  /\ earlier = <<>>

Team(w) == TakeRow(w) \/ CopyElement(w) \/ ScoreRow(w)

Thread ==
  \/ CopyTarget
  \/ Fork
  \/ CopyOut
  \/ Join
  \/ Filter
  \/ Rank
  \/ \E w \in Workers : Team(w)

Next == Thread \/ Ask \/ Load \/ LoadElemental \/ Drop \/ Link \/ Store

Spec == Init /\ [][Next]_vars

\* A call that has begun is scheduled: the thread and its team do not wait.
FairSpec == Spec /\ WF_vars(Thread)

-----------------------------------------------------------------------------

TypeOK ==
  /\ order \in [Spaces -> Seq(Names)]
  /\ vector \in [SymId -> SUBSET Dims]
  /\ room \in Nat
  /\ pc \in {"idle", "copy", "load", "scan", "filter", "done", "terminated"}
  /\ query \in [asked : SymId \cup {None}, space : (Spaces \cap Asked) \cup {None},
               dub : Nat, mlb : Nat, cub : Nat,
               status : {"none", "AOK", "ESPACE", "ESYMBOL", "throws"}]
  /\ target \in [of : SymId \cup {None}, held : {0, 1}, done : 0 .. ElementCount,
                bits : SUBSET Dims]
  /\ work \in Seq(Score \cup {None})
  /\ team \in [Workers -> [row : Nat \cup {None}, done : 0 .. ElementCount,
                          copy : SUBSET Dims]]
  /\ \A w \in Workers : team[w].row \in DOMAIN work \cup {None}
  /\ row \in Nat
  /\ topo \in Seq(Neighbour)
  /\ buffer \subseteq Dims
  /\ links \in Nat
  /\ stores \in 0 .. MaxStores
  /\ started \subseteq Names
  /\ disturbed \subseteq SymId
  /\ earlier \in Seq(Neighbour)

(* The scores of a row are true: its three measures are of one vector,     *)
(* though others store into it while it is copied, so that distance =      *)
(* density + density of the target - 2 * overlap; and those of a symbol    *)
(* nobody stored to during the call are those of its vector, as are the    *)
(* copy of the target and what load_vector has copied out.  However the    *)
(* rows are dealt to the team, no copy is cut short or mixed with another  *)
(* (manifold.cpp:138-151, 195, 202-216).                                   *)
RowsAgree ==
  /\ \A i \in DOMAIN work :
        work[i] # None =>
          /\ Dimensions - work[i].similarity
               = Count(target.bits) + work[i].density - 2 * work[i].overlap
          /\ work[i].of \notin disturbed
               => work[i] = Scored(work[i].of, target.bits, vector[work[i].of])
  /\ target.of # None /\ target.of \notin disturbed =>
        /\ pc = "scan" => target.bits = vector[target.of]
        /\ pc = "idle" => buffer = vector[target.of]

(* A neighbour bears the name of the symbol its scores are of: the name is *)
(* read after the scan, by position, and symbols were linked in between    *)
(* (manifold.cpp:212, 221-229).                                            *)
RowsNamed ==
  \A k \in DOMAIN topo : topo[k].score.of[2] = topo[k].name

(* The result is the top of the reference, which is what passed the filter *)
(* with what the caller's list held: it is in order, every row of it is    *)
(* one of these, from an empty list no symbol comes twice, and a row that  *)
(* was left out is no better than any that was kept, of which there are as *)
(* many as were asked for (manifold.cpp:220-239).                          *)
BestFirst ==
  pc = "done" =>
    LET passed == {work[i] : i \in {j \in DOMAIN work :
                                       /\ work[j].density <= query.dub
                                       /\ work[j].similarity >= query.mlb}}
        kept   == {topo[k].score : k \in DOMAIN topo}
        given  == {earlier[k].score : k \in DOMAIN earlier}
    IN /\ \A j, k \in DOMAIN topo :
             j < k => /\ topo[j].score.similarity >= topo[k].score.similarity
                      /\ earlier = <<>> => topo[j].name # topo[k].name
       /\ kept \subseteq passed \cup given
       /\ Len(topo) <= query.cub
       /\ \A r \in (passed \cup given) \ kept :
             /\ Len(topo) = query.cub
             /\ \A k \in kept : k.similarity >= r.similarity

(* Every symbol that was in the space when the call began is scored, once, *)
(* and so is nothing else: no row is skipped or taken twice by the team    *)
(* (manifold.cpp:186, 201-216, 269-284).                                   *)
AllScored ==
  /\ TypeOK
  /\ pc \in {"filter", "done"} =>
       /\ {work[i].of : i \in DOMAIN work} = {query.space} \X started
       /\ Len(work) = Cardinality(started)

(* Reading leaves the heap as it was: every copy made in it is given back, *)
(* but for those that a process held when it ended (manifold.cpp:148-150,  *)
(* 195, 203, 212).                                                         *)
CopiesReturned ==
  Room = room + links + target.held
              + Cardinality({w \in Workers : team[w].row # None})

(* A call that has begun comes to its end: the barrier is always reached.  *)
CallEnds ==
  pc \in {"copy", "load", "scan", "filter"} ~> pc \in {"idle", "done", "terminated"}

-----------------------------------------------------------------------------

(* "get source space" (manifold.cpp:188): the vector whose neighbours are  *)
(* found is that of the symbol named in the source space.                  *)
SourceSpaceUsed ==
  pc = "done" /\ query.asked # None => target.of = query.asked

=============================================================================
