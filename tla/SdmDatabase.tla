---------------------------- MODULE SdmDatabase ----------------------------
(***************************************************************************)
(* sdm::database (rtl/database.cpp) over sdm::manifold (rtl/manifold.cpp)  *)
(* and mms::symbol_space / mms::symbol: a memory mapped image holding      *)
(* named symbol tables, and processes that map it, keep a run time cache   *)
(* of pointers to the tables, and learn by superposing fingerprints.       *)
(*                                                                         *)
(* Each process is single threaded.  A call is cut into the operations on  *)
(* the shared image it makes, one step each: ensure a space, look a symbol *)
(* up, construct a symbol in the heap, link it into the index, load one    *)
(* element of the target vector, store it back.  Between two steps the     *)
(* process may die, and the steps of other processes may come: nothing in  *)
(* the code locks more than one operation.                                 *)
(*                                                                         *)
(* An operator that stands directly before a definition and is used by     *)
(* none is a wrong version of it, for the mutants PROJECT.json lists.      *)
(***************************************************************************)
EXTENDS Integers, FiniteSets

CONSTANTS
  Procs,          \* processes that may map the image
  Spaces,         \* names of spaces
  Hidden,         \* the space names that start with '_'
  Names,          \* names of symbols
  LongNames,      \* the names too long for the string's inline buffer
  SymId,          \* the <<space, name>> pairs the callers use
  Dimensions,     \* bits of a semantic vector
  ElementBits,    \* bits of an element of the array that stores it
  BasisSize,      \* elements of a fingerprint (elemental_bits)
  MaxShuffles,    \* bound: fingerprints drawn by one process in a session
  Shuffles,       \* k |-> the k-th fingerprint drawn after seeding
  DitherScale,    \* a dither d stands for the probability d / DitherScale
  Dithers,        \* dithers the callers of namedvector pass
  Shifts,         \* shifts the callers of superpose pass
  HeapSize,       \* units of memory in the image
  SpaceCost,      \* units an empty symbol table takes
  SymbolCost,     \* units a symbol takes: its node, fingerprint and vector
  NameCost,       \* units a long name takes besides
  Compactors,     \* the processes that compact the image when they close it
  Targets,        \* bound: the symbols the callers of superpose teach
  Askers,         \* bound: the processes whose users ask and subtract
  MaxOpens,       \* bound: sessions, over all processes
  None

Dims == 0 .. Dimensions - 1
Positions == 1 .. BasisSize
Fingerprint == [Positions -> Dims]

ASSUME NameAssumption ==
  /\ Hidden \subseteq Spaces
  /\ LongNames \subseteq Names
  /\ SymId \subseteq Spaces \X Names
  /\ SymId # {}
  /\ Targets \subseteq SymId

ASSUME VectorAssumption ==
  /\ Dimensions \in Nat \ {0}
  /\ ElementBits \in Nat \ {0}
  /\ Dimensions % ElementBits = 0
  /\ BasisSize \in Nat \ {0}
  /\ DitherScale \in Nat \ {0}
  /\ Dithers \subseteq 0 .. DitherScale
  /\ Shifts \subseteq Int

(* A shuffle orders all the dimensions and the fingerprint is its first    *)
(* BasisSize entries: they differ from one another, and two draws of one   *)
(* generator are taken to differ.                                          *)
ASSUME ShuffleAssumption ==
  /\ MaxShuffles \in Nat
  /\ Shuffles \in [1 .. MaxShuffles -> Fingerprint]
  /\ \A k \in 1 .. MaxShuffles : \A i, j \in Positions :
        Shuffles[k][i] = Shuffles[k][j] => i = j
  /\ \A j, k \in 1 .. MaxShuffles : Shuffles[j] = Shuffles[k] => j = k

ASSUME HeapAssumption ==
  /\ HeapSize \in Nat
  /\ SpaceCost \in Nat \ {0}
  /\ SymbolCost \in Nat \ {0}
  /\ NameCost \in Nat
  /\ Compactors \subseteq Procs
  /\ Askers \subseteq Procs
  /\ MaxOpens \in Nat

ASSUME NoneAssumption == None \notin Fingerprint

VARIABLES
  \* the image
  tables,         \* names of the symbol tables constructed in it
  index,          \* symbols linked into the tables
  basis,          \* fingerprint of each symbol, None before it is linked
  dither,         \* its _dither
  vector,         \* its semantic vector, as the set of the bits that are set
  size, free,     \* memory of the segment: in all, and not allocated
  \* the processes
  pc,             \* the step a process takes next
  cache,          \* manifold::spaces, the names it holds pointers for
  shuffles,       \* fingerprints its generator has drawn
  call,           \* the call it is in, or the last one with its result
  \* history
  opens,          \* sessions opened so far
  session,        \* the session a process is in, 0 if none
  born,           \* the session a symbol was linked in, 0 before
  lessons,        \* [target][source]: positions of source applied to target
  contested,      \* targets that two processes were writing at once
  leaked          \* units lost with processes that died holding them

image   == <<tables, index, basis, dither, vector>>
memory  == <<size, free, leaked>>
private == <<pc, cache, shuffles, call>>
history == <<opens, session, born, lessons, contested>>
vars == <<image, memory, private, history>>

-----------------------------------------------------------------------------

SpaceOf(id) == id[1]
NameOf(id)  == id[2]

\* An allocation of that many units does not throw bad_alloc.
FitsUnchecked(units) == TRUE
Fits(units) == free >= units

\* mms::symbol's constructor: the node, fingerprint, vector and long name.
PriceNameless(id) == SymbolCost
Price(id) == SymbolCost + (IF NameOf(id) \in LongNames THEN NameCost ELSE 0)

\* h of mms::symbol::superpose: how many leading positions are set.
Heads(d) == (d * BasisSize) \div DitherScale

\* A lookup by name builds a shared_string_t key, in the heap if it is long.
CanLookUp(id) == NameOf(id) \in LongNames => Fits(NameCost)

Success == {"ANEW", "AOLD"}
Status == Success \cup
          {"none", "EMEMORY", "EINDEX", "ESPACE", "ESYMBOL", "terminated"}
Ops == {"none", "superpose", "namedvector", "density", "measure", "subtract"}

Call == [op : Ops, tgt : SymId \cup {None}, src : SymId \cup {None},
         shift : Int, prob : 0 .. DitherScale, status : Status,
         next : 1 .. BasisSize + 1, word : SUBSET Dims,
         fresh : Fingerprint \cup {None}]

NewCall(op, t, s, shift, prob, status) ==
  [op |-> op, tgt |-> t, src |-> s, shift |-> shift, prob |-> prob,
   status |-> status, next |-> 1, word |-> {}, fresh |-> None]

NoCall == NewCall("none", None, None, 0, 0, "none")

EnteringSource == {"target_space", "source_space", "find_source"}
PCs == EnteringSource \cup
       {"down", "idle", "construct_source", "link_source", "find_target",
        "construct_target", "link_target", "learn", "store"}
InCall == PCs \ {"down", "idle"}

Goto(p, step) == pc' = [pc EXCEPT ![p] = step]

\* The call c with a status, and no symbol in the making.
Settled(c, status) == NewCall(c.op, c.tgt, c.src, c.shift, c.prob, status)

\* The call of p returns status.
Return(p, status) ==
  /\ Goto(p, "idle")
  /\ call' = [call EXCEPT ![p] = Settled(call[p], status)]

\* p is gone, lost units of the heap with it: the image stays as it is.
Vanish(p, last, lost) ==
  /\ Goto(p, "down")
  /\ cache' = [cache EXCEPT ![p] = {}]
  /\ shuffles' = [shuffles EXCEPT ![p] = 0]
  /\ session' = [session EXCEPT ![p] = 0]
  /\ call' = [call EXCEPT ![p] = last]
  /\ leaked' = leaked + lost

\* bad_alloc leaves a noexcept function: std::terminate ends the process.
Terminate(p, op, t, s) ==
  Vanish(p, NewCall(op, t, s, 0, 0, "terminated"), 0)

\* What p has allocated and not linked yet.
Held(p) == IF pc[p] = "link_source" THEN Price(call[p].src)
           ELSE IF pc[p] = "link_target" THEN Price(call[p].tgt) ELSE 0

-----------------------------------------------------------------------------
(* Sessions: the constructor and the destructor of database, and death.    *)

\* manifold's mapfile, then get_named_spaces and ensure_space_by_name on each.
Open(p) ==
  /\ pc[p] = "down"
  /\ opens < MaxOpens
  /\ opens' = opens + 1
  /\ session' = [session EXCEPT ![p] = opens + 1]
  /\ cache' = [cache EXCEPT ![p] = tables \ Hidden]
  /\ shuffles' = [shuffles EXCEPT ![p] = 0]
  /\ call' = [call EXCEPT ![p] = NoCall]
  /\ Goto(p, "idle")
  /\ UNCHANGED <<image, memory, born, lessons, contested>>

\* shrink_to_fit gives back the free memory at the end of the segment, which
\* may be any part of what is free.
Close(p) ==
  /\ pc[p] = "idle"
  /\ Vanish(p, NoCall, 0)
  /\ \E kept \in IF p \in Compactors THEN 0 .. free ELSE {free} :
        /\ free' = kept
        /\ size' = size - (free - kept)
  /\ UNCHANGED <<image, opens, born, lessons, contested>>

Crash(p) ==
  /\ pc[p] # "down"
  /\ Vanish(p, NoCall, Held(p))
  /\ UNCHANGED <<image, size, free, opens, born, lessons, contested>>

-----------------------------------------------------------------------------
(* The calls of database::superpose and database::namedvector.             *)

\* The bound on draws: a call is made only if its fingerprints can be drawn.
TargetDraws(t, s) == IF t \in index \/ t = s THEN 0 ELSE 1
SourceDraws(s)    == IF s \in index THEN 0 ELSE 1
MayDraw(p, t, s)  == shuffles[p] + SourceDraws(s) + TargetDraws(t, s) <= MaxShuffles

\* The source of a symbol made by superpose has the default dither, 1.0.
CallSuperpose(p) ==
  /\ pc[p] = "idle"
  /\ \E t \in Targets, s \in SymId, shift \in Shifts :
        /\ MayDraw(p, t, s)
        /\ call' = [call EXCEPT ![p] =
                      NewCall("superpose", t, s, shift, DitherScale, "AOLD")]
  /\ Goto(p, "target_space")
  /\ UNCHANGED <<image, memory, cache, shuffles, history>>

CallNamedVector(p) ==
  /\ pc[p] = "idle"
  /\ \E id \in SymId, d \in Dithers :
        /\ MayDraw(p, id, id)
        /\ call' = [call EXCEPT ![p] =
                      NewCall("namedvector", id, id, 0, d, "AOLD")]
  /\ Goto(p, "source_space")
  /\ UNCHANGED <<image, memory, cache, shuffles, history>>

\* spaces[name] = sp
RememberNothing(p, sp) == UNCHANGED cache
Remember(p, sp) == cache' = [cache EXCEPT ![p] = @ \cup {sp}]

\* manifold::ensure_space_by_name: the cached pointer, else find_or_construct.
EnsureSpaceByName(p, at, sp, next) ==
  /\ pc[p] = at
  /\ \/ /\ sp \in cache[p]
        /\ Goto(p, next)
        /\ UNCHANGED <<tables, free, cache, call>>
     \/ /\ sp \in tables \ cache[p]
        /\ Remember(p, sp)
        /\ Goto(p, next)
        /\ UNCHANGED <<tables, free, call>>
     \/ /\ sp \notin tables \cup cache[p]
        /\ Fits(SpaceCost)
        /\ free' = free - SpaceCost
        /\ tables' = tables \cup {sp}
        /\ Remember(p, sp)
        /\ Goto(p, next)
        /\ UNCHANGED call
     \/ /\ sp \notin tables \cup cache[p]
        /\ ~Fits(SpaceCost)
        /\ Return(p, "EMEMORY")
        /\ UNCHANGED <<tables, free, cache>>
  /\ UNCHANGED <<index, basis, dither, vector, size, leaked, shuffles, history>>

EnsureTargetSpace(p) ==
  EnsureSpaceByName(p, "target_space", SpaceOf(call[p].tgt), "source_space")

EnsureSourceSpace(p) ==
  EnsureSpaceByName(p, "source_space", SpaceOf(call[p].src), "find_source")

\* The key of a lookup does not fit in the heap: neither caller catches it.
LookupFails(p, id) ==
  /\ ~CanLookUp(id)
  /\ Terminate(p, call[p].op, call[p].tgt, call[p].src)
  /\ UNCHANGED <<image, size, free, opens, born, lessons, contested>>

FindSource(p) ==
  /\ pc[p] = "find_source"
  /\ \/ LookupFails(p, call[p].src)
     \/ /\ CanLookUp(call[p].src)
        /\ \/ /\ call[p].src \notin index
              /\ Goto(p, "construct_source")
              /\ UNCHANGED call
           \/ /\ call[p].src \in index
              /\ call[p].op = "superpose"
              /\ Goto(p, "find_target")
              /\ UNCHANGED call
           \/ /\ call[p].src \in index
              /\ call[p].op = "namedvector"
              /\ Return(p, "AOLD")
        /\ UNCHANGED <<image, memory, cache, shuffles, history>>

FindTargetNever(p) ==
  /\ pc[p] = "find_target"
  /\ Goto(p, "construct_target")
  /\ UNCHANGED <<image, memory, cache, shuffles, call, history>>

FindTarget(p) ==
  /\ pc[p] = "find_target"
  /\ \/ LookupFails(p, call[p].tgt)
     \/ /\ CanLookUp(call[p].tgt)
        /\ Goto(p, IF call[p].tgt \in index THEN "learn"
                                            ELSE "construct_target")
        /\ UNCHANGED <<image, memory, cache, shuffles, call, history>>

\* irand.shuffle(): the generator moves on, whatever becomes of the symbol.
DrawSame(p) == UNCHANGED shuffles
Draw(p) == shuffles' = [shuffles EXCEPT ![p] = @ + 1]

(* insert_symbol and insert_mutable_symbol, first half: irand.shuffle() is *)
(* drawn, then the symbol is constructed in the heap.  If that throws,     *)
(* ensure_symbol returns EMEMORY; superpose is noexcept, and what the      *)
(* constructor had allocated need not be freed before std::terminate.      *)
ConstructSymbol(p, at, id, next) ==
  /\ pc[p] = at
  /\ \/ /\ Fits(Price(id))
        /\ free' = free - Price(id)
        /\ Draw(p)
        /\ call' = [call EXCEPT ![p].fresh = Shuffles[shuffles[p] + 1]]
        /\ Goto(p, next)
        /\ UNCHANGED <<leaked, cache, session>>
     \/ /\ ~Fits(Price(id))
        /\ call[p].op = "namedvector"
        /\ Draw(p)
        /\ Return(p, "EMEMORY")
        /\ UNCHANGED <<free, leaked, cache, session>>
     \/ /\ ~Fits(Price(id))
        /\ call[p].op = "superpose"
        /\ \E lost \in 0 .. free :
              /\ Vanish(p, NewCall("superpose", call[p].tgt, call[p].src,
                                   0, 0, "terminated"), lost)
              /\ free' = free - lost
  /\ UNCHANGED <<image, size, opens, born, lessons, contested>>

ConstructSource(p) ==
  ConstructSymbol(p, "construct_source", call[p].src, "link_source")

ConstructTarget(p) ==
  ConstructSymbol(p, "construct_target", call[p].tgt, "link_target")

\* hashed_unique: a name is in a table once.  A refused symbol is destroyed.
NeverRefused(id) == FALSE
Refused(id) == id \in index

RefundNothing(id) == free
Refund(id) == free + Price(id)

\* Second half: the unique index takes the symbol, or it is freed again.
LinkSymbol(p, at, id, next) ==
  /\ pc[p] = at
  /\ \/ /\ Refused(id)
        /\ free' = Refund(id)
        /\ Return(p, "EINDEX")
        /\ UNCHANGED <<index, basis, dither, vector, born>>
     \/ /\ ~Refused(id)
        /\ index'  = index \cup {id}
        /\ basis'  = [basis  EXCEPT ![id] = call[p].fresh]
        /\ dither' = [dither EXCEPT ![id] = call[p].prob]
        /\ vector' = [vector EXCEPT ![id] = {}]
        /\ born'   = [born   EXCEPT ![id] = session[p]]
        /\ \/ /\ call[p].op = "superpose"
              /\ Goto(p, next)
              /\ call' = [call EXCEPT ![p] = Settled(call[p], "ANEW")]
           \/ /\ call[p].op = "namedvector"
              /\ Return(p, "ANEW")
        /\ UNCHANGED free
  /\ UNCHANGED <<tables, size, leaked, cache, shuffles, opens, session, lessons,
                 contested>>

LinkSource(p) == LinkSymbol(p, "link_source", call[p].src, "find_target")

LinkTarget(p) == LinkSymbol(p, "link_target", call[p].tgt, "learn")

(* mms::symbol::superpose, called with rotations = 0: the shift is not      *)
(* passed.  One turn of its two loops: `_vector[i] |= ONE << b' for the    *)
(* first h elements of the fingerprint, `&= ~(ONE << b)' for the remainder *)
(* loads an element of the array and stores it with one bit changed.       *)
Element(bit) == {d \in Dims : d \div ElementBits = bit \div ElementBits}

\* Two processes between load and store of one target race for its elements.
Race(p, t) == \E q \in Procs \ {p} : pc[q] = "store" /\ call[q].tgt = t

LoadElement(p) ==
  LET t == call[p].tgt
      bit == basis[call[p].src][call[p].next]
  IN /\ pc[p] = "learn"
     /\ call[p].next <= BasisSize
     /\ call' = [call EXCEPT ![p].word = vector[t] \cap Element(bit)]
     /\ contested' = IF Race(p, t) THEN contested \cup {t} ELSE contested
     /\ Goto(p, "store")
     /\ UNCHANGED <<image, memory, cache, shuffles, opens, session, born, lessons>>

WrittenShort(bits, bit, i, h) == IF i < h THEN bits \cup {bit} ELSE bits \ {bit}
WrittenLong(bits, bit, i, h)  == IF i <= h + 1 THEN bits \cup {bit} ELSE bits \ {bit}
WrittenOnly(bits, bit, i, h)  == IF i <= h THEN bits \cup {bit} ELSE bits
Written(bits, bit, i, h)      == IF i <= h THEN bits \cup {bit} ELSE bits \ {bit}

StoreElement(p) ==
  LET t == call[p].tgt
      s == call[p].src
      i == call[p].next
      bit == basis[s][i]
      word == Written(call[p].word, bit, i, Heads(dither[s]))
  IN /\ pc[p] = "store"
     /\ vector' = [vector EXCEPT ![t] = (@ \ Element(bit)) \cup word]
     /\ lessons' = [lessons EXCEPT ![t][s] = @ \cup {i}]
     /\ call' = [call EXCEPT ![p].next = i + 1, ![p].word = {}]
     /\ Goto(p, "learn")
     /\ UNCHANGED <<tables, index, basis, dither, memory, cache, shuffles,
                    opens, session, born, contested>>

LessonCutShort(p)  == call[p].next >= BasisSize
LessonNeverOver(p) == call[p].next > BasisSize + 1
LessonOver(p)      == call[p].next > BasisSize

FinishSuperpose(p) ==
  /\ pc[p] = "learn"
  /\ LessonOver(p)
  /\ Return(p, call[p].status)
  /\ UNCHANGED <<image, memory, cache, shuffles, history>>

-----------------------------------------------------------------------------
(* Operations that do not learn.  They read the cache and never the heap's *)
(* directory: get_space_by_name.                                           *)

Answer(p, op, t, s, status) ==
  /\ call' = [call EXCEPT ![p] = NewCall(op, t, s, 0, 0, status)]
  /\ UNCHANGED <<image, memory, pc, cache, shuffles, history>>

\* How far the lookups of ids, in that order, get: the first failure decides.
NoSpace(p, id)  == SpaceOf(id) \notin cache[p]
NoSymbol(p, id) == /\ SpaceOf(id) \in cache[p]
                   /\ CanLookUp(id)
                   /\ id \notin index
Found(p, id)    == /\ SpaceOf(id) \in cache[p]
                   /\ CanLookUp(id)
                   /\ id \in index
Throws(p, id)   == /\ SpaceOf(id) \in cache[p]
                   /\ ~CanLookUp(id)

Density(p) ==
  /\ pc[p] = "idle"
  /\ p \in Askers
  /\ \E id \in SymId :
        \/ NoSpace(p, id)  /\ Answer(p, "density", id, id, "ESPACE")
        \/ NoSymbol(p, id) /\ Answer(p, "density", id, id, "ESYMBOL")
        \/ Found(p, id)    /\ Answer(p, "density", id, id, "AOLD")
        \/ /\ Throws(p, id)
           /\ Terminate(p, "density", id, id)
           /\ UNCHANGED <<image, size, free, opens, born, lessons, contested>>

\* manifold::similarity, manifold::overlap and database::subtract look the
\* target up, then the source.
Pairwise(p, op, t, s) ==
  \/ NoSpace(p, t)                    /\ Answer(p, op, t, s, "ESPACE")
  \/ NoSymbol(p, t)                   /\ Answer(p, op, t, s, "ESYMBOL")
  \/ Found(p, t) /\ NoSpace(p, s)     /\ Answer(p, op, t, s, "ESPACE")
  \/ Found(p, t) /\ NoSymbol(p, s)    /\ Answer(p, op, t, s, "ESYMBOL")
  \/ Found(p, t) /\ Found(p, s)       /\ Answer(p, op, t, s, "AOLD")
  \/ /\ Throws(p, t) \/ (Found(p, t) /\ Throws(p, s))
     /\ Terminate(p, op, t, s)
     /\ UNCHANGED <<image, size, free, opens, born, lessons, contested>>

Measure(p) ==
  /\ pc[p] = "idle"
  /\ p \in Askers
  /\ \E t, s \in SymId : Pairwise(p, "measure", t, s)

\* The body of mms::symbol::subtract is commented out: nothing is written.
Subtract(p) ==
  /\ pc[p] = "idle"
  /\ p \in Askers
  /\ \E t, s \in SymId : Pairwise(p, "subtract", t, s)

-----------------------------------------------------------------------------

Init ==
  /\ tables = {}
  /\ index = {}
  /\ basis = [id \in SymId |-> None]
  /\ dither = [id \in SymId |-> 0]
  /\ vector = [id \in SymId |-> {}]
  /\ size = HeapSize
  /\ free = HeapSize
  /\ pc = [p \in Procs |-> "down"]
  /\ cache = [p \in Procs |-> {}]
  /\ shuffles = [p \in Procs |-> 0]
  /\ call = [p \in Procs |-> NoCall]
  /\ opens = 0
  /\ session = [p \in Procs |-> 0]
  /\ born = [id \in SymId |-> 0]
  /\ lessons = [t \in SymId |-> [s \in SymId |-> {}]]
  /\ contested = {}
  /\ leaked = 0

\* The steps a process takes by itself once it is in a call.
Step(p) ==
  \/ EnsureTargetSpace(p)
  \/ EnsureSourceSpace(p)
  \/ FindSource(p)
  \/ ConstructSource(p)
  \/ LinkSource(p)
  \/ FindTarget(p)
  \/ ConstructTarget(p)
  \/ LinkTarget(p)
  \/ LoadElement(p)
  \/ StoreElement(p)
  \/ FinishSuperpose(p)

\* What its user, or fate, has it do.
Environment(p) ==
  \/ Open(p)
  \/ Close(p)
  \/ Crash(p)
  \/ CallSuperpose(p)
  \/ CallNamedVector(p)
  \/ Density(p)
  \/ Measure(p)
  \/ Subtract(p)

Next == \E p \in Procs : Step(p) \/ Environment(p)

Spec == Init /\ [][Next]_vars

\* A process in a call is scheduled until it returns: the calls never wait.
FairSpec == Spec /\ \A p \in Procs : WF_vars(Step(p))

-----------------------------------------------------------------------------
(* Safety.                                                                 *)

TypeOK ==
  /\ tables \subseteq Spaces
  /\ index \subseteq SymId
  /\ basis \in [SymId -> Fingerprint \cup {None}]
  /\ dither \in [SymId -> 0 .. DitherScale]
  /\ vector \in [SymId -> SUBSET Dims]
  /\ size \in Int
  /\ free \in Nat
  /\ pc \in [Procs -> PCs]
  /\ cache \in [Procs -> SUBSET Spaces]
  /\ shuffles \in [Procs -> 0 .. MaxShuffles]
  /\ call \in [Procs -> Call]
  /\ opens \in 0 .. MaxOpens
  /\ session \in [Procs -> 0 .. MaxOpens]
  /\ born \in [SymId -> 0 .. MaxOpens]
  /\ lessons \in [SymId -> [SymId -> SUBSET Positions]]
  /\ contested \subseteq SymId
  /\ leaked \in Nat

(* Nothing is spent or given back twice: what the segment holds is free,   *)
(* or in a table, or in a linked symbol, or held by a call that is between *)
(* constructing and linking a symbol, or was lost with a process that died *)
(* there; a refused duplicate is freed (symbol_space.hpp:176, 197).        *)
HeapAccounted ==
  LET long == {id \in index : NameOf(id) \in LongNames}
      at(step) == {p \in Procs : pc[p] = step}
      longAt == {p \in at("link_source") : NameOf(call[p].src) \in LongNames}
                \cup
                {p \in at("link_target") : NameOf(call[p].tgt) \in LongNames}
  IN size = free + leaked
            + SpaceCost * Cardinality(tables)
            + SymbolCost * Cardinality(index)
            + NameCost * Cardinality(long)
            + SymbolCost * Cardinality(at("link_source") \cup at("link_target"))
            + NameCost * Cardinality(longAt)

\* The bits that the lessons of t so far set, and those that they clear.
Taught(t)  == {d \in Dims : \E s \in SymId : \E i \in lessons[t][s] :
                  i <= Heads(dither[s]) /\ basis[s][i] = d}
Cleared(t) == {d \in Dims : \E s \in SymId : \E i \in lessons[t][s] :
                  i > Heads(dither[s]) /\ basis[s][i] = d}

(* A vector never holds a bit that no lesson taught it: each set bit is a  *)
(* leading element of the fingerprint of some source superposed on it,     *)
(* through crashes in the middle of lessons, sessions that come and go,    *)
(* and elements stored over one another (symbol.hpp:151-156).              *)
NothingInvented == \A t \in SymId : vector[t] \subseteq Taught(t)

(* A bit that was taught is missing only where a trailing element of some  *)
(* other lesson cleared it ("clear remainder", symbol.hpp:158-164), unless *)
(* two processes raced for an element of the target.                       *)
NothingForgotten ==
  \A t \in SymId \ contested : Taught(t) \ Cleared(t) \subseteq vector[t]

(* Two symbols made in one session have different fingerprints: no draw of *)
(* the generator is used twice, not even one of a call that failed         *)
(* (database.cpp:109, 124, 224).                                           *)
SessionFingerprints ==
  \A x, y \in index : born[x] = born[y] /\ basis[x] = basis[y] => x = y

(* A call that reports success has applied the whole fingerprint; a source *)
(* is never reported as learnt after a part of its lesson (database.cpp:   *)
(* 130-131).                                                               *)
SuccessTeaches ==
  \A p \in Procs :
     /\ pc[p] = "idle"
     /\ call[p].op = "superpose"
     /\ call[p].status \in Success
     => lessons[call[p].tgt][call[p].src] = Positions

(* With one process, right after a successful superpose the target holds   *)
(* every leading element of the source's fingerprint and none of the       *)
(* trailing ones, whatever an earlier call that died half way had left.    *)
RecallAfterSuperpose ==
  \A p \in Procs :
     /\ pc[p] = "idle"
     /\ call[p].op = "superpose"
     /\ call[p].status \in Success
     => LET t == call[p].tgt
            s == call[p].src
        IN \A i \in Positions :
              basis[s][i] \in vector[t] <=> i <= Heads(dither[s])

(* What a session made, it sees: a symbol linked by a session that is      *)
(* still open is found through that process's cache, also when its space   *)
(* is one the cache would not have loaded (manifold.cpp:353, 379).         *)
SessionSees ==
  \A p \in Procs : \A id \in SymId :
     pc[p] # "down" /\ born[id] = session[p]
       => id \in index /\ SpaceOf(id) \in cache[p]

(* "Something stopped us inserting inspite of not being found": it is      *)
(* always another process, that linked the same symbol between the lookup  *)
(* and the insertion (database.cpp:104-110, 120-125, 219-226).             *)
OnlyARaceRefuses ==
  \A p \in Procs :
     pc[p] = "idle" /\ call[p].status = "EINDEX"
       => \E id \in {call[p].src, call[p].tgt} :
             id \in index /\ born[id] # session[p]

-----------------------------------------------------------------------------
(* Action properties.                                                      *)

(* A symbol is for ever, and so are its name, fingerprint and dither: only *)
(* its vector changes, and only by the lesson of a process whose call      *)
(* names it as target (symbol.hpp:40, "sparse stored (immutable)           *)
(* fingerprint").                                                          *)
SymbolsEndure ==
  [][\A id \in index :
       /\ id \in index'
       /\ basis'[id] = basis[id]
       /\ dither'[id] = dither[id]
       /\ vector'[id] # vector[id]
            => \E p \in Procs : pc[p] = "store" /\ call[p].tgt = id]_vars

-----------------------------------------------------------------------------
(* Refinement.                                                             *)

\* The database turns no lesson: it passes no rotation on.
Unturned == [d \in Dims |-> d]

Memory == INSTANCE AssociativeMemory WITH Turns <- {Unturned}

(* The database is an associative memory: whatever its processes, caches,  *)
(* heap and crashes do, symbols are defined once and taught one position   *)
(* at a time, the order of the steps of a lesson does not show unless its  *)
(* target is contested, and nothing else happens to what the image holds.  *)
ImplementsMemory == Memory!Spec

-----------------------------------------------------------------------------
(* Liveness.                                                               *)

(* Every call returns, or its process is gone: the code never waits.       *)
CallsReturn ==
  \A p \in Procs : pc[p] \in InCall ~> pc[p] \in {"idle", "down"}

=============================================================================
