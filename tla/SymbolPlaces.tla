---------------------------- MODULE SymbolPlaces ----------------------------
(* The memory behind the references of database::superpose.  SdmDatabase   *)
(* names symbols; the code holds `symbol_t&' from a lookup or an insertion *)
(* to the end of the call, while it and other processes insert.  Each step *)
(* of SdmDatabase is taken with what it does to that memory: a symbol has  *)
(* a place in the heap from its construction on, a refused one gives its   *)
(* place back, for others to be constructed in, and a reference is the     *)
(* place that the lookup found.                                            *)
(*                                                                         *)
(* What an insertion does to the other symbols of the table is up to the   *)
(* container: Settle.                                                      *)
EXTENDS SdmDatabase

CONSTANT Places         \* the places of the heap that symbols may take

(* There is one for each symbol that the heap can hold.                    *)
ASSUME PlaceAssumption ==
  /\ None \notin Places
  /\ IsFiniteSet(Places)
  /\ Cardinality(Places) * SymbolCost >= HeapSize

VARIABLES
  used,           \* the places that are allocated
  place,          \* where each linked symbol is, None before it is linked
  made,           \* where the symbol is that a process has yet to link
  held            \* the references `s' and `t' of a superpose, None if not set

places == <<used, place, made, held>>
placedVars == <<vars, places>>

Roles == {"s", "t"}
NoReferences == [r \in Roles |-> None]

-----------------------------------------------------------------------------

\* The local reference r is set to a; it is gone when the call is over.
Refer(p, r, a) ==
  held' = [held EXCEPT ![p] = IF pc'[p] \in InCall THEN [@ EXCEPT ![r] = a]
                                                   ELSE NoReferences]

\* A step that touches none of it; what a dead process had made is leaked.
Elsewhere(p) ==
  /\ held' = [held EXCEPT ![p] = IF pc'[p] \in InCall THEN @ ELSE NoReferences]
  /\ made' = [made EXCEPT ![p] = IF pc'[p] \in InCall THEN @ ELSE None]
  /\ UNCHANGED <<used, place>>

\* A lookup: the optional reference is none where the symbol is not linked.
LookUp(p, id, r) ==
  /\ Refer(p, r, place[id])
  /\ UNCHANGED <<used, place, made>>

\* The heap gives any place that is free.
Construct(p, next) ==
  \/ /\ pc'[p] = next
     /\ \E a \in Places \ used :
           /\ used' = used \cup {a}
           /\ made' = [made EXCEPT ![p] = a]
     /\ UNCHANGED <<place, held>>
  \/ /\ pc'[p] # next
     /\ Elsewhere(p)

\* An insertion that moves the other symbols, as that of an array would.
SettleMoving(p, id) ==
  \E to \in [index -> Places \ used] :
     /\ place' = [x \in SymId |-> IF x = id THEN made[p]
                                  ELSE IF x \in index THEN to[x] ELSE None]
     /\ used' = (used \ {place[x] : x \in index}) \cup {to[x] : x \in index}

(* The nodes of a multi_index_container, whatever its indices, stay where  *)
(* they were allocated: its hashed and random access indices allocate      *)
(* arrays of pointers to them anew.                                        *)
Settle(p, id) ==
  /\ place' = [place EXCEPT ![id] = made[p]]
  /\ UNCHANGED used

Insert(p, id, r) ==
  /\ made' = [made EXCEPT ![p] = None]
  /\ \/ /\ Refused(id)
        /\ used' = used \ {made[p]}
        /\ Refer(p, r, None)
        /\ UNCHANGED place
     \/ /\ ~Refused(id)
        /\ Settle(p, id)
        /\ Refer(p, r, made[p])

-----------------------------------------------------------------------------

PlacedInit ==
  /\ Init
  /\ used = {}
  /\ place = [id \in SymId |-> None]
  /\ made = [p \in Procs |-> None]
  /\ held = [p \in Procs |-> NoReferences]

\* The steps that neither look up, nor construct, nor insert.
OtherStep(p) ==
  \/ EnsureTargetSpace(p)
  \/ EnsureSourceSpace(p)
  \/ LoadElement(p)
  \/ StoreElement(p)
  \/ FinishSuperpose(p)
  \/ Environment(p)

PlacedStep(p) ==
  \/ FindSource(p)      /\ LookUp(p, call[p].src, "s")
  \/ ConstructSource(p) /\ Construct(p, "link_source")
  \/ LinkSource(p)      /\ Insert(p, call[p].src, "s")
  \/ FindTarget(p)      /\ LookUp(p, call[p].tgt, "t")
  \/ ConstructTarget(p) /\ Construct(p, "link_target")
  \/ LinkTarget(p)      /\ Insert(p, call[p].tgt, "t")
  \/ OtherStep(p)       /\ Elsewhere(p)

PlacedNext == \E p \in Procs : PlacedStep(p)

PlacedSpec == PlacedInit /\ [][PlacedNext]_placedVars

-----------------------------------------------------------------------------

(* The reference r of p is good: it is to the symbol id, where the table   *)
(* that p has in its cache has it, and to memory that is allocated and is  *)
(* no other symbol's, linked or in the making.                             *)
Refers(p, r, id) ==
  /\ id \in index
  /\ SpaceOf(id) \in cache[p] \cap tables
  /\ held[p][r] = place[id]
  /\ held[p][r] \in used
  /\ \A x \in index \ {id} : place[x] # held[p][r]
  /\ \A q \in Procs : made[q] # held[p][r]

(* The references that superpose takes and uses at the end (database.cpp:  *)
(* 104-130) stay good from the step that sets them to the last element it  *)
(* writes: while it inserts the target itself, and while other processes   *)
(* insert, are refused, give memory back, or die.                          *)
ReferencesLive ==
  \A p \in Procs :
     /\ pc[p] \in {"find_target", "construct_target", "link_target", "learn",
                   "store"}
          => Refers(p, "s", call[p].src)
     /\ pc[p] \in {"learn", "store"} => Refers(p, "t", call[p].tgt)

=============================================================================
