----------------------------- MODULE SdmDestroy -----------------------------
(* database::destroy_space beside the other operations of SdmDatabase.     *)
(* Nothing in the repository calls it.  It has the heap destroy the named  *)
(* object as a `space', and what bears that name is the symbol table that  *)
(* find_or_construct made: the heap drops the name, runs the destructor of *)
(* the wrong type over the table, which is undefined, and frees the table. *)
(* No symbol is given back, and no entry of the run time cache is dropped. *)
EXTENDS MCSdmDatabase

\* What becomes of the image: the name is gone, and its symbols with it.
Unname(sp) ==
  LET gone == {id \in index : SpaceOf(id) = sp}
      long == {id \in gone : NameOf(id) \in LongNames}
  IN /\ tables' = tables \ {sp}
     /\ index' = index \ gone
     /\ basis' = [id \in SymId |-> IF id \in gone THEN None ELSE basis[id]]
     /\ born' = [id \in SymId |-> IF id \in gone THEN 0 ELSE born[id]]
     /\ UNCHANGED <<dither, vector, size, opens, lessons, contested>>
     /\ LET lost == SymbolCost * Cardinality(gone) + NameCost * Cardinality(long)
        IN \* the destructor does no harm, and the table is freed
           \/ /\ free' = free + SpaceCost
              /\ leaked' = leaked + lost
           \* or it ends the process, before the table is freed
           \/ /\ leaked' = leaked + lost + SpaceCost
              /\ UNCHANGED free

DestroySpace(p) ==
  /\ pc[p] = "idle"
  /\ \E sp \in tables : Unname(sp)
  /\ \/ /\ free' > free
        /\ UNCHANGED <<private, session>>
     \/ /\ free' = free
        /\ Goto(p, "down")
        /\ cache' = [cache EXCEPT ![p] = {}]
        /\ shuffles' = [shuffles EXCEPT ![p] = 0]
        /\ session' = [session EXCEPT ![p] = 0]
        /\ call' = [call EXCEPT ![p] = NoCall]

DestroyNext == Next \/ \E p \in Procs : DestroySpace(p)

DestroySpec == Init /\ [][DestroyNext]_vars

(* "destroy space permanently" (database.cpp:181): no process goes on      *)
(* using the table that was destroyed.                                     *)
DestroyedIsGone ==
  \A p \in Procs : cache[p] \subseteq tables

=============================================================================
