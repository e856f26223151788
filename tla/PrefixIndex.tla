----------------------------- MODULE PrefixIndex -----------------------------
(* Search by prefix (manifold::prefix_search, symbol_space::search): the    *)
(* ordered index of a symbol table gives the caller a pair of iterators,    *)
(* which it walks while other processes link symbols.                       *)
(*                                                                         *)
(* A name is a sequence of letters, and a letter a number.  The tree is the *)
(* set of names in it with their order; an iterator is the name it is at,   *)
(* or End.  Memory is counted in strings.  An operator that stands directly *)
(* before a definition and is used by none is a wrong version of it, for    *)
(* the mutants PROJECT.json lists.                                          *)
EXTENDS Integers, Sequences, FiniteSets

CONSTANTS
  Names,     \* names a symbol may have
  Prefixes,  \* prefixes asked for
  Heap,      \* strings the heap has room for
  Inline     \* the longest string that needs no memory of its own

End == <<0, "end">>   \* the iterator past the last symbol

ASSUME PrefixAssumption ==
  /\ Names \subseteq Seq(Nat) /\ IsFiniteSet(Names)
  /\ Prefixes \subseteq Seq(Nat)
  /\ End \notin Names
  /\ Heap \in Nat /\ Inline \in Nat

VARIABLES
  cached,        \* the process knows the space
  table,         \* the names linked
  free,          \* memory left in the heap
  pc,            \* where the caller is
  prefix,        \* what it asked for
  at, stop,      \* the iterators it got; it moves the first
  printed,       \* the names it came across
  began          \* history: the table at the time of the search

vars == <<cached, table, free, pc, prefix, at, stop, printed, began>>

-----------------------------------------------------------------------------
(* partial_string_comparator.                                              *)

\* x < y on strings.
Less(x, y) ==
  \/ \E k \in DOMAIN x \cap DOMAIN y :
        /\ x[k] < y[k]
        /\ \A j \in 1 .. k - 1 : x[j] = y[j]
  \/ Len(x) < Len(y) /\ \A j \in DOMAIN x : x[j] = y[j]

\* x.substr(0, n)
Substr(x, n) == SubSeq(x, 1, IF n <= Len(x) THEN n ELSE Len(x))

Below(x, p) == Less(Substr(x, Len(p)), p)

AboveWhole(p, x) == Less(p, x)
Above(p, x) == Less(p, Substr(x, Len(p)))

\* The first of some positions in the tree.
First(S) == IF S = {} THEN End ELSE CHOOSE x \in S : \A y \in S \ {x} : Less(x, y)

LowerBound(p) == First({x \in table : ~Below(x, p)})
UpperBound(p) == First({x \in table : Above(p, x)})
IncrementStays(x) == First({y \in table : ~Less(y, x)})
Increment(x)  == First({y \in table : Less(x, y)})

-----------------------------------------------------------------------------

HasRoom(n) == free >= n

\* Another process links a symbol.
Link(x) ==
  /\ x \notin table
  /\ HasRoom(1)
  /\ table' = table \cup {x}
  /\ free' = free - 1
  /\ UNCHANGED <<cached, pc, prefix, at, stop, printed, began>>

SpaceMissing ==
  /\ pc = "idle"
  /\ ~cached
  /\ pc' = "ESPACE"
  /\ UNCHANGED <<cached, table, free, prefix, at, stop, printed, began>>

\* The key is built with the heap's allocator, copied, and compared with
\* substrings of the same length: two or three strings, for the time of the
\* call, if the prefix is longer than Inline.
Long(p) == Len(p) > Inline

Search(p) ==
  /\ pc = "idle"
  /\ cached
  /\ Long(p) => HasRoom(2)
  /\ prefix' = p
  /\ at' = LowerBound(p)
  /\ stop' = UpperBound(p)
  /\ began' = table
  /\ printed' = <<>>
  /\ pc' = "walk"
  /\ UNCHANGED <<cached, table, free>>

\* Without the memory the allocator throws, in a noexcept function.
SearchEnds(p) ==
  /\ pc = "idle"
  /\ cached
  /\ Long(p) /\ ~HasRoom(3)
  /\ pc' = "terminated"
  /\ UNCHANGED <<cached, table, free, prefix, at, stop, printed, began>>

\* The caller prints what it is at and goes on.
Walk ==
  /\ pc = "walk"
  /\ at # stop
  /\ printed' = Append(printed, at)
  /\ at' = Increment(at)
  /\ UNCHANGED <<cached, table, free, pc, prefix, stop, began>>

Done ==
  /\ pc = "walk"
  /\ at = stop
  /\ pc' = "idle"
  /\ UNCHANGED <<cached, table, free, prefix, at, stop, printed, began>>

Init ==
  /\ cached \in BOOLEAN
  /\ table = {}
  /\ free = Heap
  /\ pc = "idle"
  /\ prefix = <<>>
  /\ at = End /\ stop = End
  /\ printed = <<>>
  /\ began = {}

Next ==
  \/ \E x \in Names : Link(x)
  \/ SpaceMissing
  \/ \E p \in Prefixes : Search(p)
  \/ \E p \in Prefixes : SearchEnds(p)
  \/ Walk
  \/ Done

Spec == Init /\ [][Next]_vars

-----------------------------------------------------------------------------

TypeOK ==
  /\ cached \in BOOLEAN
  /\ table \subseteq Names /\ began \subseteq table
  /\ free \in 0 .. Heap
  /\ pc \in {"idle", "walk", "ESPACE", "terminated"}
  /\ {at, stop} \subseteq table \cup {End}
  /\ printed \in Seq(table)

StartsWith(x, p) == Len(p) <= Len(x) /\ SubSeq(x, 1, Len(p)) = p

Printed == {printed[k] : k \in DOMAIN printed}

\* What is left to walk.
Remaining ==
  {x \in table : /\ at # End
                 /\ x = at \/ Less(at, x)
                 /\ stop # End => Less(x, stop)}

(* The symbols that had the prefix when the search was made are printed or *)
(* ahead, wherever others link theirs in the meantime: an iterator of the  *)
(* tree goes on from where its symbol is now.  If nobody links a symbol,   *)
(* no other is either, for the empty prefix and for one that no symbol has *)
(* as well (symbol_space.hpp:98-110, 267-271).                             *)
NoMatchLost ==
  LET matches == {x \in began : StartsWith(x, prefix)}
      found   == Printed \cup Remaining
  IN pc = "walk" => /\ matches \subseteq found
                    /\ table = began => found = matches

(* The caller comes across symbols in the order of their names, once each  *)
(* (symbol_space.hpp:120-121).                                             *)
PrintedInOrder ==
  /\ TypeOK
  /\ \A k, l \in DOMAIN printed : k < l => Less(printed[k], printed[l])

-----------------------------------------------------------------------------

(* "lookup symbols by prefix of name" (symbol_space.hpp:261): what a       *)
(* search comes across starts with the prefix.                             *)
MatchesOnly == \A x \in Printed : StartsWith(x, prefix)

=============================================================================
