------------------------------ MODULE Affinity ------------------------------
(* The affinity tool (test/affinity.cpp): reads the points of a space,     *)
(* asks for the neighbours of each, numbers the names it meets in a bimap  *)
(* (test/index_bimap.hpp), fills a sparse matrix with the similarities and *)
(* writes bimap and matrix to files (test/sparse_matrix_io.hpp); a reader  *)
(* of the files gets them back.  Other processes go on linking symbols.    *)
(*                                                                         *)
(* get_topology is Topology's.  Here it returns the linked symbols near to *)
(* a point that are not too dense, at most as many as were asked for.  An  *)
(* operator that stands directly before a definition and is used by none   *)
(* is a wrong version of it, for the mutants PROJECT.json lists.           *)
EXTENDS Integers, FiniteSets, SequencesExt

CONSTANTS
  Names,      \* names of symbols, as the sequences of their words
  Numerals,   \* how the indexes 0, 1, ... are written, a sequence
  Linked,     \* symbol tables the tool may find: sequences of names
  Near,       \* pairs of names with a similarity of metric_min or more
  Dense       \* names with a density above density_max

ASSUME NamesAssumption ==
  /\ IsFiniteSet(Names)
  /\ \A name \in Names : name \in Seq(ToSet(name)) \ {<<>>}
  /\ Numerals \in Seq(ToSet(Numerals))
  /\ Len(Numerals) >= Cardinality(Names)
  /\ \A i, j \in DOMAIN Numerals : Numerals[i] = Numerals[j] => i = j
  /\ Linked \subseteq Seq(Names)
  /\ \A names \in Linked : \A i, j \in DOMAIN names : names[i] = names[j] => i = j

\* Distance is symmetric, and is zero from a vector to itself.
ASSUME NearAssumption ==
  /\ Near \subseteq Names \X Names
  /\ \A m, n \in Names : (<<m, n>> \in Near <=> <<n, m>> \in Near) /\ <<n, n>> \in Near
  /\ Dense \subseteq Names

VARIABLES
  space,      \* the symbols of the space, in the order of linking
  pc,         \* the loop the tool is in
  card,       \* the cardinality it read first
  g,          \* its geometry: the points it has read, as names
  at,         \* the point it is at
  level_set,  \* neighbours of that point it has not entered yet
  map,        \* feature_map: [left, right]
  triplets,   \* the positions entered
  twice,      \* history: a position was entered again
  files,      \* the index and the matrix that were written
  still       \* history: nobody has linked a symbol since the tool started

vars == <<space, pc, card, g, at, level_set, map, triplets, twice, files, still>>

-----------------------------------------------------------------------------
(* index_bimap.                                                            *)

NoMap == [left |-> <<>>, right |-> <<>>]

Put(f, x, y) == [z \in DOMAIN f \cup {x} |-> IF z = x THEN y ELSE f[z]]

Insert(m, l, r) == [left |-> Put(m.left, l, r), right |-> Put(m.right, r, l)]

\* A new name gets the size of the map as its index.
FreshByRight(m) == Cardinality(DOMAIN m.right) + 1
Fresh(m) == Cardinality(DOMAIN m.left)

Ensured(m, l) == IF l \in DOMAIN m.left THEN m ELSE Insert(m, l, Fresh(m))

\* The k-th of a set of indexes, in ascending order.
Nth(S, k) == CHOOSE r \in S : Cardinality({q \in S : q < r}) = k - 1

\* serialize: the right map in ascending order, as the words of a stream;
\* written[k] are those of the first k entries.
Serialize(m) ==
  LET indexes == DOMAIN m.right
      entry(r) == <<Numerals[r + 1]>> \o m.right[r]
      written[k \in 0 .. Cardinality(indexes)] ==
        IF k = 0 THEN <<>> ELSE written[k - 1] \o entry(Nth(indexes, k))
  IN written[Cardinality(indexes)]

\* Two words after one another make an entry.
Pairs(words) == {k \in 1 .. Len(words) : 2 * k <= Len(words)}

\* deserialize: `ins >> idx >> feature' takes one word for a feature, and
\* stops at a word that is no number where it wants an index.
Deserialize(words) ==
  LET pairs == {k \in Pairs(words) :
                  \A j \in 1 .. k : words[2 * j - 1] \in ToSet(Numerals)}
      read[k \in 0 .. Len(words)] ==
        IF k = 0 THEN NoMap
        ELSE IF k \in pairs
             THEN Insert(read[k - 1], <<words[2 * k]>>,
                         CHOOSE r \in 0 .. Len(Numerals) - 1 : Numerals[r + 1] = words[2 * k - 1])
             ELSE read[k - 1]
  IN read[Len(words)]

-----------------------------------------------------------------------------
(* Eigen's sparse matrix, stored by columns: outer[j] is the number of     *)
(* entries before column j, inner the rows of the entries in order.        *)

Before(d, e) == d[2] < e[2] \/ (d[2] = e[2] /\ d[1] < e[1])

\* setFromTriplets adds up the triplets of one position.
Compressed(n, entries) ==
  LET entry(k) ==
        CHOOSE e \in entries : Cardinality({d \in entries : Before(d, e)}) = k - 1
  IN [n |-> n,
      outer |-> [j \in 0 .. n |-> Cardinality({e \in entries : e[2] < j})],
      inner |-> [k \in 1 .. Cardinality(entries) |-> entry(k)[1]]]

\* serialize_matrix writes outerSize of the outerSize + 1 outer indexes.
OuterWrittenLast(A) == [j \in 0 .. A.n - 1 |-> A.outer[j + 1]]
OuterWritten(A) == [j \in 0 .. A.n - 1 |-> A.outer[j]]

SerializeMatrix(A) ==
  [n |-> A.n, nnz |-> Len(A.inner),
   outer |-> OuterWritten(A), inner |-> A.inner]

\* finalize sets the outer indexes after the last that is not zero.
Finalize(outer, n, nnz) ==
  LET filled == {j \in 0 .. n : outer[j] # 0}
  IN [j \in 0 .. n |-> IF \E k \in filled : k >= j THEN outer[j] ELSE nnz]

\* deserialize_matrix: resize has zeroed the index that was not written.
DeserializeMatrix(f) ==
  [n |-> f.n,
   outer |-> Finalize([j \in 0 .. f.n |-> IF j < f.n THEN f.outer[j] ELSE 0],
                      f.n, f.nnz),
   inner |-> f.inner]

\* The entries of a matrix.
EntriesOf(A) ==
  UNION {{<<A.inner[k], j>> : k \in A.outer[j] + 1 .. A.outer[j + 1]} :
         j \in 0 .. A.n - 1}

-----------------------------------------------------------------------------

\* Another process.
Link ==
  /\ \E name \in Names \ ToSet(space) : space' = Append(space, name)
  /\ still' = FALSE
  /\ UNCHANGED <<pc, card, g, at, level_set, map, triplets, twice, files>>

\* The tool ends at once if the cache has no such space.
GetCardinality ==
  /\ pc = "start"
  /\ \/ card' = Len(space) /\ pc' = "geometry"
     \/ pc' = "failed" /\ UNCHANGED card
  /\ UNCHANGED <<space, g, at, level_set, map, triplets, twice, files, still>>

\* get_geometry reads the cardinality again, and that many symbols.
GetGeometry ==
  /\ pc = "geometry"
  /\ g' = space
  /\ at' = 1
  /\ pc' = "points"
  /\ UNCHANGED <<space, card, level_set, map, triplets, twice, files, still>>

Neighbours(name) ==
  {n \in ToSet(space) : <<name, n>> \in Near /\ n \notin Dense}

\* One point: its index, then its neighbours, cut to the cardinality.
GetTopology ==
  /\ pc = "points"
  /\ at <= Len(g)
  /\ map' = Ensured(map, g[at])
  /\ \/ /\ \E best \in SUBSET Neighbours(g[at]) :
              /\ \/ best = Neighbours(g[at]) /\ Cardinality(best) <= card
                 \/ best # Neighbours(g[at]) /\ Cardinality(best) = card
              /\ level_set' = best
        /\ pc' = "neighbours"
     \* the copies of the query do not fit in the heap
     \/ /\ pc' = "terminated"
        /\ UNCHANGED level_set
  /\ UNCHANGED <<space, card, g, at, triplets, twice, files, still>>

EnterNeighbour ==
  /\ pc = "neighbours"
  /\ \E n \in level_set :
        LET m == Ensured(map, n)
        IN /\ map' = m
           /\ LET ij == <<m.left[g[at]], m.left[n]>>
              IN /\ triplets' = triplets \cup {ij}
                 /\ twice' = (twice \/ ij \in triplets)
           /\ level_set' = level_set \ {n}
  /\ UNCHANGED <<space, pc, card, g, at, files, still>>

EndOfPoint ==
  /\ pc = "neighbours"
  /\ level_set = {}
  /\ at' = at + 1
  /\ pc' = "points"
  /\ UNCHANGED <<space, card, g, level_set, map, triplets, twice, files, still>>

Matrix == Compressed(Cardinality(DOMAIN map.left), triplets)

\* Either file may fail to open: nothing is said of it.
Write ==
  /\ pc = "points"
  /\ at > Len(g)
  /\ \E idx \in {Serialize(map), <<>>} : \E mat \in {{SerializeMatrix(Matrix)}, {}} :
        files' = [idx |-> idx, mat |-> mat]
  /\ pc' = "done"
  /\ UNCHANGED <<space, card, g, at, level_set, map, triplets, twice, still>>

Init ==
  /\ space \in Linked
  /\ pc = "start"
  /\ card = 0
  /\ g = <<>>
  /\ at = 1
  /\ level_set = {}
  /\ map = NoMap
  /\ triplets = {}
  /\ twice = FALSE
  /\ files = [idx |-> <<>>, mat |-> {}]
  /\ still = TRUE

Next ==
  \/ Link
  \/ GetCardinality
  \/ GetGeometry
  \/ GetTopology
  \/ EnterNeighbour
  \/ EndOfPoint
  \/ Write

Spec == Init /\ [][Next]_vars

-----------------------------------------------------------------------------

Size == Cardinality(DOMAIN map.left)

TypeOK ==
  /\ space \in Seq(Names)
  /\ pc \in {"start", "geometry", "points", "neighbours", "done", "failed",
            "terminated"}
  /\ g \in Seq(Names)
  /\ at \in 1 .. Len(g) + 1
  /\ level_set \subseteq Names
  /\ (DOMAIN map.left) \subseteq Names

(* The bimap is one: each name has one index, each index one name, and the *)
(* indexes are those of the rows of the matrix, whatever names turn up     *)
(* that were not in the geometry.  No position is entered twice, so no     *)
(* similarity is added to another, and all are inside the matrix.  When    *)
(* nobody links meanwhile it has every near pair of points, and is         *)
(* symmetric but for the columns of those that are too dense               *)
(* (index_bimap.hpp:25-35, affinity.cpp:121-156).                          *)
IndexesAreRows ==
  /\ TypeOK
  /\ DOMAIN map.right = 0 .. Size - 1
  /\ \A l \in DOMAIN map.left : map.right[map.left[l]] = l
  /\ \A r \in DOMAIN map.right : map.left[map.right[r]] = r
  /\ ~twice
  /\ pc = "done" =>
       \A f \in files.mat : \A ij \in triplets :
          ij[1] < f.n /\ ij[2] < f.n
  /\ pc = "done" /\ still =>
       triplets =
         {<<map.left[mn[1]], map.left[mn[2]]>> :
            mn \in {mn \in Near \cap (ToSet(g) \X ToSet(g)) : mn[2] \notin Dense}}

(* What was written is read back: a bimap of names of one word, and a      *)
(* matrix that has an entry before its last column, although the last      *)
(* outer index is not in the file; its entries are the positions entered,  *)
(* and no others (index_bimap.hpp:39-69, sparse_matrix_io.hpp:39, 75, 80). *)
FilesReadBack ==
  pc = "done" =>
    /\ files.idx # <<>> /\ (\A name \in DOMAIN map.left : Len(name) = 1)
         => Deserialize(files.idx) = map
    /\ Matrix.n > 0 /\ Matrix.outer[Matrix.n - 1] > 0 =>
         \A f \in files.mat :
            DeserializeMatrix(f) = Matrix /\ EntriesOf(DeserializeMatrix(f)) = triplets

-----------------------------------------------------------------------------

(* "template function to deserialize Eigen::SparseMatrix"                  *)
(* (sparse_matrix_io.hpp:47): what serialize_matrix wrote is read back.    *)
EveryMatrixReadBack ==
  pc = "done" => \A f \in files.mat : EntriesOf(DeserializeMatrix(f)) = triplets

(* "de-serialize" (index_bimap.hpp:52), of what was "write out L.s in        *)
(* ascending index order" (:42): the map is read back, whatever the names. *)
EveryIndexReadBack ==
  pc = "done" /\ files.idx # <<>> => DOMAIN Deserialize(files.idx).left = DOMAIN map.left

=============================================================================
