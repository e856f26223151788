# Verification of sdmdb

TLA+ models of sdmdb, a database of sparse distributed memory. TLC checks them on
small instances; TLAPS proves the theorems of section 6 for every value of the
constants, and they include every safety property of the passing runs; liveness is
model-checked only. Source paths are relative to the root of the repository
(`rtl/...`, `mms/...`, `util/...` and `test/...` stand below its source directory).

## 1. Inventory

sdmdb keeps *spaces* of *symbols* in one memory mapped file, the heap *image*. A
symbol has a name, a fingerprint (`basis`: a few random dimensions out of
thousands, fixed when it is made), a `dither` (a probability) and a semantic vector
(bits, initially zero). The database learns by *superposing*: the fingerprint of a
source symbol is written into the vector of a target symbol.

| part | source | state it keeps | operations | model |
|---|---|---|---|---|
| symbol | `mms/symbol.hpp` | name, fingerprint, dither, vector, all in the heap | `superpose`, `subtract` (empty), measures | `SdmDatabase` (elements, interleaved), `SymbolVector` (words, rotation) |
| vectors | `mms/bitvector.hpp`, `ephemeral_vector.hpp`, `semantic_vector.hpp`, `elemental_vector.hpp` | arrays of 64 bit elements | count, distance, inner, countsum, similarity, overlap | `SymbolVector` |
| symbol space | `mms/symbol_space.hpp` | a multi index container in the heap: unique by name, ordered by prefix, random access | construct, insert, look up, search, `symbol_at` | `SdmDatabase` (unique index), `SymbolPlaces` (memory), `PrefixIndex` (ordered index), `Topology` (random access index) |
| manifold | `rtl/manifold.cpp`, `.hpp` | the mapped image; a run time cache of pointers to spaces, private to the process | opening (`mapfile`, `get_named_spaces`), lookups, density, similarity, overlap, topology, `load_vector`, `load_elemental`, geometry, `ensure_space_by_name` | `SdmDatabase`, `ImageFile`, `Topology`, `Affinity` |
| database | `rtl/database.cpp`, `.hpp` | the generator of fingerprints, private to the process | open, close (with compaction), `namedvector`, `superpose`, `subtract`, `destroy_space`, `ensure_symbol`; heap growth (never called) | `SdmDatabase`, `SdmDestroy`, `ImageFile` |
| generator | `util/fast_random.hpp` | a permutation of the dimensions and an engine | `shuffle` | `IndexRandomizer`; in `SdmDatabase` the constant `Shuffles` |
| C interface | `rtl/sdmlib.cpp` | none | `sdm_database`, `sdm_database_close`, `sdm_load_vector` | `ImageFile` (the first two), `Topology` |
| array tools | `util/sort.h`, `util/rand.h` | none | merge sort, Knuth shuffle | `ArrayTools` |
| frame trainer | `test/frametrain.cpp` | current frame, counters | reads lines, superposes terms on frames and on one another | `FrameTrainer` |
| affinity | `test/affinity.cpp`, `index_bimap.hpp`, `sparse_matrix_io.hpp` | a bimap of names to indexes | topology of every point, written to files and read back | `Affinity` |
| sdmi | `test/sdmi.cpp` | none | an interactive command line; loads files of names | `Sdmi` |

### How they interact

A caller uses `database`, which is a `manifold`. A call resolves space names
through the cache and, in `ensure_space_by_name` only, through the directory of the
heap; it resolves symbol names in the container; it allocates in the heap through
the segment manager. Several processes may map one image: the segment manager
locks its own operations (allocation, `find_or_construct`, `destroy`, the check of
the heap when a database is closed) with a mutex in the file, and nothing else is
locked: neither the listing of the named objects nor anything below. The containers, the vectors and the sequence of operations of a call are
unprotected. Inside a process `get_topology` runs its rows on a team of threads
(OpenMP, or libdispatch). The tools are single threaded clients of one database.

### What is hard

* *Interleaving.* `superpose` finds, then inserts, then writes; other processes
  come in between. An element of a vector is loaded, changed and stored. A scan of a
  space reads vectors that others are writing, and a search hands out iterators into
  an index to which others link.
* *Crash.* The image is a file: whatever a process that died had done stays, a
  half applied lesson, unreachable memory, a mutex that is held and a file that is
  half created included.
* *Failure.* The heap runs out at any of up to six allocations of one call; some
  of the functions are `noexcept`, and the copies of a scan are made inside a parallel
  region, so that an exception ends the process.
* *Stale state.* The cache is filled at start up and refreshed only by the
  process's own calls; a count of symbols is used after others have linked more; the
  generator restarts from one seed in each session.
* *Arithmetic.* Signed rotations on unsigned dimensions; 64 bit elements and the
  width of what is shifted and counted; dithers that split a fingerprint; a matrix
  format that leaves one index to the reader.

### What makes each part correct

* database: what a vector holds is what was taught and no more; a success means
  that the lesson was applied; a symbol, once linked, keeps its identity; the heap
  adds up; the call returns.
* manifold: a pointer in the cache is a space of the image; the session finds what
  it made; a query's rows are complete, named right, consistent in themselves, and
  the result is the best of them; its copies are returned to the heap.
* symbol space: a search loses no match, finds no more than the matches where nobody
  links one, and keeps the order of names.
* vectors: the words hold the set of bits the lesson defines; measures on words are
  those of sets.
* opening and closing: all processes mean one table by a name; opening makes nothing
  and misses no public space; nobody waits for ever but for a process that died.
* generator: the fingerprints of one session differ, have all their bits, and no
  order of the dimensions is favoured.
* trainer: every line is trained exactly, whatever the switches; frames are counted
  and are taught what belongs to them.
* affinity: indexes are the rows of the matrix, and both files are read back.
* sdmi: a load counts what it loaded; nothing is made that was not named.

## 2. Modules

| module | models | extends |
|---|---|---|
| `AssociativeMemory` | the abstract specification: symbols are defined once and taught one position at a time | |
| `SdmDatabase` | image, heap, processes, sessions and calls | instance of `AssociativeMemory` |
| `MCSdmDatabase` | instances of it | `SdmDatabase` |
| `SymbolPlaces`, `MCSymbolPlaces` | where symbols are in memory, and the references a call holds to them | `SdmDatabase` |
| `SdmClaims` | properties that comments and options of the repository state and the code does not have | `MCSdmDatabase` |
| `SdmDestroy` | `SdmDatabase` with `destroy_space` | `MCSdmDatabase` |
| `SdmDatabaseProofs` | types, learning, draws, endurance, refinement; what a call knows and leaves; the accounts of the heap; references | `SymbolPlaces`, TLAPS |
| `ImageFile`, `MCImageFile`, `ImageFileProofs` | creating, opening, listing, destroying and closing, with the segment's lock | |
| `IndexRandomizer`, `MCIndexRandomizer`, `IndexRandomizerProofs` | the generator of fingerprints, roll by roll | `ArrayTools` |
| `ArrayTools` | merge sort and Knuth shuffle, as (recursive) functions of a list | |
| `SymbolVector`, `MCSymbolVector`, `SymbolVectorProofs` | superpose and the measures on machine words | instance of `AssociativeMemory` |
| `Topology`, `MCTopology`, `TopologyProofs` | `get_topology` with its team, `load_vector`, `load_elemental`, beside other processes | |
| `PrefixIndex`, `MCPrefixIndex`, `PrefixIndexProofs` | `prefix_search` and the walk of its result, beside other processes | |
| `FrameTrainer`, `MCFrameTrainer`, `FrameTrainerProofs` | the trainer's loops | |
| `Affinity`, `MCAffinity` | the affinity tool, its bimap and its files | |
| `Sdmi`, `MCSdmi` | the command loop | |
| `ToolProofs` | the affinity tool and the command loop | `Affinity`, `Sdmi`, TLAPS |

In each module an operator that stands directly before a definition, and that
nothing uses, is a wrong version of that definition, of the kind a slip in the code
would be. `PROJECT.json` pairs each property with one of them that breaks it.

### How state and actions correspond to the code

**SdmDatabase.** The image is `tables` (the directory of the segment), `index`
(symbols linked into the containers), `basis`, `dither`, `vector` (of each symbol)
and `size`, `free` (of the segment). A process has `cache` (`manifold::spaces`),
`shuffles` (how far its generator is), `call` and `pc`. A vector is the set of its
bits. A call takes one step for each operation on the image that it makes, in the
order of the code: `EnsureTargetSpace`, `EnsureSourceSpace`, `FindSource`,
`ConstructSource` (which draws a fingerprint and allocates), `LinkSource` (which may
be refused, and then gives the memory back), the same for the target, and then
`LoadElement` and `StoreElement` for each position of the fingerprint, since `|=` on
an element is a load and a store. `Return` and the failing alternatives set the
status the code returns. `Density`, `Measure` and `Subtract` are one step. `Open`
maps the image, creating it if there is none, seeds the generator and fills the
cache as `get_named_spaces` does; `Close` compacts if the process was asked to;
`Crash` may come between any two steps, and memory that a process had constructed
and not linked goes to `leaked`.

**SymbolPlaces.** `SdmDatabase` names symbols; the code holds references into memory,
`s` and `t` of `superpose`, over insertions. This module takes each step of
`SdmDatabase` with what it does to that memory: `place` (where a linked symbol is),
`used` (the places that are allocated), `made` (the place of a symbol between its
construction and its linking) and `held` (the references). A lookup puts the symbol's
place into a reference (`LookUp`), a construction takes any free place (`Construct`), an
insertion puts the new symbol where it was made or, refused, frees that place for
others (`Insert`). `Settle` says what an insertion does to the symbols that were there:
nothing, since the container is one of nodes. `SettleMoving`, beside it, is a container
that keeps them in an array.

**ImageFile.** `SdmDatabase` takes an opening, a closing and the ensuring of a space
for one step; this module cuts them where processes meet. The file is `file`
(absent, blank while `maker` creates it, ready), `lock` (who is inside the segment's
mutex), `table` (the directory: which table made of a name it holds) and `room`. A
process has `mode`, `cache`, `list` (what its constructor still has to ensure), `pass`
(the manifold's constructor lists the names, and the database's lists them again) and
`job` (what it wants the lock for). `SdmDatabase(p)` is the call `sdm_database`,
`MapFile`, `Initialise` and `Await` are `mapfile`, `BeginNames` and `EndNames` are
`get_named_spaces`, which takes no lock, and `Preload` is the loop around
`ensure_space_by_name`; `Acquire` to `Release` are the inside of the lock: `Find`,
`Construct`, `Allocate`, `DestroySpace`, `CheckHeapSanity`. `Crash` may come between any
two steps, and a lock or a creation whose process is dead is `Gone`'s for ever. Tables
of a name are numbered, so that a pointer to a destroyed one can be told from one to
its successor.

**IndexRandomizer.** A generator has `idx`, the place `at` that is exchanged next and
`drawn`, the fingerprints that were taken of its shuffles; `Exchange` is one turn of
`std::random_shuffle` with one roll. The engine is seeded with its default: its rolls
are unknown, but the same for each generator, so they are a `tape` that is written by
the first generator to reach a place of it. `Take` is the constructor of a symbol,
which may throw and waste the draw.

**SymbolVector.** One element at a time, as `superpose` computes it: `Rotated` with
its unsigned arithmetic, `Place` (index and bit), `OrredIn`, `MaskedOut` on words. A
machine word is the set of its bits that are one, so `|`, `&` and `~` are union,
intersection and complement; the measures are loops over the elements (`Total`).

**Topology.** `AskByName`, `AskByVector` (the two overloads), `CopyTarget` element by
element, `TakeRow`, `CopyElement`, `ScoreRow` by each thread of the team, `Join`,
`Filter`, `Rank`, `Drop`; `Link` and `Store` are other processes. The work array has one
row for each symbol counted, and is sorted together with what the caller's list held
(`earlier`): a caller may pass the list of the call before as it is. `LoadVector` and
`LoadElemental` fill the caller's `buffer`, by way of a copy in the shared heap, and a
query by vector may ask with what they left there.

**PrefixIndex.** `Search` gives the pair of iterators, `Walk` is one turn of the
caller's loop, `Link` another process. An iterator is the node it points to. A name is
a sequence of numbers and `Less` the order of strings.

**FrameTrainer.** `first` and `next` are the iterators of the two loops; each
`superpose` is a step that is taken, refused with the status dropped, or ends the
process.

**Affinity.** The bimap is a pair of functions, a matrix is compressed sparse columns
as Eigen keeps it, a file is the sequence of words or numbers in it.

**Sdmi.** A word is the sequence of its parts between colons; a command is one step,
a load is a step for each line; `shell` says where the loop is.

### Abstractions

* An operation of the container, or of the segment manager, is one step. The
  segment manager does lock; the containers do not, so what two processes do *inside*
  one operation of a container at the same time is not modelled.
* The heap is counted in units, without fragmentation or alignment. A symbol costs
  one price for its node and its vector; a long name costs more.
* In `SdmDatabase` an `Open` is one step. While it runs, tables can only be added, and
  one that is added meanwhile is one that it did not see: `ImageFile` has it in steps,
  and `OpenedKnowsAll` and `OpeningOnlyReads` say what this abstraction rests on.
* In `ImageFile` the listing is a step to begin it and one to end it, and lists any
  subset if the directory changed in between: what a walk of a tree that is being
  relinked yields is undefined.
* An operating system that crashes, and loses pages of the mapped file, is not
  modelled: a process that dies leaves what it has written.
* A call that ends its process by an exception (`noexcept`) may leak what it held.
* In `SdmDatabase` a shuffle of the generator is the constant `Shuffles`, the same for
  every process and session. `IndexRandomizer` says why: `SessionsReplay` that sessions
  draw the same in the same places, `FingerprintsSound` that a fingerprint names no
  dimension twice. That two draws of one generator differ is assumed, as they do but
  for a chance that no test will see.
* `contested`, `lessons`, `born`, `session` and `leaked` are history variables: no
  guard reads them, except the bound on sessions.
* `trail`, `rolls` and `from` in `IndexRandomizer`, `made`, `destroyed`, `seen` and
  `stirred` in `ImageFile`, `started`, `disturbed` and `earlier` in `Topology` and
  `began` in `PrefixIndex` are history variables as well; `made` numbers the tables,
  and the counters `opens`, `draws`, `links` and `stores` are read by bounds at most.
* Measures are counts of bits; the code divides by the number of dimensions.
* In `Topology` any worker may take any row: the code's schedules are among these.
* In `Affinity` what is near to what is a constant, and Eigen's matrix (compression,
  `finalize`) is external, modelled from how the code uses it.
* In `FrameTrainer` and `Sdmi` a call of the database is its outcome alone. That is
  what the tools see; how the outcome comes about is `SdmDatabase`.

## 3. Runs

### Runs that pass

| run | question | what it shows |
|---|---|---|
| `solo` | one process, two sessions, crashes, a full heap, compaction, a hidden space, a long name, two dithers | types; every unit of memory is accounted for; draws of a session differ; a success has taught, and recall right after it is exact; a session sees what it made; every call returns |
| `pair` | two processes learn into one space, all interleavings | the references that `superpose` holds stay good in memory, over its own insertion of the target and over what the other inserts, is refused and frees; the heap adds up; vectors hold what was taught and no more; an insertion is only ever refused because of a race; symbols endure; the abstract memory is implemented |
| `image` | two processes create, open to write or to read, fill, destroy spaces of and close one image, and die at every step | pointers are to the table of the directory or to one that was destroyed; opening makes nothing and misses no public space; a process waits for ever only for one that died in the lock or while it created the file |
| `generator` | two generators with one seed, each of two shuffles, fingerprints that are thrown away | no dimension twice; each order comes up by one sequence of rolls only; sessions replay each other; the merge sort undoes what either shuffler does |
| `topology` | a team of two, vectors loaded and asked with, a list passed twice, other processes link and store, a heap that runs out | rows agree in themselves and with what is stored where nothing was stored to, are named right, are complete; the result is the top of what passed and of what the list held; copies come back; every query ends |
| `vector` | two words of two bits, rotations 0, -5 and 6 of 4 dimensions | every bit lands where modular arithmetic puts it; measures agree with those of sets; words implement the associative memory |
| `prefix` | seven names, five prefixes, another process links | no match is lost, an undisturbed search is exact, order holds |
| `trainer` | every combination of switches, every input of three lines of four kinds | each line is trained exactly, frames are counted and taught what is theirs |
| `affinity` | tables of up to three symbols, others link more | indexes are rows, nothing is entered twice or outside the matrix, the matrix of a space at rest is whole, files are read back where the formats can |
| `shell` | any three commands, files refused half way | loads are counted, nothing is made that was not named |

`PROJECT.json` pairs each property of these runs with a wrong version of a definition
under which TLC finds it violated.

### Disagreements

Met while the models were written. Each is one sentence of the repository, and TLC
finds a behaviour of the code that does not agree. Two of them are regular runs;
the others are stated in the modules and can be put to TLC with the configuration
named here.

| run or configuration | the sentence | what the code does |
|---|---|---|
| run `destroy` | `rtl/database.cpp:181` "destroy space permanently" | the cache keeps the address of the destroyed table |
| run `source_space` | `rtl/manifold.cpp:188` "get source space" | the target space is looked up |
| `SdmClaims`, `ClaimFingerprints` | `mms/symbol_space.hpp:38-39` "the sparsity of the random (elemental) vectors" | the generator restarts from one seed in each session, so symbols of two sessions share a fingerprint |
| `MCImageFile`, `ClaimReadOnly` | `rtl/manifold.cpp:7` "construct manifold from read only image" | the constructor fills its cache by `find_or_construct`, which takes the lock in the mapped file: the mapping is read only, so the process ends there if there is a space to load |
| `MCFrameTrainer`, `ClaimFrames` | `test/frametrain.cpp:121` "else assume 1 line/frame" | without frame ids all lines share the frame named by the empty string |
| `SdmClaims`, `ClaimPointers` | `rtl/database.cpp:116-118` "CAVEAT: this must follow any insertions in the space as any insert to index MAY invalidate vector or symbol pointers" | only the lookup of the target follows all insertions: the reference to the source, taken in lines 104-109, is held over the insertion of the target in line 124, and both over the insertions of other processes. It does no harm with the container declared in `mms/symbol_space.hpp:116-124`, whose nodes stay where they are (`ReferencesLive`); in one that moves its elements the source would be lost (`SettleMoving`) |
| `SdmClaims`, `ClaimArguments` | `rtl/database.cpp:151` "remove source from target" | `symbol::subtract` has its body commented out |
| `SdmClaims`, `ClaimArguments` | `test/frametrain.cpp:140-141` "train with differentiated instances of terms" | `superpose` ignores its shift |
| `SdmClaims`, `ClaimStartUp` | `rtl/manifold.cpp:318` "cache all spaces at rts start up" | spaces named `_...` are skipped |
| `SdmClaims`, `ClaimReadThrough` | `rtl/manifold.hpp:255` "read through space cache" | a lookup answers from the cache alone |
| `SdmClaims`, `ClaimOutage` | `rtl/database.cpp:69-72` "thus cause memory outage which may incur database growth if possbile (or indeed may fail)" | `bad_alloc` in `superpose` ends the process |
| `SdmClaims`, `ClaimSerialize` | `rtl/database.cpp:62` "learning/transactional operations" | two lessons leave what neither order gives |
| `MCSymbolVector`, `ClaimInner` | `mms/symbol.hpp:117` "inner product is the commonality/overlap" | `symbol::inner` returns the distance |
| `MCPrefixIndex`, `ClaimPrefix` | `mms/symbol_space.hpp:261` "lookup symbols by prefix of name" | a symbol linked just before the end of the range is walked too |
| `MCAffinity`, `ClaimMatrix` | `test/sparse_matrix_io.hpp:47` "deserialize" | one outer index is not written; a matrix whose only filled column is the last is read as empty |
| `MCAffinity`, `ClaimIndex` | `test/index_bimap.hpp:52` "de-serialize" | a name of two words is not read back |
| `MCSdmi`, `ClaimPrefixOption` | `test/sdmi.cpp:156` "default space name for unqalified symbols" | `<` loads qualified names into the default space too |

## 4. Bounds

* `SdmDatabase`: four dimensions in elements of two bits, fingerprints of two. Two
  positions may share an element or not, lead or trail, and two fingerprints overlap;
  that is every case `superpose` tells apart. Heaps of 7 and 8 units run out at
  every allocation of a call. `MaxOpens = 2` sessions are enough for a crash and
  a recovery, and for two processes. `MaxShuffles` bounds what a session draws:
  callers start a call only if the draws it may make are there. `Targets` and
  `Askers` restrict which symbols are taught and which processes ask, to
  keep the runs small: the proofs have no such restriction. `pair` uses the symmetry of
  its two processes and of its places; it checks no liveness.
* `SymbolPlaces`: four places, one more than the three symbols of two units that a heap of
  7 can hold, so that there is always one to construct in, and one that was given back
  may be taken again or not.
* `SymbolVector`: `UnsignedSize = 8`, an unsigned of 3 bits, stands for 32; the dimensions
  divide its range, as they do in the code (`PowerAssumption`). Two words of two bits hold every
  case of index and bit; -5 and 6 go beyond the four dimensions at either end.
* `ImageFile`: two processes, for one to come while the other creates the file, is in
  the lock, or lists the names; one public and one hidden name; `HeapSize = 2` units are
  gone after two tables; `MaxOpens = 3` sessions let a process come back to what two
  others left; `MaxDestroys = 1` leaves a stale pointer and room for a second table of
  the name.
* `IndexRandomizer`: four dimensions, so that an exchange at the first, an inner and the
  last place differ; `MaxDraws = 2`, since the second shuffle starts from the order of
  the first.
* `Topology`: one space of two symbols and a third to be linked, and a space asked
  for that is not there; `Room = 3` copies, so that two
  workers, the target and a linked symbol compete for it; `MaxStores = 1` store by
  others may come before, between or after the copies of the two elements, so that what
  was copied and what is stored differ when the row is measured; a copy that mixes two
  states of a vector takes two stores, which the theorem `RowsAreTrue` has and the run
  does not; `MaxKept = 1` row left in the
  caller's list is enough to displace one of the next call. A cut of 3 exceeds the rows.
* `PrefixIndex`: names that are prefixes of one another, a prefix that is a name,
  one that is longer than any match, the empty one; `Heap = 6` of the 7 names.
* `FrameTrainer`: `MaxRows` of 3 lines lets a frame come, go and come back.
* `Affinity`: a space of one symbol and one of none are where the file format bites.
* `Sdmi`: `MaxCommands = 3` lets a load follow what another command made, and a
  command follow a load that stopped.

## 5. Fairness

`SdmDatabase!FairSpec` has weak fairness of the steps of each process that is in a
call (`solo` checks `CallsReturn` under it): the code never waits for another process, and a scheduler that runs a process
at all gives it that. Opening, closing, dying and beginning a call are not fair.
`Topology!FairSpec` has it for the caller and its team as a whole: no thread of them
waits for another but at the join. `ImageFile!FairSpec` has weak fairness of each
process's own steps and strong fairness of its taking of the lock: the mutex is free
again and again, and a scheduler that never lets one of two waiters have it is not one
that runs processes. Without the strong part a waiter may be passed by for ever, by the
shape of the model and not of the code. Beginning a call, opening, and dying are not fair.

## 6. Theorems

Each is for every set of processes, spaces and symbols, every size and bound, under the
named assumptions on the constants of the module. The inductive invariants were checked
by TLC on the instances of the runs before they were proved.

### The database

| theorem | module | statement | inductive invariant |
|---|---|---|---|
| `TypeCorrect` | `SdmDatabaseProofs` | `Spec => []TypeOK` | `Typed` |
| `LearningIsSound` | | `Spec => []NothingInvented` | `Learnt` |
| `LearningIsKept` | | `Spec => []NothingForgotten` | `Learnt` |
| `DrawsAreFresh` | | `Spec => []SessionFingerprints` | `Sessions` |
| `Refinement` | | `Spec => ImplementsMemory` | `Learnt` |
| `Endurance` | | `Spec => SymbolsEndure` | `Typed` |
| `ReferencesStayLive` | | `PlacedSpec => []ReferencesLive` | `PlacesOK`, with `Calls` |
| `SuccessHasTaught` | | `Spec => []SuccessTeaches` | `Calls` |
| `SessionSeesItsOwn` | | `Spec => []SessionSees` | `Calls` |
| `RefusedByARace` | | `Spec => []OnlyARaceRefuses` | `Calls` |
| `OneProcessRecalls` | | `Spec => []RecallAfterSuperpose`, where `Procs` is a singleton | `Recall` |
| `TheHeapAddsUp` | | `Spec => []HeapAccounted` | `Accounts` |

* `Typed` is `TypeOK` with what a step of a call knows of the call: `CallOK` (which
  symbols are linked by then, how far the loop is), `DrawsOK` (a process that will
  draw has a fingerprint left) and `LinkedOK` (a linked symbol has a fingerprint).
  Without `DrawsOK` the type of `shuffles` is not inductive, and without
  `CallOK` the store of an element has no fingerprint to read.
* `Learnt` adds `LessonsOK` (lessons are between linked symbols) and `LoadedOK`: what
  a process that is about to store has loaded holds no bit that was not taught, and,
  if the target is not contested, is still what the vector holds. This is where the
  race for an element is dealt with: a second process that loads or stores while the
  first is between its load and its store makes the target contested.
* `Sessions` adds that sessions differ, that a session's symbols have fingerprints
  drawn before its present position, and that one being linked was drawn last: so the
  next draw differs from them all.
* `Calls` adds to `Sessions` what a process knows at each step of a call: the tables it
  goes through are in its cache and in the image (`TablesOK`, `Mapped`), what it has
  taught is the fingerprint up to where its loop is (`Told`), a session's symbols are
  linked in tables it has mapped (`Sees`), and a symbol that was missed by a lookup and
  is linked since was linked by another session (`Raced`), so that a refusal means a race.
* `Recall` adds to `Calls` and `Learnt` that fingerprints name a dimension once
  (`Distinct`), that nothing is contested where there is one process, and that the target
  holds what is taught as far as the lesson has got (`Recalled`): the bits that a
  position writes are not written again by a later one of the same fingerprint.
* `Accounts` writes the books with cardinalities: tables, linked symbols, those with long
  names, and the processes between constructing a symbol and linking it (`Pending`).
  Each step is one of five kinds (nothing spent, a table made, a symbol constructed,
  linked, given up), and each kind keeps the balance.
* `PlacesOK` says where symbols are: no two, linked or in the making, have one place
  (`PlacesApart`); a process has a place made just between construction and linking
  (`MadeOK`); and the references are to the places of the symbols the call names, since
  the lookup or the insertion that set them (`HeldOK`). Every step of `PlacedSpec` is a step
  of `Spec` (`PlacedIsDatabase`), so `Calls` holds beside it: it has the two symbols in the
  index and their tables in the cache. An insertion writes the place of one symbol only,
  and a refused one frees a place that `PlacesApart` keeps from every reference.
* `Refinement` has one step for each action: linking maps to `Define`, the store of an
  element to `Teach` (turned by nothing, as the database passes no rotation), to
  `Contest` or to a stutter, everything else to a stutter.

### The other components

| theorem | module | statement |
|---|---|---|
| `OneTablePerName` | `ImageFileProofs` | `Spec => []CachesAgree` |
| `OpeningMakesNothing` | | `Spec => []OpeningOnlyReads` |
| `OpenedKnows` | | `Spec => []OpenedKnowsAll` |
| `FingerprintsAreSound` | `IndexRandomizerProofs` | `Spec => []FingerprintsSound` |
| `Replay` | | `Spec => []SessionsReplay` |
| `NoOrderIsFavoured` | | `Spec => []Unbiased` |
| `ShufflesAreSorted` | | `Spec => []SortUndoesShuffle` |
| `RotationIsExact` | `SymbolVectorProofs` | `Spec => []RotationExact` |
| `MeasuresAreOfSets` | | `Spec => []MeasuresAgree` |
| `WordsAreMemory` | | `Spec => WordsImplementMemory` |
| `RowsAreTrue` | `TopologyProofs` | `Spec => []RowsAgree` |
| `NamesAreTrue` | | `Spec => []RowsNamed` |
| `BestComeFirst` | | `Spec => []BestFirst` |
| `EveryoneScored` | | `Spec => []AllScored` |
| `CopiesComeBack` | | `Spec => []CopiesReturned` |
| `EveryMatchIsFound` | `PrefixIndexProofs` | `Spec => []NoMatchLost` |
| `NamesComeInOrder` | | `Spec => []PrintedInOrder` |
| `EveryLineIsTrained` | `FrameTrainerProofs` | `Spec => []LineTrained` |
| `FramesAreCounted` | | `Spec => []FramesCounted` |
| `FramesHold` | | `Spec => []FramesHoldTheirTerms` |
| `TheIndexesAreRows` | `ToolProofs` | `Spec => []IndexesAreRows` |
| `TheFilesReadBack` | | `Spec => []FilesReadBack` |
| `LoadsAreCounted` | | `ShellSpec => []LoadCounted` |
| `OnlyTheNamed` | | `ShellSpec => []OnlyWhatWasNamed` |

* `ImageFileProofs`: `IInv` is `TypeOK`, `BlankOK` (a file that is not ready is empty, and
  nobody is inside it) and `ProcOK` for each process: `FileOK`, `LockOK` (a process inside
  the lock holds it, so there is one), `ListOK` (what was listed was in the directory),
  `LoadOK` (what was listed is in the cache, or still to be ensured, or destroyed) and
  `Known` (a table that was seen or is cached is that of the directory or was destroyed).
* `IndexRandomizerProofs`: an exchange keeps a list injective. For `Replay`, the list of
  a generator is a function of how much of the tape it has read: `trail` has the state
  after each roll, and each generator is where `trail` says, so that two that have
  drawn have drawn the same. For `Unbiased`, `Rolled` says that the list is what the rolls
  since the shuffle began have made of `from`. The lemmas follow a shuffle through its
  stages: rolls have one sequence of stages (`StagesExist`, `StagesUnique`), and an
  exchange is its own inverse, so that lists which end alike were rolled alike. For
  `SortUndoesShuffle`, `OrderOf` says that a list is in order and has the entries of
  certain places of another, each once. `merge` takes the next entry of one half at each
  turn (`MergeTurn`), no more of a half than there is (`UsesWhatIsThere`), and never gives
  one back (`UsesMore`): two halves in order make one list in order (`MergeOrders`), and
  so every part that `merge_sort` meets is one, shorter parts first (`SortOrders`). The
  entries are then counted by a bijection of places (`EntriesKept`), and the dimensions
  have one order that ascends (`OneAscends`).
* `SymbolVectorProofs`: `Superposing` is `Typed`, `Looping` (where the loops are) and `Turned`
  (what the target holds is what it had, with the positions that the loops are done with
  set and cleared). It rests on the arithmetic of one dimension: a dimension is one bit of
  one word (`WordOf`, `OneDimension`, `BitOf`), and unsigned arithmetic that wraps at a
  multiple of the dimensions is that of the dimensions (`RotatedIs`, from
  `PowerAssumption`). For the measures, `CountIs`: the bits of the words that a loop has been
  over are the dimensions below where it is. The refinement has a step for each element
  stored, `Teach` turned by the rotation of the call.
* `TopologyProofs`: `IInv` is `TypeOK` and what each phase of a call knows: names are in a
  space once (`NamesOnce`), rows and names are dealt by one order (`RowsOfSymbols`,
  `RowsDealt`), copies are true where nothing was stored since (`TargetTrue`, `TeamTrue`,
  `ScoresTrue`), how many copies the heap holds (`Held`), and what the filter and the
  sort have of the rows (`Filtered`, `Ranked`). The measures rest on a lemma on the
  cardinality of a symmetric difference.
* `PrefixIndexProofs`: `Less` is a strict linear order on strings, by the least position
  at which two differ; a finite set of names has a first (both by well-foundedness of
  the numbers); cutting names to a length keeps the order, so that names below a prefix,
  those that start with it and those above it follow one another. `IInv` is `TypeOK`,
  `Ordered` and, while the caller walks, `AtOK`, `StopOK`, `PrintedOK` and `NoneLost`: where
  the two iterators are, and that a match is printed or ahead.
* `FrameTrainerProofs`: `IInv` is `Shape`, `Bounds` (where the iterators are), `Progress` (the
  calls made for a line are those that come before the iterators), `OnceEach` and
  `FramesFirst`. A call to be made is at the iterators, so it is none of those before them.
  `Frames` adds `Counts`, `Known` (the frame of the line read last), `InLine` and `Lessons` (which
  terms of which lines their frames hold by now): a frame starts at a line that has
  terms and another frame than the last that had.
* `ToolProofs`: for the affinity tool `IInv` is `Shape`, `Bimap(map)` (the two maps are
  inverse and number the rows), `Level`, `Rows` (each entry is of a point that was
  reached and of a neighbour that was entered, once), `Whole` (undisturbed, no neighbour
  of a reached point is missing) and `Written`. For the files, `Kept` adds that what was
  written is of the map and the matrix as they are at the end. The matrix: an entry of a
  compressed matrix is known by its place, the number of those before it
  (`EntryPlaces`), and the outer indexes bound the places of each column
  (`ColumnPlaces`), so the arrays have the entries and no others (`MatrixKeepsEntries`);
  the outer index that is not in the file is the number of entries, which is what
  `finalize` puts there when the index before it is not zero (`MatrixBack`). The index
  file: the words that `serialize` writes (`SerializeIs`) are those that `deserialize`
  makes the map of again, entry by entry (`DeserializeIs`). For the command loop,
  `Loading` counts fates with cardinalities and has a refusal as the last of them, and
  `Named` gives each symbol the word it is of.

### Induction

The induction theorems of the library take an operator as a parameter and are out of
reach. Where a proof goes along a recursive function (the stages of a shuffle, the
loops over the elements, the merge sort, the words of a file), it does so by a lemma on
*sets* of numbers: one that has zero, and the next after each of its own, has them all.
That lemma follows from the well-foundedness of the natural numbers. That a recursive
function *has* values is proved as well, where it is used: TLA+ defines it with `CHOOSE`.

### Only model checked

Liveness (`CallsReturn`, `CallEnds`, `WaitsOnlyForTheDead`) is beyond the prover: fairness
and `ENABLED` cannot be reasoned about with it.

## 7. What is not modelled

* `grow_heap_by` and `grow` of `database.cpp`: private or static, and nothing calls them;
  `ensure_mutable_symbol` is declared and not defined.
* `destroy_space` destroys the object as a `symbol_space` where a symbol table was
  constructed: the destructor that runs is of the wrong type. In `ImageFile` it
  either works or ends the process; what else it may do is undefined.
* What two processes do inside one operation of a container, and so a read of the
  random access index, or a lookup in the hashed one, while another process reallocates
  its array of pointers: undefined, and beyond an operation that is one step. `ReferencesLive`
  is about references to symbols, which are nodes, and rests on Boost's promise that nodes
  stay where they are: the container is external to the repository.
* In `Topology` a query by name takes the count of the symbols (`rtl/manifold.cpp:186`) and
  the lookup of the one asked for (line 192) in one step. A link between the two, after
  which that symbol has no row of its own, is not seen; no property depends on it, since
  links after the step and before the scan leave the same rows.
* The time-outs with which Boost waits for a file that another process is creating: the
  model waits.
* The part of `rtl/sdmlib.cpp` that is compiled out with `NOTDEF`, and `geometry.hpp` and
  `lookup.hpp`, which nothing that is built includes.
* The xorshift generators of `fast_random.hpp` and `rand.h`, whitenoise and the operators
  of the vectors: nothing calls them. A word that `rand.h` rolls with is an argument.
* `sdmi` reads a third word of a command where two are known to be there: the model
  takes any name for it.
* The unit tests, which were read for what they expect, and the build files.

## 8. Plan

What could come next, in order:

1. `FrameTrainer` above `SdmDatabase`: the trainer's lessons as those of one process
   of the database, so that `FramesHoldTheirTerms` speaks of vectors.
2. `ImageFile` below `SdmDatabase`: its opening and ensuring as a refinement of the single
   steps `Open` and `EnsureSpaceByName`.
3. The heap's growth, as the code has it although nothing calls it.
