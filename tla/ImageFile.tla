----------------------------- MODULE ImageFile -----------------------------
(***************************************************************************)
(* The life of a memory mapped image: the constructors and destructor of   *)
(* manifold and database (rtl/manifold.cpp, rtl/database.cpp), behind      *)
(* sdm_database and sdm_database_close (rtl/sdmlib.cpp), and the directory *)
(* of named tables that ensure_space_by_name, get_named_spaces and         *)
(* destroy_space work on.                                                  *)
(*                                                                         *)
(* SdmDatabase takes each of these for one step.  Here they are cut where  *)
(* processes meet: one process creates the file while others wait for it,  *)
(* and find_or_construct, destroy, every allocation and the sanity check   *)
(* run inside the segment's lock, a mutex in the file itself.  The listing *)
(* of the names takes no lock.  A process may die at every step.           *)
(*                                                                         *)
(* An operator that stands directly before a definition and is used by     *)
(* none is a wrong version of it, for the mutants PROJECT.json lists.      *)
(***************************************************************************)
EXTENDS Integers, FiniteSets

CONSTANTS
  Procs,          \* processes that may map the image
  Spaces,         \* names of spaces
  Hidden,         \* the space names that start with '_'
  Modes,          \* how they open it: "rw" with a size, "ro" with size 0
  HeapSize,       \* units of memory: a table takes one, and so does a symbol
  MaxOpens,       \* bound: sessions, over all processes
  MaxDestroys,    \* bound: calls of destroy_space that destroy
  None, Gone      \* no process, and one that is dead

ASSUME ImageAssumption ==
  /\ Hidden \subseteq Spaces
  /\ Modes \subseteq {"rw", "ro"}
  /\ HeapSize \in Nat
  /\ MaxOpens \in Nat
  /\ MaxDestroys \in Nat
  /\ None \notin Procs \cup Spaces
  /\ Gone \notin Procs
  /\ None # Gone

VARIABLES
  \* the file
  file,           \* "absent", "blank" while it is created, or "ready"
  maker,          \* the process that creates it
  lock,           \* the process inside the segment's lock
  table,          \* [name]: which table made of it is in the directory, or 0
  room,           \* units of memory that are free
  \* the processes
  pc,             \* the step a process takes next
  mode,           \* how it opened the image
  cache,          \* manifold::spaces: the table it has a pointer to, or 0
  pass,           \* the constructor that lists the names: 1 manifold's
  list,           \* names it has listed and not ensured yet
  job,            \* what it wants the lock for, and the name concerned
  status,         \* what sdm_database returned for its session
  \* history
  opens,          \* sessions so far
  made,           \* [name]: tables made of it so far
  destroyed,      \* the tables that were destroyed
  seen,           \* [name]: its table when a process listed the names, or 0
  stirred         \* whether the directory changed while it listed them

disk    == <<file, maker, lock, table, room>>
private == <<pc, mode, cache, pass, list, job, status>>
listing == <<seen, stirred>>
count   == <<opens, made, destroyed>>
history == <<count, listing>>
vars == <<disk, private, history>>

-----------------------------------------------------------------------------

Goto(p, step) == pc' = [pc EXCEPT ![p] = step]
Answer(p, answer) == status' = [status EXCEPT ![p] = answer]

NoTables == [s \in Spaces |-> 0]
NoJob == [op |-> "none", space |-> None]

\* The process is gone, and what it has mapped.
Vanish(p, answer) ==
  /\ Goto(p, "down")
  /\ mode' = [mode EXCEPT ![p] = "rw"]
  /\ pass' = [pass EXCEPT ![p] = 1]
  /\ cache' = [cache EXCEPT ![p] = NoTables]
  /\ list' = [list EXCEPT ![p] = {}]
  /\ job' = [job EXCEPT ![p] = NoJob]
  /\ Answer(p, answer)
  /\ seen' = [seen EXCEPT ![p] = NoTables]
  /\ stirred' = [stirred EXCEPT ![p] = FALSE]

\* The tables that can be listed: of a name that starts with '_', none.
Public == [s \in Spaces |-> IF s \in Hidden THEN 0 ELSE table[s]]
Named(tables) == {s \in Spaces : tables[s] # 0}

\* Whoever lists the names meanwhile walks a tree that is being relinked.
Stir == stirred' = [q \in Procs |-> stirred[q] \/ pc[q] = "walking"]

-----------------------------------------------------------------------------
(* Opening: sdm_database, and the constructors it runs.                    *)

SdmDatabase(p) ==
  /\ pc[p] = "down"
  /\ opens < MaxOpens
  /\ opens' = opens + 1
  /\ \E m \in Modes : mode' = [mode EXCEPT ![p] = m]
  /\ Goto(p, "map")
  /\ Answer(p, "none")
  /\ UNCHANGED <<disk, cache, pass, list, job, made, destroyed, listing>>

\* One process creates the file: the others find that it exists.
AbsentOrBlank == file # "ready"
Absent == file = "absent"

\* mapfile: open_or_create if a size is given, else open_read_only, which
\* throws if there is no file; sdm_database catches it.
MapFile(p) ==
  /\ pc[p] = "map"
  /\ \/ /\ Absent
        /\ mode[p] = "rw"
        /\ file' = "blank"
        /\ maker' = p
        /\ Goto(p, "initialise")
        /\ UNCHANGED <<mode, cache, pass, list, job, status, listing>>
     \/ /\ Absent
        /\ mode[p] = "ro"
        /\ Vanish(p, "ERUNTIME")
        /\ UNCHANGED <<file, maker>>
     \/ /\ ~Absent
        /\ Goto(p, "await")
        /\ UNCHANGED <<file, maker, mode, cache, pass, list, job, status, listing>>
  /\ UNCHANGED <<lock, table, room, count>>

\* The creator lays the segment out, with an empty directory.
Initialise(p) ==
  /\ pc[p] = "initialise"
  /\ file' = "ready"
  /\ maker' = None
  /\ lock' = None
  /\ table' = NoTables
  /\ room' = HeapSize
  /\ Goto(p, "names")
  /\ UNCHANGED <<mode, cache, pass, list, job, status, history>>

\* The others spin until it has.
Initialised == file = "ready"

Await(p) ==
  /\ pc[p] = "await"
  /\ Initialised
  /\ Goto(p, "names")
  /\ UNCHANGED <<disk, mode, cache, pass, list, job, status, history>>

\* get_named_spaces walks the directory, and skips names that start with '_'.
BeginNames(p) ==
  /\ pc[p] = "names"
  /\ seen' = [seen EXCEPT ![p] = Public]
  /\ stirred' = [stirred EXCEPT ![p] = FALSE]
  /\ Goto(p, "walking")
  /\ UNCHANGED <<disk, mode, cache, pass, list, job, status, opens, made, destroyed>>

\* If the tree was relinked under it, the walk may have missed any of them;
\* that it runs into freed memory and ends the process is a Crash.
SeenByTheEnd(p) ==
  [s \in Spaces |-> IF seen[p][s] # 0 THEN seen[p][s] ELSE Public[s]]

EndNames(p) ==
  /\ pc[p] = "walking"
  /\ \/ /\ ~stirred[p]
        /\ list' = [list EXCEPT ![p] = Named(seen[p])]
        /\ UNCHANGED seen
     \/ /\ stirred[p]
        /\ seen' = [seen EXCEPT ![p] = SeenByTheEnd(p)]
        /\ \E names \in SUBSET Named(SeenByTheEnd(p)) :
              list' = [list EXCEPT ![p] = names]
  /\ Goto(p, "preload")
  /\ UNCHANGED <<disk, mode, cache, pass, job, status, count, stirred>>

\* manifold::ensure_space_by_name: a cached pointer, or into the lock.
Ensure(p, op, s, back) ==
  IF cache[p][s] # 0
  THEN /\ Goto(p, back)
       /\ UNCHANGED job
  ELSE /\ Goto(p, "wait")
       /\ job' = [job EXCEPT ![p] = [op |-> op, space |-> s]]

\* manifold's constructor ensures every name listed, and then database's
\* lists and ensures them once more.
Preload(p) ==
  /\ pc[p] = "preload"
  /\ \/ \E s \in list[p] :
           /\ list' = [list EXCEPT ![p] = @ \ {s}]
           /\ Ensure(p, "preload", s, "preload")
           /\ UNCHANGED <<pass, status>>
     \/ /\ list[p] = {}
        /\ pass[p] = 1
        /\ pass' = [pass EXCEPT ![p] = 2]
        /\ Goto(p, "names")
        /\ UNCHANGED <<list, job, status>>
     \/ /\ list[p] = {}
        /\ pass[p] = 2
        /\ Goto(p, "idle")
        /\ Answer(p, "AOK")
        /\ UNCHANGED <<pass, list, job>>
  /\ UNCHANGED <<disk, mode, cache, history>>

-----------------------------------------------------------------------------
(* Calls of an open database that enter the lock.                          *)

\* superpose and namedvector ensure the spaces they name.
CallEnsure(p) ==
  /\ pc[p] = "idle"
  /\ \E s \in Spaces : Ensure(p, "ensure", s, "idle")
  /\ UNCHANGED <<disk, mode, cache, pass, list, status, history>>

Call(p, op, s) ==
  /\ pc[p] = "idle"
  /\ job' = [job EXCEPT ![p] = [op |-> op, space |-> s]]
  /\ Goto(p, "wait")
  /\ UNCHANGED <<disk, mode, cache, pass, list, status, history>>

CallDestroySpace(p) ==
  /\ Cardinality(destroyed) + Cardinality({q \in Procs : job[q].op = "destroy"})
       < MaxDestroys
  /\ \E s \in Spaces : Call(p, "destroy", s)

CallAllocate(p)     == Call(p, "allocate", None)
CallClose(p)        == Call(p, "close", None)

\* To lock a mutex is to write to it: in memory mapped for reading that ends
\* the process.
FreeAlways == TRUE
Free == lock = None

Acquire(p) ==
  /\ pc[p] = "wait"
  /\ \/ /\ mode[p] = "rw"
        /\ Free
        /\ lock' = p
        /\ Goto(p, "locked")
        /\ UNCHANGED <<mode, cache, pass, list, job, status, listing>>
     \/ /\ mode[p] = "ro"
        /\ Vanish(p, "none")
        /\ UNCHANGED lock
  /\ UNCHANGED <<file, maker, table, room, count>>

\* spaces[name] = sp
RememberNothing(p, s, t) == UNCHANGED cache
Remember(p, s, t) == cache' = [cache EXCEPT ![p][s] = t]

\* find_or_construct, first half, in the constructor of symbol_space.
Find(p) ==
  LET s == job[p].space
  IN /\ pc[p] = "locked"
     /\ job[p].op \in {"preload", "ensure"}
     /\ \/ /\ table[s] # 0
           /\ Remember(p, s, table[s])
           /\ Goto(p, "unlock")
        \/ /\ table[s] = 0
           /\ Goto(p, "missing")
           /\ UNCHANGED cache
     /\ UNCHANGED <<disk, mode, pass, list, job, status, history>>

\* Second half; bad_alloc leaves the lock, is caught, and nothing is cached.
Construct(p) ==
  LET s == job[p].space
  IN /\ pc[p] = "missing"
     /\ \/ /\ room > 0
           /\ room' = room - 1
           /\ made' = [made EXCEPT ![s] = @ + 1]
           /\ table' = [table EXCEPT ![s] = made[s] + 1]
           /\ Remember(p, s, made[s] + 1)
           /\ Stir
        \/ /\ room = 0
           /\ UNCHANGED <<room, made, table, cache, stirred>>
     /\ Goto(p, "unlock")
     /\ UNCHANGED <<file, maker, lock, mode, pass, list, job, status, opens,
                    destroyed, seen>>

\* A symbol, a key or the copy of a vector is allocated.
Allocate(p) ==
  /\ pc[p] = "locked"
  /\ job[p].op = "allocate"
  /\ \/ /\ room > 0
        /\ room' = room - 1
     \/ /\ room = 0
        /\ UNCHANGED room
  /\ Goto(p, "unlock")
  /\ UNCHANGED <<file, maker, lock, table, mode, cache, pass, list, job, status,
                 history>>

\* The name leaves the directory and the table is freed; every cache, this
\* process's own too, stays as it is.  The destructor that runs is that of a
\* symbol_space, over a symbol table: if it ends the process, that is a Crash.
DestroySpace(p) ==
  LET s == job[p].space
  IN /\ pc[p] = "locked"
     /\ job[p].op = "destroy"
     /\ \/ /\ table[s] # 0
           /\ table' = [table EXCEPT ![s] = 0]
           /\ destroyed' = destroyed \cup {<<s, table[s]>>}
           /\ room' = room + 1
           /\ Stir
        \/ /\ table[s] = 0
           /\ UNCHANGED <<table, destroyed, room, stirred>>
     /\ Goto(p, "unlock")
     /\ UNCHANGED <<file, maker, lock, mode, cache, pass, list, job, status, opens,
                    made, seen>>

\* database's destructor asks whether the heap is sane, and flushes it.
CheckHeapSanity(p) ==
  /\ pc[p] = "locked"
  /\ job[p].op = "close"
  /\ Goto(p, "unlock")
  /\ UNCHANGED <<disk, mode, cache, pass, list, job, status, history>>

UnlockedUnlessFull(p) == IF room = 0 THEN p ELSE None
Unlocked(p) == None

Release(p) ==
  /\ pc[p] = "unlock"
  /\ lock' = Unlocked(p)
  /\ \/ /\ job[p].op = "preload"
        /\ Goto(p, "preload")
        /\ job' = [job EXCEPT ![p] = NoJob]
        /\ UNCHANGED <<mode, cache, pass, list, status, listing>>
     \/ /\ job[p].op = "close"
        /\ Vanish(p, "none")
     \/ /\ job[p].op \notin {"preload", "close"}
        /\ Goto(p, "idle")
        /\ job' = [job EXCEPT ![p] = NoJob]
        /\ UNCHANGED <<mode, cache, pass, list, status, listing>>
  /\ UNCHANGED <<file, maker, table, room, count>>

\* What a process was inside of stays as it left it.
Crash(p) ==
  /\ pc[p] # "down"
  /\ Vanish(p, "none")
  /\ lock' = IF lock = p THEN Gone ELSE lock
  /\ maker' = IF maker = p THEN Gone ELSE maker
  /\ UNCHANGED <<file, table, room, count>>

-----------------------------------------------------------------------------

Init ==
  /\ file = "absent"
  /\ maker = None
  /\ lock = None
  /\ table = NoTables
  /\ room = HeapSize
  /\ pc = [p \in Procs |-> "down"]
  /\ mode = [p \in Procs |-> "rw"]
  /\ cache = [p \in Procs |-> NoTables]
  /\ pass = [p \in Procs |-> 1]
  /\ list = [p \in Procs |-> {}]
  /\ job = [p \in Procs |-> NoJob]
  /\ status = [p \in Procs |-> "none"]
  /\ opens = 0
  /\ made = NoTables
  /\ destroyed = {}
  /\ seen = [p \in Procs |-> NoTables]
  /\ stirred = [p \in Procs |-> FALSE]

Inside(p) ==
  \/ Find(p)
  \/ Construct(p)
  \/ Allocate(p)
  \/ DestroySpace(p)
  \/ CheckHeapSanity(p)
  \/ Release(p)

Step(p) ==
  \/ MapFile(p)
  \/ Initialise(p)
  \/ Await(p)
  \/ BeginNames(p)
  \/ EndNames(p)
  \/ Preload(p)
  \/ Inside(p)

Environment(p) ==
  \/ SdmDatabase(p)
  \/ CallEnsure(p)
  \/ CallDestroySpace(p)
  \/ CallAllocate(p)
  \/ CallClose(p)
  \/ Crash(p)

Next == \E p \in Procs : Step(p) \/ Acquire(p) \/ Environment(p)

Spec == Init /\ [][Next]_vars

\* A process in a call is scheduled, and the mutex starves none that waits.
FairSpec == Spec /\ \A p \in Procs : WF_vars(Step(p)) /\ SF_vars(Acquire(p))

-----------------------------------------------------------------------------
(* Safety.                                                                 *)

TypeOK ==
  /\ file \in {"absent", "blank", "ready"}
  /\ maker \in Procs \cup {None, Gone}
  /\ lock \in Procs \cup {None, Gone}
  /\ table \in [Spaces -> Nat]
  /\ room \in Nat
  /\ pc \in [Procs -> {"down", "map", "initialise", "await", "names", "walking",
                      "preload", "idle", "wait", "locked", "missing", "unlock"}]
  /\ mode \in [Procs -> {"rw", "ro"}]
  /\ cache \in [Procs -> [Spaces -> Nat]]
  /\ pass \in [Procs -> {1, 2}]
  /\ list \in [Procs -> SUBSET Spaces]
  /\ job \in [Procs -> [op : {"none", "preload", "ensure", "destroy", "allocate",
                             "close"},
                       space : Spaces \cup {None}]]
  /\ status \in [Procs -> {"none", "AOK", "ERUNTIME"}]
  /\ opens \in 0 .. MaxOpens
  /\ made \in [Spaces -> Nat]
  /\ destroyed \subseteq Spaces \X Nat
  /\ seen \in [Procs -> [Spaces -> Nat]]
  /\ stirred \in [Procs -> BOOLEAN]

(* All processes mean the same table by a name: the pointer one of them    *)
(* has memoised is to the table in the directory, unless that table was    *)
(* destroyed, and then it is a pointer to freed memory; never is there a   *)
(* second table of the name that another process uses (manifold.cpp:371-   *)
(* 380, symbol_space.hpp:135-138).                                         *)
CachesAgree ==
  /\ TypeOK
  /\ \A p \in Procs : \A s \in Spaces :
        cache[p][s] # 0 => \/ cache[p][s] = table[s]
                           \/ <<s, cache[p][s]>> \in destroyed

(* To open an image makes nothing in it, though the constructors call what *)
(* finds or constructs: a name that was listed is there when it is looked  *)
(* for, however the listing raced with others, unless it was destroyed in  *)
(* between, and then the constructor makes an empty space of that name; a  *)
(* process that maps the image to read it never gets that far (manifold.   *)
(* cpp:10-18, 341-359, database.cpp:27-29).                                *)
OpeningOnlyReads ==
  \A p \in Procs :
     /\ mode[p] = "ro" => pc[p] \notin {"locked", "missing", "unlock"}
     /\ pc[p] = "missing" /\ job[p].op = "preload"
          => <<job[p].space, seen[p][job[p].space]>> \in destroyed

(* An open database knows the public spaces there were: each table that    *)
(* was in the directory when it began its last listing has its pointer in  *)
(* the cache, unless the directory changed while it was listed, or the     *)
(* space was destroyed since (manifold.cpp:17-18, database.cpp:27-29).     *)
OpenedKnowsAll ==
  \A p \in Procs :
     pc[p] = "idle" /\ ~stirred[p]
       => \A s \in Named(seen[p]) :
             cache[p][s] # 0 \/ <<s, seen[p][s]>> \in destroyed

-----------------------------------------------------------------------------
(* Liveness.                                                               *)

(* Opening, closing and every call in between come to an end, by a full    *)
(* heap too: a process waits for ever only where it must wait for one that *)
(* is dead, that died in the lock, or before the image it was creating was *)
(* laid out (manifold.hpp:37-42, manifold.cpp:371-384).                    *)
WaitsOnlyForTheDead ==
  \A p \in Procs :
     pc[p] \notin {"down", "idle"}
       ~> \/ pc[p] \in {"down", "idle"}
          \/ pc[p] = "wait" /\ lock = Gone
          \/ pc[p] = "await" /\ maker = Gone

-----------------------------------------------------------------------------

(* "construct manifold from read only image" (manifold.cpp:7): a process   *)
(* that opens the image to read it has opened it.                          *)
ReadOnlyOpens ==
  [][\A p \in Procs :
       mode[p] = "ro" /\ Acquire(p) => job[p].op # "preload"]_vars

=============================================================================
