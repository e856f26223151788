-------------------------- MODULE ImageFileProofs --------------------------
(* Theorems about ImageFile, for any processes, names, modes and memory.   *)
EXTENDS ImageFile, TLAPS

-----------------------------------------------------------------------------
(* The inductive invariant.  A pointer a process has memoised and a table  *)
(* it has listed are alike: each is the table of the directory, or was     *)
(* destroyed.  That needs the lock, for a process that found no table must *)
(* still find none when it makes one, and the creation of the file, for    *)
(* whoever lays the segment out empties the directory.                     *)

Known(tables) ==
  \A s \in Spaces :
     tables[s] # 0 => tables[s] = table[s] \/ <<s, tables[s]>> \in destroyed

Unopened == {"down", "map", "initialise", "await"}
InLock == {"locked", "missing", "unlock"}
Asking == {"wait", "locked", "missing", "unlock"}

\* Before the segment is laid out nobody has opened it.
FileOK(p) ==
  /\ pc[p] \notin Unopened => file = "ready"
  /\ pc[p] = "initialise" => file = "blank" /\ maker = p
  /\ pc[p] \in Unopened => cache[p] = NoTables /\ seen[p] = NoTables

LockOK(p) ==
  /\ pc[p] \in InLock => lock = p /\ mode[p] = "rw"
  /\ pc[p] \in Asking /\ job[p].op \in {"preload", "ensure", "destroy"}
       => job[p].space \in Spaces
  /\ pc[p] = "missing" => /\ job[p].op \in {"preload", "ensure"}
                          /\ table[job[p].space] = 0

\* What is left to be ensured was listed.
ListOK(p) ==
  /\ list[p] \subseteq Named(seen[p]) \/ pc[p] \in {"names", "walking"}
  /\ pc[p] \in {"names", "walking"} => list[p] = {}
  /\ pc[p] \in Asking /\ job[p].op = "preload" => job[p].space \in Named(seen[p])
  /\ pc[p] = "idle" => list[p] = {}
  /\ pc[p] \in Asking /\ job[p].op # "preload" => list[p] = {}

\* What was listed is cached, or still to be ensured.
LoadOK(p) ==
  pc[p] \in Asking \cup {"preload", "idle"} /\ ~stirred[p]
    => \A s \in Named(seen[p]) :
          \/ cache[p][s] # 0
          \/ <<s, seen[p][s]>> \in destroyed
          \/ s \in list[p]
          \/ /\ pc[p] \in {"wait", "locked", "missing"}
             /\ job[p].op = "preload"
             /\ job[p].space = s

ProcOK(p) == /\ FileOK(p)
             /\ LockOK(p)
             /\ ListOK(p)
             /\ LoadOK(p)
             /\ Known(cache[p])
             /\ Known(seen[p])

BlankOK == file # "ready" => table = NoTables /\ lock \notin Procs

IInv == TypeOK /\ BlankOK /\ \A p \in Procs : ProcOK(p)

\* TypeOK in two parts, what the processes keep and the rest.
PrivateOK ==
  /\ pc \in [Procs -> {"down", "map", "initialise", "await", "names", "walking",
                      "preload", "idle", "wait", "locked", "missing", "unlock"}]
  /\ mode \in [Procs -> {"rw", "ro"}]
  /\ cache \in [Procs -> [Spaces -> Nat]]
  /\ pass \in [Procs -> {1, 2}]
  /\ list \in [Procs -> SUBSET Spaces]
  /\ job \in [Procs -> [op : {"none", "preload", "ensure", "destroy", "allocate",
                             "close"},
                       space : Spaces \cup {None}]]
  /\ status \in [Procs -> {"none", "AOK", "ERUNTIME"}]
  /\ seen \in [Procs -> [Spaces -> Nat]]
  /\ stirred \in [Procs -> BOOLEAN]

DiskOK ==
  /\ file \in {"absent", "blank", "ready"}
  /\ maker \in Procs \cup {None, Gone}
  /\ lock \in Procs \cup {None, Gone}
  /\ table \in [Spaces -> Nat]
  /\ room \in Nat
  /\ opens \in 0 .. MaxOpens
  /\ made \in [Spaces -> Nat]
  /\ destroyed \subseteq Spaces \X Nat

LEMMA Parts == TypeOK <=> PrivateOK /\ DiskOK
  BY DEF TypeOK, PrivateOK, DiskOK

LEMMA VanishTyped ==
  ASSUME PrivateOK, NEW p \in Procs, NEW answer \in {"none", "ERUNTIME"},
         Vanish(p, answer)
  PROVE  PrivateOK'
  <1> USE DEF PrivateOK, Vanish, Goto, Answer
  <1>1. NoTables \in [Spaces -> Nat]
    BY DEF NoTables
  <1>2. NoJob \in [op : {"none", "preload", "ensure", "destroy", "allocate", "close"},
                   space : Spaces \cup {None}]
    BY DEF NoJob
  <1> QED
    BY <1>1, <1>2

LEMMA IInvInit == Init => IInv
  <1> SUFFICES ASSUME Init PROVE IInv
    OBVIOUS
  <1> USE ImageAssumption DEF Init
  <1>1. TypeOK
    BY DEF TypeOK, NoTables, NoJob
  <1>2. BlankOK
    BY DEF BlankOK
  <1>3. ASSUME NEW p \in Procs PROVE ProcOK(p)
    BY DEF ProcOK, FileOK, LockOK, ListOK, LoadOK, Known, Unopened, InLock, Asking,
           NoTables, Named
  <1> QED
    BY <1>1, <1>2, <1>3 DEF IInv

LEMMA SdmDatabaseStep ==
  ASSUME IInv, NEW p \in Procs, SdmDatabase(p)
  PROVE  IInv'
  <1> USE ImageAssumption DEF SdmDatabase, Goto, Answer, disk, listing
  <1>0. TypeOK /\ BlankOK /\ ProcOK(p)
    BY DEF IInv
  <1>1. TypeOK'
    BY <1>0 DEF TypeOK, NoTables
  <1>2. BlankOK'
    BY <1>0 DEF TypeOK, BlankOK, ProcOK, FileOK, LockOK, Unopened, InLock
  <1>3. ProcOK(p)'
    BY <1>0, <1>1 DEF TypeOK, BlankOK, ProcOK, FileOK, LockOK, ListOK, LoadOK, Known,
                Unopened, InLock, Asking, NoTables, Named
  <1>4. ASSUME NEW q \in Procs, q # p PROVE ProcOK(q)'
    <2>1. ProcOK(q)
      BY DEF IInv
    <2> QED
      BY <1>0, <1>4, <2>1 DEF TypeOK, BlankOK, ProcOK, FileOK, LockOK, ListOK, LoadOK,
                Known, Unopened, InLock, Asking, NoTables, Named
  <1> QED
    BY <1>1, <1>2, <1>3, <1>4 DEF IInv

LEMMA MapFileStep ==
  ASSUME IInv, NEW p \in Procs, MapFile(p)
  PROVE  IInv'
  <1> USE ImageAssumption DEF MapFile, Goto, Answer, Vanish, Absent, NoJob, count, listing
  <1>0. TypeOK /\ BlankOK /\ ProcOK(p)
    BY DEF IInv
  <1>1. TypeOK'
    <2>1. PrivateOK /\ DiskOK
      BY <1>0, Parts
    <2>2. DiskOK'
      BY <2>1 DEF DiskOK
    <2>3. CASE Vanish(p, "ERUNTIME")
      BY <2>1, <2>2, <2>3, VanishTyped DEF TypeOK, PrivateOK, DiskOK
    <2>4. CASE ~Vanish(p, "ERUNTIME")
      <3>1. PrivateOK'
        BY <2>1, <2>4 DEF PrivateOK
      <3> QED
        BY <2>2, <3>1 DEF TypeOK, PrivateOK, DiskOK
    <2> QED
      BY <2>3, <2>4
  <1>2. BlankOK'
    BY <1>0 DEF TypeOK, BlankOK, ProcOK, FileOK, LockOK, Unopened, InLock
  <1>3. ProcOK(p)'
    BY <1>0, <1>1 DEF TypeOK, BlankOK, ProcOK, FileOK, LockOK, ListOK, LoadOK, Known,
                Unopened, InLock, Asking, NoTables, Named
  <1>4. ASSUME NEW q \in Procs, q # p PROVE ProcOK(q)'
    <2>1. ProcOK(q)
      BY DEF IInv
    <2> QED
      BY <1>0, <1>4, <2>1 DEF TypeOK, BlankOK, ProcOK, FileOK, LockOK, ListOK, LoadOK,
                Known, Unopened, InLock, Asking, NoTables, Named
  <1> QED
    BY <1>1, <1>2, <1>3, <1>4 DEF IInv

LEMMA InitialiseStep ==
  ASSUME IInv, NEW p \in Procs, Initialise(p)
  PROVE  IInv'
  <1> USE ImageAssumption DEF Initialise, Goto, history, count, listing
  <1>0. TypeOK /\ BlankOK /\ ProcOK(p)
    BY DEF IInv
  <1>1. TypeOK'
    BY <1>0 DEF TypeOK, NoTables
  <1>2. BlankOK'
    BY <1>0 DEF TypeOK, BlankOK, ProcOK, FileOK, LockOK, Unopened, InLock
  <1>3. ProcOK(p)'
    BY <1>0, <1>1 DEF TypeOK, BlankOK, ProcOK, FileOK, LockOK, ListOK, LoadOK, Known,
                Unopened, InLock, Asking, NoTables, Named
  <1>4. ASSUME NEW q \in Procs, q # p PROVE ProcOK(q)'
    <2>1. ProcOK(q)
      BY DEF IInv
    <2> QED
      BY <1>0, <1>4, <2>1 DEF TypeOK, BlankOK, ProcOK, FileOK, LockOK, ListOK, LoadOK,
                Known, Unopened, InLock, Asking, NoTables, Named
  <1> QED
    BY <1>1, <1>2, <1>3, <1>4 DEF IInv

LEMMA AwaitStep ==
  ASSUME IInv, NEW p \in Procs, Await(p)
  PROVE  IInv'
  <1> USE ImageAssumption DEF Await, Goto, Initialised, disk, history, count, listing
  <1>0. TypeOK /\ BlankOK /\ ProcOK(p)
    BY DEF IInv
  <1>1. TypeOK'
    BY <1>0 DEF TypeOK, NoTables
  <1>2. BlankOK'
    BY <1>0 DEF TypeOK, BlankOK, ProcOK, FileOK, LockOK, Unopened, InLock
  <1>3. ProcOK(p)'
    BY <1>0, <1>1 DEF TypeOK, BlankOK, ProcOK, FileOK, LockOK, ListOK, LoadOK, Known,
                Unopened, InLock, Asking, NoTables, Named
  <1>4. ASSUME NEW q \in Procs, q # p PROVE ProcOK(q)'
    <2>1. ProcOK(q)
      BY DEF IInv
    <2> QED
      BY <1>0, <1>4, <2>1 DEF TypeOK, BlankOK, ProcOK, FileOK, LockOK, ListOK, LoadOK,
                Known, Unopened, InLock, Asking, NoTables, Named
  <1> QED
    BY <1>1, <1>2, <1>3, <1>4 DEF IInv

LEMMA BeginNamesStep ==
  ASSUME IInv, NEW p \in Procs, BeginNames(p)
  PROVE  IInv'
  <1> USE ImageAssumption DEF BeginNames, Goto, Public, disk
  <1>0. TypeOK /\ BlankOK /\ ProcOK(p)
    BY DEF IInv
  <1>1. TypeOK'
    BY <1>0 DEF TypeOK, NoTables
  <1>2. BlankOK'
    BY <1>0 DEF TypeOK, BlankOK, ProcOK, FileOK, LockOK, Unopened, InLock
  <1>3. ProcOK(p)'
    BY <1>0, <1>1 DEF TypeOK, BlankOK, ProcOK, FileOK, LockOK, ListOK, LoadOK, Known,
                Unopened, InLock, Asking, NoTables, Named
  <1>4. ASSUME NEW q \in Procs, q # p PROVE ProcOK(q)'
    <2>1. ProcOK(q)
      BY DEF IInv
    <2> QED
      BY <1>0, <1>4, <2>1 DEF TypeOK, BlankOK, ProcOK, FileOK, LockOK, ListOK, LoadOK,
                Known, Unopened, InLock, Asking, NoTables, Named
  <1> QED
    BY <1>1, <1>2, <1>3, <1>4 DEF IInv

LEMMA EndNamesStep ==
  ASSUME IInv, NEW p \in Procs, EndNames(p)
  PROVE  IInv'
  <1> USE ImageAssumption DEF EndNames, Goto, Public, Named, SeenByTheEnd, disk, count
  <1>0. TypeOK /\ BlankOK /\ ProcOK(p)
    BY DEF IInv
  <1>1. TypeOK'
    <2>1. PrivateOK /\ DiskOK
      BY <1>0, Parts
    <2>2. DiskOK'
      BY <2>1 DEF DiskOK
    <2>3. SeenByTheEnd(p) \in [Spaces -> Nat]
      BY <2>1 DEF PrivateOK, DiskOK
    <2>4. seen' \in [Procs -> [Spaces -> Nat]]
      BY <2>1, <2>3 DEF PrivateOK
    <2>5. list' \in [Procs -> SUBSET Spaces]
      <3>1. PICK names \in SUBSET Spaces : list' = [list EXCEPT ![p] = names]
        BY <2>1, <2>3
      <3> QED
        BY <2>1, <3>1 DEF PrivateOK
    <2>6. PrivateOK'
      BY <2>1, <2>4, <2>5 DEF PrivateOK
    <2> QED
      BY <2>2, <2>6 DEF TypeOK, PrivateOK, DiskOK
  <1>2. BlankOK'
    BY <1>0 DEF TypeOK, BlankOK, ProcOK, FileOK, LockOK, Unopened, InLock
  <1>3. ProcOK(p)'
    <2>1. FileOK(p)'
      BY <1>0, <1>1 DEF TypeOK, BlankOK, ProcOK, FileOK, Unopened, NoTables
    <2>2. LockOK(p)'
      BY <1>0, <1>1 DEF TypeOK, ProcOK, LockOK, InLock, Asking
    <2>3. ListOK(p)'
      <3>1. pc'[p] = "preload"
        BY <1>0 DEF TypeOK
      <3>2. list'[p] \subseteq {s \in Spaces : seen'[p][s] # 0}
        <4>1. CASE stirred[p]
          <5>1. seen'[p] = SeenByTheEnd(p)
            BY <1>0, <4>1 DEF TypeOK
          <5>2. PICK names \in SUBSET Named(SeenByTheEnd(p)) :
                   list' = [list EXCEPT ![p] = names]
            BY <4>1
          <5>3. list'[p] = names
            BY <1>0, <5>2 DEF TypeOK
          <5>4. Named(SeenByTheEnd(p)) = {s \in Spaces : seen'[p][s] # 0}
            BY Zenon, <5>1 DEF Named
          <5> HIDE DEF Named, SeenByTheEnd, EndNames
          <5> QED
            BY <5>2, <5>3, <5>4
        <4>2. CASE ~stirred[p]
          BY <1>0, <4>2 DEF TypeOK
        <4> QED
          BY <4>1, <4>2
      <3> QED
        BY <3>1, <3>2 DEF ListOK, Asking
    <2>4. LoadOK(p)'
      BY <1>0, <1>1 DEF TypeOK, ProcOK, LockOK, ListOK, LoadOK, InLock, Asking, Named
    <2>5. Known(cache[p])'
      BY <1>0, <1>1 DEF TypeOK, ProcOK, Known, LockOK, Asking
    <2>6. Known(seen[p])'
      BY <1>0, <1>1 DEF TypeOK, ProcOK, Known
    <2> QED
      BY <2>1, <2>2, <2>3, <2>4, <2>5, <2>6 DEF ProcOK
  <1>4. ASSUME NEW q \in Procs, q # p PROVE ProcOK(q)'
    <2>1. ProcOK(q)
      BY DEF IInv
    <2> QED
      BY <1>0, <1>4, <2>1 DEF TypeOK, BlankOK, ProcOK, FileOK, LockOK, ListOK, LoadOK,
                Known, Unopened, InLock, Asking, NoTables, Named
  <1> QED
    BY <1>1, <1>2, <1>3, <1>4 DEF IInv

LEMMA PreloadStep ==
  ASSUME IInv, NEW p \in Procs, Preload(p)
  PROVE  IInv'
  <1> USE ImageAssumption DEF Preload, Goto, Answer, Ensure, disk, history, count, listing
  <1>0. TypeOK /\ BlankOK /\ ProcOK(p)
    BY DEF IInv
  <1>1. TypeOK'
    <2>1. PrivateOK /\ DiskOK
      BY <1>0, Parts
    <2>2. DiskOK'
      BY <2>1 DEF DiskOK
    <2>3. list' \in [Procs -> SUBSET Spaces]
      <3>1. CASE UNCHANGED list
        BY <2>1, <3>1 DEF PrivateOK
      <3>2. CASE \E s \in list[p] : list' = [list EXCEPT ![p] = @ \ {s}]
        BY <2>1, <3>2 DEF PrivateOK
      <3> QED
        BY <3>1, <3>2
    <2>4. job' \in [Procs -> [op : {"none", "preload", "ensure", "destroy", "allocate",
                                "close"},
                          space : Spaces \cup {None}]]
      <3>1. CASE UNCHANGED job
        BY <2>1, <3>1 DEF PrivateOK
      <3>2. CASE \E s \in Spaces :
                   job' = [job EXCEPT ![p] = [op |-> "preload", space |-> s]]
        BY <2>1, <3>2 DEF PrivateOK
      <3>3. \/ UNCHANGED job
            \/ \E s \in Spaces :
                  job' = [job EXCEPT ![p] = [op |-> "preload", space |-> s]]
        BY <2>1 DEF PrivateOK
      <3> QED
        BY <3>1, <3>2, <3>3
    <2>6. PrivateOK'
      <3>1. /\ pass' \in [Procs -> {1, 2}]
            /\ status' \in [Procs -> {"none", "AOK", "ERUNTIME"}]
        BY <2>1 DEF PrivateOK
      <3>2. UNCHANGED <<mode, cache, seen, stirred>>
        OBVIOUS
      <3>3. pc' \in [Procs -> {"down", "map", "initialise", "await", "names",
                              "walking", "preload", "idle", "wait", "locked",
                              "missing", "unlock"}]
        <4>1. \E step \in {"preload", "wait", "names", "idle"} :
                 pc' = [pc EXCEPT ![p] = step]
          OBVIOUS
        <4> HIDE DEF Preload, Goto, Answer, Ensure, disk, history, count, listing
        <4> QED
          BY <2>1, <4>1 DEF PrivateOK
      <3> QED
        <4> HIDE DEF Preload, Goto, Answer, Ensure, disk, history, count, listing
        <4> QED
          BY <2>1, <2>3, <2>4, <3>1, <3>2, <3>3 DEF PrivateOK
    <2> QED
      BY <2>2, <2>6 DEF TypeOK, PrivateOK, DiskOK
  <1>2. BlankOK'
    BY <1>0 DEF TypeOK, BlankOK, ProcOK, FileOK, LockOK, Unopened, InLock
  <1>3. ProcOK(p)'
    BY <1>0, <1>1 DEF TypeOK, BlankOK, ProcOK, FileOK, LockOK, ListOK, LoadOK, Known,
                Unopened, InLock, Asking, NoTables, Named
  <1>4. ASSUME NEW q \in Procs, q # p PROVE ProcOK(q)'
    <2>1. ProcOK(q)
      BY DEF IInv
    <2> QED
      BY <1>0, <1>4, <2>1 DEF TypeOK, BlankOK, ProcOK, FileOK, LockOK, ListOK, LoadOK,
                Known, Unopened, InLock, Asking, NoTables, Named
  <1> QED
    BY <1>1, <1>2, <1>3, <1>4 DEF IInv

LEMMA CallEnsureStep ==
  ASSUME IInv, NEW p \in Procs, CallEnsure(p)
  PROVE  IInv'
  <1> USE ImageAssumption DEF CallEnsure, Goto, Ensure, disk, history, count, listing
  <1>0. TypeOK /\ BlankOK /\ ProcOK(p)
    BY DEF IInv
  <1>1. TypeOK'
    <2>1. PrivateOK /\ DiskOK
      BY <1>0, Parts
    <2>2. DiskOK'
      BY <2>1 DEF DiskOK
    <2>4. job' \in [Procs -> [op : {"none", "preload", "ensure", "destroy", "allocate",
                                "close"},
                          space : Spaces \cup {None}]]
      <3>1. CASE UNCHANGED job
        BY <2>1, <3>1 DEF PrivateOK
      <3>2. CASE \E s \in Spaces :
                   job' = [job EXCEPT ![p] = [op |-> "ensure", space |-> s]]
        BY <2>1, <3>2 DEF PrivateOK
      <3>3. \/ UNCHANGED job
            \/ \E s \in Spaces :
                  job' = [job EXCEPT ![p] = [op |-> "ensure", space |-> s]]
        BY <2>1 DEF PrivateOK
      <3> QED
        BY <3>1, <3>2, <3>3
    <2>6. PrivateOK'
      BY <2>1, <2>4 DEF PrivateOK
    <2> QED
      BY <2>2, <2>6 DEF TypeOK, PrivateOK, DiskOK
  <1>2. BlankOK'
    BY <1>0 DEF TypeOK, BlankOK, ProcOK, FileOK, LockOK, Unopened, InLock
  <1>3. ProcOK(p)'
    BY <1>0, <1>1 DEF TypeOK, BlankOK, ProcOK, FileOK, LockOK, ListOK, LoadOK, Known,
                Unopened, InLock, Asking, NoTables, Named
  <1>4. ASSUME NEW q \in Procs, q # p PROVE ProcOK(q)'
    <2>1. ProcOK(q)
      BY DEF IInv
    <2> QED
      BY <1>0, <1>4, <2>1 DEF TypeOK, BlankOK, ProcOK, FileOK, LockOK, ListOK, LoadOK,
                Known, Unopened, InLock, Asking, NoTables, Named
  <1> QED
    BY <1>1, <1>2, <1>3, <1>4 DEF IInv

LEMMA CallDestroySpaceStep ==
  ASSUME IInv, NEW p \in Procs, CallDestroySpace(p)
  PROVE  IInv'
  <1> USE ImageAssumption DEF CallDestroySpace, Call, Goto, disk, history, count, listing
  <1>0. TypeOK /\ BlankOK /\ ProcOK(p)
    BY DEF IInv
  <1>1. TypeOK'
    BY <1>0 DEF TypeOK, NoTables
  <1>2. BlankOK'
    BY <1>0 DEF TypeOK, BlankOK, ProcOK, FileOK, LockOK, Unopened, InLock
  <1>3. ProcOK(p)'
    BY <1>0, <1>1 DEF TypeOK, BlankOK, ProcOK, FileOK, LockOK, ListOK, LoadOK, Known,
                Unopened, InLock, Asking, NoTables, Named
  <1>4. ASSUME NEW q \in Procs, q # p PROVE ProcOK(q)'
    <2>1. ProcOK(q)
      BY DEF IInv
    <2> QED
      BY <1>0, <1>4, <2>1 DEF TypeOK, BlankOK, ProcOK, FileOK, LockOK, ListOK, LoadOK,
                Known, Unopened, InLock, Asking, NoTables, Named
  <1> QED
    BY <1>1, <1>2, <1>3, <1>4 DEF IInv

LEMMA CallAllocateStep ==
  ASSUME IInv, NEW p \in Procs, CallAllocate(p)
  PROVE  IInv'
  <1> USE ImageAssumption DEF CallAllocate, Call, Goto, disk, history, count, listing
  <1>0. TypeOK /\ BlankOK /\ ProcOK(p)
    BY DEF IInv
  <1>1. TypeOK'
    BY <1>0 DEF TypeOK, NoTables
  <1>2. BlankOK'
    BY <1>0 DEF TypeOK, BlankOK, ProcOK, FileOK, LockOK, Unopened, InLock
  <1>3. ProcOK(p)'
    BY <1>0, <1>1 DEF TypeOK, BlankOK, ProcOK, FileOK, LockOK, ListOK, LoadOK, Known,
                Unopened, InLock, Asking, NoTables, Named
  <1>4. ASSUME NEW q \in Procs, q # p PROVE ProcOK(q)'
    <2>1. ProcOK(q)
      BY DEF IInv
    <2> QED
      BY <1>0, <1>4, <2>1 DEF TypeOK, BlankOK, ProcOK, FileOK, LockOK, ListOK, LoadOK,
                Known, Unopened, InLock, Asking, NoTables, Named
  <1> QED
    BY <1>1, <1>2, <1>3, <1>4 DEF IInv

LEMMA CallCloseStep ==
  ASSUME IInv, NEW p \in Procs, CallClose(p)
  PROVE  IInv'
  <1> USE ImageAssumption DEF CallClose, Call, Goto, disk, history, count, listing
  <1>0. TypeOK /\ BlankOK /\ ProcOK(p)
    BY DEF IInv
  <1>1. TypeOK'
    BY <1>0 DEF TypeOK, NoTables
  <1>2. BlankOK'
    BY <1>0 DEF TypeOK, BlankOK, ProcOK, FileOK, LockOK, Unopened, InLock
  <1>3. ProcOK(p)'
    BY <1>0, <1>1 DEF TypeOK, BlankOK, ProcOK, FileOK, LockOK, ListOK, LoadOK, Known,
                Unopened, InLock, Asking, NoTables, Named
  <1>4. ASSUME NEW q \in Procs, q # p PROVE ProcOK(q)'
    <2>1. ProcOK(q)
      BY DEF IInv
    <2> QED
      BY <1>0, <1>4, <2>1 DEF TypeOK, BlankOK, ProcOK, FileOK, LockOK, ListOK, LoadOK,
                Known, Unopened, InLock, Asking, NoTables, Named
  <1> QED
    BY <1>1, <1>2, <1>3, <1>4 DEF IInv

LEMMA AcquireStep ==
  ASSUME IInv, NEW p \in Procs, Acquire(p)
  PROVE  IInv'
  <1> USE ImageAssumption DEF Acquire, Goto, Answer, Vanish, NoJob, Free, count, listing
  <1>0. TypeOK /\ BlankOK /\ ProcOK(p)
    BY DEF IInv
  <1>1. TypeOK'
    <2>1. PrivateOK /\ DiskOK
      BY <1>0, Parts
    <2>2. DiskOK'
      BY <2>1 DEF DiskOK
    <2>3. CASE Vanish(p, "none")
      BY <2>1, <2>2, <2>3, VanishTyped DEF TypeOK, PrivateOK, DiskOK
    <2>4. CASE ~Vanish(p, "none")
      <3>1. PrivateOK'
        BY <2>1, <2>4 DEF PrivateOK
      <3> QED
        BY <2>2, <3>1 DEF TypeOK, PrivateOK, DiskOK
    <2> QED
      BY <2>3, <2>4
  <1>2. BlankOK'
    BY <1>0 DEF TypeOK, BlankOK, ProcOK, FileOK, LockOK, Unopened, InLock
  <1>3. ProcOK(p)'
    BY <1>0, <1>1 DEF TypeOK, BlankOK, ProcOK, FileOK, LockOK, ListOK, LoadOK, Known,
                Unopened, InLock, Asking, NoTables, Named
  <1>4. ASSUME NEW q \in Procs, q # p PROVE ProcOK(q)'
    <2>1. ProcOK(q)
      BY DEF IInv
    <2> QED
      BY <1>0, <1>4, <2>1 DEF TypeOK, BlankOK, ProcOK, FileOK, LockOK, ListOK, LoadOK,
                Known, Unopened, InLock, Asking, NoTables, Named
  <1> QED
    BY <1>1, <1>2, <1>3, <1>4 DEF IInv

LEMMA FindStep ==
  ASSUME IInv, NEW p \in Procs, Find(p)
  PROVE  IInv'
  <1> USE ImageAssumption DEF Find, Goto, Remember, disk, history, count, listing
  <1>0. TypeOK /\ BlankOK /\ ProcOK(p)
    BY DEF IInv
  <1>1. TypeOK'
    <2>1. PrivateOK /\ DiskOK
      BY <1>0, Parts
    <2>2. DiskOK'
      BY <2>1 DEF DiskOK
    <2>3. job[p].space \in Spaces
      BY <1>0 DEF ProcOK, LockOK, Asking
    <2>4. cache' \in [Procs -> [Spaces -> Nat]]
      <3>1. CASE UNCHANGED cache
        BY <2>1, <3>1 DEF PrivateOK
      <3>2. CASE cache' = [cache EXCEPT ![p][job[p].space] = table[job[p].space]]
        <4>1. [cache[p] EXCEPT ![job[p].space] = table[job[p].space]] \in [Spaces -> Nat]
          BY <2>1, <2>3 DEF PrivateOK, DiskOK
        <4> QED
          BY <2>1, <3>2, <4>1 DEF PrivateOK
      <3> QED
        BY <3>1, <3>2
    <2>6. PrivateOK'
      BY <2>1, <2>4 DEF PrivateOK
    <2> QED
      BY <2>2, <2>6 DEF TypeOK, PrivateOK, DiskOK
  <1>2. BlankOK'
    BY <1>0 DEF TypeOK, BlankOK, ProcOK, FileOK, LockOK, Unopened, InLock
  <1>3. ProcOK(p)'
    <2>1. FileOK(p)'
      BY <1>0, <1>1 DEF TypeOK, BlankOK, ProcOK, FileOK, Unopened, NoTables
    <2>2. LockOK(p)'
      BY <1>0, <1>1 DEF TypeOK, ProcOK, LockOK, InLock, Asking
    <2>3. ListOK(p)'
      BY <1>0, <1>1 DEF TypeOK, ProcOK, ListOK, Asking, Named
    <2>4. LoadOK(p)'
      BY <1>0, <1>1 DEF TypeOK, ProcOK, LockOK, ListOK, LoadOK, InLock, Asking, Named
    <2>5. Known(cache[p])'
      BY <1>0, <1>1 DEF TypeOK, ProcOK, Known, LockOK, Asking
    <2>6. Known(seen[p])'
      BY <1>0, <1>1 DEF TypeOK, ProcOK, Known
    <2> QED
      BY <2>1, <2>2, <2>3, <2>4, <2>5, <2>6 DEF ProcOK
  <1>4. ASSUME NEW q \in Procs, q # p PROVE ProcOK(q)'
    <2>1. ProcOK(q)
      BY DEF IInv
    <2> QED
      BY <1>0, <1>4, <2>1 DEF TypeOK, BlankOK, ProcOK, FileOK, LockOK, ListOK, LoadOK,
                Known, Unopened, InLock, Asking, NoTables, Named
  <1> QED
    BY <1>1, <1>2, <1>3, <1>4 DEF IInv

LEMMA ConstructStep ==
  ASSUME IInv, NEW p \in Procs, Construct(p)
  PROVE  IInv'
  <1> USE ImageAssumption DEF Construct, Goto, Remember, Stir
  <1>0. TypeOK /\ BlankOK /\ ProcOK(p)
    BY DEF IInv
  <1>1. TypeOK'
    <2>1. PrivateOK /\ DiskOK
      BY <1>0, Parts
    <2>2. job[p].space \in Spaces
      BY <1>0 DEF ProcOK, LockOK, Asking
    <2>3. /\ made' \in [Spaces -> Nat]
          /\ table' \in [Spaces -> Nat]
          /\ room' \in Nat
      BY <2>1, <2>2 DEF DiskOK
    <2>4. DiskOK'
      BY <2>1, <2>3 DEF DiskOK
    <2>5. cache' \in [Procs -> [Spaces -> Nat]]
      <3>1. CASE UNCHANGED cache
        BY <2>1, <3>1 DEF PrivateOK
      <3>2. CASE cache' = [cache EXCEPT ![p][job[p].space] = made[job[p].space] + 1]
        <4>1. [cache[p] EXCEPT ![job[p].space] = made[job[p].space] + 1]
                 \in [Spaces -> Nat]
          BY <2>1, <2>2 DEF PrivateOK, DiskOK
        <4> QED
          BY <2>1, <3>2, <4>1 DEF PrivateOK
      <3> QED
        BY <3>1, <3>2
    <2>6. stirred' \in [Procs -> BOOLEAN]
      BY <2>1 DEF PrivateOK
    <2>7. PrivateOK'
      BY <2>1, <2>5, <2>6 DEF PrivateOK
    <2> QED
      BY <2>4, <2>7 DEF TypeOK, PrivateOK, DiskOK
  <1>2. BlankOK'
    BY <1>0 DEF TypeOK, BlankOK, ProcOK, FileOK, LockOK, Unopened, InLock
  <1>3. ProcOK(p)'
    <2>1. FileOK(p)'
      BY <1>0, <1>1 DEF TypeOK, BlankOK, ProcOK, FileOK, Unopened, NoTables
    <2>2. LockOK(p)'
      BY <1>0, <1>1 DEF TypeOK, ProcOK, LockOK, InLock, Asking
    <2>3. ListOK(p)'
      BY <1>0, <1>1 DEF TypeOK, ProcOK, ListOK, Asking, Named
    <2>4. LoadOK(p)'
      <3>1. stirred'[p] = stirred[p]
        BY <1>0 DEF TypeOK
      <3>2. table[job[p].space] = 0 /\ job[p].space \in Spaces
        BY <1>0 DEF ProcOK, LockOK, Asking
      <3>3. CASE UNCHANGED cache
        <4>1. seen[p][job[p].space] # 0
                => <<job[p].space, seen[p][job[p].space]>> \in destroyed
          BY <1>0, <3>2 DEF ProcOK, Known
        <4> QED
          BY <1>0, <3>1, <3>3, <4>1 DEF TypeOK, ProcOK, LoadOK, Asking, Named
      <3>4. CASE cache' = [cache EXCEPT ![p][job[p].space] = made[job[p].space] + 1]
        <4>1. cache'[p][job[p].space] # 0
          BY <1>0, <3>2, <3>4 DEF TypeOK
        <4>2. \A s \in Spaces : s # job[p].space => cache'[p][s] = cache[p][s]
          BY <1>0, <3>4 DEF TypeOK
        <4> QED
          BY <1>0, <3>1, <4>1, <4>2 DEF TypeOK, ProcOK, LoadOK, Asking, Named
      <3> QED
        BY <3>3, <3>4
    <2>5. Known(cache[p])'
      BY <1>0, <1>1 DEF TypeOK, ProcOK, Known, LockOK, Asking
    <2>6. Known(seen[p])'
      <3>1. table[job[p].space] = 0
        BY <1>0 DEF ProcOK, LockOK
      <3> QED
        BY <1>0, <3>1 DEF TypeOK, ProcOK, Known
    <2> QED
      BY <2>1, <2>2, <2>3, <2>4, <2>5, <2>6 DEF ProcOK
  <1>4. ASSUME NEW q \in Procs, q # p PROVE ProcOK(q)'
    <2>1. ProcOK(q)
      BY DEF IInv
    <2> QED
      BY <1>0, <1>4, <2>1 DEF TypeOK, BlankOK, ProcOK, FileOK, LockOK, ListOK, LoadOK,
                Known, Unopened, InLock, Asking, NoTables, Named
  <1> QED
    BY <1>1, <1>2, <1>3, <1>4 DEF IInv

LEMMA AllocateStep ==
  ASSUME IInv, NEW p \in Procs, Allocate(p)
  PROVE  IInv'
  <1> USE ImageAssumption DEF Allocate, Goto, history, count, listing
  <1>0. TypeOK /\ BlankOK /\ ProcOK(p)
    BY DEF IInv
  <1>1. TypeOK'
    BY <1>0 DEF TypeOK, NoTables
  <1>2. BlankOK'
    BY <1>0 DEF TypeOK, BlankOK, ProcOK, FileOK, LockOK, Unopened, InLock
  <1>3. ProcOK(p)'
    BY <1>0, <1>1 DEF TypeOK, BlankOK, ProcOK, FileOK, LockOK, ListOK, LoadOK, Known,
                Unopened, InLock, Asking, NoTables, Named
  <1>4. ASSUME NEW q \in Procs, q # p PROVE ProcOK(q)'
    <2>1. ProcOK(q)
      BY DEF IInv
    <2> QED
      BY <1>0, <1>4, <2>1 DEF TypeOK, BlankOK, ProcOK, FileOK, LockOK, ListOK, LoadOK,
                Known, Unopened, InLock, Asking, NoTables, Named
  <1> QED
    BY <1>1, <1>2, <1>3, <1>4 DEF IInv

LEMMA DestroySpaceStep ==
  ASSUME IInv, NEW p \in Procs, DestroySpace(p)
  PROVE  IInv'
  <1> USE ImageAssumption DEF DestroySpace, Goto, Stir
  <1>0. TypeOK /\ BlankOK /\ ProcOK(p)
    BY DEF IInv
  <1>1. TypeOK'
    <2>1. PrivateOK /\ DiskOK
      BY <1>0, Parts
    <2>2. job[p].space \in Spaces
      BY <1>0 DEF ProcOK, LockOK, Asking
    <2>3. /\ destroyed' \subseteq Spaces \X Nat
          /\ table' \in [Spaces -> Nat]
          /\ room' \in Nat
      BY <2>1, <2>2 DEF DiskOK
    <2>4. DiskOK'
      BY <2>1, <2>3 DEF DiskOK
    <2>6. stirred' \in [Procs -> BOOLEAN]
      BY <2>1 DEF PrivateOK
    <2>7. PrivateOK'
      BY <2>1, <2>6 DEF PrivateOK
    <2> QED
      BY <2>4, <2>7 DEF TypeOK, PrivateOK, DiskOK
  <1>2. BlankOK'
    BY <1>0 DEF TypeOK, BlankOK, ProcOK, FileOK, LockOK, Unopened, InLock
  <1>3. ProcOK(p)'
    BY <1>0, <1>1 DEF TypeOK, BlankOK, ProcOK, FileOK, LockOK, ListOK, LoadOK, Known,
                Unopened, InLock, Asking, NoTables, Named
  <1>4. ASSUME NEW q \in Procs, q # p PROVE ProcOK(q)'
    <2>1. ProcOK(q)
      BY DEF IInv
    <2> QED
      BY <1>0, <1>4, <2>1 DEF TypeOK, BlankOK, ProcOK, FileOK, LockOK, ListOK, LoadOK,
                Known, Unopened, InLock, Asking, NoTables, Named
  <1> QED
    BY <1>1, <1>2, <1>3, <1>4 DEF IInv

LEMMA CheckHeapSanityStep ==
  ASSUME IInv, NEW p \in Procs, CheckHeapSanity(p)
  PROVE  IInv'
  <1> USE ImageAssumption DEF CheckHeapSanity, Goto, disk, history, count, listing
  <1>0. TypeOK /\ BlankOK /\ ProcOK(p)
    BY DEF IInv
  <1>1. TypeOK'
    BY <1>0 DEF TypeOK, NoTables
  <1>2. BlankOK'
    BY <1>0 DEF TypeOK, BlankOK, ProcOK, FileOK, LockOK, Unopened, InLock
  <1>3. ProcOK(p)'
    BY <1>0, <1>1 DEF TypeOK, BlankOK, ProcOK, FileOK, LockOK, ListOK, LoadOK, Known,
                Unopened, InLock, Asking, NoTables, Named
  <1>4. ASSUME NEW q \in Procs, q # p PROVE ProcOK(q)'
    <2>1. ProcOK(q)
      BY DEF IInv
    <2> QED
      BY <1>0, <1>4, <2>1 DEF TypeOK, BlankOK, ProcOK, FileOK, LockOK, ListOK, LoadOK,
                Known, Unopened, InLock, Asking, NoTables, Named
  <1> QED
    BY <1>1, <1>2, <1>3, <1>4 DEF IInv

LEMMA ReleaseStep ==
  ASSUME IInv, NEW p \in Procs, Release(p)
  PROVE  IInv'
  <1> USE ImageAssumption DEF Release, Goto, Answer, Vanish, Unlocked, NoJob, count, listing
  <1>0. TypeOK /\ BlankOK /\ ProcOK(p)
    BY DEF IInv
  <1>1. TypeOK'
    <2>1. PrivateOK /\ DiskOK
      BY <1>0, Parts
    <2>2. DiskOK'
      BY <2>1 DEF DiskOK
    <2>3. CASE Vanish(p, "none")
      BY <2>1, <2>2, <2>3, VanishTyped DEF TypeOK, PrivateOK, DiskOK
    <2>4. CASE ~Vanish(p, "none")
      <3>1. UNCHANGED <<mode, cache, pass, list, status, listing>>
        BY <2>4
      <3>2. \A step \in {"preload", "idle"} :
               [pc EXCEPT ![p] = step] \in
                 [Procs -> {"down", "map", "initialise", "await", "names", "walking",
                            "preload", "idle", "wait", "locked", "missing", "unlock"}]
        BY <2>1 DEF PrivateOK
      <3>3. pc' = [pc EXCEPT ![p] = "preload"] \/ pc' = [pc EXCEPT ![p] = "idle"]
        BY <2>4
      <3>4. job' \in [Procs -> [op : {"none", "preload", "ensure", "destroy", "allocate",
                                "close"},
                          space : Spaces \cup {None}]]
        <4>1. NoJob \in [op : {"none", "preload", "ensure", "destroy", "allocate",
                               "close"},
                         space : Spaces \cup {None}]
          OBVIOUS
        <4>2. job' = [job EXCEPT ![p] = NoJob]
          BY <2>4
        <4> QED
          BY <2>1, <4>1, <4>2 DEF PrivateOK
      <3>5. PrivateOK'
        BY <2>1, <3>1, <3>2, <3>3, <3>4 DEF PrivateOK
      <3> QED
        BY <2>2, <3>5 DEF TypeOK, PrivateOK, DiskOK
    <2> QED
      BY <2>3, <2>4
  <1>2. BlankOK'
    BY <1>0 DEF TypeOK, BlankOK, ProcOK, FileOK, LockOK, Unopened, InLock
  <1>3. ProcOK(p)'
    BY <1>0, <1>1 DEF TypeOK, BlankOK, ProcOK, FileOK, LockOK, ListOK, LoadOK, Known,
                Unopened, InLock, Asking, NoTables, Named
  <1>4. ASSUME NEW q \in Procs, q # p PROVE ProcOK(q)'
    <2>1. ProcOK(q)
      BY DEF IInv
    <2> QED
      BY <1>0, <1>4, <2>1 DEF TypeOK, BlankOK, ProcOK, FileOK, LockOK, ListOK, LoadOK,
                Known, Unopened, InLock, Asking, NoTables, Named
  <1> QED
    BY <1>1, <1>2, <1>3, <1>4 DEF IInv

LEMMA CrashStep ==
  ASSUME IInv, NEW p \in Procs, Crash(p)
  PROVE  IInv'
  <1> USE ImageAssumption DEF Crash, Goto, Answer, Vanish, NoJob, count
  <1>0. TypeOK /\ BlankOK /\ ProcOK(p)
    BY DEF IInv
  <1>1. TypeOK'
    BY <1>0 DEF TypeOK, NoTables
  <1>2. BlankOK'
    BY <1>0 DEF TypeOK, BlankOK, ProcOK, FileOK, LockOK, Unopened, InLock
  <1>3. ProcOK(p)'
    BY <1>0, <1>1 DEF TypeOK, BlankOK, ProcOK, FileOK, LockOK, ListOK, LoadOK, Known,
                Unopened, InLock, Asking, NoTables, Named
  <1>4. ASSUME NEW q \in Procs, q # p PROVE ProcOK(q)'
    <2>1. ProcOK(q)
      BY DEF IInv
    <2> QED
      BY <1>0, <1>4, <2>1 DEF TypeOK, BlankOK, ProcOK, FileOK, LockOK, ListOK, LoadOK,
                Known, Unopened, InLock, Asking, NoTables, Named
  <1> QED
    BY <1>1, <1>2, <1>3, <1>4 DEF IInv

LEMMA IInvStep == IInv /\ [Next]_vars => IInv'
  <1> SUFFICES ASSUME IInv, [Next]_vars PROVE IInv'
    OBVIOUS
  <1>1. CASE UNCHANGED vars
    <2>1. /\ UNCHANGED <<file, maker, lock, table, room>>
          /\ UNCHANGED <<pc, mode, cache, pass, list, job, status>>
          /\ UNCHANGED <<opens, made, destroyed, seen, stirred>>
      BY <1>1 DEF vars, disk, private, history, count, listing
    <2>2. TypeOK' /\ BlankOK'
      BY <2>1 DEF IInv, TypeOK, BlankOK, NoTables
    <2>3. ASSUME NEW q \in Procs PROVE ProcOK(q)'
      BY <2>1 DEF IInv, ProcOK, FileOK, LockOK, ListOK, LoadOK, Known, Named, NoTables
    <2> QED
      BY <2>2, <2>3 DEF IInv
  <1>2. ASSUME NEW p \in Procs, Step(p) \/ Acquire(p) \/ Environment(p)
        PROVE  IInv'
    BY <1>2, SdmDatabaseStep, MapFileStep, InitialiseStep, AwaitStep, BeginNamesStep,
       EndNamesStep, PreloadStep, CallEnsureStep, CallDestroySpaceStep,
       CallAllocateStep, CallCloseStep, AcquireStep, FindStep, ConstructStep,
       AllocateStep, DestroySpaceStep, CheckHeapSanityStep, ReleaseStep, CrashStep
       DEF Step, Inside, Environment
  <1> QED
    BY <1>1, <1>2 DEF Next

LEMMA IInvHolds == Spec => []IInv
  BY IInvInit, IInvStep, PTL DEF Spec

-----------------------------------------------------------------------------

(* All processes mean the same table by a name, or hold a pointer to one   *)
(* that was destroyed (manifold.cpp:371-380, symbol_space.hpp:135-138).    *)
THEOREM OneTablePerName == Spec => []CachesAgree
  <1>1. IInv => CachesAgree
    BY DEF IInv, CachesAgree, ProcOK, Known
  <1> QED
    BY <1>1, IInvHolds, PTL

(* The constructors find every table they listed: they make one only of a  *)
(* name that was destroyed in between (manifold.cpp:10-18, 341-359).       *)
THEOREM OpeningMakesNothing == Spec => []OpeningOnlyReads
  <1>1. IInv => OpeningOnlyReads
    <2> SUFFICES ASSUME IInv, NEW p \in Procs
                 PROVE  /\ mode[p] = "ro" => pc[p] \notin {"locked", "missing", "unlock"}
                        /\ pc[p] = "missing" /\ job[p].op = "preload"
                             => <<job[p].space, seen[p][job[p].space]>> \in destroyed
      BY DEF OpeningOnlyReads
    <2>1. ProcOK(p)
      BY DEF IInv
    <2> QED
      BY <2>1 DEF ProcOK, LockOK, ListOK, Known, InLock, Asking, Named
  <1> QED
    BY <1>1, IInvHolds, PTL

(* An open database has a pointer to each table it listed, but for those   *)
(* that were destroyed (manifold.cpp:17-18, database.cpp:27-29).           *)
THEOREM OpenedKnows == Spec => []OpenedKnowsAll
  <1>1. IInv => OpenedKnowsAll
    <2> SUFFICES ASSUME IInv, NEW p \in Procs, pc[p] = "idle", ~stirred[p],
                        NEW s \in Named(seen[p])
                 PROVE  cache[p][s] # 0 \/ <<s, seen[p][s]>> \in destroyed
      BY DEF OpenedKnowsAll
    <2>1. ProcOK(p)
      BY DEF IInv
    <2> QED
      BY <2>1 DEF ProcOK, LoadOK, ListOK
  <1> QED
    BY <1>1, IInvHolds, PTL

=============================================================================
