------------------------- MODULE SdmDatabaseProofs -------------------------
(* Theorems about SdmDatabase, for every set of processes, spaces and      *)
(* names, every size of vector, fingerprint and heap, and every bound.     *)
(*                                                                         *)
(* In this order: types; what was learnt is kept and nothing is invented;  *)
(* the sessions and what they draw; the refinement of AssociativeMemory    *)
(* and what endures; the accounts of the heap; what a call knows and       *)
(* leaves; a process that has the image to itself; the memory behind the   *)
(* references of superpose (SymbolPlaces).                                 *)
EXTENDS SymbolPlaces, TLAPS, FiniteSetTheorems

-----------------------------------------------------------------------------
(* What the steps of a call know of the call.                              *)

CallOK(p) ==
  /\ pc[p] \in InCall =>
       /\ call[p].op \in {"superpose", "namedvector"}
       /\ call[p].tgt \in SymId
       /\ call[p].src \in SymId
       /\ call[p].status \in Success
  /\ pc[p] \in {"find_target", "construct_target", "link_target", "learn", "store",
                "target_space"}
       => call[p].op = "superpose"
  /\ pc[p] \in {"link_source", "link_target"} => call[p].fresh \in Fingerprint
  /\ pc[p] \in {"find_target", "construct_target", "link_target", "learn", "store"}
       => call[p].src \in index
  /\ pc[p] \in {"learn", "store"} => call[p].tgt \in index
  /\ pc[p] = "store" => call[p].next <= BasisSize

(* A process that will still draw has fingerprints left to draw.           *)
DrawsOK(p) ==
  /\ pc[p] \in EnteringSource => MayDraw(p, call[p].tgt, call[p].src)
  /\ pc[p] = "construct_source" =>
       shuffles[p] + 1 + TargetDraws(call[p].tgt, call[p].src) <= MaxShuffles
  /\ pc[p] = "link_source" =>
       shuffles[p] + TargetDraws(call[p].tgt, call[p].src) <= MaxShuffles
  /\ pc[p] = "find_target" =>
       (call[p].tgt \in index \/ shuffles[p] + 1 <= MaxShuffles)
  /\ pc[p] = "construct_target" => shuffles[p] + 1 <= MaxShuffles

LinkedOK == \A id \in index : basis[id] \in Fingerprint

Typed == TypeOK /\ LinkedOK /\ \A p \in Procs : CallOK(p) /\ DrawsOK(p)

LEMMA PriceNat == ASSUME NEW id PROVE Price(id) \in Nat /\ Price(id) > 0
  BY HeapAssumption DEF Price

LEMMA TypedInit == Init => Typed
  <1> SUFFICES ASSUME Init PROVE Typed
    OBVIOUS
  <1> USE NameAssumption, VectorAssumption, ShuffleAssumption, HeapAssumption
  <1>1. TypeOK
    BY DEF Init, TypeOK, PCs, EnteringSource, NoCall, NewCall, Call, Ops, Status
  <1>2. ASSUME NEW p \in Procs PROVE CallOK(p) /\ DrawsOK(p)
    BY DEF Init, CallOK, DrawsOK, InCall, PCs, EnteringSource
  <1> QED
    BY <1>1, <1>2 DEF Typed, LinkedOK, Init

(* A step of one process leaves the private state of the others alone, and *)
(* takes no symbol out of the index.                                       *)
LEMMA Frame ==
  ASSUME TypeOK, NEW p \in Procs, Step(p) \/ Environment(p)
  PROVE  /\ index \subseteq index'
         /\ \A q \in Procs \ {p} : /\ pc'[q] = pc[q]
                                   /\ call'[q] = call[q]
                                   /\ shuffles'[q] = shuffles[q]
                                   /\ cache'[q] = cache[q]
                                   /\ session'[q] = session[q]
  <1> USE DEF TypeOK
  <1> DEFINE Same == /\ index \subseteq index'
                     /\ \A q \in Procs \ {p} : /\ pc'[q] = pc[q]
                                               /\ call'[q] = call[q]
                                               /\ shuffles'[q] = shuffles[q]
                                               /\ cache'[q] = cache[q]
                                               /\ session'[q] = session[q]
  <1>1. CASE Open(p)
    BY <1>1 DEF Open, Goto, image
  <1>2. CASE Close(p)
    BY <1>2 DEF Close, Vanish, Goto, image
  <1>3. CASE Crash(p)
    BY <1>3 DEF Crash, Vanish, Goto, image
  <1>4. CASE CallSuperpose(p) \/ CallNamedVector(p)
    BY <1>4 DEF CallSuperpose, CallNamedVector, Goto, image, history
  <1>5. CASE Density(p) \/ Measure(p) \/ Subtract(p)
    BY <1>5 DEF Density, Measure, Subtract, Pairwise, Answer, Terminate, Vanish, Goto, image, history
  <1>6. CASE EnsureTargetSpace(p) \/ EnsureSourceSpace(p)
    BY <1>6 DEF EnsureTargetSpace, EnsureSourceSpace, EnsureSpaceByName, Remember, Return, Settled, Goto, history
  <1>7. CASE FindSource(p) \/ FindTarget(p)
    BY <1>7 DEF FindSource, FindTarget, LookupFails, Terminate, Vanish, Return, Settled, Goto, image, history
  <1>8. CASE ConstructSource(p) \/ ConstructTarget(p)
    BY <1>8 DEF ConstructSource, ConstructTarget, ConstructSymbol, Draw, Vanish, Return, Settled, Goto, image
  <1>9. CASE LinkSource(p) \/ LinkTarget(p)
    BY <1>9 DEF LinkSource, LinkTarget, LinkSymbol, Return, Settled, Goto
  <1>10. CASE LoadElement(p) \/ StoreElement(p) \/ FinishSuperpose(p)
    BY <1>10 DEF LoadElement, StoreElement, FinishSuperpose, Return, Settled, Goto, image, history
  <1> QED
    BY <1>1, <1>2, <1>3, <1>4, <1>5, <1>6, <1>7, <1>8, <1>9, <1>10 DEF Step, Environment

(* What is known of a process in a call is not disturbed by the others.    *)
LEMMA OthersKeep ==
  ASSUME TypeOK, NEW q \in Procs, CallOK(q), DrawsOK(q),
         index \subseteq index',
         pc'[q] = pc[q], call'[q] = call[q], shuffles'[q] = shuffles[q]
  PROVE  CallOK(q)' /\ DrawsOK(q)'
  <1>1. CallOK(q)'
    BY DEF CallOK
  <1>2. shuffles[q] \in Nat /\ MaxShuffles \in Nat
    BY ShuffleAssumption DEF TypeOK
  <1>3. DrawsOK(q)'
    BY <1>2 DEF DrawsOK, MayDraw, SourceDraws, TargetDraws
  <1> QED
    BY <1>1, <1>3

-----------------------------------------------------------------------------
(* The type invariant, one group of variables at a time.                   *)

LEMMA NewCallTyped ==
  ASSUME NEW op \in Ops, NEW t \in SymId \cup {None}, NEW s \in SymId \cup {None},
         NEW shift \in Int, NEW prob \in 0 .. DitherScale, NEW status \in Status
  PROVE  NewCall(op, t, s, shift, prob, status) \in Call
  BY VectorAssumption DEF NewCall, Call

LEMMA SettledTyped ==
  ASSUME NEW c \in Call, NEW status \in Status
  PROVE  Settled(c, status) \in Call
  BY NewCallTyped DEF Settled, Call

LEMMA CallTyped ==
  ASSUME TypeOK, NEW p \in Procs, CallOK(p), DrawsOK(p), Step(p) \/ Environment(p)
  PROVE  call' \in [Procs -> Call]
  <1> USE VectorAssumption
  <1>a. call \in [Procs -> Call]
    BY DEF TypeOK
  <1>b. NoCall \in Call
    <2>1. /\ "none" \in Ops /\ "none" \in Status
          /\ 0 \in Int /\ 0 \in 0 .. DitherScale
          /\ None \in SymId \cup {None}
      BY DEF Ops, Status
    <2> QED
      BY <2>1, NewCallTyped DEF NoCall
  <1>c. ASSUME NEW c \in Call, call' = [call EXCEPT ![p] = c]
        PROVE  call' \in [Procs -> Call]
    BY <1>a, <1>c
  <1>d. ASSUME NEW status \in Status, Return(p, status)
        PROVE  call' \in [Procs -> Call]
    BY <1>a, <1>c, <1>d, SettledTyped DEF Return
  <1>e. ASSUME NEW op \in Ops, NEW t \in SymId, NEW s \in SymId, NEW status \in Status
        PROVE  /\ Answer(p, op, t, s, status) => call' \in [Procs -> Call]
               /\ \A lost : Vanish(p, NewCall(op, t, s, 0, 0, "terminated"), lost)
                              => call' \in [Procs -> Call]
               /\ Terminate(p, op, t, s) => call' \in [Procs -> Call]
    <2>1. NewCall(op, t, s, 0, 0, status) \in Call
      BY NewCallTyped
    <2>2. NewCall(op, t, s, 0, 0, "terminated") \in Call
      BY NewCallTyped DEF Status
    <2> QED
      BY <1>c, <2>1, <2>2 DEF Answer, Vanish, Terminate
  <1>1. CASE Open(p) \/ Close(p) \/ Crash(p)
    BY <1>1, <1>b, <1>c DEF Open, Close, Crash, Vanish
  <1>2. CASE CallSuperpose(p)
    <2>1. PICK t \in SymId, s \in SymId, shift \in Int :
            call' = [call EXCEPT ![p] =
                       NewCall("superpose", t, s, shift, DitherScale, "AOLD")]
      BY <1>2, NameAssumption DEF CallSuperpose
    <2>2. NewCall("superpose", t, s, shift, DitherScale, "AOLD") \in Call
      BY NewCallTyped DEF Ops, Status, Success
    <2> QED
      BY <2>1, <2>2, <1>c
  <1>3. CASE CallNamedVector(p)
    <2>1. PICK id \in SymId, d \in 0 .. DitherScale :
            call' = [call EXCEPT ![p] = NewCall("namedvector", id, id, 0, d, "AOLD")]
      BY <1>3 DEF CallNamedVector
    <2>2. NewCall("namedvector", id, id, 0, d, "AOLD") \in Call
      BY NewCallTyped DEF Ops, Status, Success
    <2> QED
      BY <2>1, <2>2, <1>c
  <1>4. CASE Density(p)
    BY <1>4, <1>e DEF Density, Ops, Status, Success
  <1>5. CASE Measure(p) \/ Subtract(p)
    BY <1>5, <1>e DEF Measure, Subtract, Pairwise, Ops, Status, Success
  <1>6. CASE EnsureTargetSpace(p) \/ EnsureSourceSpace(p)
    BY <1>6, <1>a, <1>d DEF EnsureTargetSpace, EnsureSourceSpace, EnsureSpaceByName, Status
  <1>7. CASE FindSource(p) \/ FindTarget(p)
    <2>1. /\ pc[p] \in {"find_source", "find_target"}
          /\ \/ call' = call
             \/ Return(p, "AOLD")
             \/ Terminate(p, call[p].op, call[p].tgt, call[p].src)
      BY <1>7 DEF FindSource, FindTarget, LookupFails
    <2>2. call[p].op \in Ops /\ call[p].tgt \in SymId /\ call[p].src \in SymId
      BY <2>1 DEF CallOK, InCall, PCs, EnteringSource, Ops
    <2> QED
      BY <2>1, <2>2, <1>a, <1>d, <1>e DEF Status, Success
  <1>8. CASE ConstructSource(p) \/ ConstructTarget(p)
    <2>1. /\ pc[p] \in {"construct_source", "construct_target"}
          /\ \/ call' = [call EXCEPT ![p].fresh = Shuffles[shuffles[p] + 1]]
             \/ Return(p, "EMEMORY")
             \/ \E lost : Vanish(p, NewCall("superpose", call[p].tgt, call[p].src,
                                            0, 0, "terminated"), lost)
      BY <1>8 DEF ConstructSource, ConstructTarget, ConstructSymbol
    <2>2. call[p].tgt \in SymId /\ call[p].src \in SymId
      BY <2>1 DEF CallOK, InCall, PCs, EnteringSource
    <2>3. shuffles[p] + 1 \in 1 .. MaxShuffles
      BY <2>1, ShuffleAssumption DEF DrawsOK, TargetDraws, TypeOK
    <2>4. Shuffles[shuffles[p] + 1] \in Fingerprint
      BY <2>3, ShuffleAssumption
    <2>5. [call EXCEPT ![p].fresh = Shuffles[shuffles[p] + 1]] \in [Procs -> Call]
      BY <2>4, <1>a DEF Call
    <2> QED
      BY <2>1, <2>2, <2>5, <1>d, <1>e DEF Status, Ops
  <1>9. CASE LinkSource(p) \/ LinkTarget(p)
    <2>1. \/ Return(p, "EINDEX")
          \/ Return(p, "ANEW")
          \/ call' = [call EXCEPT ![p] = Settled(call[p], "ANEW")]
      BY <1>9 DEF LinkSource, LinkTarget, LinkSymbol
    <2> QED
      BY <2>1, <1>a, <1>c, <1>d, SettledTyped DEF Status, Success
  <1>10. CASE LoadElement(p)
    <2>1. PICK word \in SUBSET Dims : call' = [call EXCEPT ![p].word = word]
      BY <1>10 DEF LoadElement, Element
    <2> QED
      BY <1>a, <2>1 DEF Call
  <1>12. CASE StoreElement(p)
    <2>1. call[p] \in Call /\ call[p].next \in 1 .. BasisSize
      BY <1>12, <1>a DEF StoreElement, Call, CallOK
    <2>2. call[p].next + 1 \in 1 .. BasisSize + 1 /\ {} \in SUBSET Dims
      BY <2>1
    <2>3. call' = [call EXCEPT ![p] = [call[p] EXCEPT !.next = call[p].next + 1,
                                                      !.word = {}]]
      BY <1>12, <1>a DEF StoreElement, Call
    <2>4. [call[p] EXCEPT !.next = call[p].next + 1, !.word = {}] \in Call
      BY <2>1, <2>2 DEF Call
    <2> QED
      BY <1>c, <2>3, <2>4
  <1>11. CASE FinishSuperpose(p)
    BY <1>11, <1>a, <1>d DEF FinishSuperpose, Call
  <1> QED
    BY <1>1, <1>2, <1>3, <1>4, <1>5, <1>6, <1>7, <1>8, <1>9, <1>10, <1>11, <1>12 DEF Step, Environment

LEMMA ImageTyped ==
  ASSUME TypeOK, LinkedOK, NEW p \in Procs, CallOK(p), Step(p) \/ Environment(p)
  PROVE  /\ tables' \subseteq Spaces
         /\ index' \subseteq SymId
         /\ basis' \in [SymId -> Fingerprint \cup {None}]
         /\ dither' \in [SymId -> 0 .. DitherScale]
         /\ vector' \in [SymId -> SUBSET Dims]
         /\ born' \in [SymId -> 0 .. MaxOpens]
         /\ lessons' \in [SymId -> [SymId -> SUBSET Positions]]
         /\ contested' \subseteq SymId
  <1> USE DEF TypeOK
  <1>1. CASE Open(p) \/ Close(p) \/ Crash(p) \/ CallSuperpose(p) \/ CallNamedVector(p)
    BY <1>1 DEF Open, Close, Crash, CallSuperpose, CallNamedVector, image, history
  <1>2. CASE Density(p) \/ Measure(p) \/ Subtract(p)
    BY <1>2 DEF Density, Measure, Subtract, Pairwise, Answer, image, history
  <1>3. CASE EnsureTargetSpace(p) \/ EnsureSourceSpace(p)
    <2>1. call[p].tgt \in SymId /\ call[p].src \in SymId
      BY <1>3 DEF EnsureTargetSpace, EnsureSourceSpace, EnsureSpaceByName, CallOK, InCall, PCs, EnteringSource
    <2>2. SpaceOf(call[p].tgt) \in Spaces /\ SpaceOf(call[p].src) \in Spaces
      BY <2>1, NameAssumption DEF SpaceOf
    <2> QED
      BY <1>3, <2>2 DEF EnsureTargetSpace, EnsureSourceSpace, EnsureSpaceByName, history
  <1>4. CASE FindSource(p) \/ FindTarget(p)
    BY <1>4 DEF FindSource, FindTarget, LookupFails, image, history
  <1>5. CASE ConstructSource(p) \/ ConstructTarget(p)
    BY <1>5 DEF ConstructSource, ConstructTarget, ConstructSymbol, image
  <1>6. ASSUME NEW id, NEW at, NEW next, LinkSymbol(p, at, id, next),
               id \in SymId, call[p].fresh \in Fingerprint
        PROVE  /\ tables' \subseteq Spaces
               /\ index' \subseteq SymId
               /\ basis' \in [SymId -> Fingerprint \cup {None}]
               /\ dither' \in [SymId -> 0 .. DitherScale]
               /\ vector' \in [SymId -> SUBSET Dims]
               /\ born' \in [SymId -> 0 .. MaxOpens]
               /\ lessons' \in [SymId -> [SymId -> SUBSET Positions]]
               /\ contested' \subseteq SymId
    <2>1. call[p].prob \in 0 .. DitherScale
      BY DEF Call
    <2>2. session[p] \in 0 .. MaxOpens
      OBVIOUS
    <2> QED
      BY <1>6, <2>1, <2>2 DEF LinkSymbol
  <1>7. CASE LinkSource(p) \/ LinkTarget(p)
    <2>1. /\ call[p].tgt \in SymId /\ call[p].src \in SymId
          /\ call[p].fresh \in Fingerprint
      BY <1>7 DEF LinkSource, LinkTarget, LinkSymbol, CallOK, InCall, PCs, EnteringSource
    <2> QED
      BY <1>6, <1>7, <2>1 DEF LinkSource, LinkTarget
  <1>8. CASE StoreElement(p)
    <2> DEFINE t == call[p].tgt
               s == call[p].src
               i == call[p].next
               bit == basis[s][i]
               word == Written(call[p].word, bit, i, Heads(dither[s]))
    <2>1. t \in SymId /\ s \in SymId
      BY <1>8 DEF StoreElement, CallOK, InCall, PCs, EnteringSource
    <2>2. i \in Positions
      BY <1>8 DEF StoreElement, CallOK, Call, Positions
    <2>3. bit \in Dims
      BY <1>8, <2>1, <2>2 DEF StoreElement, CallOK, LinkedOK, Fingerprint
    <2>4. word \in SUBSET Dims
      <3>1. call[p].word \in SUBSET Dims
        BY DEF Call
      <3> QED
        BY <2>3, <3>1 DEF Written
    <2>5. vector' \in [SymId -> SUBSET Dims]
      BY <1>8, <2>1, <2>4 DEF StoreElement
    <2>6. lessons' \in [SymId -> [SymId -> SUBSET Positions]]
      BY <1>8, <2>1, <2>2 DEF StoreElement
    <2> QED
      BY <1>8, <2>5, <2>6 DEF StoreElement
  <1>10. CASE LoadElement(p)
    <2>1. call[p].tgt \in SymId
      BY <1>10 DEF LoadElement, CallOK, InCall, PCs, EnteringSource
    <2> QED
      BY <1>10, <2>1 DEF LoadElement, image
  <1>9. CASE FinishSuperpose(p)
    BY <1>9 DEF FinishSuperpose, image, history
  <1> QED
    BY <1>1, <1>2, <1>3, <1>4, <1>5, <1>7, <1>8, <1>9, <1>10 DEF Step, Environment

LEMMA MemoryTyped ==
  ASSUME TypeOK, NEW p \in Procs, Step(p) \/ Environment(p)
  PROVE  free' \in Nat /\ size' \in Int /\ leaked' \in Nat
  <1>a. free \in Nat /\ size \in Int /\ leaked \in Nat
    BY DEF TypeOK
  <1> USE HeapAssumption
  <1>1. CASE Open(p) \/ CallSuperpose(p) \/ CallNamedVector(p)
    BY <1>1, <1>a DEF Open, CallSuperpose, CallNamedVector, memory
  <1>2. CASE Density(p) \/ Measure(p) \/ Subtract(p)
    BY <1>2, <1>a DEF Density, Measure, Subtract, Pairwise, Answer, Terminate, Vanish, memory
  <1>3. CASE EnsureTargetSpace(p) \/ EnsureSourceSpace(p)
    BY <1>3, <1>a DEF EnsureTargetSpace, EnsureSourceSpace, EnsureSpaceByName, Fits
  <1>4. CASE FindSource(p) \/ FindTarget(p)
    BY <1>4, <1>a DEF FindSource, FindTarget, LookupFails, Terminate, Vanish, memory
  <1>5. CASE ConstructSource(p) \/ ConstructTarget(p)
    BY <1>5, <1>a, PriceNat DEF ConstructSource, ConstructTarget, ConstructSymbol, Vanish, Fits
  <1>6. CASE LinkSource(p) \/ LinkTarget(p)
    BY <1>6, <1>a, PriceNat DEF LinkSource, LinkTarget, LinkSymbol, Refund
  <1>7. CASE LoadElement(p) \/ StoreElement(p) \/ FinishSuperpose(p)
    BY <1>7, <1>a DEF LoadElement, StoreElement, FinishSuperpose, memory
  <1>8. CASE Close(p)
    <2>1. PICK kept \in 0 .. free : free' = kept /\ size' = size - (free - kept)
      BY <1>8, <1>a DEF Close
    <2>2. leaked' = leaked + 0
      BY <1>8 DEF Close, Vanish
    <2> QED
      BY <2>1, <2>2, <1>a
  <1>9. CASE Crash(p)
    <2>1. Held(p) \in Nat
      BY PriceNat DEF Held
    <2> QED
      BY <1>9, <1>a, <2>1 DEF Crash, Vanish
  <1> QED
    BY <1>1, <1>2, <1>3, <1>4, <1>5, <1>6, <1>7, <1>8, <1>9 DEF Step, Environment

LEMMA ProcessTyped ==
  ASSUME TypeOK, NEW p \in Procs, CallOK(p), DrawsOK(p), Step(p) \/ Environment(p)
  PROVE  /\ pc' \in [Procs -> PCs]
         /\ cache' \in [Procs -> SUBSET Spaces]
         /\ shuffles' \in [Procs -> 0 .. MaxShuffles]
         /\ opens' \in 0 .. MaxOpens
         /\ session' \in [Procs -> 0 .. MaxOpens]
  <1> USE ShuffleAssumption, HeapAssumption DEF PCs, EnteringSource
  <1>a. /\ pc \in [Procs -> PCs]
        /\ cache \in [Procs -> SUBSET Spaces]
        /\ tables \subseteq Spaces
        /\ shuffles \in [Procs -> 0 .. MaxShuffles]
        /\ opens \in 0 .. MaxOpens
        /\ session \in [Procs -> 0 .. MaxOpens]
    BY DEF TypeOK
  <1>b. 0 \in 0 .. MaxOpens /\ 0 \in 0 .. MaxShuffles
    OBVIOUS
  <1>c. ASSUME NEW last, NEW lost, Vanish(p, last, lost)
        PROVE  /\ pc' \in [Procs -> PCs]
               /\ cache' \in [Procs -> SUBSET Spaces]
               /\ shuffles' \in [Procs -> 0 .. MaxShuffles]
               /\ session' \in [Procs -> 0 .. MaxOpens]
    <2>1. "down" \in PCs /\ {} \in SUBSET Spaces
      OBVIOUS
    <2> HIDE DEF PCs
    <2> QED
      BY <1>a, <1>b, <1>c, <2>1 DEF Vanish, Goto
  <1>1. CASE Open(p)
    BY <1>1, <1>a DEF Open, Goto
  <1>2. CASE Close(p) \/ Crash(p)
    BY <1>2, <1>a, <1>c DEF Close, Crash
  <1>3. CASE CallSuperpose(p) \/ CallNamedVector(p)
    BY <1>3, <1>a DEF CallSuperpose, CallNamedVector, Goto, history
  <1>4. CASE Density(p) \/ Measure(p) \/ Subtract(p)
    <2>1. \/ UNCHANGED <<pc, cache, shuffles, opens, session>>
          \/ (\E last, lost : Vanish(p, last, lost)) /\ UNCHANGED opens
      BY <1>4 DEF Density, Measure, Subtract, Pairwise, Answer, Terminate, history
    <2> QED
      BY <2>1, <1>a, <1>c
  <1>5. CASE EnsureTargetSpace(p) \/ EnsureSourceSpace(p)
    <2>1. call[p].tgt \in SymId /\ call[p].src \in SymId
      BY <1>5 DEF EnsureTargetSpace, EnsureSourceSpace, EnsureSpaceByName, CallOK, InCall
    <2>2. SpaceOf(call[p].tgt) \in Spaces /\ SpaceOf(call[p].src) \in Spaces
      BY <2>1, NameAssumption DEF SpaceOf
    <2>5. \/ cache' = cache
          \/ \E sp \in Spaces : cache' = [cache EXCEPT ![p] = @ \cup {sp}]
      BY <1>5, <2>2 DEF EnsureTargetSpace, EnsureSourceSpace, EnsureSpaceByName, Remember
    <2>3. cache' \in [Procs -> SUBSET Spaces]
      BY <1>a, <2>5
    <2>4. pc' \in [Procs -> PCs]
      BY <1>5, <1>a DEF EnsureTargetSpace, EnsureSourceSpace, EnsureSpaceByName, Return, Goto
    <2> QED
      BY <1>5, <1>a, <2>3, <2>4 DEF EnsureTargetSpace, EnsureSourceSpace, EnsureSpaceByName, history
  <1>6. CASE FindSource(p) \/ FindTarget(p)
    <2>1. /\ UNCHANGED opens
          /\ \/ /\ UNCHANGED <<cache, shuffles, session>>
                /\ pc' \in [Procs -> PCs]
             \/ \E last, lost : Vanish(p, last, lost)
      BY <1>6, <1>a DEF FindSource, FindTarget, LookupFails, Terminate, Return, Goto, history
    <2> QED
      BY <2>1, <1>a, <1>c
  <1>7. CASE ConstructSource(p) \/ ConstructTarget(p)
    <2>1. shuffles[p] + 1 \in 0 .. MaxShuffles
      BY <1>7, <1>a DEF ConstructSource, ConstructTarget, ConstructSymbol, DrawsOK, TargetDraws
    <2>2. /\ UNCHANGED opens
          /\ \/ /\ UNCHANGED <<cache, session>>
                /\ Draw(p)
                /\ pc' \in [Procs -> PCs]
             \/ \E last, lost : Vanish(p, last, lost)
      BY <1>7, <1>a DEF ConstructSource, ConstructTarget, ConstructSymbol, Return, Goto
    <2>3. Draw(p) => shuffles' \in [Procs -> 0 .. MaxShuffles]
      BY <2>1, <1>a DEF Draw
    <2> QED
      BY <2>2, <2>3, <1>a, <1>c
  <1>8. CASE LinkSource(p) \/ LinkTarget(p)
    <2>1. /\ UNCHANGED <<cache, shuffles, opens, session>>
          /\ \/ pc' = [pc EXCEPT ![p] = "idle"]
             \/ pc' = [pc EXCEPT ![p] = "find_target"]
             \/ pc' = [pc EXCEPT ![p] = "learn"]
      BY <1>8 DEF LinkSource, LinkTarget, LinkSymbol, Return, Goto
    <2> QED
      BY <1>a, <2>1
  <1>9. CASE LoadElement(p) \/ StoreElement(p) \/ FinishSuperpose(p)
    BY <1>9, <1>a DEF LoadElement, StoreElement, FinishSuperpose, Return, Goto, history
  <1> QED
    BY <1>1, <1>2, <1>3, <1>4, <1>5, <1>6, <1>7, <1>8, <1>9 DEF Step, Environment

(* What a process knows of its own call after its own step.                *)
LEMMA OwnCallOK ==
  ASSUME TypeOK, LinkedOK, NEW p \in Procs, CallOK(p), DrawsOK(p),
         Step(p) \/ Environment(p)
  PROVE  CallOK(p)' /\ LinkedOK'
  <1>a. /\ pc \in [Procs -> PCs]
        /\ call \in [Procs -> Call]
    BY DEF TypeOK
  <1> USE DEF InCall, PCs, EnteringSource, Success
  <1>b. ASSUME pc'[p] \in {"idle", "down"} PROVE CallOK(p)'
    BY <1>b DEF CallOK
  <1>1. CASE Open(p)
    BY <1>1, <1>a, <1>b DEF Open, Goto, LinkedOK, image
  <1>2. CASE Close(p) \/ Crash(p)
    BY <1>2, <1>a, <1>b DEF Close, Crash, Vanish, Goto, LinkedOK, image
  <1>3. CASE CallSuperpose(p)
    <2>1. PICK t \in SymId, s \in SymId, shift \in Shifts :
            call' = [call EXCEPT ![p] =
                       NewCall("superpose", t, s, shift, DitherScale, "AOLD")]
      BY <1>3, NameAssumption DEF CallSuperpose
    <2>2. /\ call'[p].op = "superpose" /\ call'[p].status = "AOLD"
          /\ call'[p].tgt = t /\ call'[p].src = s
      BY <2>1, <1>a DEF NewCall
    <2>3. pc'[p] = "target_space" /\ LinkedOK'
      BY <1>3, <1>a DEF CallSuperpose, Goto, LinkedOK, image
    <2> QED
      BY <2>2, <2>3 DEF CallOK
  <1>4. CASE CallNamedVector(p)
    <2>1. PICK id \in SymId, d \in Dithers :
            call' = [call EXCEPT ![p] = NewCall("namedvector", id, id, 0, d, "AOLD")]
      BY <1>4 DEF CallNamedVector
    <2>2. /\ call'[p].op = "namedvector" /\ call'[p].status = "AOLD"
          /\ call'[p].tgt = id /\ call'[p].src = id
      BY <2>1, <1>a DEF NewCall
    <2>3. pc'[p] = "source_space" /\ LinkedOK'
      BY <1>4, <1>a DEF CallNamedVector, Goto, LinkedOK, image
    <2> QED
      BY <2>2, <2>3 DEF CallOK
  <1>5. CASE Density(p) \/ Measure(p) \/ Subtract(p)
    <2>1. pc'[p] \in {"idle", "down"}
      BY <1>5, <1>a DEF Density, Measure, Subtract, Pairwise, Answer, Terminate, Vanish, Goto
    <2> QED
      BY <1>5, <1>b, <2>1 DEF Density, Measure, Subtract, Pairwise, Answer, LinkedOK, image
  <1>6. CASE EnsureTargetSpace(p) \/ EnsureSourceSpace(p)
    <2>1. \/ pc'[p] = "idle"
          \/ pc[p] = "target_space" /\ pc'[p] = "source_space" /\ call' = call
          \/ pc[p] = "source_space" /\ pc'[p] = "find_source" /\ call' = call
      BY <1>6, <1>a DEF EnsureTargetSpace, EnsureSourceSpace, EnsureSpaceByName, Return, Goto
    <2>2. LinkedOK'
      BY <1>6 DEF EnsureTargetSpace, EnsureSourceSpace, EnsureSpaceByName, LinkedOK
    <2> QED
      BY <1>b, <2>1, <2>2 DEF CallOK
  <1>7. CASE FindSource(p)
    <2>1. /\ pc[p] = "find_source"
          /\ index' = index
          /\ \/ pc'[p] \in {"idle", "down"}
             \/ pc'[p] = "construct_source" /\ call' = call
             \/ /\ pc'[p] = "find_target" /\ call' = call
                /\ call[p].src \in index /\ call[p].op = "superpose"
      BY <1>7, <1>a DEF FindSource, LookupFails, Terminate, Vanish, Return, Goto, image
    <2>2. LinkedOK'
      BY <1>7 DEF FindSource, LookupFails, LinkedOK, image
    <2> QED
      BY <1>b, <2>1, <2>2 DEF CallOK
  <1>8. CASE FindTarget(p)
    <2>1. /\ pc[p] = "find_target"
          /\ index' = index
          /\ \/ pc'[p] = "down"
             \/ pc'[p] = "construct_target" /\ call' = call
             \/ pc'[p] = "learn" /\ call' = call /\ call[p].tgt \in index
      BY <1>8, <1>a DEF FindTarget, LookupFails, Terminate, Vanish, Goto, image
    <2>2. LinkedOK'
      BY <1>8 DEF FindTarget, LookupFails, LinkedOK, image
    <2> QED
      BY <1>b, <2>1, <2>2 DEF CallOK
  <1>9. CASE ConstructSource(p) \/ ConstructTarget(p)
    <2>1. /\ pc[p] \in {"construct_source", "construct_target"}
          /\ index' = index
          /\ \/ pc'[p] \in {"idle", "down"}
             \/ /\ \/ pc[p] = "construct_source" /\ pc'[p] = "link_source"
                   \/ pc[p] = "construct_target" /\ pc'[p] = "link_target"
                /\ call' = [call EXCEPT ![p].fresh = Shuffles[shuffles[p] + 1]]
      BY <1>9, <1>a DEF ConstructSource, ConstructTarget, ConstructSymbol, Vanish, Return, Goto, image
    <2>2. shuffles[p] + 1 \in 1 .. MaxShuffles
      BY <2>1, ShuffleAssumption DEF DrawsOK, TargetDraws, TypeOK
    <2>3. Shuffles[shuffles[p] + 1] \in Fingerprint
      BY <2>2, ShuffleAssumption
    <2>4. LinkedOK'
      BY <1>9 DEF ConstructSource, ConstructTarget, ConstructSymbol, LinkedOK, image
    <2>5. ASSUME call' = [call EXCEPT ![p].fresh = Shuffles[shuffles[p] + 1]]
          PROVE  /\ call'[p].op = call[p].op /\ call'[p].status = call[p].status
                 /\ call'[p].tgt = call[p].tgt /\ call'[p].src = call[p].src
                 /\ call'[p].fresh \in Fingerprint
      BY <2>5, <2>3, <1>a DEF Call
    <2> QED
      BY <1>b, <2>1, <2>4, <2>5 DEF CallOK
  <1>10. CASE LinkSource(p) \/ LinkTarget(p)
    <2>1. /\ call[p].src \in SymId /\ call[p].tgt \in SymId
          /\ call[p].fresh \in Fingerprint
      BY <1>10 DEF LinkSource, LinkTarget, LinkSymbol, CallOK
    <2>2. LinkedOK'
      BY <1>10, <2>1 DEF LinkSource, LinkTarget, LinkSymbol, LinkedOK, TypeOK
    <2>3. \/ pc'[p] = "idle"
          \/ /\ pc[p] = "link_source" /\ pc'[p] = "find_target"
             /\ call[p].op = "superpose"
             /\ index' = index \cup {call[p].src}
             /\ call' = [call EXCEPT ![p] = Settled(call[p], "ANEW")]
          \/ /\ pc[p] = "link_target" /\ pc'[p] = "learn"
             /\ call[p].op = "superpose"
             /\ index' = index \cup {call[p].tgt}
             /\ call' = [call EXCEPT ![p] = Settled(call[p], "ANEW")]
      BY <1>10, <1>a DEF LinkSource, LinkTarget, LinkSymbol, Return, Goto
    <2>4. ASSUME call' = [call EXCEPT ![p] = Settled(call[p], "ANEW")]
          PROVE  /\ call'[p].op = call[p].op /\ call'[p].status = "ANEW"
                 /\ call'[p].tgt = call[p].tgt /\ call'[p].src = call[p].src
      BY <2>4, <1>a DEF Settled, NewCall
    <2> QED
      BY <1>b, <2>1, <2>2, <2>3, <2>4 DEF CallOK
  <1>11. CASE LoadElement(p)
    <2>1. /\ pc[p] = "learn" /\ pc'[p] = "store" /\ index' = index
          /\ call[p].next <= BasisSize
          /\ \E word : call' = [call EXCEPT ![p].word = word]
      BY <1>11, <1>a DEF LoadElement, Goto, image
    <2>2. /\ call'[p].op = call[p].op /\ call'[p].status = call[p].status
          /\ call'[p].tgt = call[p].tgt /\ call'[p].src = call[p].src
          /\ call'[p].next = call[p].next
      BY <2>1, <1>a DEF Call
    <2>3. LinkedOK'
      BY <1>11 DEF LoadElement, LinkedOK, image
    <2> QED
      BY <2>1, <2>2, <2>3 DEF CallOK
  <1>13. CASE StoreElement(p)
    <2>1. /\ pc[p] = "store" /\ pc'[p] = "learn" /\ index' = index
          /\ call' = [call EXCEPT ![p].next = call[p].next + 1, ![p].word = {}]
      BY <1>13, <1>a DEF StoreElement, Goto
    <2>2. /\ call'[p].op = call[p].op /\ call'[p].status = call[p].status
          /\ call'[p].tgt = call[p].tgt /\ call'[p].src = call[p].src
      BY <2>1, <1>a DEF Call
    <2>3. LinkedOK'
      BY <1>13 DEF StoreElement, LinkedOK
    <2> QED
      BY <2>1, <2>2, <2>3 DEF CallOK
  <1>12. CASE FinishSuperpose(p)
    BY <1>12, <1>a, <1>b DEF FinishSuperpose, Return, Goto, LinkedOK, image
  <1> QED
    BY <1>1, <1>2, <1>3, <1>4, <1>5, <1>6, <1>7, <1>8, <1>9, <1>10, <1>11, <1>12, <1>13 DEF Step, Environment

(* Its own step takes from the draws it may still make what it draws.      *)
LEMMA OwnDrawsOK ==
  ASSUME TypeOK, NEW p \in Procs, CallOK(p), DrawsOK(p), Step(p) \/ Environment(p)
  PROVE  DrawsOK(p)'
  <1>a. /\ pc \in [Procs -> PCs]
        /\ call \in [Procs -> Call]
        /\ shuffles \in [Procs -> 0 .. MaxShuffles]
        /\ MaxShuffles \in Nat
    BY ShuffleAssumption DEF TypeOK
  <1> USE DEF PCs, EnteringSource
  <1>b. ASSUME pc'[p] \in {"idle", "down", "link_target", "learn", "store"} PROVE DrawsOK(p)'
    BY <1>b DEF DrawsOK
  <1>1. CASE Open(p)
    BY <1>1, <1>a, <1>b DEF Open, Goto
  <1>2. CASE Close(p) \/ Crash(p)
    BY <1>2, <1>a, <1>b DEF Close, Crash, Vanish, Goto
  <1>3. CASE CallSuperpose(p)
    <2>1. PICK t \in SymId, s \in SymId, shift \in Shifts :
            /\ MayDraw(p, t, s)
            /\ call' = [call EXCEPT ![p] = NewCall("superpose", t, s, shift, DitherScale, "AOLD")]
      BY <1>3, NameAssumption DEF CallSuperpose
    <2>2. /\ call'[p].tgt = t /\ call'[p].src = s
          /\ shuffles' = shuffles /\ index' = index
          /\ pc'[p] = "target_space"
      BY <1>3, <2>1, <1>a DEF CallSuperpose, NewCall, Goto, image
    <2>3. MayDraw(p, call[p].tgt, call[p].src)'
      BY <2>1, <2>2 DEF MayDraw, SourceDraws, TargetDraws
    <2> QED
      BY <2>2, <2>3 DEF DrawsOK
  <1>11. CASE CallNamedVector(p)
    <2>1. PICK id \in SymId, d \in Dithers :
            /\ MayDraw(p, id, id)
            /\ call' = [call EXCEPT ![p] = NewCall("namedvector", id, id, 0, d, "AOLD")]
      BY <1>11, NameAssumption DEF CallNamedVector
    <2>2. /\ call'[p].tgt = id /\ call'[p].src = id
          /\ shuffles' = shuffles /\ index' = index
          /\ pc'[p] = "source_space"
      BY <1>11, <2>1, <1>a DEF CallNamedVector, NewCall, Goto, image
    <2>3. MayDraw(p, call[p].tgt, call[p].src)'
      BY <2>1, <2>2 DEF MayDraw, SourceDraws, TargetDraws
    <2> QED
      BY <2>2, <2>3 DEF DrawsOK
  <1>4. CASE Density(p) \/ Measure(p) \/ Subtract(p)
    <2>1. pc'[p] \in {"idle", "down"}
      BY <1>4, <1>a DEF Density, Measure, Subtract, Pairwise, Answer, Terminate, Vanish, Goto
    <2> QED
      BY <1>b, <2>1
  <1>5. CASE EnsureTargetSpace(p) \/ EnsureSourceSpace(p)
    <2>1. /\ pc[p] \in EnteringSource /\ shuffles' = shuffles /\ index' = index
          /\ \/ pc'[p] = "idle"
             \/ pc'[p] \in {"source_space", "find_source"} /\ call' = call
      BY <1>5, <1>a DEF EnsureTargetSpace, EnsureSourceSpace, EnsureSpaceByName, Return, Goto
    <2> QED
      BY <1>b, <2>1 DEF DrawsOK, MayDraw, SourceDraws, TargetDraws
  <1>6. CASE FindSource(p)
    <2>1. /\ pc[p] = "find_source" /\ index' = index
          /\ \/ pc'[p] \in {"idle", "down"}
             \/ /\ pc'[p] = "construct_source" /\ call[p].src \notin index
                /\ call' = call /\ shuffles' = shuffles
             \/ /\ pc'[p] = "find_target" /\ call[p].src \in index
                /\ call' = call /\ shuffles' = shuffles
      BY <1>6, <1>a DEF FindSource, LookupFails, Terminate, Vanish, Return, Goto, image
    <2> QED
      BY <1>a, <1>b, <2>1 DEF DrawsOK, MayDraw, SourceDraws, TargetDraws
  <1>7. CASE FindTarget(p)
    <2>1. /\ pc[p] = "find_target" /\ index' = index
          /\ \/ pc'[p] \in {"down", "learn"}
             \/ /\ pc'[p] = "construct_target" /\ call[p].tgt \notin index
                /\ shuffles' = shuffles
      BY <1>7, <1>a DEF FindTarget, LookupFails, Terminate, Vanish, Goto, image
    <2> QED
      BY <1>b, <2>1 DEF DrawsOK
  <1>8. CASE ConstructSource(p) \/ ConstructTarget(p)
    <2>1. /\ index' = index
          /\ \/ pc'[p] \in {"idle", "down", "link_target"}
             \/ /\ pc[p] = "construct_source" /\ pc'[p] = "link_source"
                /\ shuffles'[p] = shuffles[p] + 1
                /\ call' = [call EXCEPT ![p].fresh = Shuffles[shuffles[p] + 1]]
      BY <1>8, <1>a DEF ConstructSource, ConstructTarget, ConstructSymbol, Vanish, Return, Draw, Goto, image
    <2>2. ASSUME call' = [call EXCEPT ![p].fresh = Shuffles[shuffles[p] + 1]]
          PROVE  call'[p].tgt = call[p].tgt /\ call'[p].src = call[p].src
      BY <2>2, <1>a DEF Call
    <2> QED
      BY <1>a, <1>b, <2>1, <2>2 DEF DrawsOK, TargetDraws
  <1>9. CASE LinkSource(p) \/ LinkTarget(p)
    <2>1. \/ pc'[p] \in {"idle", "learn"}
          \/ /\ pc[p] = "link_source" /\ pc'[p] = "find_target"
             /\ index' = index \cup {call[p].src}
             /\ shuffles' = shuffles
             /\ call' = [call EXCEPT ![p] = Settled(call[p], "ANEW")]
      BY <1>9, <1>a DEF LinkSource, LinkTarget, LinkSymbol, Return, Goto
    <2>2. ASSUME call' = [call EXCEPT ![p] = Settled(call[p], "ANEW")]
          PROVE  call'[p].tgt = call[p].tgt /\ call'[p].src = call[p].src
      BY <2>2, <1>a DEF Settled, NewCall
    <2> QED
      BY <1>a, <1>b, <2>1, <2>2 DEF DrawsOK, TargetDraws
  <1>10. CASE LoadElement(p) \/ StoreElement(p) \/ FinishSuperpose(p)
    BY <1>10, <1>a, <1>b DEF LoadElement, StoreElement, FinishSuperpose, Return, Goto
  <1> QED
    BY <1>1, <1>2, <1>3, <1>4, <1>5, <1>6, <1>7, <1>8, <1>9, <1>10, <1>11 DEF Step, Environment

LEMMA TypedStep == Typed /\ [Next]_vars => Typed'
  <1> SUFFICES ASSUME Typed, [Next]_vars PROVE Typed'
    OBVIOUS
  <1>a. TypeOK /\ LinkedOK /\ \A q \in Procs : CallOK(q) /\ DrawsOK(q)
    BY DEF Typed
  <1>1. ASSUME NEW p \in Procs, Step(p) \/ Environment(p) PROVE Typed'
    <2>1. TypeOK'
      <3>1. call' \in [Procs -> Call]
        BY <1>a, <1>1, CallTyped
      <3> QED
        BY <3>1, <1>a, <1>1, ImageTyped, MemoryTyped, ProcessTyped DEF TypeOK
    <2>2. CallOK(p)' /\ LinkedOK' /\ DrawsOK(p)'
      BY <1>a, <1>1, OwnCallOK, OwnDrawsOK
    <2>3. ASSUME NEW q \in Procs \ {p} PROVE CallOK(q)' /\ DrawsOK(q)'
      BY <1>a, <1>1, Frame, OthersKeep
    <2> QED
      BY <2>1, <2>2, <2>3 DEF Typed
  <1>2. CASE UNCHANGED vars
    <2>1. TypeOK' /\ LinkedOK'
      BY <1>2, <1>a DEF TypeOK, LinkedOK, vars, image, memory, private, history
    <2>2. ASSUME NEW q \in Procs PROVE CallOK(q)' /\ DrawsOK(q)'
      BY <1>2, <1>a DEF CallOK, DrawsOK, MayDraw, SourceDraws, TargetDraws, vars, image, memory, private, history
    <2> QED
      BY <2>1, <2>2 DEF Typed
  <1> QED
    BY <1>1, <1>2 DEF Next

(* The types hold for every number of processes and every size of the      *)
(* image; a generator never runs past the draws the bound allows it.       *)
THEOREM TypeCorrect == Spec => []TypeOK
  <1>1. Spec => []Typed
    BY TypedInit, TypedStep, PTL DEF Spec
  <1>2. Typed => TypeOK
    BY DEF Typed
  <1> QED
    BY <1>1, <1>2, PTL

-----------------------------------------------------------------------------
(* The image changes in two ways only: a symbol is linked, or an element   *)
(* is stored.                                                              *)

Symbols == <<index, basis, dither, vector, born, lessons, contested>>

Links(p, id) ==
  /\ \/ pc[p] = "link_source" /\ id = call[p].src
     \/ pc[p] = "link_target" /\ id = call[p].tgt
  /\ id \in SymId \ index
  /\ index'  = index \cup {id}
  /\ basis'  = [basis  EXCEPT ![id] = call[p].fresh]
  /\ dither' = [dither EXCEPT ![id] = call[p].prob]
  /\ vector' = [vector EXCEPT ![id] = {}]
  /\ born'   = [born   EXCEPT ![id] = session[p]]
  /\ UNCHANGED <<lessons, contested>>

LEMMA ImageStep ==
  ASSUME TypeOK, NEW p \in Procs, CallOK(p), Step(p) \/ Environment(p)
  PROVE  \/ UNCHANGED Symbols /\ pc'[p] # "store"
         \/ (\E id \in SymId : Links(p, id)) /\ pc'[p] # "store"
         \/ LoadElement(p)
         \/ StoreElement(p)
  <1>a. pc \in [Procs -> PCs]
    BY DEF TypeOK
  <1> USE DEF Symbols
  <1>1. CASE LinkSource(p) \/ LinkTarget(p)
    <2>1. call[p].tgt \in SymId /\ call[p].src \in SymId
      BY <1>1 DEF LinkSource, LinkTarget, LinkSymbol, CallOK, InCall, PCs, EnteringSource
    <2>2. CASE LinkSource(p)
      <3>1. \/ UNCHANGED Symbols
            \/ Links(p, call[p].src)
        BY <2>1, <2>2 DEF LinkSource, LinkSymbol, Refused, Links
      <3> QED
        BY <1>a, <2>1, <2>2, <3>1 DEF LinkSource, LinkSymbol, Return, Goto
    <2>3. CASE LinkTarget(p)
      <3>1. \/ UNCHANGED Symbols
            \/ Links(p, call[p].tgt)
        BY <2>1, <2>3 DEF LinkTarget, LinkSymbol, Refused, Links
      <3> QED
        BY <1>a, <2>1, <2>3, <3>1 DEF LinkTarget, LinkSymbol, Return, Goto
    <2> QED
      BY <1>1, <2>2, <2>3
  <1>2. CASE LoadElement(p) \/ StoreElement(p)
    BY <1>2
  <1>3. CASE Open(p) \/ Close(p) \/ Crash(p) \/ CallSuperpose(p) \/ CallNamedVector(p)
    BY <1>3, <1>a DEF Open, Close, Crash, CallSuperpose, CallNamedVector, Vanish, Goto, image, history
  <1>4. CASE Density(p) \/ Measure(p) \/ Subtract(p)
    BY <1>4, <1>a DEF Density, Measure, Subtract, Pairwise, Answer, Terminate, Vanish, Goto, image, history
  <1>5. CASE EnsureTargetSpace(p) \/ EnsureSourceSpace(p)
    BY <1>5, <1>a DEF EnsureTargetSpace, EnsureSourceSpace, EnsureSpaceByName, Return, Goto, history
  <1>6. CASE FindSource(p) \/ FindTarget(p) \/ FinishSuperpose(p)
    BY <1>6, <1>a DEF FindSource, FindTarget, FinishSuperpose, LookupFails, Terminate, Vanish, Return, Goto, image, history
  <1>7. CASE ConstructSource(p) \/ ConstructTarget(p)
    BY <1>7, <1>a DEF ConstructSource, ConstructTarget, ConstructSymbol, Vanish, Return, Goto, image
  <1> QED
    BY <1>1, <1>2, <1>3, <1>4, <1>5, <1>6, <1>7 DEF Step, Environment

-----------------------------------------------------------------------------
(* Symbols and lessons.                                                    *)

(* Only symbols that are linked have taught or been taught, and only they  *)
(* have bits.                                                              *)
LessonsOK ==
  /\ \A t, s \in SymId : lessons[t][s] # {} => t \in index /\ s \in index
  /\ \A id \in SymId : id \notin index => vector[id] = {}

(* An element that was loaded and not stored yet holds bits that were      *)
(* taught, and it is up to date if nobody contests the target.             *)
Loaded(p) ==
  /\ call[p].word \subseteq Taught(call[p].tgt)
  /\ call[p].tgt \notin contested =>
       /\ call[p].word = vector[call[p].tgt]
                           \cap Element(basis[call[p].src][call[p].next])
       /\ ~Race(p, call[p].tgt)

LoadedOK == \A p \in Procs : pc[p] = "store" => Loaded(p)

Lessons == LessonsOK /\ LoadedOK /\ NothingInvented /\ NothingForgotten

Learnt == Typed /\ Lessons

\* p moves, and none of what the others are doing changes.
Alone(p) == \A q \in Procs \ {p} : pc'[q] = pc[q] /\ call'[q] = call[q]

LEMMA LearntInit == Init => Learnt
  <1> SUFFICES ASSUME Init PROVE Learnt
    OBVIOUS
  <1>1. Typed
    BY TypedInit
  <1>2. LessonsOK /\ LoadedOK
    BY DEF Init, LessonsOK, LoadedOK
  <1>3. NothingInvented /\ NothingForgotten
    BY DEF Init, NothingInvented, NothingForgotten, Taught
  <1> QED
    BY <1>1, <1>2, <1>3 DEF Learnt, Lessons

(* What keeps an element that q has loaded as good as it was.              *)
LEMMA LoadedKept ==
  ASSUME NEW q \in Procs, NEW t, NEW s,
         Loaded(q), call'[q] = call[q], t = call[q].tgt, s = call[q].src,
         Taught(t) \subseteq Taught(t)', contested \subseteq contested',
         basis'[s] = basis[s],
         t \notin contested' => vector'[t] = vector[t] /\ ~Race(q, t)'
  PROVE  Loaded(q)'
  <1>1. t = call'[q].tgt /\ s = call'[q].src
    OBVIOUS
  <1>2. (call[q].word \subseteq Taught(call[q].tgt))'
    <2>1. call[q].word \subseteq Taught(t)'
      BY DEF Loaded
    <2> QED
      BY <1>1, <2>1 DEF Taught
  <1>3. ASSUME (call[q].tgt \notin contested)'
        PROVE  /\ (call[q].word = vector[call[q].tgt]
                                    \cap Element(basis[call[q].src][call[q].next]))'
               /\ (~Race(q, call[q].tgt))'
    <2>1. t \notin contested /\ vector'[t] = vector[t] /\ ~Race(q, t)'
      BY <1>1, <1>3
    <2> QED
      BY <1>1, <2>1 DEF Loaded, Race, Element
  <1> QED
    BY <1>2, <1>3 DEF Loaded

(* Steps that touch no symbol.                                             *)
LEMMA IdleKeepsLessons ==
  ASSUME Lessons, NEW p \in Procs, Alone(p), UNCHANGED Symbols, pc'[p] # "store"
  PROVE  Lessons'
  <1> USE DEF Symbols
  <1>1. \A t \in SymId : Taught(t)' = Taught(t) /\ Cleared(t)' = Cleared(t)
    BY DEF Taught, Cleared
  <1>2. LessonsOK' /\ NothingInvented' /\ NothingForgotten'
    BY <1>1 DEF Lessons, LessonsOK, NothingInvented, NothingForgotten
  <1>3. ASSUME NEW q \in Procs, pc'[q] = "store" PROVE Loaded(q)'
    <2>1. q # p /\ pc[q] = "store" /\ call'[q] = call[q] /\ Loaded(q)
      BY <1>3 DEF Alone, Lessons, LoadedOK
    <2>2. PICK t, s : t = call[q].tgt /\ s = call[q].src
      OBVIOUS
    <2>3. Race(q, t)' => Race(q, t)
      BY DEF Race, Alone
    <2>4. Taught(t)' = Taught(t)
      BY DEF Taught
    <2> QED
      BY <2>1, <2>2, <2>3, <2>4, LoadedKept DEF Loaded
  <1> QED
    BY <1>2, <1>3 DEF Lessons, LoadedOK

(* Linking a symbol: it is in nobody's lessons yet.                        *)
LEMMA LinkKeepsLessons ==
  ASSUME TypeOK, \A q \in Procs : CallOK(q), Lessons,
         NEW p \in Procs, Alone(p), NEW id \in SymId, Links(p, id), pc'[p] # "store"
  PROVE  Lessons'
  <1> USE DEF Links
  <1>a. LessonsOK /\ LoadedOK /\ NothingInvented /\ NothingForgotten
    BY DEF Lessons
  <1>1. LessonsOK'
    BY <1>a DEF LessonsOK, TypeOK
  <1>2. \A t \in SymId : lessons[t][id] = {}
    BY <1>a DEF LessonsOK
  <1>3. vector' = vector
    BY <1>a DEF LessonsOK, TypeOK
  <1>4. \A s \in SymId : s # id => basis'[s] = basis[s] /\ dither'[s] = dither[s]
    BY DEF TypeOK
  <1>5. \A t \in SymId : Taught(t)' = Taught(t) /\ Cleared(t)' = Cleared(t)
    BY <1>2, <1>4 DEF Taught, Cleared
  <1>6. NothingInvented' /\ NothingForgotten'
    BY <1>a, <1>3, <1>5 DEF NothingInvented, NothingForgotten
  <1>7. ASSUME NEW q \in Procs, pc'[q] = "store" PROVE Loaded(q)'
    <2>1. q # p /\ pc[q] = "store" /\ call'[q] = call[q] /\ Loaded(q)
      BY <1>7, <1>a DEF Alone, LoadedOK
    <2>2. PICK t \in SymId, s \in SymId \ {id} : t = call[q].tgt /\ s = call[q].src
      BY <2>1 DEF CallOK, InCall, PCs, EnteringSource
    <2>3. Race(q, t)' => Race(q, t)
      BY DEF Race, Alone
    <2>4. Taught(t)' = Taught(t) /\ basis'[s] = basis[s]
      BY <1>4, <1>5, <2>2
    <2> QED
      BY <1>3, <2>1, <2>2, <2>3, <2>4, LoadedKept DEF Loaded
  <1> QED
    BY <1>1, <1>6, <1>7 DEF Lessons, LoadedOK

(* Loading: what is read is up to date, and if another process is between  *)
(* its load and its store, the target is contested from now on.            *)
LEMMA LoadKeepsLessons ==
  ASSUME TypeOK, \A q \in Procs : CallOK(q), Lessons,
         NEW p \in Procs, Alone(p), LoadElement(p)
  PROVE  Lessons'
  <1>a. LessonsOK /\ LoadedOK /\ NothingInvented /\ NothingForgotten
    BY DEF Lessons
  <1>b. PICK t \in SymId, s \in SymId : t = call[p].tgt /\ s = call[p].src
    BY DEF LoadElement, CallOK, InCall, PCs, EnteringSource
  <1>c. /\ UNCHANGED <<index, basis, dither, vector, lessons>>
        /\ contested' = IF Race(p, t) THEN contested \cup {t} ELSE contested
        /\ pc[p] = "learn"
    BY <1>b DEF LoadElement, image
  <1>d. /\ call'[p].tgt = t /\ call'[p].src = s
        /\ call'[p].next = call[p].next
        /\ call'[p].word = vector[t] \cap Element(basis[s][call[p].next])
    BY <1>b DEF LoadElement, TypeOK, Call
  <1>1. \A u \in SymId : Taught(u)' = Taught(u) /\ Cleared(u)' = Cleared(u)
    BY <1>c DEF Taught, Cleared
  <1>2. LessonsOK' /\ NothingInvented' /\ NothingForgotten'
    BY <1>a, <1>c, <1>1 DEF LessonsOK, NothingInvented, NothingForgotten
  <1>3. Loaded(p)'
    <2>1. Race(p, t)' <=> Race(p, t)
      BY DEF Race, Alone
    <2>2. call'[p].word \subseteq Taught(t)'
      BY <1>a, <1>d, <1>1 DEF NothingInvented
    <2>3. (call[p].word \subseteq Taught(call[p].tgt))'
      BY <1>d, <2>2 DEF Taught
    <2>4. ASSUME (call[p].tgt \notin contested)'
          PROVE  /\ (call[p].word = vector[call[p].tgt]
                                      \cap Element(basis[call[p].src][call[p].next]))'
                 /\ (~Race(p, call[p].tgt))'
      <3>1. ~Race(p, t)'
        BY <1>c, <1>d, <2>1, <2>4
      <3> QED
        BY <1>c, <1>d, <3>1 DEF Race, Element
    <2> QED
      BY <2>3, <2>4 DEF Loaded
  <1>4. ASSUME NEW q \in Procs \ {p}, pc'[q] = "store" PROVE Loaded(q)'
    <2>1. pc[q] = "store" /\ call'[q] = call[q] /\ Loaded(q)
      BY <1>4, <1>a DEF Alone, LoadedOK
    <2>2. PICK u \in SymId, v \in SymId : u = call[q].tgt /\ v = call[q].src
      BY <2>1 DEF CallOK, InCall, PCs, EnteringSource
    <2>3. u = t => u \in contested'
      BY <1>c, <2>1, <2>2 DEF Race
    <2>4. u # t => (Race(q, u)' => Race(q, u))
      BY <1>d DEF Race, Alone
    <2> QED
      BY <1>c, <1>1, <2>1, <2>2, <2>3, <2>4, LoadedKept DEF Loaded
  <1> QED
    BY <1>2, <1>3, <1>4 DEF Lessons, LoadedOK

(* Storing position i of s into t: a leading one is a new witness for its  *)
(* own bit, a trailing one for every lesson that taught the bit before.    *)
LEMMA StoreKeepsLessons ==
  ASSUME Typed, Lessons, NEW p \in Procs, Alone(p), StoreElement(p)
  PROVE  Lessons'
  <1>a. /\ LessonsOK /\ LoadedOK /\ NothingInvented /\ NothingForgotten
        /\ TypeOK /\ LinkedOK /\ \A q \in Procs : CallOK(q)
    BY DEF Lessons, Typed
  <1>b. pc[p] = "store" /\ pc'[p] = "learn"
    BY <1>a DEF StoreElement, Goto, TypeOK
  <1>1. PICK t \in SymId, s \in SymId, i \in Positions :
           /\ t = call[p].tgt /\ s = call[p].src /\ i = call[p].next
           /\ t \in index /\ s \in index
    <2>1. call[p].next \in Positions
      BY <1>a, <1>b, VectorAssumption DEF TypeOK, Call, CallOK, Positions
    <2> QED
      BY <1>a, <1>b, <2>1 DEF CallOK, InCall, PCs, EnteringSource
  <1>2. PICK h \in Int, bit \in Dims : h = Heads(dither[s]) /\ bit = basis[s][i]
    <2>1. basis[s][i] \in Dims
      BY <1>a, <1>1 DEF LinkedOK, Fingerprint
    <2>2. Heads(dither[s]) \in Int
      BY <1>a, VectorAssumption DEF TypeOK, Heads
    <2> QED
      BY <2>1, <2>2
  <1>3. PICK word :
           /\ word = IF i <= h THEN call[p].word \cup {bit} ELSE call[p].word \ {bit}
           /\ vector' = [vector EXCEPT ![t] = (@ \ Element(bit)) \cup word]
    BY <1>1, <1>2 DEF StoreElement, Written
  <1>c. /\ lessons' = [lessons EXCEPT ![t][s] = @ \cup {i}]
        /\ UNCHANGED <<index, basis, dither, contested>>
    BY <1>1 DEF StoreElement
  <1>4. /\ vector'[t] = (vector[t] \ Element(bit)) \cup word
        /\ \A u \in SymId : u # t => vector'[u] = vector[u]
        /\ i \in lessons'[t][s]
        /\ \A u, v \in SymId : lessons[u][v] \subseteq lessons'[u][v]
        /\ \A u, v \in SymId : \A j \in lessons'[u][v] :
              j \in lessons[u][v] \/ (u = t /\ v = s /\ j = i)
    BY <1>a, <1>3, <1>c DEF TypeOK
  <1>5. LessonsOK'
    BY <1>a, <1>1, <1>c, <1>4 DEF LessonsOK
  <1>6. \A u \in SymId : Taught(u) \subseteq Taught(u)' /\ Cleared(u) \subseteq Cleared(u)'
    BY <1>c, <1>4 DEF Taught, Cleared
  <1>7. \A u \in SymId : u # t => Taught(u)' \subseteq Taught(u)
    BY <1>c, <1>4 DEF Taught
  <1>l. /\ call[p].word \subseteq Taught(t)
        /\ t \notin contested => /\ call[p].word = vector[t] \cap Element(bit)
                                 /\ ~Race(p, t)
    BY <1>a, <1>b, <1>1, <1>2 DEF LoadedOK, Loaded
  <1>e. bit \in Element(bit)
    BY DEF Element
  <1>8. ASSUME i <= h PROVE NothingInvented' /\ NothingForgotten'
    <2>1. bit \in Taught(t)'
      BY <1>2, <1>c, <1>4, <1>8 DEF Taught
    <2>2. Taught(t)' \subseteq Taught(t) \cup {bit}
      BY <1>2, <1>c, <1>4 DEF Taught
    <2>3. NothingInvented'
      <3>1. vector'[t] \subseteq Taught(t)'
        BY <1>a, <1>3, <1>4, <1>6, <1>8, <1>l, <2>1 DEF NothingInvented
      <3> QED
        BY <1>a, <1>4, <1>6, <3>1 DEF NothingInvented
    <2>4. NothingForgotten'
      <3>1. ASSUME t \notin contested PROVE Taught(t)' \ Cleared(t)' \subseteq vector'[t]
        <4>1. vector'[t] = vector[t] \cup {bit}
          BY <1>3, <1>4, <1>8, <1>l, <3>1
        <4>2. Taught(t) \ Cleared(t) \subseteq vector[t]
          BY <1>a, <3>1 DEF NothingForgotten
        <4> QED
          BY <1>6, <2>2, <4>1, <4>2
      <3> QED
        BY <1>a, <1>c, <1>4, <1>6, <1>7, <3>1 DEF NothingForgotten
    <2> QED
      BY <2>3, <2>4
  <1>9. ASSUME ~(i <= h) PROVE NothingInvented' /\ NothingForgotten'
    <2>0. i > h
      BY <1>9 DEF Positions
    <2>1. bit \in Cleared(t)'
      BY <1>2, <1>c, <1>4, <2>0 DEF Cleared
    <2>2. Taught(t)' \subseteq Taught(t)
      BY <1>2, <1>c, <1>4, <1>9 DEF Taught
    <2>3. NothingInvented'
      <3>1. vector'[t] \subseteq Taught(t)'
        BY <1>a, <1>3, <1>4, <1>6, <1>9, <1>l DEF NothingInvented
      <3> QED
        BY <1>a, <1>4, <1>6, <3>1 DEF NothingInvented
    <2>4. NothingForgotten'
      <3>1. ASSUME t \notin contested PROVE Taught(t)' \ Cleared(t)' \subseteq vector'[t]
        <4>1. vector'[t] = vector[t] \ {bit}
          BY <1>3, <1>4, <1>9, <1>l, <1>e, <3>1
        <4>2. Taught(t) \ Cleared(t) \subseteq vector[t]
          BY <1>a, <3>1 DEF NothingForgotten
        <4> QED
          BY <1>6, <2>1, <2>2, <4>1, <4>2
      <3> QED
        BY <1>a, <1>c, <1>4, <1>6, <1>7, <3>1 DEF NothingForgotten
    <2> QED
      BY <2>3, <2>4
  <1>10. ASSUME NEW q \in Procs, pc'[q] = "store" PROVE Loaded(q)'
    <2>1. q # p /\ pc[q] = "store" /\ call'[q] = call[q] /\ Loaded(q)
      BY <1>10, <1>a, <1>b DEF Alone, LoadedOK
    <2>2. PICK u \in SymId, v \in SymId : u = call[q].tgt /\ v = call[q].src
      BY <1>a, <2>1 DEF CallOK, InCall, PCs, EnteringSource
    <2>3. u = t => u \in contested
      BY <1>l, <2>1, <2>2 DEF Race
    <2>4. Race(q, u)' => Race(q, u)
      BY <1>b DEF Race, Alone
    <2> QED
      BY <1>c, <1>4, <1>6, <2>1, <2>2, <2>3, <2>4, LoadedKept DEF Loaded
  <1> QED
    BY <1>5, <1>8, <1>9, <1>10 DEF Lessons, LoadedOK

LEMMA LearntStep == Learnt /\ [Next]_vars => Learnt'
  <1> SUFFICES ASSUME Learnt, [Next]_vars PROVE Learnt'
    OBVIOUS
  <1>a. Typed /\ TypeOK /\ Lessons /\ \A p \in Procs : CallOK(p)
    BY DEF Learnt, Typed
  <1>b. Typed'
    BY <1>a, TypedStep
  <1>1. ASSUME NEW p \in Procs, Step(p) \/ Environment(p) PROVE Lessons'
    <2>1. Alone(p)
      BY <1>a, <1>1, Frame DEF Alone
    <2>2. \/ UNCHANGED Symbols /\ pc'[p] # "store"
          \/ (\E id \in SymId : Links(p, id)) /\ pc'[p] # "store"
          \/ LoadElement(p)
          \/ StoreElement(p)
      BY <1>a, <1>1, ImageStep
    <2> QED
      BY <1>a, <2>1, <2>2, IdleKeepsLessons, LinkKeepsLessons, LoadKeepsLessons, StoreKeepsLessons
  <1>2. CASE UNCHANGED vars
    <2> USE <1>2 DEF vars, image, private, history
    <2>1. LessonsOK' /\ NothingInvented' /\ NothingForgotten'
      BY <1>a DEF Lessons, LessonsOK, NothingInvented, NothingForgotten, Taught, Cleared
    <2>2. LoadedOK'
      BY <1>a DEF Lessons, LoadedOK, Loaded, Taught, Race, Element
    <2> QED
      BY <1>b, <2>1, <2>2 DEF Lessons, Learnt
  <1> QED
    BY <1>1, <1>2, <1>b DEF Learnt, Next

LEMMA LearntAlways == Spec => []Learnt
  BY LearntInit, LearntStep, PTL DEF Spec

(* A vector never holds a bit that no lesson taught it, whatever crashes,  *)
(* sessions and other processes came between.                              *)
THEOREM LearningIsSound == Spec => []NothingInvented
  <1>1. Learnt => NothingInvented
    BY DEF Learnt, Lessons
  <1> QED
    BY <1>1, LearntAlways, PTL

(* A bit that was taught is missing only where a trailing element of       *)
(* another lesson cleared it, in every target that no two processes wrote  *)
(* at once.                                                                *)
THEOREM LearningIsKept == Spec => []NothingForgotten
  <1>1. Learnt => NothingForgotten
    BY DEF Learnt, Lessons
  <1> QED
    BY <1>1, LearntAlways, PTL

-----------------------------------------------------------------------------
(* Sessions and fingerprints.                                              *)

(* A session belongs to one process; a symbol is linked in a session.      *)
SessionsOK ==
  /\ \A p \in Procs : session[p] <= opens /\ (pc[p] = "down" <=> session[p] = 0)
  /\ \A p, q \in Procs : session[p] = session[q] /\ session[p] # 0 => p = q
  /\ \A id \in SymId : born[id] <= opens /\ (id \in index <=> born[id] # 0)

Linking(p) == pc[p] \in {"link_source", "link_target"}

(* The fingerprints of the symbols a live session has linked are draws it  *)
(* has made, and the symbol it is about to link has a later one.           *)
DrawnOK ==
  /\ \A p \in Procs : Linking(p) =>
       shuffles[p] >= 1 /\ call[p].fresh = Shuffles[shuffles[p]]
  /\ \A p \in Procs : \A id \in index :
       pc[p] # "down" /\ born[id] = session[p] =>
         \E k \in 1 .. shuffles[p] :
            basis[id] = Shuffles[k] /\ (Linking(p) => k < shuffles[p])

Sessions == Typed /\ SessionsOK /\ DrawnOK /\ SessionFingerprints

LEMMA SessionsInit == Init => Sessions
  <1> SUFFICES ASSUME Init PROVE Sessions
    OBVIOUS
  <1>1. Typed
    BY TypedInit
  <1>2. SessionsOK /\ DrawnOK /\ SessionFingerprints
    BY DEF Init, SessionsOK, DrawnOK, Linking, SessionFingerprints
  <1> QED
    BY <1>1, <1>2 DEF Sessions

(* A step of p in which the image keeps its symbols: what p may do to its  *)
(* session, its draws and the symbol it is making.                         *)
LEMMA SessionStep ==
  ASSUME TypeOK, NEW p \in Procs, CallOK(p), DrawsOK(p), Step(p) \/ Environment(p)
  PROVE  \/ /\ pc[p] = "down" /\ pc'[p] = "idle"
            /\ opens' = opens + 1 /\ session'[p] = opens + 1
            /\ UNCHANGED <<index, basis, born>>
         \/ /\ pc'[p] = "down" /\ session'[p] = 0 /\ opens' = opens
            /\ UNCHANGED <<index, basis, born>>
         \/ /\ pc[p] # "down" /\ pc'[p] # "down"
            /\ UNCHANGED <<opens, session>>
            /\ \/ /\ ~Linking(p)' /\ shuffles'[p] >= shuffles[p]
                  /\ UNCHANGED <<index, basis, born>>
               \/ /\ Linking(p)' /\ shuffles'[p] = shuffles[p] + 1
                  /\ call'[p].fresh = Shuffles[shuffles[p] + 1]
                  /\ UNCHANGED <<index, basis, born>>
               \/ /\ Linking(p) /\ ~Linking(p)' /\ shuffles'[p] = shuffles[p]
                  /\ \E id \in SymId \ index :
                        /\ index' = index \cup {id}
                        /\ basis' = [basis EXCEPT ![id] = call[p].fresh]
                        /\ born' = [born EXCEPT ![id] = session[p]]
  <1>a. /\ pc \in [Procs -> PCs]
        /\ call \in [Procs -> Call]
        /\ shuffles \in [Procs -> 0 .. MaxShuffles]
        /\ session \in [Procs -> 0 .. MaxOpens]
        /\ MaxShuffles \in Nat
    BY ShuffleAssumption DEF TypeOK
  <1> USE DEF PCs, EnteringSource, Linking
  <1>v. ASSUME NEW last, NEW lost, Vanish(p, last, lost)
        PROVE  pc'[p] = "down" /\ session'[p] = 0
    BY <1>a, <1>v DEF Vanish, Goto
  <1>1. CASE Open(p)
    BY <1>1, <1>a DEF Open, Goto, image
  <1>2. CASE Close(p) \/ Crash(p)
    BY <1>2, <1>v DEF Close, Crash, image
  <1>3. CASE CallSuperpose(p) \/ CallNamedVector(p)
    BY <1>3, <1>a DEF CallSuperpose, CallNamedVector, Goto, image, history
  <1>4. CASE Density(p) \/ Measure(p) \/ Subtract(p)
    <2>1. /\ UNCHANGED <<index, basis, born, opens>>
          /\ pc[p] = "idle"
          /\ \/ UNCHANGED <<pc, shuffles, session>>
             \/ \E last, lost : Vanish(p, last, lost)
      BY <1>4 DEF Density, Measure, Subtract, Pairwise, Answer, Terminate, image, history
    <2> QED
      BY <2>1, <1>a, <1>v
  <1>5. CASE EnsureTargetSpace(p) \/ EnsureSourceSpace(p)
    BY <1>5, <1>a DEF EnsureTargetSpace, EnsureSourceSpace, EnsureSpaceByName, Return, Goto, history
  <1>6. CASE FindSource(p) \/ FindTarget(p)
    <2>1. /\ UNCHANGED <<index, basis, born, opens>>
          /\ pc[p] \in {"find_source", "find_target"}
          /\ \/ UNCHANGED <<shuffles, session>> /\ pc'[p] # "down" /\ ~Linking(p)'
             \/ \E last, lost : Vanish(p, last, lost)
      BY <1>6, <1>a DEF FindSource, FindTarget, LookupFails, Terminate, Return, Goto, image, history
    <2> QED
      BY <2>1, <1>a, <1>v
  <1>7. CASE ConstructSource(p) \/ ConstructTarget(p)
    <2>1. /\ UNCHANGED <<index, basis, born, opens>>
          /\ pc[p] \in {"construct_source", "construct_target"}
          /\ \/ /\ UNCHANGED session /\ pc'[p] \in {"link_source", "link_target"}
                /\ shuffles'[p] = shuffles[p] + 1
                /\ call' = [call EXCEPT ![p].fresh = Shuffles[shuffles[p] + 1]]
             \/ /\ UNCHANGED session /\ pc'[p] = "idle"
                /\ shuffles'[p] = shuffles[p] + 1
             \/ \E last, lost : Vanish(p, last, lost)
      BY <1>7, <1>a DEF ConstructSource, ConstructTarget, ConstructSymbol, Draw, Return, Goto, image
    <2>2. ASSUME call' = [call EXCEPT ![p].fresh = Shuffles[shuffles[p] + 1]]
          PROVE  call'[p].fresh = Shuffles[shuffles[p] + 1]
      BY <2>2, <1>a DEF Call
    <2> QED
      BY <2>1, <2>2, <1>a, <1>v
  <1>8. CASE LinkSource(p) \/ LinkTarget(p)
    <2>1. call[p].tgt \in SymId /\ call[p].src \in SymId
      BY <1>8 DEF LinkSource, LinkTarget, LinkSymbol, CallOK, InCall
    <2> QED
      BY <1>8, <2>1, <1>a DEF LinkSource, LinkTarget, LinkSymbol, Refused, Return, Goto
  <1>9. CASE LoadElement(p) \/ StoreElement(p) \/ FinishSuperpose(p)
    BY <1>9, <1>a DEF LoadElement, StoreElement, FinishSuperpose, Return, Goto, image, history
  <1> QED
    BY <1>1, <1>2, <1>3, <1>4, <1>5, <1>6, <1>7, <1>8, <1>9 DEF Step, Environment

LEMMA SessionsStep == Sessions /\ [Next]_vars => Sessions'
  <1> SUFFICES ASSUME Sessions, [Next]_vars PROVE Sessions'
    OBVIOUS
  <1>a. /\ Typed /\ TypeOK /\ LinkedOK /\ SessionsOK /\ DrawnOK /\ SessionFingerprints
        /\ \A p \in Procs : CallOK(p) /\ DrawsOK(p)
    BY DEF Sessions, Typed
  <1>b. Typed' /\ TypeOK'
    BY <1>a, TypedStep DEF Typed
  <1>t. /\ opens \in Nat /\ session \in [Procs -> Nat] /\ born \in [SymId -> Nat]
        /\ shuffles \in [Procs -> 0 .. MaxShuffles] /\ MaxShuffles \in Nat
        /\ index \subseteq SymId
        /\ basis \in [SymId -> Fingerprint \cup {None}]
    BY <1>a, HeapAssumption, ShuffleAssumption DEF TypeOK
  <1>1. ASSUME NEW p \in Procs, Step(p) \/ Environment(p)
        PROVE  SessionsOK' /\ DrawnOK' /\ SessionFingerprints'
    <2>f. \A q \in Procs \ {p} : /\ pc'[q] = pc[q] /\ call'[q] = call[q]
                                 /\ shuffles'[q] = shuffles[q]
                                 /\ session'[q] = session[q]
      BY <1>1, <1>a, Frame
    <2>g. \A q \in Procs \ {p} : Linking(q)' <=> Linking(q)
      BY <2>f DEF Linking
    <2>1. CASE /\ pc[p] = "down" /\ pc'[p] = "idle"
               /\ opens' = opens + 1 /\ session'[p] = opens + 1
               /\ UNCHANGED <<index, basis, born>>
      <3>1. SessionsOK'
        BY <1>a, <1>t, <2>1, <2>f DEF SessionsOK
      <3>2. ~Linking(p)' /\ \A id \in index : born[id] # session'[p]
        BY <1>a, <1>t, <2>1 DEF SessionsOK, Linking
      <3>3. DrawnOK'
        BY <1>a, <2>1, <2>f, <2>g, <3>2 DEF DrawnOK
      <3> QED
        BY <1>a, <2>1, <3>1, <3>3 DEF SessionFingerprints
    <2>2. CASE /\ pc'[p] = "down" /\ session'[p] = 0 /\ opens' = opens
               /\ UNCHANGED <<index, basis, born>>
      <3>1. SessionsOK'
        BY <1>a, <1>t, <2>2, <2>f DEF SessionsOK
      <3>2. ~Linking(p)'
        BY <2>2 DEF Linking
      <3>3. DrawnOK'
        BY <1>a, <2>2, <2>f, <2>g, <3>2 DEF DrawnOK
      <3> QED
        BY <1>a, <2>2, <3>1, <3>3 DEF SessionFingerprints
    <2>3. CASE /\ pc[p] # "down" /\ pc'[p] # "down"
               /\ UNCHANGED <<opens, session>>
               /\ ~Linking(p)' /\ shuffles'[p] >= shuffles[p]
               /\ UNCHANGED <<index, basis, born>>
      <3>1. SessionsOK'
        BY <1>a, <2>3, <2>f DEF SessionsOK
      <3>2. shuffles'[p] \in Nat
        BY <1>b DEF TypeOK
      <3>3. \A id \in index : born[id] = session[p] =>
              \E k \in 1 .. shuffles'[p] : basis[id] = Shuffles[k]
        <4> SUFFICES ASSUME NEW id \in index, born[id] = session[p]
                     PROVE  \E k \in 1 .. shuffles'[p] : basis[id] = Shuffles[k]
          OBVIOUS
        <4>1. PICK k \in 1 .. shuffles[p] : basis[id] = Shuffles[k]
          BY <1>a, <2>3 DEF DrawnOK
        <4>2. k \in 1 .. shuffles'[p]
          BY <1>t, <2>3, <3>2, <4>1
        <4> QED
          BY <4>1, <4>2
      <3>4. DrawnOK'
        BY <1>a, <2>3, <2>f, <2>g, <3>3 DEF DrawnOK
      <3> QED
        BY <1>a, <2>3, <3>1, <3>4 DEF SessionFingerprints
    <2>4. CASE /\ pc[p] # "down" /\ pc'[p] # "down"
               /\ UNCHANGED <<opens, session>>
               /\ Linking(p)' /\ shuffles'[p] = shuffles[p] + 1
               /\ call'[p].fresh = Shuffles[shuffles[p] + 1]
               /\ UNCHANGED <<index, basis, born>>
      <3>1. SessionsOK'
        BY <1>a, <2>4, <2>f DEF SessionsOK
      <3>2. \A id \in index : born[id] = session[p] =>
              \E k \in 1 .. shuffles'[p] : basis[id] = Shuffles[k] /\ k < shuffles'[p]
        <4> SUFFICES ASSUME NEW id \in index, born[id] = session[p]
                     PROVE  \E k \in 1 .. shuffles'[p] :
                               basis[id] = Shuffles[k] /\ k < shuffles'[p]
          OBVIOUS
        <4>1. PICK k \in 1 .. shuffles[p] : basis[id] = Shuffles[k]
          BY <1>a, <2>4 DEF DrawnOK
        <4>2. k \in 1 .. shuffles'[p] /\ k < shuffles'[p]
          BY <1>t, <2>4, <4>1
        <4> QED
          BY <4>1, <4>2
      <3>3. shuffles'[p] >= 1 /\ call'[p].fresh = Shuffles[shuffles'[p]]
        BY <1>t, <2>4
      <3>4. DrawnOK'
        BY <1>a, <2>4, <2>f, <2>g, <3>2, <3>3 DEF DrawnOK
      <3> QED
        BY <1>a, <2>4, <3>1, <3>4 DEF SessionFingerprints
    <2>5. CASE /\ pc[p] # "down" /\ pc'[p] # "down"
               /\ UNCHANGED <<opens, session>>
               /\ Linking(p) /\ ~Linking(p)' /\ shuffles'[p] = shuffles[p]
               /\ \E id \in SymId \ index :
                     /\ index' = index \cup {id}
                     /\ basis' = [basis EXCEPT ![id] = call[p].fresh]
                     /\ born' = [born EXCEPT ![id] = session[p]]
      <3>1. PICK id \in SymId \ index :
               /\ index' = index \cup {id}
               /\ basis' = [basis EXCEPT ![id] = call[p].fresh]
               /\ born' = [born EXCEPT ![id] = session[p]]
        BY <2>5
      <3>2. /\ basis'[id] = call[p].fresh /\ born'[id] = session[p]
            /\ \A x \in SymId : x # id => basis'[x] = basis[x] /\ born'[x] = born[x]
            /\ session[p] # 0
        BY <1>a, <1>t, <2>5, <3>1 DEF SessionsOK
      <3>3. SessionsOK'
        BY <1>a, <1>t, <2>5, <2>f, <3>1, <3>2 DEF SessionsOK
      <3>4. call[p].fresh = Shuffles[shuffles[p]] /\ shuffles[p] \in 1 .. MaxShuffles
        BY <1>a, <1>t, <2>5 DEF DrawnOK
      <3>5. ASSUME NEW q \in Procs, NEW x \in index', pc'[q] # "down",
                   born'[x] = session'[q]
            PROVE  \E k \in 1 .. shuffles'[q] :
                      basis'[x] = Shuffles[k] /\ (Linking(q)' => k < shuffles'[q])
        <4>1. CASE x = id
          <5>1. q = p
            BY <1>a, <2>5, <3>2, <3>5, <4>1 DEF SessionsOK
          <5> QED
            BY <2>5, <3>2, <3>4, <4>1, <5>1
        <4>2. CASE x # id
          <5>1. x \in index /\ basis'[x] = basis[x] /\ born[x] = session[q] /\ pc[q] # "down"
            BY <1>t, <2>5, <2>f, <3>1, <3>2, <3>5, <4>2
          <5>2. PICK k \in 1 .. shuffles[q] :
                   basis[x] = Shuffles[k] /\ (Linking(q) => k < shuffles[q])
            BY <1>a, <5>1 DEF DrawnOK
          <5> QED
            BY <2>5, <2>f, <2>g, <5>1, <5>2
        <4> QED
          BY <4>1, <4>2
      <3>6. ASSUME NEW q \in Procs, Linking(q)'
            PROVE  shuffles'[q] >= 1 /\ call'[q].fresh = Shuffles[shuffles'[q]]
        BY <1>a, <2>5, <2>f, <2>g, <3>6 DEF DrawnOK
      <3>7. DrawnOK'
        BY <3>5, <3>6 DEF DrawnOK
      <3>8. ASSUME NEW y \in index, born[y] = session[p] PROVE basis[y] # call[p].fresh
        <4>1. PICK k \in 1 .. shuffles[p] : basis[y] = Shuffles[k] /\ k < shuffles[p]
          BY <1>a, <2>5, <3>8 DEF DrawnOK
        <4>2. k \in 1 .. MaxShuffles /\ k # shuffles[p]
          BY <1>t, <4>1
        <4> QED
          BY <3>4, <4>1, <4>2, ShuffleAssumption
      <3>9. SessionFingerprints'
        <4> SUFFICES ASSUME NEW x \in index', NEW y \in index',
                            born'[x] = born'[y], basis'[x] = basis'[y]
                     PROVE  x = y
          BY DEF SessionFingerprints
        <4>1. CASE x # id /\ y # id
          BY <1>a, <1>t, <3>1, <3>2, <4>1 DEF SessionFingerprints
        <4>2. CASE x = id /\ y # id
          BY <1>t, <3>1, <3>2, <3>8, <4>2
        <4>3. CASE x # id /\ y = id
          BY <1>t, <3>1, <3>2, <3>8, <4>3
        <4> QED
          BY <4>1, <4>2, <4>3
      <3> QED
        BY <3>3, <3>7, <3>9
    <2> QED
      BY <1>1, <1>a, SessionStep, <2>1, <2>2, <2>3, <2>4, <2>5
  <1>2. CASE UNCHANGED vars
    <2>1. SessionsOK' /\ DrawnOK' /\ SessionFingerprints'
      BY <1>2, <1>a DEF SessionsOK, DrawnOK, SessionFingerprints, Linking, vars, image, private, history
    <2> QED
      BY <2>1, <1>b DEF Sessions
  <1> QED
    BY <1>1, <1>2, <1>b DEF Sessions, Next

(* Two symbols that one session made have different fingerprints, whatever *)
(* its calls failed at and whatever other processes linked meanwhile.      *)
THEOREM DrawsAreFresh == Spec => []SessionFingerprints
  <1>1. Sessions => SessionFingerprints
    BY DEF Sessions
  <1> QED
    BY <1>1, SessionsInit, SessionsStep, PTL DEF Spec

-----------------------------------------------------------------------------
(* Refinement.                                                             *)

(* A dimension of a linked fingerprint is itself after the only turn.      *)
LEMMA NoTurn ==
  ASSUME NEW bit \in Dims, NEW turn \in {Unturned} PROVE turn[bit] = bit
  BY DEF Unturned

LEMMA SameTaught == Learnt => \A t \in SymId : Memory!Taught(t) = Taught(t)
  <1> SUFFICES ASSUME Learnt, NEW t \in SymId PROVE Memory!Taught(t) = Taught(t)
    OBVIOUS
  <1>1. TypeOK /\ LinkedOK /\ LessonsOK
    BY DEF Learnt, Typed, Lessons
  <1>2. ASSUME NEW s \in SymId, NEW i \in lessons[t][s]
        PROVE  i \in Positions /\ basis[s][i] \in Dims
    BY <1>1, <1>2 DEF TypeOK, LinkedOK, LessonsOK, Fingerprint
  <1>3. ASSUME NEW s \in SymId, NEW i \in lessons[t][s]
        PROVE  i \in Memory!Leading(dither[s]) <=> i <= Heads(dither[s])
    BY <1>2, <1>3 DEF Memory!Leading, Heads, Positions
  <1>4. ASSUME NEW s \in SymId, NEW i \in lessons[t][s], NEW bit
        PROVE  (\E turn \in {Unturned} : turn[basis[s][i]] = bit) <=> basis[s][i] = bit
    BY <1>2, <1>4, NoTurn
  <1> DEFINE Turned(bit) ==
               \E s \in SymId : \E i \in lessons[t][s] \cap Memory!Leading(dither[s]) :
                  \E turn \in {Unturned} : turn[basis[s][i]] = bit
             Straight(bit) ==
               \E s \in SymId : \E i \in lessons[t][s] :
                  i <= Heads(dither[s]) /\ basis[s][i] = bit
  <1>5. \A bit \in Dims : Turned(bit) <=> Straight(bit)
    BY <1>3, <1>4
  <1>6. Memory!Taught(t) = {bit \in Dims : Turned(bit)}
    BY DEF Memory!Taught, Dims
  <1>7. Taught(t) = {bit \in Dims : Straight(bit)}
    BY DEF Taught
  <1> HIDE DEF Turned, Straight
  <1> QED
    BY <1>5, <1>6, <1>7

LEMMA SameTaughtAfter == Learnt' => (\A t \in SymId : Memory!Taught(t) = Taught(t))'
  BY SameTaught, PTL

(* Linking a symbol is Memory's Define, storing an element its Teach,      *)
(* loading one under a race its Contest, and every other step stutters.    *)
THEOREM Refinement == Spec => ImplementsMemory
  <1>1. Init => Memory!Init
    BY DEF Init, Memory!Init
  <1>2. Learnt /\ Learnt' /\ [Next]_vars => [Memory!Next]_Memory!mvars
    <2> SUFFICES ASSUME Learnt, Learnt', [Next]_vars
                 PROVE  Memory!Next \/ UNCHANGED Memory!mvars
      OBVIOUS
    <2>a. TypeOK /\ LinkedOK /\ Lessons /\ \A p \in Procs : CallOK(p)
      BY DEF Learnt, Typed
    <2>b. TypeOK' /\ NothingInvented'
      BY DEF Learnt, Typed, Lessons
    <2>c. \A t \in SymId : Memory!Taught(t)' = Taught(t)'
      BY SameTaughtAfter
    <2>1. ASSUME NEW p \in Procs, NEW id \in SymId, Links(p, id) PROVE Memory!Next
      <3>1. call[p].fresh \in Fingerprint /\ call[p].prob \in 0 .. DitherScale
        BY <2>1, <2>a DEF Links, CallOK, TypeOK, Call
      <3>2. vector' = vector
        BY <2>1, <2>a DEF Links, Lessons, LessonsOK, TypeOK
      <3>3. Memory!Define(id)
        BY <2>1, <3>1, <3>2 DEF Links, Memory!Define, Fingerprint, Positions, Dims
      <3> QED
        BY <3>3 DEF Memory!Next
    <2>2. ASSUME NEW p \in Procs, StoreElement(p) PROVE Memory!Next
      <3>0. call[p].next \in 1 .. BasisSize
        BY <2>2, <2>a, VectorAssumption DEF StoreElement, TypeOK, Call, CallOK
      <3>1. PICK t \in SymId, s \in SymId, i \in 1 .. BasisSize :
               /\ t = call[p].tgt /\ s = call[p].src /\ i = call[p].next
               /\ t \in index /\ s \in index
        BY <2>2, <2>a, <3>0 DEF StoreElement, CallOK, InCall, PCs, EnteringSource
      <3>2. PICK bit, word : /\ bit = basis[s][i]
                             /\ word = Written(call[p].word, bit, i, Heads(dither[s]))
        OBVIOUS
      <3>3. /\ lessons' = [lessons EXCEPT ![t][s] = @ \cup {i}]
            /\ UNCHANGED <<index, basis, dither, contested>>
            /\ vector' = [vector EXCEPT ![t] = (@ \ Element(bit)) \cup word]
        BY <2>2, <3>1, <3>2 DEF StoreElement
      <3>4. CASE t \in contested
        <4>1. vector'[t] \in SUBSET Taught(t)'
          BY <2>b DEF NothingInvented
        <4>2. Taught(t)' = Memory!Taught(t)'
          BY <2>c
        <4>3. vector' = [vector EXCEPT ![t] = vector'[t]]
          BY <2>a, <3>1, <3>3 DEF TypeOK
        <4>4. Memory!Teach(t, s)
          BY <3>1, <3>2, <3>3, <3>4, <4>1, <4>2, <4>3 DEF Memory!Teach
        <4> QED
          BY <3>1, <4>4 DEF Memory!Next
      <3>5. CASE t \notin contested
        <4>1. call[p].word = vector[t] \cap Element(bit)
          BY <2>2, <2>a, <3>1, <3>2, <3>5 DEF StoreElement, Lessons, LoadedOK, Loaded
        <4>6. bit \in Dims
          BY <2>a, <3>1, <3>2 DEF LinkedOK, Fingerprint, Positions
        <4>2. bit \in Element(bit)
          BY <4>6 DEF Element
        <4>3. i <= Heads(dither[s]) <=> i \in Memory!Leading(dither[s])
          BY DEF Memory!Leading, Heads
        <4>4. (vector[t] \ Element(bit)) \cup word
                = IF i \in Memory!Leading(dither[s]) THEN vector[t] \cup {bit}
                                                     ELSE vector[t] \ {bit}
          BY <3>2, <4>1, <4>2, <4>3 DEF Written
        <4>5. Unturned \in {Unturned} /\ Unturned[bit] = bit
          BY <4>6, NoTurn
        <4>7. Memory!Teach(t, s)
          BY <3>1, <3>2, <3>3, <3>5, <4>4, <4>5 DEF Memory!Teach
        <4> QED
          BY <3>1, <4>7 DEF Memory!Next
      <3> QED
        BY <3>4, <3>5
    <2>6. ASSUME NEW p \in Procs, LoadElement(p)
          PROVE  Memory!Next \/ UNCHANGED Memory!mvars
      <3>1. call[p].tgt \in SymId /\ call[p].tgt \in index
        BY <2>6, <2>a DEF LoadElement, CallOK, InCall, PCs, EnteringSource
      <3>2. /\ UNCHANGED <<index, basis, dither, vector, lessons>>
            /\ contested' = contested \/ contested' = contested \cup {call[p].tgt}
        BY <2>6 DEF LoadElement, image
      <3> QED
        BY <3>1, <3>2 DEF Memory!Next, Memory!Contest, Memory!mvars
    <2>3. CASE UNCHANGED Symbols
      BY <2>3 DEF Symbols, Memory!mvars
    <2>4. CASE UNCHANGED vars
      BY <2>4 DEF vars, image, history, Memory!mvars
    <2>5. ASSUME NEW p \in Procs, Step(p) \/ Environment(p)
          PROVE  Memory!Next \/ UNCHANGED Memory!mvars
      BY <2>5, <2>a, <2>1, <2>2, <2>3, <2>6, ImageStep
    <2> QED
      BY <2>4, <2>5 DEF Next
  <1> QED
    BY <1>1, <1>2, LearntAlways, PTL DEF Spec, ImplementsMemory, Memory!Spec

(* A symbol, its fingerprint and its dither are for ever, and its vector   *)
(* changes by lessons only.                                                *)
THEOREM Endurance == Spec => SymbolsEndure
  <1> DEFINE Endures == \A id \in index :
       /\ id \in index'
       /\ basis'[id] = basis[id]
       /\ dither'[id] = dither[id]
       /\ vector'[id] # vector[id]
            => \E p \in Procs : pc[p] = "store" /\ call[p].tgt = id
  <1>1. Typed /\ [Next]_vars => [Endures]_vars
    <2> SUFFICES ASSUME Typed, NEW p \in Procs, Step(p) \/ Environment(p)
                 PROVE  Endures
      BY DEF Next
    <2>a. TypeOK /\ CallOK(p)
      BY DEF Typed
    <2>1. CASE UNCHANGED Symbols
      BY <2>1 DEF Symbols
    <2>2. ASSUME NEW id \in SymId, Links(p, id) PROVE Endures
      BY <2>2, <2>a DEF Links, TypeOK
    <2>3. CASE LoadElement(p)
      BY <2>3 DEF LoadElement, image
    <2>4. CASE StoreElement(p)
      BY <2>4, <2>a DEF StoreElement, TypeOK
    <2> QED
      BY <2>a, <2>1, <2>2, <2>3, <2>4, ImageStep
  <1>2. Spec => []Typed
    BY TypedInit, TypedStep, PTL DEF Spec
  <1> QED
    BY <1>1, <1>2, PTL DEF Spec, SymbolsEndure

-----------------------------------------------------------------------------
(* The heap adds up: every unit of the segment is free, or in a table, or  *)
(* in a linked symbol, or in one that is about to be linked, or was lost   *)
(* with a process that died.                                               *)

(* What the segment has given out.                                         *)

IsLong(id) == NameOf(id) \in LongNames
Long == {id \in index : IsLong(id)}

\* The processes between constructing a symbol and linking it.
Pending == {p \in Procs : pc[p] \in {"link_source", "link_target"}}
Made(p) == IF pc[p] = "link_source" THEN call[p].src ELSE call[p].tgt
LongPending == {p \in Pending : IsLong(Made(p))}

Spent(spaces, symbols, long, pending, longPending) ==
  SpaceCost * spaces + SymbolCost * symbols + NameCost * long
    + SymbolCost * pending + NameCost * longPending

Finite == /\ IsFiniteSet(tables) /\ IsFiniteSet(index) /\ IsFiniteSet(Long)
          /\ IsFiniteSet(Pending) /\ IsFiniteSet(LongPending)

Balanced ==
  /\ Finite
  /\ size = free + leaked
            + Spent(Cardinality(tables), Cardinality(index), Cardinality(Long),
                    Cardinality(Pending), Cardinality(LongPending))

Accounts == Typed /\ Balanced

LEMMA BalancedAccounts ==
  ASSUME TypeOK, Balanced
  PROVE  HeapAccounted
  <1>1. Pending = {p \in Procs : pc[p] = "link_source"}
                    \cup {p \in Procs : pc[p] = "link_target"}
    BY DEF Pending
  <1>2. LongPending =
          {p \in {q \in Procs : pc[q] = "link_source"} : NameOf(call[p].src) \in LongNames}
          \cup
          {p \in {q \in Procs : pc[q] = "link_target"} : NameOf(call[p].tgt) \in LongNames}
    BY DEF LongPending, Pending, Made, IsLong
  <1>3. Long = {id \in index : NameOf(id) \in LongNames}
    BY DEF Long, IsLong
  <1>4. SUFFICES size = free + leaked
                          + SpaceCost * Cardinality(tables)
                          + SymbolCost * Cardinality(index)
                          + NameCost * Cardinality(Long)
                          + SymbolCost * Cardinality(Pending)
                          + NameCost * Cardinality(LongPending)
    BY Zenon, <1>1, <1>2, <1>3 DEF HeapAccounted
  <1>5. ASSUME NEW f \in Int, NEW k \in Int, NEW t \in Int, NEW i \in Int,
               NEW l \in Int, NEW a \in Int, NEW b \in Int
        PROVE  f + k + (t + i + l + a + b) = f + k + t + i + l + a + b
    BY <1>5
  <1>6. /\ SpaceCost * Cardinality(tables) \in Int
        /\ SymbolCost * Cardinality(index) \in Int
        /\ NameCost * Cardinality(Long) \in Int
        /\ SymbolCost * Cardinality(Pending) \in Int
        /\ NameCost * Cardinality(LongPending) \in Int
    <2>1. /\ Cardinality(tables) \in Int /\ Cardinality(index) \in Int
          /\ Cardinality(Long) \in Int /\ Cardinality(Pending) \in Int
          /\ Cardinality(LongPending) \in Int
      BY FS_CardinalityType DEF Balanced, Finite
    <2>2. \A c, x \in Int : c * x \in Int
      OBVIOUS
    <2> QED
      BY <2>1, <2>2, HeapAssumption
  <1> QED
    BY <1>5, <1>6 DEF Balanced, Spent, TypeOK

LEMMA AccountsInit == Init => Accounts
  <1> SUFFICES ASSUME Init PROVE Accounts
    OBVIOUS
  <1>1. Typed
    BY TypedInit
  <1>2. tables = {} /\ index = {} /\ Long = {} /\ Pending = {} /\ LongPending = {}
    BY DEF Init, Long, Pending, LongPending
  <1>3. IsFiniteSet({}) /\ Cardinality({}) = 0
    BY FS_EmptySet
  <1>4. size = free + leaked + Spent(0, 0, 0, 0, 0)
    BY HeapAssumption DEF Init, Spent
  <1> QED
    BY <1>1, <1>2, <1>3, <1>4 DEF Accounts, Balanced, Finite

-----------------------------------------------------------------------------
(* What one more of anything costs.                                        *)

LEMMA OneMore ==
  ASSUME NEW t \in Int, NEW i \in Int, NEW l \in Int, NEW a \in Int, NEW b \in Int
  PROVE  /\ Spent(t, i, l, a, b) \in Int
         /\ Spent(t + 1, i, l, a, b) = Spent(t, i, l, a, b) + SpaceCost
         /\ Spent(t, i + 1, l, a - 1, b) = Spent(t, i, l, a, b)
         /\ Spent(t, i + 1, l + 1, a - 1, b - 1) = Spent(t, i, l, a, b)
         /\ Spent(t, i, l, a + 1, b) = Spent(t, i, l, a, b) + SymbolCost
         /\ Spent(t, i, l, a + 1, b + 1) = Spent(t, i, l, a, b) + SymbolCost + NameCost
         /\ Spent(t, i, l, a - 1, b) = Spent(t, i, l, a, b) - SymbolCost
         /\ Spent(t, i, l, a - 1, b - 1) = Spent(t, i, l, a, b) - SymbolCost - NameCost
  <1>0. SpaceCost \in Int /\ SymbolCost \in Int /\ NameCost \in Int
    BY HeapAssumption
  <1>1. ASSUME NEW c \in Int, NEW x \in Int
        PROVE  /\ c * x \in Int
               /\ c * (x + 1) = c * x + c
               /\ c * (x - 1) = c * x - c
    BY <1>1
  <1>2. PICK st \in Int, si \in Int, nl \in Int, sa \in Int, nb \in Int :
           /\ st = SpaceCost * t /\ si = SymbolCost * i /\ nl = NameCost * l
           /\ sa = SymbolCost * a /\ nb = NameCost * b
    BY <1>0, <1>1
  <1>3. /\ SpaceCost * (t + 1) = st + SpaceCost
        /\ SymbolCost * (i + 1) = si + SymbolCost
        /\ NameCost * (l + 1) = nl + NameCost
        /\ SymbolCost * (a + 1) = sa + SymbolCost
        /\ SymbolCost * (a - 1) = sa - SymbolCost
        /\ NameCost * (b + 1) = nb + NameCost
        /\ NameCost * (b - 1) = nb - NameCost
    BY <1>0, <1>1, <1>2
  <1> QED
    BY <1>0, <1>2, <1>3 DEF Spent

\* Who is pending after a step of p.
LEMMA PendingStep ==
  ASSUME NEW p \in Procs,
         \A q \in Procs \ {p} : pc'[q] = pc[q] /\ call'[q] = call[q]
  PROVE  /\ p \notin Pending /\ p \notin Pending'
              => Pending' = Pending /\ LongPending' = LongPending
         /\ p \in Pending'
              => /\ Pending' = Pending \cup {p}
                 /\ LongPending' = IF IsLong(Made(p)') THEN LongPending \cup {p}
                                                       ELSE LongPending \ {p}
         /\ p \notin Pending'
              => Pending' = Pending \ {p} /\ LongPending' = LongPending \ {p}
  <1>1. \A q \in Procs \ {p} : (q \in Pending' <=> q \in Pending) /\ Made(q)' = Made(q)
    BY DEF Pending, Made
  <1>2. \A q \in Procs \ {p} : q \in LongPending' <=> q \in LongPending
    BY <1>1 DEF LongPending
  <1>3. p \in LongPending' <=> p \in Pending' /\ IsLong(Made(p)')
    BY DEF LongPending, IsLong, NameOf
  <1>4. /\ Pending \subseteq Procs /\ Pending' \subseteq Procs
        /\ LongPending \subseteq Procs /\ LongPending' \subseteq Procs
        /\ p \notin Pending => p \notin LongPending
    BY DEF Pending, LongPending
  <1> QED
    BY <1>1, <1>2, <1>3, <1>4

-----------------------------------------------------------------------------
(* The kinds of step.                                                      *)

\* What is given out stays; free memory may be lost or returned.
Still(p) == /\ UNCHANGED <<tables, index>>
            /\ p \notin Pending /\ p \notin Pending'
            /\ size' - free' - leaked' = size - free - leaked

NewTable(p) == /\ p \notin Pending /\ p \notin Pending'
               /\ \E sp \in Spaces \ tables : tables' = tables \cup {sp}
               /\ free' = free - SpaceCost
               /\ UNCHANGED <<index, size, leaked>>

Constructs(p) == /\ p \notin Pending /\ p \in Pending'
                 /\ free' = free - Price(Made(p)')
                 /\ UNCHANGED <<tables, index, size, leaked>>

Adds(p) == /\ p \in Pending /\ p \notin Pending'
           /\ Made(p) \in SymId \ index
           /\ index' = index \cup {Made(p)}
           /\ UNCHANGED <<tables, free, size, leaked>>

\* The symbol's memory goes back to the heap, or is lost with the process.
GivesUp(p) == /\ p \in Pending /\ p \notin Pending'
              /\ free' + leaked' = free + leaked + Price(Made(p))
              /\ UNCHANGED <<tables, index, size>>

LEMMA HeapStep ==
  ASSUME TypeOK, NEW p \in Procs, CallOK(p), Step(p) \/ Environment(p)
  PROVE  Still(p) \/ NewTable(p) \/ Constructs(p) \/ Adds(p) \/ GivesUp(p)
  <1>a. /\ pc \in [Procs -> PCs] /\ call \in [Procs -> Call]
        /\ free \in Nat /\ leaked \in Nat /\ size \in Int
    BY DEF TypeOK
  <1> USE DEF InCall, PCs, EnteringSource
  <1>p. /\ p \in Pending <=> pc[p] \in {"link_source", "link_target"}
        /\ p \in Pending' <=> pc'[p] \in {"link_source", "link_target"}
    BY DEF Pending
  <1>v. ASSUME NEW last, NEW lost, Vanish(p, last, lost)
        PROVE  pc'[p] = "down" /\ leaked' = leaked + lost
    BY <1>a, <1>v DEF Vanish, Goto
  <1>1. CASE Open(p)
    BY <1>1, <1>a, <1>p DEF Open, Goto, image, memory, Still
  <1>2. CASE Close(p)
    <2>1. PICK kept \in 0 .. free : free' = kept /\ size' = size - (free - kept)
      BY <1>2, <1>a DEF Close
    <2>2. /\ pc[p] = "idle" /\ UNCHANGED <<tables, index>>
          /\ leaked' = leaked + 0 /\ pc'[p] = "down"
      BY <1>2, <1>v DEF Close, image
    <2> QED
      BY <1>a, <1>p, <2>1, <2>2 DEF Still
  <1>3. CASE Crash(p)
    <2>1. /\ UNCHANGED <<tables, index, size, free>>
          /\ leaked' = leaked + Held(p) /\ pc'[p] = "down"
      BY <1>3, <1>v DEF Crash, image
    <2>2. CASE p \in Pending
      <3>1. Held(p) = Price(Made(p))
        BY <1>p, <2>2 DEF Held, Made
      <3>2. Price(Made(p)) \in Nat
        BY PriceNat
      <3> QED
        BY <1>a, <1>p, <2>1, <2>2, <3>1, <3>2 DEF GivesUp
    <2>3. CASE p \notin Pending
      <3>1. Held(p) = 0
        BY <1>p, <2>3 DEF Held
      <3> QED
        BY <1>a, <1>p, <2>1, <2>3, <3>1 DEF Still
    <2> QED
      BY <2>2, <2>3
  <1>4. CASE CallSuperpose(p) \/ CallNamedVector(p)
    BY <1>4, <1>a, <1>p DEF CallSuperpose, CallNamedVector, Goto, image, memory, Still
  <1>5. CASE Density(p) \/ Measure(p) \/ Subtract(p)
    <2>1. /\ pc[p] = "idle" /\ UNCHANGED <<tables, index, size, free>>
          /\ \/ UNCHANGED <<pc, leaked>>
             \/ \E last : Vanish(p, last, 0)
      BY <1>5 DEF Density, Measure, Subtract, Pairwise, Answer, Terminate, image, memory
    <2> QED
      BY <1>a, <1>p, <1>v, <2>1 DEF Still
  <1>6. ASSUME NEW at, NEW sp \in Spaces, NEW next,
               EnsureSpaceByName(p, at, sp, next),
               at \in {"target_space", "source_space"},
               next \in {"source_space", "find_source"}
        PROVE  Still(p) \/ NewTable(p)
    <2>1. /\ pc[p] = at /\ pc'[p] \in {"idle", next}
          /\ UNCHANGED <<index, size, leaked>>
          /\ \/ UNCHANGED <<tables, free>>
             \/ /\ sp \notin tables /\ tables' = tables \cup {sp}
                /\ free' = free - SpaceCost
      BY <1>6, <1>a DEF EnsureSpaceByName, Return, Goto
    <2> QED
      BY <1>6, <1>a, <1>p, <2>1 DEF Still, NewTable
  <1>7. CASE EnsureTargetSpace(p) \/ EnsureSourceSpace(p)
    <2>1. /\ SpaceOf(call[p].tgt) \in Spaces /\ SpaceOf(call[p].src) \in Spaces
      BY <1>7, NameAssumption
      DEF EnsureTargetSpace, EnsureSourceSpace, EnsureSpaceByName, CallOK, SpaceOf
    <2> QED
      BY <1>6, <1>7, <2>1 DEF EnsureTargetSpace, EnsureSourceSpace
  <1>8. CASE FindSource(p) \/ FindTarget(p)
    <2>1. /\ pc[p] \in {"find_source", "find_target"}
          /\ UNCHANGED <<tables, index, size, free>>
          /\ \/ /\ UNCHANGED leaked
                /\ pc'[p] \in {"idle", "construct_source", "find_target", "learn",
                               "construct_target"}
             \/ \E last : Vanish(p, last, 0)
      BY <1>8, <1>a DEF FindSource, FindTarget, LookupFails, Terminate, Return, Goto, image, memory
    <2> QED
      BY <1>a, <1>p, <1>v, <2>1 DEF Still
  <1>9. CASE ConstructSource(p)
    <2>1. /\ pc[p] = "construct_source" /\ UNCHANGED <<tables, index, size>>
          /\ \/ /\ pc'[p] = "link_source" /\ UNCHANGED leaked
                /\ free' = free - Price(call[p].src)
                /\ call' = [call EXCEPT ![p].fresh = Shuffles[shuffles[p] + 1]]
             \/ pc'[p] = "idle" /\ UNCHANGED <<free, leaked>>
             \/ \E last : \E lost \in 0 .. free :
                   Vanish(p, last, lost) /\ free' = free - lost
      BY <1>9, <1>a DEF ConstructSource, ConstructSymbol, Return, Goto, image
    <2>2. CASE /\ pc'[p] = "link_source" /\ UNCHANGED leaked
               /\ free' = free - Price(call[p].src)
               /\ call' = [call EXCEPT ![p].fresh = Shuffles[shuffles[p] + 1]]
      <3>1. call'[p].src = call[p].src
        BY <1>a, <2>2 DEF Call
      <3>2. Made(p)' = call[p].src
        BY <2>2, <3>1 DEF Made
      <3> QED
        BY <1>p, <2>1, <2>2, <3>2 DEF Constructs
    <2>3. CASE pc'[p] = "idle" /\ UNCHANGED <<free, leaked>>
      BY <1>a, <1>p, <2>1, <2>3 DEF Still
    <2>4. CASE \E last : \E lost \in 0 .. free :
                  Vanish(p, last, lost) /\ free' = free - lost
      BY <1>a, <1>p, <1>v, <2>1, <2>4 DEF Still
    <2> QED
      BY <2>1, <2>2, <2>3, <2>4
  <1>10. CASE ConstructTarget(p)
    <2>1. /\ pc[p] = "construct_target" /\ UNCHANGED <<tables, index, size>>
          /\ \/ /\ pc'[p] = "link_target" /\ UNCHANGED leaked
                /\ free' = free - Price(call[p].tgt)
                /\ call' = [call EXCEPT ![p].fresh = Shuffles[shuffles[p] + 1]]
             \/ pc'[p] = "idle" /\ UNCHANGED <<free, leaked>>
             \/ \E last : \E lost \in 0 .. free :
                   Vanish(p, last, lost) /\ free' = free - lost
      BY <1>10, <1>a DEF ConstructTarget, ConstructSymbol, Return, Goto, image
    <2>2. CASE /\ pc'[p] = "link_target" /\ UNCHANGED leaked
               /\ free' = free - Price(call[p].tgt)
               /\ call' = [call EXCEPT ![p].fresh = Shuffles[shuffles[p] + 1]]
      <3>1. call'[p].tgt = call[p].tgt
        BY <1>a, <2>2 DEF Call
      <3>2. Made(p)' = call[p].tgt
        BY <2>2, <3>1 DEF Made
      <3> QED
        BY <1>p, <2>1, <2>2, <3>2 DEF Constructs
    <2>3. CASE pc'[p] = "idle" /\ UNCHANGED <<free, leaked>>
      BY <1>a, <1>p, <2>1, <2>3 DEF Still
    <2>4. CASE \E last : \E lost \in 0 .. free :
                  Vanish(p, last, lost) /\ free' = free - lost
      BY <1>a, <1>p, <1>v, <2>1, <2>4 DEF Still
    <2> QED
      BY <2>1, <2>2, <2>3, <2>4
  <1>11. ASSUME NEW at, NEW id \in SymId, NEW next, LinkSymbol(p, at, id, next),
                p \in Pending, id = Made(p), next \in {"find_target", "learn"}
         PROVE  Adds(p) \/ GivesUp(p)
    <2>1. /\ pc'[p] \in {"idle", "find_target", "learn"}
          /\ UNCHANGED <<tables, size, leaked>>
          /\ \/ UNCHANGED index /\ free' = free + Price(id)
             \/ id \notin index /\ index' = index \cup {id} /\ UNCHANGED free
      BY <1>11, <1>a DEF LinkSymbol, Refused, Refund, Return, Goto
    <2>2. Price(id) \in Nat
      BY PriceNat
    <2> QED
      BY <1>11, <1>a, <1>p, <2>1, <2>2 DEF Adds, GivesUp
  <1>12. CASE LinkSource(p)
    <2>1. pc[p] = "link_source" /\ call[p].src \in SymId
      BY <1>12 DEF LinkSource, LinkSymbol, CallOK
    <2>2. p \in Pending /\ call[p].src = Made(p)
      BY <1>p, <2>1 DEF Made
    <2> QED
      BY <1>11, <1>12, <2>1, <2>2 DEF LinkSource
  <1>13. CASE LinkTarget(p)
    <2>1. pc[p] = "link_target" /\ call[p].tgt \in SymId
      BY <1>13 DEF LinkTarget, LinkSymbol, CallOK
    <2>2. p \in Pending /\ call[p].tgt = Made(p)
      BY <1>p, <2>1 DEF Made
    <2> QED
      BY <1>11, <1>13, <2>1, <2>2 DEF LinkTarget
  <1>14. CASE LoadElement(p) \/ StoreElement(p) \/ FinishSuperpose(p)
    <2>1. /\ pc[p] \in {"learn", "store"} /\ pc'[p] \in {"learn", "store", "idle"}
          /\ UNCHANGED <<tables, index, size, free, leaked>>
      BY <1>14, <1>a DEF LoadElement, StoreElement, FinishSuperpose, Return, Goto, image, memory
    <2> QED
      BY <1>a, <1>p, <2>1 DEF Still
  <1> QED
    BY <1>1, <1>2, <1>3, <1>4, <1>5, <1>7, <1>8, <1>9, <1>10, <1>12, <1>13, <1>14
    DEF Step, Environment

-----------------------------------------------------------------------------
(* The books balance after each of them.                                   *)

LEMMA AccountsStep == Accounts /\ [Next]_vars => Accounts'
  <1> SUFFICES ASSUME Accounts, [Next]_vars PROVE Accounts'
    OBVIOUS
  <1>a. /\ Typed /\ TypeOK /\ Balanced /\ Finite
        /\ \A p \in Procs : CallOK(p)
    BY DEF Accounts, Typed, Balanced
  <1>b. Typed' /\ TypeOK'
    BY <1>a, TypedStep DEF Typed
  <1> DEFINE T == Cardinality(tables)
             I == Cardinality(index)
             L == Cardinality(Long)
             A == Cardinality(Pending)
             B == Cardinality(LongPending)
  <1>c. /\ T \in Int /\ I \in Int /\ L \in Int /\ A \in Int /\ B \in Int
        /\ size = free + leaked + Spent(T, I, L, A, B)
    BY <1>a, FS_CardinalityType DEF Balanced, Finite
  <1>d. /\ free \in Int /\ leaked \in Int /\ size \in Int
        /\ free' \in Int /\ leaked' \in Int /\ size' \in Int
        /\ SpaceCost \in Int /\ SymbolCost \in Int /\ NameCost \in Int
    BY <1>a, <1>b, HeapAssumption DEF TypeOK
  <1>e. ASSUME Finite',
               size' = free' + leaked' + Spent(T', I', L', A', B')
        PROVE  Accounts'
    BY <1>b, <1>e DEF Accounts, Balanced
  <1> HIDE DEF T, I, L, A, B
  <1>s. Spent(T, I, L, A, B) \in Int
    BY <1>c, OneMore
  <1>m. \A t, i, l, a, b \in Int :
           Spent(t, i + 1, l + 1, a - 1, b - 1) = Spent(t, i, l, a, b)
    <2> TAKE t, i, l, a, b \in Int
    <2> QED
      BY OneMore, SMTT(30)
  <1>g. ASSUME NEW x \in Int, NEW y, NEW c \in Int,
               size = free + leaked + x, size' = size, y = x - c,
               free' + leaked' = free + leaked + c
        PROVE  size' = free' + leaked' + y
    <2>1. PICK f \in Int, k \in Int, g \in Int, h \in Int, u \in Int, v \in Int :
             /\ f = free /\ k = leaked /\ g = free' /\ h = leaked' /\ u = x /\ v = c
      BY <1>d
    <2>2. g + h = f + k + v
      BY <1>g, <2>1
    <2>3. f + k + u = g + h + (u - v)
      BY <2>2
    <2> QED
      BY <1>g, <2>1, <2>3
  <1>1. ASSUME NEW p \in Procs, Step(p) \/ Environment(p) PROVE Accounts'
    <2>1. \A q \in Procs \ {p} : pc'[q] = pc[q] /\ call'[q] = call[q]
      BY <1>1, <1>a, Frame
    <2>2. Still(p) \/ NewTable(p) \/ Constructs(p) \/ Adds(p) \/ GivesUp(p)
      BY <1>1, <1>a, HeapStep
    <2>l. index' = index => Long' = Long
      BY DEF Long, IsLong, NameOf
    <2>3. CASE Still(p)
      <3>1. /\ tables' = tables /\ index' = index /\ Long' = Long
            /\ Pending' = Pending /\ LongPending' = LongPending
            /\ size' - free' - leaked' = size - free - leaked
        BY <2>1, <2>3, <2>l, PendingStep DEF Still
      <3>2. Finite' /\ T' = T /\ I' = I /\ L' = L /\ A' = A /\ B' = B
        BY <1>a, <3>1 DEF Finite, T, I, L, A, B
      <3>3. size' = free' + leaked' + Spent(T, I, L, A, B)
        BY <1>c, <1>d, <1>s, <3>1
      <3> QED
        BY <1>e, <3>2, <3>3
    <2>4. CASE NewTable(p)
      <3>1. PICK sp : sp \notin tables /\ tables' = tables \cup {sp}
        BY <2>4 DEF NewTable
      <3>2. /\ index' = index /\ Long' = Long
            /\ Pending' = Pending /\ LongPending' = LongPending
            /\ size' = size /\ leaked' = leaked /\ free' = free - SpaceCost
        BY <2>1, <2>4, <2>l, PendingStep DEF NewTable
      <3>3. IsFiniteSet(tables') /\ T' = T + 1
        BY <1>a, <3>1, FS_AddElement DEF Finite, T, I, L, A, B
      <3>4. Finite' /\ I' = I /\ L' = L /\ A' = A /\ B' = B
        BY <1>a, <3>2, <3>3 DEF Finite, T, I, L, A, B
      <3>5. Spent(T + 1, I, L, A, B) = Spent(T, I, L, A, B) + SpaceCost
        BY <1>c, OneMore
      <3>6. size' = free' + leaked' + Spent(T + 1, I, L, A, B)
        BY <1>c, <1>d, <1>s, <3>2, <3>5
      <3> QED
        BY <1>e, <3>3, <3>4, <3>6
    <2>5. CASE Constructs(p)
      <3>1. /\ tables' = tables /\ index' = index /\ Long' = Long
            /\ p \notin Pending /\ p \notin LongPending
            /\ Pending' = Pending \cup {p}
            /\ LongPending' = IF IsLong(Made(p)') THEN LongPending \cup {p}
                                                  ELSE LongPending \ {p}
            /\ size' = size /\ leaked' = leaked /\ free' = free - Price(Made(p)')
        BY <2>1, <2>5, <2>l, PendingStep DEF Constructs, LongPending
      <3>2. IsFiniteSet(Pending') /\ A' = A + 1
        BY <1>a, <3>1, FS_AddElement DEF Finite, T, I, L, A, B
      <3>3. CASE IsLong(Made(p)')
        <4>1. IsFiniteSet(LongPending') /\ B' = B + 1
          BY <1>a, <3>1, <3>3, FS_AddElement DEF Finite, T, I, L, A, B
        <4>2. Finite' /\ T' = T /\ I' = I /\ L' = L
          BY <1>a, <3>1, <3>2, <4>1 DEF Finite, T, I, L, A, B
        <4>3. Price(Made(p)') = SymbolCost + NameCost
          BY <3>3 DEF Price, IsLong
        <4>4. Spent(T, I, L, A + 1, B + 1) = Spent(T, I, L, A, B) + SymbolCost + NameCost
          BY <1>c, OneMore
        <4>5. size' = free' + leaked' + Spent(T, I, L, A + 1, B + 1)
          BY <1>c, <1>d, <1>s, <3>1, <4>3, <4>4
        <4> QED
          BY <1>e, <3>2, <4>1, <4>2, <4>5
      <3>4. CASE ~IsLong(Made(p)')
        <4>1. LongPending' = LongPending /\ B' = B
          BY <3>1, <3>4 DEF B
        <4>2. Finite' /\ T' = T /\ I' = I /\ L' = L
          BY <1>a, <3>1, <3>2, <4>1 DEF Finite, T, I, L, A, B
        <4>3. Price(Made(p)') = SymbolCost
          BY <1>d, <3>4 DEF Price, IsLong
        <4>4. Spent(T, I, L, A + 1, B) = Spent(T, I, L, A, B) + SymbolCost
          BY <1>c, OneMore
        <4>5. size' = free' + leaked' + Spent(T, I, L, A + 1, B)
          BY <1>c, <1>d, <1>s, <3>1, <4>3, <4>4
        <4> QED
          BY <1>e, <3>2, <4>1, <4>2, <4>5
      <3> QED
        BY <3>3, <3>4
    <2>6. CASE Adds(p)
      <3>1. /\ tables' = tables /\ p \in Pending
            /\ Made(p) \notin index /\ index' = index \cup {Made(p)}
            /\ Pending' = Pending \ {p} /\ LongPending' = LongPending \ {p}
            /\ size' = size /\ leaked' = leaked /\ free' = free
        BY <2>1, <2>6, PendingStep DEF Adds
      <3>2. /\ IsFiniteSet(index') /\ I' = I + 1
            /\ IsFiniteSet(Pending') /\ A' = A - 1
        BY <1>a, <3>1, FS_AddElement, FS_RemoveElement DEF Finite, T, I, L, A, B
      <3>3. p \in LongPending <=> IsLong(Made(p))
        BY <3>1 DEF LongPending
      <3>4. /\ IsLong(Made(p)) => Long' = Long \cup {Made(p)} /\ Made(p) \notin Long
            /\ ~IsLong(Made(p)) => Long' = Long
        BY <3>1 DEF Long, IsLong, NameOf
      <3>5. CASE IsLong(Made(p))
        <4>1. /\ IsFiniteSet(Long') /\ L' = L + 1
              /\ IsFiniteSet(LongPending') /\ B' = B - 1
          BY <1>a, <3>1, <3>3, <3>4, <3>5, FS_AddElement, FS_RemoveElement DEF Finite, T, I, L, A, B
        <4>2. Finite' /\ T' = T
          BY <1>a, <3>1, <3>2, <4>1 DEF Finite, T, I, L, A, B
        <4>3. Spent(T, I + 1, L + 1, A - 1, B - 1) = Spent(T, I, L, A, B)
          BY <1>c, <1>m
        <4>4. size' = free' + leaked' + Spent(T, I + 1, L + 1, A - 1, B - 1)
          BY <1>c, <3>1, <4>3
        <4> QED
          BY <1>e, <3>2, <4>1, <4>2, <4>4
      <3>6. CASE ~IsLong(Made(p))
        <4>1. /\ Long' = Long /\ L' = L
              /\ LongPending' = LongPending /\ B' = B
          BY <3>1, <3>3, <3>4, <3>6 DEF L, B
        <4>2. Finite' /\ T' = T
          BY <1>a, <3>1, <3>2, <4>1 DEF Finite, T, I, L, A, B
        <4>3. Spent(T, I + 1, L, A - 1, B) = Spent(T, I, L, A, B)
          BY <1>c, OneMore
        <4>4. size' = free' + leaked' + Spent(T, I + 1, L, A - 1, B)
          BY <1>c, <3>1, <4>3
        <4> QED
          BY <1>e, <3>2, <4>1, <4>2, <4>4
      <3> QED
        BY <3>5, <3>6
    <2>7. CASE GivesUp(p)
      <3>1. /\ tables' = tables /\ index' = index /\ Long' = Long /\ p \in Pending
            /\ Pending' = Pending \ {p} /\ LongPending' = LongPending \ {p}
            /\ size' = size
            /\ free' + leaked' = free + leaked + Price(Made(p))
        BY <2>1, <2>7, <2>l, PendingStep DEF GivesUp
      <3>2. IsFiniteSet(Pending') /\ A' = A - 1
        BY <1>a, <3>1, FS_RemoveElement DEF Finite, T, I, L, A, B
      <3>6. Price(Made(p)) \in Int
        BY PriceNat
      <3>3. p \in LongPending <=> IsLong(Made(p))
        BY <3>1 DEF LongPending
      <3>4. CASE IsLong(Made(p))
        <4>1. IsFiniteSet(LongPending') /\ B' = B - 1
          BY <1>a, <3>1, <3>3, <3>4, FS_RemoveElement DEF Finite, T, I, L, A, B
        <4>2. Finite' /\ T' = T /\ I' = I /\ L' = L
          BY <1>a, <3>1, <3>2, <4>1 DEF Finite, T, I, L, A, B
        <4>3. Price(Made(p)) = SymbolCost + NameCost
          BY <3>4 DEF Price, IsLong
        <4>4. Spent(T, I, L, A - 1, B - 1) = Spent(T, I, L, A, B) - SymbolCost - NameCost
          BY <1>c, OneMore
        <4>6. Spent(T, I, L, A - 1, B - 1) = Spent(T, I, L, A, B) - Price(Made(p))
          BY <1>d, <1>s, <4>3, <4>4
        <4>5. size' = free' + leaked' + Spent(T, I, L, A - 1, B - 1)
          BY <1>c, <1>g, <1>s, <3>1, <3>6, <4>6
        <4> QED
          BY <1>e, <3>2, <4>1, <4>2, <4>5
      <3>5. CASE ~IsLong(Made(p))
        <4>1. LongPending' = LongPending /\ B' = B
          BY <3>1, <3>3, <3>5 DEF B
        <4>2. Finite' /\ T' = T /\ I' = I /\ L' = L
          BY <1>a, <3>1, <3>2, <4>1 DEF Finite, T, I, L, A, B
        <4>3. Price(Made(p)) = SymbolCost
          BY <1>d, <3>5 DEF Price, IsLong
        <4>4. Spent(T, I, L, A - 1, B) = Spent(T, I, L, A, B) - SymbolCost
          BY <1>c, OneMore
        <4>5. size' = free' + leaked' + Spent(T, I, L, A - 1, B)
          BY <1>c, <1>g, <1>s, <3>1, <3>6, <4>3, <4>4
        <4> QED
          BY <1>e, <3>2, <4>1, <4>2, <4>5
      <3> QED
        BY <3>4, <3>5
    <2> QED
      BY <2>2, <2>3, <2>4, <2>5, <2>6, <2>7
  <1>2. CASE UNCHANGED vars
    <2>1. Balanced'
      BY <1>2, <1>a
      DEF vars, image, memory, private, Balanced, Finite, Long, IsLong, Pending,
          LongPending, Made, Spent
    <2> QED
      BY <1>b, <2>1 DEF Accounts
  <1> QED
    BY <1>1, <1>2 DEF Next

(* Nothing is spent or given back twice, whatever crashes, refusals and    *)
(* compactions come between.                                               *)
THEOREM TheHeapAddsUp == Spec => []HeapAccounted
  <1>1. Accounts => HeapAccounted
    BY BalancedAccounts DEF Accounts, Typed
  <1> QED
    BY <1>1, AccountsInit, AccountsStep, PTL DEF Spec

-----------------------------------------------------------------------------
(* What the calls of a process know while they run, and what they leave    *)
(* when they return: the references they hold, the lesson they taught, the *)
(* symbols they made and the one that another process made first.          *)

(* The inductive invariants.                                               *)

\* A space stays in the cache from when it was ensured until the end.
Mapped(p) ==
  /\ cache[p] \subseteq tables
  /\ pc[p] \in InCall \ {"target_space"} /\ call[p].op = "superpose"
       => SpaceOf(call[p].tgt) \in cache[p]
  /\ pc[p] \in InCall \ {"target_space", "source_space"}
       => SpaceOf(call[p].src) \in cache[p]

TablesOK == \A id \in index : SpaceOf(id) \in tables

References == TablesOK /\ \A p \in Procs : Mapped(p)

\* A lesson is applied from its first position on, as far as it has got.
Told(p) ==
  /\ pc[p] \in InCall \ {"learn", "store"} => call[p].next = 1
  /\ pc[p] \in {"learn", "store"} =>
       \A i \in Positions : i < call[p].next => i \in lessons[call[p].tgt][call[p].src]
  /\ pc[p] = "idle" /\ call[p].op = "superpose" /\ call[p].status \in Success =>
       /\ call[p].tgt \in SymId /\ call[p].src \in SymId
       /\ \A i \in Positions : i \in lessons[call[p].tgt][call[p].src]

\* What an open session has linked is in a space it has cached.
Sees(p) ==
  pc[p] # "down" =>
    \A id \in SymId : born[id] = session[p] => SpaceOf(id) \in cache[p]

\* Whoever has linked a symbol that p is about to link, it was not p.
Foreign(p, id) == id \in index => born[id] # session[p]

Raced(p) ==
  /\ pc[p] \in {"construct_source", "link_source"} => Foreign(p, call[p].src)
  /\ pc[p] \in {"construct_target", "link_target"} => Foreign(p, call[p].tgt)
  /\ pc[p] = "idle" /\ call[p].status = "EINDEX" =>
       \E id \in {call[p].src, call[p].tgt} : id \in index /\ born[id] # session[p]

Calls == /\ Sessions
         /\ References
         /\ \A p \in Procs : Told(p) /\ Sees(p) /\ Raced(p)

LEMMA CallsInit == Init => Calls
  <1> SUFFICES ASSUME Init PROVE Calls
    OBVIOUS
  <1>1. Sessions
    BY SessionsInit
  <1>2. References
    BY DEF Init, References, TablesOK, Mapped, InCall
  <1>3. ASSUME NEW p \in Procs PROVE Told(p) /\ Sees(p) /\ Raced(p)
    <2>1. pc[p] = "down"
      BY DEF Init
    <2> QED
      BY <2>1 DEF Told, Sees, Raced, InCall
  <1> QED
    BY <1>1, <1>2, <1>3 DEF Calls

-----------------------------------------------------------------------------
(* What a step of p does to its own call.                                  *)

\* As long as a call runs it is about the same symbols.
LEMMA SameCall ==
  ASSUME TypeOK, NEW p \in Procs, CallOK(p), Step(p), pc'[p] # "down"
  PROVE  /\ call'[p].op = call[p].op
         /\ call'[p].tgt = call[p].tgt
         /\ call'[p].src = call[p].src
  <1>a. pc \in [Procs -> PCs] /\ call \in [Procs -> Call]
    BY DEF TypeOK
  <1>v. ASSUME NEW last, NEW lost, Vanish(p, last, lost) PROVE pc'[p] = "down"
    BY <1>a, <1>v DEF Vanish, Goto
  <1>s. ASSUME NEW status, call' = [call EXCEPT ![p] = Settled(call[p], status)]
        PROVE  /\ call'[p].op = call[p].op
               /\ call'[p].tgt = call[p].tgt
               /\ call'[p].src = call[p].src
    BY <1>a, <1>s DEF Settled, NewCall
  <1>r. ASSUME NEW status, Return(p, status)
        PROVE  call' = [call EXCEPT ![p] = Settled(call[p], status)]
    BY <1>r DEF Return
  <1>1. CASE EnsureTargetSpace(p) \/ EnsureSourceSpace(p)
    <2>1. call' = call \/ Return(p, "EMEMORY")
      BY <1>1 DEF EnsureTargetSpace, EnsureSourceSpace, EnsureSpaceByName
    <2> QED
      BY <2>1, <1>r, <1>s
  <1>2. CASE FindSource(p) \/ FindTarget(p)
    <2>1. call' = call \/ Return(p, "AOLD") \/ \E last, lost : Vanish(p, last, lost)
      BY <1>2 DEF FindSource, FindTarget, LookupFails, Terminate
    <2> QED
      BY <2>1, <1>r, <1>s, <1>v
  <1>3. CASE ConstructSource(p) \/ ConstructTarget(p)
    <2>1. \/ call' = [call EXCEPT ![p].fresh = Shuffles[shuffles[p] + 1]]
          \/ Return(p, "EMEMORY")
          \/ \E last, lost : Vanish(p, last, lost)
      BY <1>3 DEF ConstructSource, ConstructTarget, ConstructSymbol
    <2> QED
      BY <2>1, <1>a, <1>r, <1>s, <1>v DEF Call
  <1>4. CASE LinkSource(p) \/ LinkTarget(p)
    <2>1. \/ Return(p, "EINDEX")
          \/ Return(p, "ANEW")
          \/ call' = [call EXCEPT ![p] = Settled(call[p], "ANEW")]
      BY <1>4 DEF LinkSource, LinkTarget, LinkSymbol
    <2> QED
      BY <2>1, <1>r, <1>s
  <1>5. CASE LoadElement(p)
    <2>1. \E word : call' = [call EXCEPT ![p].word = word]
      BY <1>5 DEF LoadElement
    <2> QED
      BY <2>1, <1>a DEF Call
  <1>6. CASE StoreElement(p)
    <2>1. call' = [call EXCEPT ![p].next = call[p].next + 1, ![p].word = {}]
      BY <1>6 DEF StoreElement
    <2> QED
      BY <2>1, <1>a DEF Call
  <1>7. CASE FinishSuperpose(p)
    BY <1>7, <1>r, <1>s DEF FinishSuperpose
  <1> QED
    BY <1>1, <1>2, <1>3, <1>4, <1>5, <1>6, <1>7 DEF Step

\* Tables stay, and what p has cached stays until its session is over.
LEMMA OwnMapped ==
  ASSUME TypeOK, NEW p \in Procs, CallOK(p), Mapped(p), Step(p) \/ Environment(p)
  PROVE  /\ Mapped(p)'
         /\ tables \subseteq tables'
         /\ pc[p] # "down" /\ pc'[p] # "down" => cache[p] \subseteq cache'[p]
  <1>a. /\ pc \in [Procs -> PCs] /\ call \in [Procs -> Call]
        /\ cache \in [Procs -> SUBSET Spaces]
    BY DEF TypeOK
  <1> USE DEF InCall, PCs, EnteringSource
  <1> DEFINE Kept == /\ tables' = tables
                     /\ cache'[p] = cache[p] \/ (cache'[p] = {} /\ pc'[p] = "down")
  <1>b. ASSUME Kept, pc'[p] \in {"idle", "down"} PROVE Mapped(p)'
    BY <1>b DEF Mapped
  <1>c. ASSUME Kept, pc'[p] \in InCall, Step(p),
               pc[p] \in InCall \ {"target_space", "source_space"}
        PROVE  Mapped(p)'
    <2>1. /\ call'[p].op = call[p].op
          /\ call'[p].tgt = call[p].tgt
          /\ call'[p].src = call[p].src
      BY <1>c, SameCall
    <2> QED
      BY <1>c, <2>1 DEF Mapped, SpaceOf
  <1>v. ASSUME NEW last, NEW lost, Vanish(p, last, lost), UNCHANGED tables
        PROVE  Kept /\ pc'[p] = "down"
    BY <1>a, <1>v DEF Vanish, Goto
  <1>1. CASE Open(p)
    <2>1. /\ pc[p] = "down" /\ pc'[p] = "idle" /\ tables' = tables
          /\ cache'[p] = tables \ Hidden
      BY <1>1, <1>a DEF Open, Goto, image
    <2> QED
      BY <2>1 DEF Mapped
  <1>2. CASE Close(p) \/ Crash(p)
    <2>1. UNCHANGED tables /\ \E last, lost : Vanish(p, last, lost)
      BY <1>2 DEF Close, Crash, image
    <2> QED
      BY <2>1, <1>b, <1>v
  <1>3. CASE CallSuperpose(p)
    <2>1. pc'[p] = "target_space" /\ Kept
      BY <1>3, <1>a DEF CallSuperpose, Goto, image
    <2> QED
      BY <2>1 DEF Mapped
  <1>4. CASE CallNamedVector(p)
    <2>1. PICK id \in SymId, d \in Dithers :
            call' = [call EXCEPT ![p] = NewCall("namedvector", id, id, 0, d, "AOLD")]
      BY <1>4 DEF CallNamedVector
    <2>2. call'[p].op = "namedvector"
      BY <2>1, <1>a DEF NewCall
    <2>3. pc'[p] = "source_space" /\ Kept
      BY <1>4, <1>a DEF CallNamedVector, Goto, image
    <2> QED
      BY <2>2, <2>3 DEF Mapped
  <1>5. CASE Density(p) \/ Measure(p) \/ Subtract(p)
    <2>1. /\ UNCHANGED tables
          /\ pc[p] = "idle"
          /\ \/ UNCHANGED <<pc, cache>>
             \/ \E last, lost : Vanish(p, last, lost)
      BY <1>5 DEF Density, Measure, Subtract, Pairwise, Answer, Terminate, image
    <2> QED
      BY <2>1, <1>b, <1>v
  <1>6. ASSUME NEW at, NEW sp \in Spaces, NEW next,
               EnsureSpaceByName(p, at, sp, next), pc[p] # "down", next \in InCall
        PROVE  \/ pc'[p] = "idle" /\ Kept
               \/ /\ pc'[p] = next /\ sp \in cache'[p]
                  /\ cache[p] \subseteq cache'[p] /\ cache'[p] \subseteq tables'
                  /\ tables \subseteq tables'
    <2>1. sp \in cache[p] \/ sp \in tables \ cache[p] \/ sp \notin tables \cup cache[p]
      OBVIOUS
    <2> QED
      BY <1>6, <1>a, <2>1 DEF EnsureSpaceByName, Remember, Return, Goto, Mapped
  <1>7. CASE EnsureTargetSpace(p)
    <2>1. pc[p] = "target_space" /\ SpaceOf(call[p].tgt) \in Spaces
      BY <1>7, NameAssumption
      DEF EnsureTargetSpace, EnsureSpaceByName, CallOK, SpaceOf
    <2>2. \/ pc'[p] = "idle" /\ Kept
          \/ /\ pc'[p] = "source_space" /\ SpaceOf(call[p].tgt) \in cache'[p]
             /\ cache[p] \subseteq cache'[p] /\ cache'[p] \subseteq tables'
             /\ tables \subseteq tables'
      BY <1>6, <1>7, <2>1 DEF EnsureTargetSpace
    <2>3. pc'[p] # "down" => call'[p].tgt = call[p].tgt
      BY <1>7, SameCall DEF Step
    <2> QED
      BY <1>b, <2>2, <2>3 DEF Mapped, SpaceOf
  <1>8. CASE EnsureSourceSpace(p)
    <2>1. pc[p] = "source_space" /\ SpaceOf(call[p].src) \in Spaces
      BY <1>8, NameAssumption
      DEF EnsureSourceSpace, EnsureSpaceByName, CallOK, SpaceOf
    <2>2. \/ pc'[p] = "idle" /\ Kept
          \/ /\ pc'[p] = "find_source" /\ SpaceOf(call[p].src) \in cache'[p]
             /\ cache[p] \subseteq cache'[p] /\ cache'[p] \subseteq tables'
             /\ tables \subseteq tables'
      BY <1>6, <1>8, <2>1 DEF EnsureSourceSpace
    <2>3. pc'[p] # "down" => /\ call'[p].op = call[p].op
                             /\ call'[p].tgt = call[p].tgt
                             /\ call'[p].src = call[p].src
      BY <1>8, SameCall DEF Step
    <2> QED
      BY <1>b, <2>1, <2>2, <2>3 DEF Mapped, SpaceOf
  <1>9. CASE FindSource(p) \/ FindTarget(p)
    <2>1. /\ pc[p] \in {"find_source", "find_target"}
          /\ UNCHANGED tables
          /\ \/ UNCHANGED cache /\ pc'[p] \in {"idle", "construct_source", "find_target",
                                               "learn", "construct_target"}
             \/ \E last, lost : Vanish(p, last, lost)
      BY <1>9, <1>a DEF FindSource, FindTarget, LookupFails, Terminate, Return, Goto, image
    <2>2. CASE \E last, lost : Vanish(p, last, lost)
      BY <1>b, <1>v, <2>1, <2>2
    <2>3. CASE UNCHANGED cache /\ pc'[p] \in {"idle", "construct_source", "find_target",
                                              "learn", "construct_target"}
      BY <1>9, <1>b, <1>c, <2>1, <2>3 DEF Step
    <2> QED
      BY <2>1, <2>2, <2>3
  <1>10. CASE ConstructSource(p) \/ ConstructTarget(p)
    <2>1. /\ pc[p] \in {"construct_source", "construct_target"}
          /\ UNCHANGED tables
          /\ \/ UNCHANGED cache /\ pc'[p] \in {"idle", "link_source", "link_target"}
             \/ \E last, lost : Vanish(p, last, lost)
      BY <1>10, <1>a DEF ConstructSource, ConstructTarget, ConstructSymbol, Return, Goto, image
    <2>2. CASE \E last, lost : Vanish(p, last, lost)
      BY <1>b, <1>v, <2>1, <2>2
    <2>3. CASE UNCHANGED cache /\ pc'[p] \in {"idle", "link_source", "link_target"}
      BY <1>10, <1>b, <1>c, <2>1, <2>3 DEF Step
    <2> QED
      BY <2>1, <2>2, <2>3
  <1>11. CASE LinkSource(p) \/ LinkTarget(p)
    <2>1. /\ pc[p] \in {"link_source", "link_target"}
          /\ UNCHANGED <<tables, cache>>
          /\ pc'[p] \in {"idle", "find_target", "learn"}
      BY <1>11, <1>a DEF LinkSource, LinkTarget, LinkSymbol, Return, Goto
    <2> QED
      BY <1>11, <1>b, <1>c, <2>1 DEF Step
  <1>12. CASE LoadElement(p) \/ StoreElement(p) \/ FinishSuperpose(p)
    <2>1. /\ pc[p] \in {"learn", "store"}
          /\ UNCHANGED <<tables, cache>>
          /\ pc'[p] \in {"idle", "learn", "store"}
      BY <1>12, <1>a DEF LoadElement, StoreElement, FinishSuperpose, Return, Goto, image
    <2> QED
      BY <1>12, <1>b, <1>c, <2>1 DEF Step
  <1> QED
    BY <1>1, <1>2, <1>3, <1>4, <1>5, <1>7, <1>8, <1>9, <1>10, <1>11, <1>12
    DEF Step, Environment

-----------------------------------------------------------------------------
(* The lesson.                                                             *)

LEMMA OwnTold ==
  ASSUME TypeOK, NEW p \in Procs, CallOK(p), Told(p), Step(p) \/ Environment(p)
  PROVE  Told(p)'
  <1>a. /\ pc \in [Procs -> PCs] /\ call \in [Procs -> Call]
        /\ lessons \in [SymId -> [SymId -> SUBSET Positions]]
    BY DEF TypeOK
  <1>n. BasisSize \in Nat /\ Positions = 1 .. BasisSize
    BY VectorAssumption DEF Positions
  <1> USE DEF InCall, PCs, EnteringSource
  <1>d. ASSUME pc'[p] = "down" PROVE Told(p)'
    BY <1>d DEF Told
  <1>i. ASSUME pc'[p] = "idle", call'[p].op # "superpose" \/ call'[p].status \notin Success
        PROVE  Told(p)'
    BY <1>i DEF Told, Success
  <1>f. ASSUME pc'[p] \notin {"idle", "down"}, call'[p].next = 1 PROVE Told(p)'
    BY <1>f DEF Told, Positions
  <1>s. ASSUME NEW status, call' = [call EXCEPT ![p] = Settled(call[p], status)]
        PROVE  /\ call'[p].op = call[p].op /\ call'[p].status = status
               /\ call'[p].tgt = call[p].tgt /\ call'[p].src = call[p].src
               /\ call'[p].next = 1
    BY <1>a, <1>s DEF Settled, NewCall
  <1>r. ASSUME NEW status, Return(p, status)
        PROVE  /\ pc'[p] = "idle"
               /\ call' = [call EXCEPT ![p] = Settled(call[p], status)]
    BY <1>a, <1>r DEF Return, Goto
  <1>v. ASSUME NEW last, NEW lost, Vanish(p, last, lost) PROVE Told(p)'
    BY <1>a, <1>d, <1>v DEF Vanish, Goto
  <1>1. CASE Open(p)
    <2>1. pc'[p] = "idle" /\ call'[p] = NoCall
      BY <1>1, <1>a DEF Open, Goto
    <2> QED
      BY <1>i, <2>1 DEF NoCall, NewCall
  <1>2. CASE Close(p) \/ Crash(p)
    BY <1>2, <1>v DEF Close, Crash
  <1>3. CASE CallSuperpose(p) \/ CallNamedVector(p)
    <2>1. /\ pc'[p] \in {"target_space", "source_space"}
          /\ \E op, t, s, shift, prob, status :
                call' = [call EXCEPT ![p] = NewCall(op, t, s, shift, prob, status)]
      BY <1>3, <1>a DEF CallSuperpose, CallNamedVector, Goto
    <2>2. call'[p].next = 1
      BY <2>1, <1>a DEF NewCall
    <2> QED
      BY <1>f, <2>1, <2>2
  <1>4. CASE Density(p) \/ Measure(p) \/ Subtract(p)
    <2>1. /\ pc[p] = "idle"
          /\ \/ /\ UNCHANGED pc
                /\ \E op \in {"density", "measure", "subtract"} : \E t, s, status :
                      call' = [call EXCEPT ![p] = NewCall(op, t, s, 0, 0, status)]
             \/ \E last, lost : Vanish(p, last, lost)
      BY <1>4 DEF Density, Measure, Subtract, Pairwise, Answer, Terminate
    <2>2. CASE UNCHANGED pc /\ \E op \in {"density", "measure", "subtract"} : \E t, s, status :
                      call' = [call EXCEPT ![p] = NewCall(op, t, s, 0, 0, status)]
      <3>1. call'[p].op # "superpose"
        BY <2>2, <1>a DEF NewCall
      <3> QED
        BY <1>i, <2>1, <2>2, <3>1
    <2> QED
      BY <1>v, <2>1, <2>2
  <1>5. CASE EnsureTargetSpace(p) \/ EnsureSourceSpace(p)
    <2>1. /\ pc[p] \in {"target_space", "source_space"}
          /\ \/ Return(p, "EMEMORY")
             \/ call' = call /\ pc'[p] \in {"source_space", "find_source"}
      BY <1>5, <1>a DEF EnsureTargetSpace, EnsureSourceSpace, EnsureSpaceByName, Goto
    <2>2. CASE Return(p, "EMEMORY")
      BY <1>i, <1>r, <1>s, <2>2 DEF Success
    <2>3. CASE call' = call /\ pc'[p] \in {"source_space", "find_source"}
      BY <1>f, <2>1, <2>3 DEF Told
    <2> QED
      BY <2>1, <2>2, <2>3
  <1>6. CASE FindSource(p) \/ FindTarget(p)
    <2>1. /\ pc[p] \in {"find_source", "find_target"}
          /\ \/ Return(p, "AOLD") /\ call[p].op = "namedvector"
             \/ call' = call /\ pc'[p] \notin {"idle", "down"}
             \/ \E last, lost : Vanish(p, last, lost)
      BY <1>6, <1>a DEF FindSource, FindTarget, LookupFails, Terminate, Goto
    <2>2. CASE Return(p, "AOLD") /\ call[p].op = "namedvector"
      BY <1>i, <1>r, <1>s, <2>2
    <2>3. CASE call' = call /\ pc'[p] \notin {"idle", "down"}
      BY <1>f, <2>1, <2>3 DEF Told
    <2> QED
      BY <1>v, <2>1, <2>2, <2>3
  <1>7. CASE ConstructSource(p) \/ ConstructTarget(p)
    <2>1. /\ pc[p] \in {"construct_source", "construct_target"}
          /\ \/ Return(p, "EMEMORY")
             \/ /\ pc'[p] \in {"link_source", "link_target"}
                /\ call' = [call EXCEPT ![p].fresh = Shuffles[shuffles[p] + 1]]
             \/ \E last, lost : Vanish(p, last, lost)
      BY <1>7, <1>a DEF ConstructSource, ConstructTarget, ConstructSymbol, Goto
    <2>2. CASE Return(p, "EMEMORY")
      BY <1>i, <1>r, <1>s, <2>2 DEF Success
    <2>3. CASE /\ pc'[p] \in {"link_source", "link_target"}
               /\ call' = [call EXCEPT ![p].fresh = Shuffles[shuffles[p] + 1]]
      <3>1. call'[p].next = call[p].next
        BY <2>3, <1>a DEF Call
      <3> QED
        BY <1>f, <2>1, <2>3, <3>1 DEF Told
    <2> QED
      BY <1>v, <2>1, <2>2, <2>3
  <1>8. CASE LinkSource(p) \/ LinkTarget(p)
    <2>1. \/ Return(p, "EINDEX")
          \/ Return(p, "ANEW") /\ call[p].op = "namedvector"
          \/ /\ pc'[p] \in {"find_target", "learn"}
             /\ call' = [call EXCEPT ![p] = Settled(call[p], "ANEW")]
      BY <1>8, <1>a DEF LinkSource, LinkTarget, LinkSymbol, Goto
    <2>2. CASE Return(p, "EINDEX")
      BY <1>i, <1>r, <1>s, <2>2 DEF Success
    <2>3. CASE Return(p, "ANEW") /\ call[p].op = "namedvector"
      BY <1>i, <1>r, <1>s, <2>3
    <2>4. CASE /\ pc'[p] \in {"find_target", "learn"}
               /\ call' = [call EXCEPT ![p] = Settled(call[p], "ANEW")]
      BY <1>f, <1>s, <2>4
    <2> QED
      BY <2>1, <2>2, <2>3, <2>4
  <1>9. CASE LoadElement(p)
    <2>1. /\ pc[p] = "learn" /\ pc'[p] = "store" /\ lessons' = lessons
          /\ \E word : call' = [call EXCEPT ![p].word = word]
      BY <1>9, <1>a DEF LoadElement, Goto
    <2>2. /\ call'[p].tgt = call[p].tgt /\ call'[p].src = call[p].src
          /\ call'[p].next = call[p].next
      BY <2>1, <1>a DEF Call
    <2> QED
      BY <2>1, <2>2 DEF Told
  <1>10. CASE StoreElement(p)
    <2>1. PICK t \in SymId, s \in SymId, i \in Positions :
             t = call[p].tgt /\ s = call[p].src /\ i = call[p].next
      BY <1>10, <1>a, <1>n DEF StoreElement, CallOK, Call
    <2>2. /\ pc[p] = "store" /\ pc'[p] = "learn"
          /\ lessons' = [lessons EXCEPT ![t][s] = @ \cup {i}]
          /\ call' = [call EXCEPT ![p].next = i + 1, ![p].word = {}]
      BY <1>10, <1>a, <2>1 DEF StoreElement, Goto
    <2>3. /\ call'[p].tgt = t /\ call'[p].src = s /\ call'[p].next = i + 1
          /\ lessons'[t][s] = lessons[t][s] \cup {i}
      BY <2>1, <2>2, <1>a DEF Call
    <2>4. \A j \in Positions : j < i + 1 => j \in lessons'[t][s]
      BY <1>n, <2>1, <2>2, <2>3 DEF Told
    <2> QED
      BY <2>2, <2>3, <2>4 DEF Told
  <1>11. CASE FinishSuperpose(p)
    <2>1. /\ pc[p] = "learn" /\ call[p].next > BasisSize /\ lessons' = lessons
          /\ Return(p, call[p].status)
      BY <1>11 DEF FinishSuperpose, LessonOver, history
    <2>2. /\ call'[p].tgt = call[p].tgt /\ call'[p].src = call[p].src
          /\ call[p].tgt \in SymId /\ call[p].src \in SymId
          /\ pc'[p] = "idle"
      BY <1>r, <1>s, <2>1 DEF CallOK
    <2>3. call[p].next \in Nat
      BY <1>a, <1>n DEF Call
    <2>4. \A i \in Positions : i \in lessons'[call[p].tgt][call[p].src]
      BY <1>n, <2>1, <2>3 DEF Told
    <2> QED
      BY <2>2, <2>4 DEF Told
  <1> QED
    BY <1>1, <1>2, <1>3, <1>4, <1>5, <1>6, <1>7, <1>8, <1>9, <1>10, <1>11
    DEF Step, Environment

-----------------------------------------------------------------------------
(* What is linked, and by whom.                                            *)

\* The symbol that p links with a step, if it does.
Makes(p, id) ==
  /\ \/ pc[p] = "link_source" /\ id = call[p].src
     \/ pc[p] = "link_target" /\ id = call[p].tgt
  /\ id \notin index

LEMMA Growth ==
  ASSUME TypeOK, NEW p \in Procs, CallOK(p), Step(p) \/ Environment(p)
  PROVE  /\ \A id \in index : id \in index' /\ born'[id] = born[id]
         /\ \A id \in SymId : (id \in index' \ index \/ born'[id] # born[id])
              => Makes(p, id) /\ born'[id] = session[p]
         /\ index' \subseteq SymId
         /\ \A t, s \in SymId : lessons[t][s] \subseteq lessons'[t][s]
  <1>a. /\ index \subseteq SymId
        /\ born \in [SymId -> 0 .. MaxOpens]
        /\ lessons \in [SymId -> [SymId -> SUBSET Positions]]
    BY DEF TypeOK
  <1>1. CASE UNCHANGED Symbols
    BY <1>1, <1>a DEF Symbols
  <1>2. ASSUME NEW id \in SymId, Links(p, id)
        PROVE  /\ \A x \in index : x \in index' /\ born'[x] = born[x]
               /\ \A x \in SymId : (x \in index' \ index \/ born'[x] # born[x])
                    => Makes(p, x) /\ born'[x] = session[p]
               /\ index' \subseteq SymId
               /\ \A t, s \in SymId : lessons[t][s] \subseteq lessons'[t][s]
    <2>1. /\ id \notin index /\ index' = index \cup {id}
          /\ born' = [born EXCEPT ![id] = session[p]]
          /\ lessons' = lessons
          /\ Makes(p, id)
      BY <1>2 DEF Links, Makes
    <2>2. born'[id] = session[p] /\ \A x \in SymId : x # id => born'[x] = born[x]
      BY <1>a, <2>1
    <2> QED
      BY <1>a, <2>1, <2>2
  <1>3. CASE LoadElement(p)
    BY <1>3, <1>a DEF LoadElement, image
  <1>4. CASE StoreElement(p)
    <2>1. /\ UNCHANGED <<index, born>>
          /\ lessons' = [lessons EXCEPT ![call[p].tgt][call[p].src] = @ \cup {call[p].next}]
      BY <1>4 DEF StoreElement
    <2>2. \A t, s \in SymId : lessons[t][s] \subseteq lessons'[t][s]
      BY <1>a, <2>1
    <2> QED
      BY <1>a, <2>1, <2>2
  <1> QED
    BY <1>1, <1>2, <1>3, <1>4, ImageStep

\* p takes a symbol for missing only if p has not made it itself.
LEMMA OwnRaced ==
  ASSUME TypeOK, NEW p \in Procs, CallOK(p), Raced(p), Step(p) \/ Environment(p)
  PROVE  Raced(p)'
  <1>a. /\ pc \in [Procs -> PCs] /\ call \in [Procs -> Call]
        /\ session \in [Procs -> 0 .. MaxOpens]
    BY DEF TypeOK
  <1> USE DEF InCall, PCs, EnteringSource
  <1>i. ASSUME pc'[p] = "idle", call'[p].status # "EINDEX" PROVE Raced(p)'
    BY <1>i DEF Raced
  <1>o. ASSUME pc'[p] \notin {"construct_source", "link_source", "construct_target",
                             "link_target", "idle"}
        PROVE  Raced(p)'
    BY <1>o DEF Raced
  <1>r. ASSUME NEW status, Return(p, status)
        PROVE  /\ pc'[p] = "idle" /\ call'[p].status = status
               /\ call'[p].tgt = call[p].tgt /\ call'[p].src = call[p].src
    BY <1>a, <1>r DEF Return, Goto, Settled, NewCall
  <1>v. ASSUME NEW last, NEW lost, Vanish(p, last, lost) PROVE Raced(p)'
    BY <1>a, <1>o, <1>v DEF Vanish, Goto
  <1>1. CASE Open(p)
    <2>1. pc'[p] = "idle" /\ call'[p] = NoCall
      BY <1>1, <1>a DEF Open, Goto
    <2> QED
      BY <1>i, <2>1 DEF NoCall, NewCall
  <1>2. CASE Close(p) \/ Crash(p)
    BY <1>2, <1>v DEF Close, Crash
  <1>3. CASE CallSuperpose(p) \/ CallNamedVector(p)
    <2>1. pc'[p] \in {"target_space", "source_space"}
      BY <1>3, <1>a DEF CallSuperpose, CallNamedVector, Goto
    <2> QED
      BY <1>o, <2>1
  <1>4. CASE Density(p) \/ Measure(p) \/ Subtract(p)
    <2>1. /\ pc[p] = "idle"
          /\ \/ /\ UNCHANGED pc
                /\ \E status \in {"ESPACE", "ESYMBOL", "AOLD"} : \E op, t, s :
                      call' = [call EXCEPT ![p] = NewCall(op, t, s, 0, 0, status)]
             \/ \E last, lost : Vanish(p, last, lost)
      BY <1>4 DEF Density, Measure, Subtract, Pairwise, Answer, Terminate
    <2>2. CASE /\ UNCHANGED pc
               /\ \E status \in {"ESPACE", "ESYMBOL", "AOLD"} : \E op, t, s :
                     call' = [call EXCEPT ![p] = NewCall(op, t, s, 0, 0, status)]
      <3>1. call'[p].status \in {"ESPACE", "ESYMBOL", "AOLD"}
        BY <2>2, <1>a DEF NewCall
      <3> QED
        BY <1>i, <2>1, <2>2, <3>1
    <2> QED
      BY <1>v, <2>1, <2>2
  <1>5. CASE EnsureTargetSpace(p) \/ EnsureSourceSpace(p)
    <2>1. Return(p, "EMEMORY") \/ pc'[p] \in {"source_space", "find_source"}
      BY <1>5, <1>a DEF EnsureTargetSpace, EnsureSourceSpace, EnsureSpaceByName, Goto
    <2> QED
      BY <1>i, <1>o, <1>r, <2>1
  <1>6. CASE FindSource(p)
    <2>1. \/ Return(p, "AOLD")
          \/ pc'[p] = "find_target"
          \/ /\ pc'[p] = "construct_source" /\ call' = call
             /\ index' = index /\ call[p].src \notin index
          \/ \E last, lost : Vanish(p, last, lost)
      BY <1>6, <1>a DEF FindSource, LookupFails, Terminate, Goto, image
    <2>2. CASE /\ pc'[p] = "construct_source" /\ call' = call
               /\ index' = index /\ call[p].src \notin index
      BY <2>2 DEF Raced, Foreign
    <2> QED
      BY <1>i, <1>o, <1>r, <1>v, <2>1, <2>2
  <1>7. CASE FindTarget(p)
    <2>1. \/ pc'[p] = "learn"
          \/ /\ pc'[p] = "construct_target" /\ call' = call
             /\ index' = index /\ call[p].tgt \notin index
          \/ \E last, lost : Vanish(p, last, lost)
      BY <1>7, <1>a DEF FindTarget, LookupFails, Terminate, Goto, image
    <2>2. CASE /\ pc'[p] = "construct_target" /\ call' = call
               /\ index' = index /\ call[p].tgt \notin index
      BY <2>2 DEF Raced, Foreign
    <2> QED
      BY <1>o, <1>v, <2>1, <2>2
  <1>8. CASE ConstructSource(p) \/ ConstructTarget(p)
    <2>1. /\ UNCHANGED <<index, born>>
          /\ \/ Return(p, "EMEMORY")
             \/ /\ \/ pc[p] = "construct_source" /\ pc'[p] = "link_source"
                   \/ pc[p] = "construct_target" /\ pc'[p] = "link_target"
                /\ UNCHANGED session
                /\ call' = [call EXCEPT ![p].fresh = Shuffles[shuffles[p] + 1]]
             \/ \E last, lost : Vanish(p, last, lost)
      BY <1>8, <1>a DEF ConstructSource, ConstructTarget, ConstructSymbol, Goto, image
    <2>2. CASE /\ \/ pc[p] = "construct_source" /\ pc'[p] = "link_source"
                  \/ pc[p] = "construct_target" /\ pc'[p] = "link_target"
               /\ UNCHANGED session
               /\ call' = [call EXCEPT ![p].fresh = Shuffles[shuffles[p] + 1]]
      <3>1. call'[p].tgt = call[p].tgt /\ call'[p].src = call[p].src
        BY <2>2, <1>a DEF Call
      <3> QED
        BY <2>1, <2>2, <3>1 DEF Raced, Foreign
    <2> QED
      BY <1>i, <1>r, <1>v, <2>1, <2>2
  <1>9. CASE LinkSource(p) \/ LinkTarget(p)
    <2>1. \/ /\ Return(p, "EINDEX") /\ UNCHANGED <<index, born, session>>
             /\ \/ pc[p] = "link_source" /\ call[p].src \in index
                \/ pc[p] = "link_target" /\ call[p].tgt \in index
          \/ Return(p, "ANEW")
          \/ pc'[p] \in {"find_target", "learn"}
      BY <1>9, <1>a DEF LinkSource, LinkTarget, LinkSymbol, Refused, Goto
    <2>2. CASE /\ Return(p, "EINDEX") /\ UNCHANGED <<index, born, session>>
               /\ \/ pc[p] = "link_source" /\ call[p].src \in index
                  \/ pc[p] = "link_target" /\ call[p].tgt \in index
      <3>1. \E id \in {call[p].src, call[p].tgt} : id \in index /\ born[id] # session[p]
        BY <2>2 DEF Raced, Foreign
      <3> QED
        BY <1>r, <2>2, <3>1 DEF Raced
    <2> QED
      BY <1>i, <1>o, <1>r, <2>1, <2>2
  <1>10. CASE LoadElement(p) \/ StoreElement(p)
    <2>1. pc'[p] \in {"learn", "store"}
      BY <1>10, <1>a DEF LoadElement, StoreElement, Goto
    <2> QED
      BY <1>o, <2>1
  <1>11. CASE FinishSuperpose(p)
    <2>1. Return(p, call[p].status) /\ call[p].status \in Success
      BY <1>11 DEF FinishSuperpose, CallOK
    <2> QED
      BY <1>i, <1>r, <2>1 DEF Success
  <1> QED
    BY <1>1, <1>2, <1>3, <1>4, <1>5, <1>6, <1>7, <1>8, <1>9, <1>10, <1>11
    DEF Step, Environment

\* What p links is in a space it has cached.
LEMMA OwnSees ==
  ASSUME Sessions, NEW p \in Procs, Mapped(p), Sees(p), Step(p) \/ Environment(p)
  PROVE  Sees(p)'
  <1>a. /\ TypeOK /\ CallOK(p) /\ DrawsOK(p) /\ SessionsOK
        /\ opens \in Nat /\ session \in [Procs -> Nat] /\ born \in [SymId -> Nat]
    BY HeapAssumption DEF Sessions, Typed, TypeOK
  <1> SUFFICES ASSUME pc'[p] # "down", NEW id \in SymId, born'[id] = session'[p]
               PROVE  SpaceOf(id) \in cache'[p]
    BY DEF Sees, SpaceOf
  <1>1. CASE pc[p] = "down" /\ session'[p] = opens + 1 /\ born' = born
    BY <1>1, <1>a DEF SessionsOK
  <1>2. CASE pc[p] # "down" /\ session' = session
    <2>1. cache[p] \subseteq cache'[p]
      BY <1>2, <1>a, OwnMapped
    <2>2. CASE born'[id] = born[id]
      BY <1>2, <2>1, <2>2 DEF Sees
    <2>3. CASE born'[id] # born[id]
      <3>1. Makes(p, id)
        BY <1>a, <2>3, Growth
      <3>2. SpaceOf(id) \in cache[p]
        BY <1>a, <3>1 DEF Makes, Mapped, CallOK, InCall, PCs, EnteringSource
      <3> QED
        BY <2>1, <3>2
    <2> QED
      BY <2>2, <2>3
  <1> QED
    BY <1>1, <1>2, <1>a, SessionStep

\* What is known of another process's call.
LEMMA OthersCalls ==
  ASSUME Sessions, NEW p \in Procs, Step(p) \/ Environment(p), tables \subseteq tables',
         NEW q \in Procs \ {p}, Mapped(q), Told(q), Sees(q), Raced(q)
  PROVE  Mapped(q)' /\ Told(q)' /\ Sees(q)' /\ Raced(q)'
  <1>a. /\ TypeOK /\ CallOK(p) /\ CallOK(q) /\ SessionsOK
        /\ pc'[q] = pc[q] /\ call'[q] = call[q] /\ cache'[q] = cache[q]
        /\ session'[q] = session[q]
    BY Frame DEF Sessions, Typed
  <1>b. /\ \A id \in index : id \in index' /\ born'[id] = born[id]
        /\ \A id \in SymId : (id \in index' \ index \/ born'[id] # born[id])
              => Makes(p, id) /\ born'[id] = session[p]
        /\ index' \subseteq SymId
        /\ \A t, s \in SymId : lessons[t][s] \subseteq lessons'[t][s]
    BY <1>a, Growth
  <1>c. \A id : Makes(p, id) => pc[p] # "down"
    BY DEF Makes
  <1>d. pc[q] # "down" /\ pc[p] # "down" => session[p] # session[q]
    BY <1>a DEF SessionsOK
  <1>1. Mapped(q)'
    BY <1>a DEF Mapped
  <1>2. Told(q)'
    <2>1. pc[q] \in {"learn", "store"} => call[q].tgt \in SymId /\ call[q].src \in SymId
      BY <1>a DEF CallOK, InCall, PCs, EnteringSource
    <2> QED
      BY <1>a, <1>b, <2>1 DEF Told
  <1>3. Sees(q)'
    BY <1>a, <1>b, <1>c, <1>d DEF Sees
  <1>4. ASSUME NEW id \in SymId, Foreign(q, id), pc[q] # "down"
        PROVE  id \in index' => born'[id] # session'[q]
    BY <1>4, <1>a, <1>b, <1>c, <1>d DEF Foreign
  <1>5. Raced(q)'
    <2>1. pc[q] \in {"construct_source", "link_source", "construct_target", "link_target"}
            => call[q].tgt \in SymId /\ call[q].src \in SymId /\ pc[q] # "down"
      BY <1>a DEF CallOK, InCall, PCs, EnteringSource
    <2>2. pc[q] \in {"construct_source", "link_source"} => Foreign(q, call[q].src)'
      BY <1>4, <1>a, <2>1 DEF Raced, Foreign
    <2>3. pc[q] \in {"construct_target", "link_target"} => Foreign(q, call[q].tgt)'
      BY <1>4, <1>a, <2>1 DEF Raced, Foreign
    <2>4. pc[q] = "idle" /\ call[q].status = "EINDEX" =>
            \E id \in {call[q].src, call[q].tgt} : id \in index' /\ born'[id] # session'[q]
      BY <1>a, <1>b DEF Raced
    <2> QED
      BY <1>a, <2>2, <2>3, <2>4 DEF Raced
  <1> QED
    BY <1>1, <1>2, <1>3, <1>5

LEMMA CallsStep == Calls /\ [Next]_vars => Calls'
  <1> SUFFICES ASSUME Calls, [Next]_vars PROVE Calls'
    OBVIOUS
  <1>a. /\ Sessions /\ TypeOK /\ TablesOK
        /\ \A p \in Procs : /\ CallOK(p) /\ DrawsOK(p) /\ Mapped(p)
                            /\ Told(p) /\ Sees(p) /\ Raced(p)
    BY DEF Calls, Sessions, Typed, References
  <1>b. Sessions'
    BY <1>a, SessionsStep
  <1>1. ASSUME NEW p \in Procs, Step(p) \/ Environment(p) PROVE Calls'
    <2>1. /\ Mapped(p)' /\ tables \subseteq tables'
          /\ Told(p)' /\ Sees(p)' /\ Raced(p)'
      BY <1>1, <1>a, OwnMapped, OwnTold, OwnSees, OwnRaced
    <2>2. ASSUME NEW q \in Procs \ {p}
          PROVE  Mapped(q)' /\ Told(q)' /\ Sees(q)' /\ Raced(q)'
      BY <1>1, <1>a, <2>1, OthersCalls
    <2>3. TablesOK'
      <3> SUFFICES ASSUME NEW id \in index' PROVE SpaceOf(id) \in tables'
        BY DEF TablesOK, SpaceOf
      <3>1. CASE id \in index
        BY <1>a, <2>1, <3>1 DEF TablesOK
      <3>2. CASE id \notin index
        <4>1. Makes(p, id)
          BY <1>1, <1>a, <3>2, Growth
        <4>2. SpaceOf(id) \in cache[p]
          BY <1>a, <4>1 DEF Makes, Mapped, CallOK, InCall, PCs, EnteringSource
        <4> QED
          BY <1>a, <2>1, <4>2 DEF Mapped
      <3> QED
        BY <3>1, <3>2
    <2> QED
      BY <1>b, <2>1, <2>2, <2>3 DEF Calls, References
  <1>2. CASE UNCHANGED vars
    <2> USE <1>2 DEF vars, image, private, history
    <2>1. References'
      BY <1>a DEF References, TablesOK, Mapped
    <2>2. ASSUME NEW p \in Procs PROVE Told(p)' /\ Sees(p)' /\ Raced(p)'
      BY <1>a DEF Told, Sees, Raced, Foreign
    <2> QED
      BY <1>b, <2>1, <2>2 DEF Calls
  <1> QED
    BY <1>1, <1>2 DEF Next

LEMMA CallsAlways == Spec => []Calls
  BY CallsInit, CallsStep, PTL DEF Spec

(* A call that returns success has taught the whole fingerprint.           *)
THEOREM SuccessHasTaught == Spec => []SuccessTeaches
  <1>1. Calls => SuccessTeaches
    <2> SUFFICES ASSUME Calls, NEW p \in Procs,
                        pc[p] = "idle", call[p].op = "superpose",
                        call[p].status \in Success
                 PROVE  lessons[call[p].tgt][call[p].src] = Positions
      BY DEF SuccessTeaches
    <2>1. Told(p) /\ lessons \in [SymId -> [SymId -> SUBSET Positions]]
      BY DEF Calls, Sessions, Typed, TypeOK
    <2> QED
      BY <2>1 DEF Told
  <1> QED
    BY <1>1, CallsAlways, PTL

(* An open session finds every symbol it has linked through its cache.     *)
THEOREM SessionSeesItsOwn == Spec => []SessionSees
  <1>1. Calls => SessionSees
    <2> SUFFICES ASSUME Calls, NEW p \in Procs, NEW id \in SymId,
                        pc[p] # "down", born[id] = session[p]
                 PROVE  id \in index /\ SpaceOf(id) \in cache[p]
      BY DEF SessionSees
    <2> QED
      BY DEF Calls, Sessions, SessionsOK, Sees
  <1> QED
    BY <1>1, CallsAlways, PTL

(* An insertion is refused only because another session linked the symbol  *)
(* after the lookup missed it.                                             *)
THEOREM RefusedByARace == Spec => []OnlyARaceRefuses
  <1>1. Calls => OnlyARaceRefuses
    BY DEF Calls, Raced, OnlyARaceRefuses
  <1> QED
    BY <1>1, CallsAlways, PTL

-----------------------------------------------------------------------------
(* One process alone recalls what it has just taught.                      *)

\* A fingerprint names a dimension once.
Distinct == \A id \in index : \A i, j \in Positions :
               basis[id][i] = basis[id][j] => i = j

\* As far as the lesson of p has got, the target holds what it teaches.
Recalls(p, next) ==
  \A i \in Positions : i < next =>
     (basis[call[p].src][i] \in vector[call[p].tgt]
        <=> i <= Heads(dither[call[p].src]))

Recalled(p) ==
  /\ pc[p] \in {"learn", "store"} => Recalls(p, call[p].next)
  /\ pc[p] = "idle" /\ call[p].op = "superpose" /\ call[p].status \in Success =>
       /\ call[p].src \in index /\ call[p].tgt \in index
       /\ Recalls(p, BasisSize + 1)

Recall == /\ Calls /\ Learnt
          /\ Distinct /\ contested = {}
          /\ \A p \in Procs : Recalled(p)

\* How p comes to where the lesson counts.
LEMMA Arrivals ==
  ASSUME TypeOK, NEW p \in Procs, CallOK(p), Told(p), Step(p) \/ Environment(p)
  PROVE  /\ pc'[p] = "store" => LoadElement(p)
         /\ pc'[p] = "learn" => StoreElement(p) \/ call'[p].next = 1
         /\ pc'[p] = "idle" /\ call'[p].op = "superpose" /\ call'[p].status \in Success
              => FinishSuperpose(p)
  <1>a. pc \in [Procs -> PCs] /\ call \in [Procs -> Call]
    BY DEF TypeOK
  <1> USE DEF InCall, PCs, EnteringSource
  <1>r. ASSUME NEW status, Return(p, status)
        PROVE  /\ pc'[p] = "idle" /\ call'[p].status = status
               /\ call'[p].op = call[p].op
    BY <1>a, <1>r DEF Return, Goto, Settled, NewCall
  <1>v. ASSUME NEW last, NEW lost, Vanish(p, last, lost) PROVE pc'[p] = "down"
    BY <1>a, <1>v DEF Vanish, Goto
  <1>1. CASE Open(p)
    <2>1. pc'[p] = "idle" /\ call'[p] = NoCall
      BY <1>1, <1>a DEF Open, Goto
    <2> QED
      BY <2>1 DEF NoCall, NewCall
  <1>2. CASE Close(p) \/ Crash(p)
    BY <1>2, <1>v DEF Close, Crash
  <1>3. CASE CallSuperpose(p) \/ CallNamedVector(p)
    BY <1>3, <1>a DEF CallSuperpose, CallNamedVector, Goto
  <1>4. CASE Density(p) \/ Measure(p) \/ Subtract(p)
    <2>1. /\ pc[p] = "idle"
          /\ \/ /\ UNCHANGED pc
                /\ \E op \in {"density", "measure", "subtract"} : \E t, s, status :
                      call' = [call EXCEPT ![p] = NewCall(op, t, s, 0, 0, status)]
             \/ \E last, lost : Vanish(p, last, lost)
      BY <1>4 DEF Density, Measure, Subtract, Pairwise, Answer, Terminate
    <2>2. CASE UNCHANGED pc /\ \E op \in {"density", "measure", "subtract"} : \E t, s, status :
                      call' = [call EXCEPT ![p] = NewCall(op, t, s, 0, 0, status)]
      <3>1. call'[p].op # "superpose"
        BY <2>2, <1>a DEF NewCall
      <3> QED
        BY <2>1, <2>2, <3>1
    <2> QED
      BY <1>v, <2>1, <2>2
  <1>5. CASE EnsureTargetSpace(p) \/ EnsureSourceSpace(p)
    <2>1. Return(p, "EMEMORY") \/ pc'[p] \in {"source_space", "find_source"}
      BY <1>5, <1>a DEF EnsureTargetSpace, EnsureSourceSpace, EnsureSpaceByName, Goto
    <2> QED
      BY <1>r, <2>1 DEF Success
  <1>6. CASE FindSource(p) \/ FindTarget(p)
    <2>1. /\ pc[p] \in {"find_source", "find_target"}
          /\ \/ Return(p, "AOLD") /\ call[p].op = "namedvector"
             \/ pc'[p] \in {"construct_source", "find_target", "construct_target"}
             \/ pc'[p] = "learn" /\ call' = call
             \/ \E last, lost : Vanish(p, last, lost)
      BY <1>6, <1>a DEF FindSource, FindTarget, LookupFails, Terminate, Goto
    <2> QED
      BY <1>r, <1>v, <2>1 DEF Told
  <1>7. CASE ConstructSource(p) \/ ConstructTarget(p)
    <2>1. \/ Return(p, "EMEMORY")
          \/ pc'[p] \in {"link_source", "link_target"}
          \/ \E last, lost : Vanish(p, last, lost)
      BY <1>7, <1>a DEF ConstructSource, ConstructTarget, ConstructSymbol, Goto
    <2> QED
      BY <1>r, <1>v, <2>1 DEF Success
  <1>8. CASE LinkSource(p) \/ LinkTarget(p)
    <2>1. \/ Return(p, "EINDEX")
          \/ Return(p, "ANEW") /\ call[p].op = "namedvector"
          \/ /\ pc'[p] \in {"find_target", "learn"}
             /\ call' = [call EXCEPT ![p] = Settled(call[p], "ANEW")]
      BY <1>8, <1>a DEF LinkSource, LinkTarget, LinkSymbol, Goto
    <2>2. CASE /\ pc'[p] \in {"find_target", "learn"}
               /\ call' = [call EXCEPT ![p] = Settled(call[p], "ANEW")]
      <3>1. call'[p].next = 1
        BY <2>2, <1>a DEF Settled, NewCall
      <3> QED
        BY <2>2, <3>1
    <2> QED
      BY <1>r, <2>1, <2>2 DEF Success
  <1>9. CASE LoadElement(p)
    BY <1>9, <1>a DEF LoadElement, Goto
  <1>10. CASE StoreElement(p)
    BY <1>10, <1>a DEF StoreElement, Goto
  <1>11. CASE FinishSuperpose(p)
    BY <1>11, <1>a, <1>r DEF FinishSuperpose
  <1> QED
    BY <1>1, <1>2, <1>3, <1>4, <1>5, <1>6, <1>7, <1>8, <1>9, <1>10, <1>11
    DEF Step, Environment

LEMMA RecallInit == Init => Recall
  <1> SUFFICES ASSUME Init PROVE Recall
    OBVIOUS
  <1>1. Calls /\ Learnt
    BY CallsInit, LearntInit
  <1>2. Distinct /\ contested = {} /\ \A p \in Procs : Recalled(p)
    BY DEF Init, Distinct, Recalled
  <1> QED
    BY <1>1, <1>2 DEF Recall

\* Storing position i settles it and disturbs none of those before.
LEMMA StoreRecalls ==
  ASSUME TypeOK, LinkedOK, Distinct, contested = {}, NEW p \in Procs, CallOK(p),
         LoadedOK, Recalled(p), StoreElement(p)
  PROVE  Recalled(p)'
  <1>n. BasisSize \in Nat /\ Positions = 1 .. BasisSize
    BY VectorAssumption DEF Positions
  <1>1. PICK t \in index, s \in index, i \in Positions :
           t = call[p].tgt /\ s = call[p].src /\ i = call[p].next
    BY <1>n DEF StoreElement, CallOK, TypeOK, Call
  <1>2. PICK h \in Int, bit \in Dims : h = Heads(dither[s]) /\ bit = basis[s][i]
    <2>1. basis[s][i] \in Dims
      BY <1>1 DEF LinkedOK, Fingerprint
    <2>2. Heads(dither[s]) \in Int
      BY VectorAssumption DEF TypeOK, Heads
    <2> QED
      BY <2>1, <2>2
  <1>3. /\ pc[p] = "store" /\ pc'[p] = "learn"
        /\ basis' = basis /\ dither' = dither
        /\ call' = [call EXCEPT ![p].next = i + 1, ![p].word = {}]
        /\ vector' = [vector EXCEPT ![t] =
                        (@ \ Element(bit)) \cup Written(call[p].word, bit, i, h)]
    BY <1>1, <1>2 DEF StoreElement, Goto, TypeOK
  <1>4. call'[p].tgt = t /\ call'[p].src = s /\ call'[p].next = i + 1
    BY <1>1, <1>3 DEF TypeOK, Call
  <1>5. call[p].word = vector[t] \cap Element(bit)
    BY <1>1, <1>2, <1>3 DEF LoadedOK, Loaded
  <1>6. vector'[t] = IF i <= h THEN vector[t] \cup {bit} ELSE vector[t] \ {bit}
    <2>1. vector'[t] = (vector[t] \ Element(bit)) \cup Written(call[p].word, bit, i, h)
      BY <1>3 DEF TypeOK
    <2>2. bit \in Element(bit)
      BY DEF Element
    <2> HIDE DEF Element
    <2> QED
      BY <1>5, <2>1, <2>2 DEF Written
  <1>7. ASSUME NEW j \in Positions, j < i + 1
        PROVE  basis[s][j] \in vector'[t] <=> j <= h
    <2>1. CASE j = i
      BY <1>2, <1>6, <2>1
    <2>2. CASE j # i
      <3>1. j < i
        BY <1>n, <1>7, <2>2
      <3>2. basis[s][j] # bit
        BY <1>2, <2>2 DEF Distinct
      <3>3. basis[s][j] \in vector[t] <=> j <= h
        BY <1>1, <1>2, <1>3, <3>1 DEF Recalled, Recalls
      <3> QED
        BY <1>6, <3>2, <3>3
    <2> QED
      BY <2>1, <2>2
  <1>8. Recalls(p, call[p].next)'
    BY <1>2, <1>3, <1>4, <1>7 DEF Recalls, Heads
  <1> QED
    BY <1>3, <1>8 DEF Recalled

LEMMA RecallStep ==
  ASSUME NEW o, Procs = {o}
  PROVE  Recall /\ [Next]_vars => Recall'
  <1> SUFFICES ASSUME Recall, [Next]_vars PROVE Recall'
    OBVIOUS
  <1>a. /\ Calls /\ Learnt /\ TypeOK /\ LinkedOK /\ DrawnOK /\ LoadedOK
        /\ Distinct /\ contested = {}
        /\ \A p \in Procs : CallOK(p) /\ Told(p) /\ Recalled(p)
    BY DEF Recall, Calls, Sessions, Typed, Learnt, Lessons
  <1>b. Calls' /\ Learnt'
    BY <1>a, CallsStep, LearntStep
  <1>n. BasisSize \in Nat /\ Positions = 1 .. BasisSize
    BY VectorAssumption DEF Positions
  <1>1. ASSUME NEW p \in Procs, Step(p) \/ Environment(p)
        PROVE  Distinct' /\ contested' = {} /\ Recalled(p)'
    <2>1. contested' = {}
      <3>1. \A t : ~Race(p, t)
        BY DEF Race
      <3> QED
        BY <1>1, <1>a, <3>1, ImageStep DEF Symbols, Links, LoadElement, StoreElement
    <2>2. Distinct'
      <3>1. CASE \E id \in SymId : Links(p, id)
        <4>1. PICK id \in SymId : Links(p, id)
          BY <3>1
        <4>2. /\ index' = index \cup {id}
              /\ basis' = [basis EXCEPT ![id] = call[p].fresh]
              /\ Linking(p)
          BY <4>1 DEF Links, Linking
        <4>3. shuffles[p] \in 1 .. MaxShuffles /\ call[p].fresh = Shuffles[shuffles[p]]
          BY <1>a, <4>2, ShuffleAssumption DEF DrawnOK, TypeOK
        <4>4. \A i, j \in Positions : call[p].fresh[i] = call[p].fresh[j] => i = j
          BY <4>3, ShuffleAssumption
        <4>5. /\ basis'[id] = call[p].fresh
              /\ \A x \in SymId : x # id => basis'[x] = basis[x]
          BY <1>a, <4>2 DEF TypeOK
        <4> QED
          BY <1>a, <4>2, <4>4, <4>5 DEF Distinct, TypeOK
      <3>2. CASE UNCHANGED <<index, basis>>
        BY <1>a, <3>2 DEF Distinct
      <3> QED
        BY <1>1, <1>a, <3>1, <3>2, ImageStep DEF Symbols, LoadElement, StoreElement, image
    <2>3. Recalled(p)'
      <3>1. CASE StoreElement(p)
        BY <1>a, <3>1, StoreRecalls
      <3>2. CASE LoadElement(p)
        <4>1. /\ pc[p] = "learn" /\ pc'[p] = "store"
              /\ UNCHANGED <<basis, dither, vector>>
              /\ \E word : call' = [call EXCEPT ![p].word = word]
          BY <1>a, <3>2 DEF LoadElement, Goto, image, TypeOK
        <4>2. /\ call'[p].tgt = call[p].tgt /\ call'[p].src = call[p].src
              /\ call'[p].next = call[p].next
          BY <1>a, <4>1 DEF TypeOK, Call
        <4> QED
          BY <1>a, <4>1, <4>2 DEF Recalled, Recalls, Heads
      <3>3. CASE FinishSuperpose(p)
        <4>1. /\ pc[p] = "learn" /\ pc'[p] = "idle"
              /\ UNCHANGED <<index, basis, dither, vector>>
              /\ call[p].next > BasisSize
              /\ call' = [call EXCEPT ![p] = Settled(call[p], call[p].status)]
          BY <1>a, <3>3 DEF FinishSuperpose, LessonOver, Return, Goto, image, TypeOK
        <4>2. call'[p].tgt = call[p].tgt /\ call'[p].src = call[p].src
          BY <1>a, <4>1 DEF Settled, NewCall, TypeOK
        <4>3. call[p].src \in index /\ call[p].tgt \in index /\ call[p].next \in Nat
          BY <1>a, <1>n, <4>1 DEF CallOK, TypeOK, Call
        <4>4. Recalls(p, BasisSize + 1)'
          BY <1>a, <1>n, <4>1, <4>2, <4>3 DEF Recalled, Recalls, Heads
        <4> QED
          BY <4>1, <4>2, <4>3, <4>4 DEF Recalled
      <3>4. CASE ~StoreElement(p) /\ ~LoadElement(p) /\ ~FinishSuperpose(p)
        <4>1. /\ pc'[p] # "store"
              /\ pc'[p] = "learn" => call'[p].next = 1
              /\ ~(pc'[p] = "idle" /\ call'[p].op = "superpose"
                     /\ call'[p].status \in Success)
          BY <1>1, <1>a, <3>4, Arrivals
        <4> QED
          BY <1>n, <4>1 DEF Recalled, Recalls
      <3> QED
        BY <3>1, <3>2, <3>3, <3>4
    <2> QED
      BY <2>1, <2>2, <2>3
  <1>2. CASE UNCHANGED vars
    <2>1. Distinct' /\ contested' = {} /\ \A p \in Procs : Recalled(p)'
      BY <1>2, <1>a DEF Distinct, Recalled, Recalls, Heads, vars, image, private, history
    <2> QED
      BY <1>b, <2>1 DEF Recall
  <1> QED
    BY <1>1, <1>2, <1>b DEF Next, Recall

(* Where one process has the image to itself, a target holds after a       *)
(* successful call just what the source's fingerprint and dither say.      *)
THEOREM OneProcessRecalls ==
  ASSUME NEW o, Procs = {o}
  PROVE  Spec => []RecallAfterSuperpose
  <1>1. Recall => RecallAfterSuperpose
    <2> SUFFICES ASSUME Recall, NEW p \in Procs,
                        pc[p] = "idle", call[p].op = "superpose",
                        call[p].status \in Success, NEW i \in Positions
                 PROVE  basis[call[p].src][i] \in vector[call[p].tgt]
                          <=> i <= Heads(dither[call[p].src])
      BY DEF RecallAfterSuperpose
    <2>1. i < BasisSize + 1
      BY VectorAssumption DEF Positions
    <2> QED
      BY <2>1 DEF Recall, Recalled, Recalls
  <1> QED
    BY <1>1, RecallInit, RecallStep, PTL DEF Spec

-----------------------------------------------------------------------------
(* The memory behind the references of superpose: SymbolPlaces.            *)

AtLink == {"link_source", "link_target"}
Sourced == {"find_target", "construct_target", "link_target", "learn", "store"}

PlacesTyped ==
  /\ used \subseteq Places
  /\ place \in [SymId -> Places \cup {None}]
  /\ made \in [Procs -> Places \cup {None}]
  /\ held \in [Procs -> [Roles -> Places \cup {None}]]

\* No two symbols, linked or in the making, have one place.
PlacesApart ==
  /\ \A x \in index : place[x] \in used
  /\ \A x, y \in index : place[x] = place[y] => x = y
  /\ \A p \in Procs : \A x \in index : place[x] # made[p]
  /\ \A p, q \in Procs : made[p] = made[q] => p = q \/ made[p] = None

MadeOK(p) ==
  /\ pc[p] \in AtLink => made[p] \in used
  /\ pc[p] \notin AtLink => made[p] = None

\* What p has referred to since its lookups and insertions.
HeldOK(p) ==
  /\ pc[p] \in Sourced => held[p]["s"] = place[call[p].src]
  /\ pc[p] \in {"learn", "store"} => held[p]["t"] = place[call[p].tgt]

PlacesOK ==
  /\ PlacesTyped
  /\ PlacesApart
  /\ \A p \in Procs : MadeOK(p) /\ HeldOK(p)

LEMMA PlacesInit == PlacedInit => PlacesOK
  BY NameAssumption
  DEF PlacedInit, Init, PlacesOK, PlacesTyped, PlacesApart, MadeOK, HeldOK, AtLink,
      Sourced, NoReferences

\* A placed step is a step of the database.
LEMMA PlacedIsStep ==
  ASSUME NEW p \in Procs, PlacedStep(p)
  PROVE  Step(p) \/ Environment(p)
  BY DEF PlacedStep, OtherStep, Step

\* The steps that touch no place leave p where its references still hold.
LEMMA OtherShape ==
  ASSUME TypeOK, NEW p \in Procs, OtherStep(p)
  PROVE  /\ index' = index
         /\ pc'[p] \notin AtLink
         /\ pc'[p] \in InCall => pc[p] \notin AtLink
         /\ pc'[p] \in Sourced =>
              /\ pc[p] \in {"learn", "store"}
              /\ pc'[p] \in {"learn", "store"}
              /\ call'[p].src = call[p].src
              /\ call'[p].tgt = call[p].tgt
  <1> USE DEF TypeOK, AtLink, Sourced, InCall, PCs, EnteringSource, Goto
  <1>1. CASE Open(p)
    BY <1>1 DEF Open, image
  <1>2. CASE Close(p) \/ Crash(p)
    BY <1>2 DEF Close, Crash, Vanish, image
  <1>3. CASE CallSuperpose(p) \/ CallNamedVector(p)
    BY <1>3 DEF CallSuperpose, CallNamedVector, image
  <1>4. CASE Density(p) \/ Measure(p) \/ Subtract(p)
    BY <1>4 DEF Density, Measure, Subtract, Pairwise, Answer, Terminate, Vanish, image
  <1>5. CASE EnsureTargetSpace(p) \/ EnsureSourceSpace(p)
    BY <1>5 DEF EnsureTargetSpace, EnsureSourceSpace, EnsureSpaceByName, Return
  <1>6. CASE LoadElement(p)
    <2>1. call' = [call EXCEPT ![p].word = vector[call[p].tgt]
                                 \cap Element(basis[call[p].src][call[p].next])]
      BY <1>6 DEF LoadElement
    <2>2. call'[p].src = call[p].src /\ call'[p].tgt = call[p].tgt
      BY <2>1 DEF Call
    <2> QED
      BY <1>6, <2>2 DEF LoadElement, image
  <1>7. CASE StoreElement(p)
    <2>1. call' = [call EXCEPT ![p].next = call[p].next + 1, ![p].word = {}]
      BY <1>7 DEF StoreElement
    <2>2. call'[p].src = call[p].src /\ call'[p].tgt = call[p].tgt
      BY <2>1 DEF Call
    <2> QED
      BY <1>7, <2>2 DEF StoreElement
  <1>8. CASE FinishSuperpose(p)
    BY <1>8 DEF FinishSuperpose, Return, image
  <1> QED
    BY <1>1, <1>2, <1>3, <1>4, <1>5, <1>6, <1>7, <1>8 DEF OtherStep, Environment

\* A lookup goes on with what it found, or with the insertion.
LEMMA LookUpShape ==
  ASSUME TypeOK, NEW p \in Procs
  PROVE  /\ FindSource(p) =>
              /\ index' = index
              /\ pc[p] = "find_source"
              /\ pc'[p] \in {"construct_source", "find_target", "idle", "down"}
              /\ pc'[p] = "find_target" => call'[p] = call[p]
         /\ FindTarget(p) =>
              /\ index' = index
              /\ pc[p] = "find_target"
              /\ pc'[p] \in {"construct_target", "learn", "down"}
              /\ pc'[p] # "down" => call'[p] = call[p]
  BY DEF TypeOK, FindSource, FindTarget, LookupFails, Terminate, Vanish, Return, Goto, image

LEMMA ConstructShape ==
  ASSUME TypeOK, NEW p \in Procs, NEW at, NEW id, NEW next \in InCall,
         ConstructSymbol(p, at, id, next)
  PROVE  /\ index' = index
         /\ pc[p] = at
         /\ pc'[p] \in {next, "idle", "down"}
         /\ pc'[p] = next =>
              call'[p].src = call[p].src /\ call'[p].tgt = call[p].tgt
  <1>a. /\ call \in [Procs -> Call] /\ pc \in [Procs -> PCs]
        /\ next # "idle" /\ next # "down"
    BY DEF TypeOK, InCall
  <1>b. index' = index /\ pc[p] = at
    BY DEF ConstructSymbol, image
  <1>1. CASE /\ call' = [call EXCEPT ![p].fresh = Shuffles[shuffles[p] + 1]]
             /\ Goto(p, next)
    BY <1>1, <1>a, <1>b DEF Goto, Call
  <1>2. CASE pc' = [pc EXCEPT ![p] = "idle"] \/ pc' = [pc EXCEPT ![p] = "down"]
    BY <1>2, <1>a, <1>b
  <1> QED
    BY <1>1, <1>2 DEF ConstructSymbol, Return, Vanish, Goto

LEMMA LinkShape ==
  ASSUME TypeOK, NEW p \in Procs, NEW at, NEW id, NEW next \in InCall,
         LinkSymbol(p, at, id, next)
  PROVE  /\ pc[p] = at
         /\ Refused(id) => index' = index /\ pc'[p] = "idle"
         /\ ~Refused(id) => index' = index \cup {id} /\ pc'[p] \in {next, "idle"}
         /\ call'[p].src = call[p].src /\ call'[p].tgt = call[p].tgt
  <1>a. call \in [Procs -> Call] /\ pc \in [Procs -> PCs]
    BY DEF TypeOK
  <1>1. \E status : call' = [call EXCEPT ![p] = Settled(call[p], status)]
    BY DEF LinkSymbol, Return
  <1>2. call'[p].src = call[p].src /\ call'[p].tgt = call[p].tgt
    BY <1>1, <1>a DEF Settled, NewCall
  <1> QED
    BY <1>2, <1>a DEF LinkSymbol, Return, Goto

\* A step that leaves the places of linked symbols as they are.
LEMMA KeptPlaces ==
  ASSUME Typed, PlacesOK, NEW p \in Procs, PlacedStep(p),
         index' = index, place' = place, used' = used,
         made' = [made EXCEPT ![p] = None],
         pc'[p] \notin AtLink, held' \in [Procs -> [Roles -> Places \cup {None}]],
         \A q \in Procs \ {p} : held'[q] = held[q],
         HeldOK(p)'
  PROVE  PlacesOK'
  <1>a. TypeOK /\ (Step(p) \/ Environment(p))
    BY PlacedIsStep DEF Typed
  <1>b. PlacesTyped /\ PlacesApart /\ \A q \in Procs : MadeOK(q) /\ HeldOK(q)
    BY DEF PlacesOK
  <1>c. \A q \in Procs \ {p} : pc'[q] = pc[q] /\ call'[q] = call[q]
    BY <1>a, Frame
  <1>d. made'[p] = None /\ \A q \in Procs \ {p} : made'[q] = made[q]
    BY <1>b DEF PlacesTyped
  <1>1. PlacesTyped'
    BY <1>b DEF PlacesTyped
  <1>2. PlacesApart'
    <2>1. None \notin used
      BY <1>b, PlaceAssumption DEF PlacesTyped
    <2> QED
      BY <1>b, <1>d, <2>1 DEF PlacesApart
  <1>3. ASSUME NEW q \in Procs PROVE MadeOK(q)' /\ HeldOK(q)'
    <2>1. CASE q = p
      BY <1>d, <2>1 DEF MadeOK
    <2>2. CASE q # p
      <3>1. pc'[q] = pc[q] /\ call'[q] = call[q] /\ made'[q] = made[q] /\ held'[q] = held[q]
        BY <1>c, <1>d, <2>2
      <3> QED
        BY <1>b, <3>1 DEF MadeOK, HeldOK
    <2> QED
      BY <2>1, <2>2
  <1> QED
    BY <1>1, <1>2, <1>3 DEF PlacesOK

LEMMA ElsewhereKeeps ==
  ASSUME Typed, PlacesOK, NEW p \in Procs, PlacedStep(p), Elsewhere(p),
         index' = index, pc'[p] \notin AtLink,
         pc'[p] \in InCall => pc[p] \notin AtLink,
         pc'[p] \in Sourced => /\ pc[p] \in {"learn", "store"}
                               /\ call'[p].src = call[p].src
                               /\ call'[p].tgt = call[p].tgt
  PROVE  PlacesOK'
  <1>b. PlacesTyped /\ MadeOK(p) /\ HeldOK(p)
    BY DEF PlacesOK
  <1>1. place' = place /\ used' = used
    BY DEF Elsewhere
  <1>2. made' = [made EXCEPT ![p] = None]
    <2>1. made' = [made EXCEPT ![p] = IF pc'[p] \in InCall THEN made[p] ELSE None]
      BY DEF Elsewhere
    <2>2. pc'[p] \in InCall => made[p] = None
      BY <1>b DEF MadeOK
    <2> QED
      BY <2>1, <2>2
  <1>3. held' = [held EXCEPT ![p] = IF pc'[p] \in InCall THEN held[p] ELSE NoReferences]
    BY DEF Elsewhere
  <1>4. NoReferences \in [Roles -> Places \cup {None}]
    BY DEF NoReferences
  <1>5. held' \in [Procs -> [Roles -> Places \cup {None}]]
    BY <1>b, <1>3, <1>4 DEF PlacesTyped
  <1>6. \A q \in Procs \ {p} : held'[q] = held[q]
    BY <1>b, <1>3 DEF PlacesTyped
  <1>7. HeldOK(p)'
    <2>1. pc'[p] \in Sourced => held'[p] = held[p]
      BY <1>b, <1>3 DEF PlacesTyped, Sourced, InCall, PCs, EnteringSource
    <2> QED
      BY <1>b, <1>1, <2>1 DEF HeldOK, Sourced
  <1> QED
    BY <1>1, <1>2, <1>5, <1>6, <1>7, KeptPlaces

\* What Refer leaves in the references of each process.
LEMMA ReferTyped ==
  ASSUME PlacesTyped, NEW p \in Procs, NEW r \in Roles, NEW a \in Places \cup {None},
         Refer(p, r, a)
  PROVE  /\ held' \in [Procs -> [Roles -> Places \cup {None}]]
         /\ \A q \in Procs \ {p} : held'[q] = held[q]
         /\ pc'[p] \in InCall => /\ held'[p][r] = a
                                 /\ \A o \in Roles \ {r} : held'[p][o] = held[p][o]
  <1>1. held' = [held EXCEPT ![p] = IF pc'[p] \in InCall
                                    THEN [held[p] EXCEPT ![r] = a] ELSE NoReferences]
    BY DEF Refer
  <1>2. NoReferences \in [Roles -> Places \cup {None}]
    BY DEF NoReferences
  <1>3. held[p] \in [Roles -> Places \cup {None}]
    BY DEF PlacesTyped
  <1>4. [held[p] EXCEPT ![r] = a] \in [Roles -> Places \cup {None}]
    BY <1>3
  <1>5. held' \in [Procs -> [Roles -> Places \cup {None}]]
    BY <1>1, <1>2, <1>4 DEF PlacesTyped
  <1>6. \A q \in Procs \ {p} : held'[q] = held[q]
    BY <1>1 DEF PlacesTyped
  <1>7. pc'[p] \in InCall => held'[p] = [held[p] EXCEPT ![r] = a]
    BY <1>1 DEF PlacesTyped
  <1> QED
    BY <1>3, <1>5, <1>6, <1>7

LEMMA LookUpKeeps ==
  ASSUME Typed, PlacesOK, NEW p \in Procs, PlacedStep(p),
         \/ FindSource(p) /\ LookUp(p, call[p].src, "s")
         \/ FindTarget(p) /\ LookUp(p, call[p].tgt, "t")
  PROVE  PlacesOK'
  <1>b. PlacesTyped /\ MadeOK(p) /\ HeldOK(p) /\ TypeOK /\ CallOK(p)
    BY DEF PlacesOK, Typed
  <1>1. place' = place /\ used' = used /\ made' = made
    BY DEF LookUp
  <1>2. /\ index' = index
        /\ pc[p] \in {"find_source", "find_target"}
        /\ pc'[p] \in {"construct_source", "find_target", "construct_target", "learn",
                       "idle", "down"}
    BY <1>b, LookUpShape
  <1>3. made' = [made EXCEPT ![p] = None]
    BY <1>b, <1>1, <1>2 DEF MadeOK, AtLink, PlacesTyped
  <1>4. /\ call[p].src \in SymId /\ call[p].tgt \in SymId
    BY <1>b, <1>2 DEF CallOK, InCall, PCs, EnteringSource
  <1>5. place[call[p].src] \in Places \cup {None} /\ place[call[p].tgt] \in Places \cup {None}
    BY <1>b, <1>4 DEF PlacesTyped
  <1>6. {"s", "t"} = Roles
    BY DEF Roles
  <1>7. CASE FindSource(p) /\ LookUp(p, call[p].src, "s")
    <2>1. Refer(p, "s", place[call[p].src])
      BY <1>7 DEF LookUp
    <2>2. /\ held' \in [Procs -> [Roles -> Places \cup {None}]]
          /\ \A q \in Procs \ {p} : held'[q] = held[q]
          /\ pc'[p] \in InCall => held'[p]["s"] = place[call[p].src]
      BY <1>b, <1>5, <1>6, <2>1, ReferTyped
    <2>3. HeldOK(p)'
      BY <1>b, <1>1, <1>7, <2>2, LookUpShape
      DEF HeldOK, Sourced, InCall, PCs, EnteringSource
    <2> QED
      BY <1>1, <1>2, <1>3, <2>2, <2>3, KeptPlaces DEF AtLink
  <1>8. CASE FindTarget(p) /\ LookUp(p, call[p].tgt, "t")
    <2>1. Refer(p, "t", place[call[p].tgt])
      BY <1>8 DEF LookUp
    <2>2. /\ held' \in [Procs -> [Roles -> Places \cup {None}]]
          /\ \A q \in Procs \ {p} : held'[q] = held[q]
          /\ pc'[p] \in InCall => /\ held'[p]["t"] = place[call[p].tgt]
                                  /\ held'[p]["s"] = held[p]["s"]
      BY <1>b, <1>5, <1>6, <2>1, ReferTyped
    <2>3. HeldOK(p)'
      BY <1>b, <1>1, <1>8, <2>2, LookUpShape
      DEF HeldOK, Sourced, InCall, PCs, EnteringSource
    <2> QED
      BY <1>1, <1>2, <1>3, <2>2, <2>3, KeptPlaces DEF AtLink
  <1> QED
    BY <1>7, <1>8

LEMMA ConstructKeeps ==
  ASSUME Typed, PlacesOK, NEW p \in Procs, PlacedStep(p),
         \/ ConstructSource(p) /\ Construct(p, "link_source")
         \/ ConstructTarget(p) /\ Construct(p, "link_target")
  PROVE  PlacesOK'
  <1>a. TypeOK /\ (Step(p) \/ Environment(p))
    BY PlacedIsStep DEF Typed
  <1>b. PlacesTyped /\ PlacesApart /\ \A q \in Procs : MadeOK(q) /\ HeldOK(q)
    BY DEF PlacesOK
  <1>c. \A q \in Procs \ {p} : pc'[q] = pc[q] /\ call'[q] = call[q]
    BY <1>a, Frame
  <1>1. PICK next \in AtLink :
          /\ Construct(p, next)
          /\ index' = index
          /\ pc[p] = (IF next = "link_source" THEN "construct_source" ELSE "construct_target")
          /\ pc'[p] \in {next, "idle", "down"}
          /\ pc'[p] = next => call'[p].src = call[p].src /\ call'[p].tgt = call[p].tgt
    <2>1. {"link_source", "link_target"} \subseteq InCall \cap AtLink
      BY DEF InCall, PCs, AtLink
    <2>2. CASE ConstructSource(p) /\ Construct(p, "link_source")
      BY <1>a, <2>1, <2>2, ConstructShape DEF ConstructSource
    <2>3. CASE ConstructTarget(p) /\ Construct(p, "link_target")
      BY <1>a, <2>1, <2>3, ConstructShape DEF ConstructTarget
    <2> QED
      BY <2>2, <2>3
  <1>2. CASE pc'[p] # next
    <2>1. Elsewhere(p)
      BY <1>1, <1>2 DEF Construct
    <2>2. pc'[p] \in {"idle", "down"}
      BY <1>1, <1>2
    <2> QED
      BY <1>1, <2>1, <2>2, ElsewhereKeeps DEF AtLink, Sourced, InCall
  <1>3. CASE pc'[p] = next
    <2>1. PICK a \in Places \ used :
            used' = used \cup {a} /\ made' = [made EXCEPT ![p] = a]
      BY <1>1, <1>3 DEF Construct
    <2>2. place' = place /\ held' = held
      BY <1>1, <1>3 DEF Construct
    <2>3. made'[p] = a /\ \A q \in Procs \ {p} : made'[q] = made[q]
      BY <1>b, <2>1 DEF PlacesTyped
    <2>4. None \notin Places
      BY PlaceAssumption
    <2>5. PlacesTyped'
      BY <1>b, <2>1, <2>2 DEF PlacesTyped
    <2>6. ASSUME NEW q \in Procs \ {p} PROVE made[q] # a
      BY <1>b, <2>1, <2>4, <2>6 DEF MadeOK
    <2>7. PlacesApart'
      <3>1. /\ \A x \in index' : place'[x] \in used'
            /\ \A x, y \in index' : place'[x] = place'[y] => x = y
        BY <1>b, <1>1, <2>1, <2>2 DEF PlacesApart
      <3>2. \A q \in Procs : \A x \in index' : place'[x] # made'[q]
        BY <1>b, <1>1, <2>1, <2>2, <2>3 DEF PlacesApart
      <3>3. \A o, q \in Procs : made'[o] = made'[q] => o = q \/ made'[o] = None
        BY <1>b, <2>3, <2>6 DEF PlacesApart
      <3> QED
        BY <3>1, <3>2, <3>3 DEF PlacesApart
    <2>8. ASSUME NEW q \in Procs PROVE MadeOK(q)' /\ HeldOK(q)'
      <3>1. CASE q = p
        <4>1. MadeOK(p)'
          BY <1>1, <1>3, <2>1, <2>3 DEF MadeOK
        <4>2. HeldOK(p)'
          BY <1>b, <1>1, <1>3, <2>2 DEF HeldOK, AtLink, Sourced
        <4> QED
          BY <3>1, <4>1, <4>2
      <3>2. CASE q # p
        BY <1>b, <1>c, <2>1, <2>2, <2>3, <3>2 DEF MadeOK, HeldOK
      <3> QED
        BY <3>1, <3>2
    <2> QED
      BY <2>5, <2>7, <2>8 DEF PlacesOK
  <1> QED
    BY <1>2, <1>3

LEMMA InsertKeeps ==
  ASSUME Typed, PlacesOK, NEW p \in Procs, PlacedStep(p),
         NEW id, NEW next, NEW r \in Roles,
         Insert(p, id, r),
         \/ /\ LinkSource(p)
            /\ id = call[p].src /\ next = "find_target" /\ r = "s"
         \/ /\ LinkTarget(p)
            /\ id = call[p].tgt /\ next = "learn" /\ r = "t"
  PROVE  PlacesOK'
  <1>a. TypeOK /\ (Step(p) \/ Environment(p)) /\ \A q \in Procs : CallOK(q)
    BY PlacedIsStep DEF Typed
  <1>b. PlacesTyped /\ PlacesApart /\ \A q \in Procs : MadeOK(q) /\ HeldOK(q)
    BY DEF PlacesOK
  <1>c. \A q \in Procs \ {p} : pc'[q] = pc[q] /\ call'[q] = call[q]
    BY <1>a, Frame
  <1>1. /\ pc[p] = (IF r = "s" THEN "link_source" ELSE "link_target")
        /\ Refused(id) => index' = index /\ pc'[p] = "idle"
        /\ ~Refused(id) => index' = index \cup {id} /\ pc'[p] \in {next, "idle"}
        /\ call'[p].src = call[p].src /\ call'[p].tgt = call[p].tgt
    <2>1. {"find_target", "learn"} \subseteq InCall
      BY DEF InCall, PCs
    <2>2. CASE LinkSource(p) /\ id = call[p].src /\ next = "find_target" /\ r = "s"
      BY <1>a, <2>1, <2>2, LinkShape DEF LinkSource
    <2>3. CASE LinkTarget(p) /\ id = call[p].tgt /\ next = "learn" /\ r = "t"
      BY <1>a, <2>1, <2>3, LinkShape DEF LinkTarget
    <2> QED
      BY <2>2, <2>3
  <1>2. id \in SymId
    BY <1>a, <1>1 DEF CallOK, InCall, PCs, EnteringSource
  <1>3. made[p] \in used /\ used \subseteq Places /\ None \notin Places
    BY <1>b, <1>1, PlaceAssumption DEF MadeOK, AtLink, PlacesTyped
  <1>4. /\ made' = [made EXCEPT ![p] = None]
        /\ made'[p] = None
        /\ \A q \in Procs \ {p} : made'[q] = made[q]
    BY <1>b DEF Insert, PlacesTyped
  <1>5. /\ \A q \in Procs : pc[q] \in AtLink /\ q # p => made[q] \in used \ {made[p]}
        /\ \A x \in index : place[x] \in used \ {made[p]}
    BY <1>b, <1>3 DEF PlacesApart, MadeOK
  <1>6. pc'[p] \notin AtLink
    BY <1>1 DEF AtLink
  <1>7. CASE Refused(id)
    <2>1. used' = used \ {made[p]} /\ place' = place /\ Refer(p, r, None)
      BY <1>7 DEF Insert
    <2>2. /\ held' \in [Procs -> [Roles -> Places \cup {None}]]
          /\ \A q \in Procs \ {p} : held'[q] = held[q]
      BY <1>b, <2>1, ReferTyped
    <2>3. PlacesTyped'
      BY <1>b, <1>4, <2>1, <2>2 DEF PlacesTyped
    <2>4. PlacesApart'
      <3>1. index' = index
        BY <1>1, <1>7
      <3>2. /\ \A x \in index' : place'[x] \in used'
            /\ \A x, y \in index' : place'[x] = place'[y] => x = y
        BY <1>b, <1>5, <2>1, <3>1 DEF PlacesApart
      <3>3. \A q \in Procs : \A x \in index' : place'[x] # made'[q]
        BY <1>b, <1>3, <1>4, <1>5, <2>1, <3>1 DEF PlacesApart
      <3>4. \A o, q \in Procs : made'[o] = made'[q] => o = q \/ made'[o] = None
        BY <1>b, <1>4 DEF PlacesApart
      <3> QED
        BY <3>2, <3>3, <3>4 DEF PlacesApart
    <2>5. ASSUME NEW q \in Procs PROVE MadeOK(q)' /\ HeldOK(q)'
      <3>1. CASE q = p
        BY <1>1, <1>4, <1>6, <1>7, <3>1 DEF MadeOK, HeldOK, Sourced
      <3>2. CASE q # p
        BY <1>b, <1>c, <1>4, <1>5, <2>1, <2>2, <3>2 DEF MadeOK, HeldOK
      <3> QED
        BY <3>1, <3>2
    <2> QED
      BY <2>3, <2>4, <2>5 DEF PlacesOK
  <1>8. CASE ~Refused(id)
    <2>1. /\ used' = used /\ place' = [place EXCEPT ![id] = made[p]]
          /\ Refer(p, r, made[p])
      BY <1>8 DEF Insert, Settle
    <2>2. /\ held' \in [Procs -> [Roles -> Places \cup {None}]]
          /\ \A q \in Procs \ {p} : held'[q] = held[q]
          /\ pc'[p] \in InCall => /\ held'[p][r] = made[p]
                                  /\ \A o \in Roles \ {r} : held'[p][o] = held[p][o]
      BY <1>b, <1>3, <2>1, ReferTyped
    <2>3. /\ index' = index \cup {id} /\ id \notin index
          /\ place'[id] = made[p]
          /\ \A x \in SymId \ {id} : place'[x] = place[x]
          /\ index \subseteq SymId
      BY <1>a, <1>b, <1>1, <1>2, <1>8, <2>1 DEF Refused, PlacesTyped, TypeOK
    <2>4. PlacesTyped'
      BY <1>b, <1>3, <1>4, <2>1, <2>2 DEF PlacesTyped
    <2>5. PlacesApart'
      <3>1. \A x \in index : x # id /\ x \in SymId /\ place'[x] = place[x]
        BY <2>3
      <3>2. \A x \in index' : place'[x] \in used'
        BY <1>3, <1>5, <2>1, <2>3, <3>1
      <3>3. \A x, y \in index' : place'[x] = place'[y] => x = y
        BY <1>b, <1>5, <2>3, <3>1 DEF PlacesApart
      <3>4. \A q \in Procs : \A x \in index' : place'[x] # made'[q]
        BY <1>b, <1>3, <1>4, <1>5, <2>3, <3>1 DEF PlacesApart
      <3>5. \A o, q \in Procs : made'[o] = made'[q] => o = q \/ made'[o] = None
        BY <1>b, <1>4 DEF PlacesApart
      <3> QED
        BY <3>2, <3>3, <3>4, <3>5 DEF PlacesApart
    <2>6. ASSUME NEW q \in Procs PROVE MadeOK(q)' /\ HeldOK(q)'
      <3>1. CASE q = p
        <4>1. MadeOK(p)'
          BY <1>4, <1>6 DEF MadeOK
        <4>2. HeldOK(p)'
          <5>1. CASE r = "s"
            BY <1>1, <1>8, <2>2, <2>3, <5>1
            DEF HeldOK, Sourced, InCall, PCs, EnteringSource
          <5>2. CASE r = "t"
            <6>1. /\ id = call[p].tgt /\ pc[p] = "link_target"
                  /\ pc'[p] \in {"learn", "idle"}
              BY <1>1, <1>8, <5>2
            <6>2. /\ call[p].src \in index /\ held[p]["s"] = place[call[p].src]
              BY <1>a, <1>b, <6>1 DEF CallOK, HeldOK, Sourced
            <6>3. place'[call[p].src] = place[call[p].src]
              BY <2>3, <6>2
            <6>4. pc'[p] = "learn" => held'[p]["t"] = made[p] /\ held'[p]["s"] = held[p]["s"]
              BY <2>2, <5>2 DEF InCall, PCs, Roles
            <6> QED
              BY <1>1, <2>3, <6>1, <6>2, <6>3, <6>4 DEF HeldOK, Sourced
          <5> QED
            BY <5>1, <5>2 DEF Roles
        <4> QED
          BY <3>1, <4>1, <4>2
      <3>2. CASE q # p
        <4>1. /\ pc'[q] = pc[q] /\ call'[q] = call[q]
              /\ made'[q] = made[q] /\ held'[q] = held[q]
          BY <1>c, <1>4, <2>2, <3>2
        <4>2. MadeOK(q)'
          BY <1>b, <2>1, <4>1 DEF MadeOK
        <4>3. HeldOK(q)'
          <5>1. /\ pc[q] \in Sourced => call[q].src \in index
                /\ pc[q] \in {"learn", "store"} => call[q].tgt \in index
            BY <1>a DEF CallOK, Sourced
          <5>2. \A x \in index : place'[x] = place[x]
            BY <2>3
          <5> QED
            BY <1>b, <4>1, <5>1, <5>2 DEF HeldOK
        <4> QED
          BY <4>2, <4>3
      <3> QED
        BY <3>1, <3>2
    <2> QED
      BY <2>4, <2>5, <2>6 DEF PlacesOK
  <1> QED
    BY <1>7, <1>8

LEMMA PlacesStep == Typed /\ PlacesOK /\ [PlacedNext]_placedVars => PlacesOK'
  <1> SUFFICES ASSUME Typed, PlacesOK, [PlacedNext]_placedVars PROVE PlacesOK'
    OBVIOUS
  <1>1. ASSUME NEW p \in Procs, PlacedStep(p) PROVE PlacesOK'
    <2>1. CASE \/ FindSource(p) /\ LookUp(p, call[p].src, "s")
               \/ FindTarget(p) /\ LookUp(p, call[p].tgt, "t")
      BY <1>1, <2>1, LookUpKeeps
    <2>2. CASE \/ ConstructSource(p) /\ Construct(p, "link_source")
               \/ ConstructTarget(p) /\ Construct(p, "link_target")
      BY <1>1, <2>2, ConstructKeeps
    <2>3. CASE LinkSource(p) /\ Insert(p, call[p].src, "s")
      BY <1>1, <2>3, InsertKeeps DEF Roles
    <2>4. CASE LinkTarget(p) /\ Insert(p, call[p].tgt, "t")
      BY <1>1, <2>4, InsertKeeps DEF Roles
    <2>5. CASE OtherStep(p) /\ Elsewhere(p)
      <3>1. TypeOK
        BY DEF Typed
      <3> QED
        BY <1>1, <2>5, <3>1, OtherShape, ElsewhereKeeps
    <2> QED
      BY <1>1, <2>1, <2>2, <2>3, <2>4, <2>5 DEF PlacedStep
  <1>2. CASE UNCHANGED placedVars
    BY <1>2
    DEF placedVars, places, vars, image, private, PlacesOK, PlacesTyped, PlacesApart,
        MadeOK, HeldOK
  <1> QED
    BY <1>1, <1>2 DEF PlacedNext

(* The placed specification is the database with more to say of each step. *)
LEMMA PlacedIsDatabase == PlacedSpec => Spec
  <1>1. PlacedInit => Init
    BY DEF PlacedInit
  <1>2. [PlacedNext]_placedVars => [Next]_vars
    BY PlacedIsStep DEF PlacedNext, Next, placedVars
  <1> QED
    BY <1>1, <1>2, PTL DEF PlacedSpec, Spec

(* The references that superpose takes stay good for as long as it uses    *)
(* them: to the symbols of their names, in tables that it has mapped, in   *)
(* memory that is theirs alone, whatever is inserted, refused and freed    *)
(* in between (database.cpp:104-130).                                      *)
THEOREM ReferencesStayLive == PlacedSpec => []ReferencesLive
  <1>1. Calls /\ PlacesOK => ReferencesLive
    <2> SUFFICES ASSUME Calls, PlacesOK, NEW p \in Procs, pc[p] \in Sourced
                 PROVE  /\ Refers(p, "s", call[p].src)
                        /\ pc[p] \in {"learn", "store"} => Refers(p, "t", call[p].tgt)
      BY DEF ReferencesLive, Sourced
    <2>1. /\ CallOK(p) /\ Mapped(p) /\ PlacesApart /\ HeldOK(p)
      BY DEF Calls, Sessions, Typed, References, PlacesOK
    <2>2. /\ call[p].src \in index
          /\ SpaceOf(call[p].src) \in cache[p] \cap tables
          /\ SpaceOf(call[p].tgt) \in cache[p] \cap tables
          /\ pc[p] \in {"learn", "store"} => call[p].tgt \in index
      BY <2>1 DEF CallOK, Mapped, Sourced, InCall, PCs, EnteringSource
    <2>3. ASSUME NEW id \in index
          PROVE  /\ place[id] \in used
                 /\ \A x \in index \ {id} : place[x] # place[id]
                 /\ \A q \in Procs : made[q] # place[id]
      BY <2>1 DEF PlacesApart
    <2> QED
      BY <2>1, <2>2, <2>3 DEF Refers, HeldOK, Sourced
  <1>2. Calls => Typed
    BY DEF Calls, Sessions
  <1> QED
    BY <1>1, <1>2, PlacesInit, PlacesStep, PlacedIsDatabase, CallsAlways, PTL
    DEF PlacedSpec

=============================================================================
