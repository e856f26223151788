------------------------- MODULE FrameTrainerProofs -------------------------
(* The trainer's loops make the calls they should, for lines of any length *)
(* and any switches: how far the iterators are says which calls were made, *)
(* and none was made twice.                                                *)
EXTENDS FrameTrainer, TLAPS, FiniteSetTheorems, SequenceTheorems

-----------------------------------------------------------------------------
(* The inductive invariant.                                                *)

Logged == {log[k] : k \in DOMAIN log}

\* The terms that were put on the frame are those before the given one.
MadeFrames(upTo) ==
  \A i \in Nat :
     <<"frame", i>> \in Logged <=> opts.reverse_index /\ 1 <= i /\ i <= Size /\ i < upTo

\* The pair of i and j comes before that of f and n.
Before(i, j, f, n) == 1 <= i /\ i < j /\ j <= Size /\ (i < f \/ (i = f /\ j < n))

\* The pairs that were trained are those before f and n, and the other way
\* round those before f and m.
MadePairs(f, n, m) ==
  \A i, j \in Nat :
     <<"term", i, j>> \in Logged
       <=> opts.cotrain /\ (Before(i, j, f, n) \/ (opts.symmetric /\ Before(j, i, f, m)))

\* The calls made, as far as the iterators are.
Progress ==
  /\ pc = "reverse" => MadeFrames(first) /\ MadePairs(1, 2, 2)
  /\ pc = "cotrain" => MadeFrames(Size + 1) /\ MadePairs(first, next, next)
  /\ pc = "back" => MadeFrames(Size + 1) /\ MadePairs(first, next + 1, next)
  /\ pc = "read" /\ tv # <<>> => MadeFrames(Size + 1) /\ MadePairs(Size, 0, 0)

\* The iterators.
Bounds ==
  /\ first \in Nat /\ next \in Nat
  /\ pc \in {"reverse", "cotrain", "back"} => tv # <<>>
  /\ pc = "reverse" => first >= 1
  /\ pc = "cotrain" => 1 <= first /\ first < next
  /\ pc = "back" => /\ 1 <= first /\ first < next /\ next <= Size
                    /\ opts.cotrain /\ opts.symmetric

OnceEach == \A k, l \in DOMAIN log : log[k] = log[l] => k = l

FramesFirst ==
  \A k, l \in DOMAIN log : log[k][1] = "frame" /\ log[l][1] = "term" => k < l

Places == {<<"frame", i>> : i \in Nat} \cup {<<"term", i, j>> : i, j \in Nat}

Shape ==
  /\ opts \in [frameids : BOOLEAN, reverse_index : BOOLEAN,
               cotrain : BOOLEAN, symmetric : BOOLEAN]
  /\ tv \in Seq(STRING)
  /\ log \in Seq(Places)

IInv == Shape /\ Bounds /\ Progress /\ OnceEach /\ FramesFirst

-----------------------------------------------------------------------------
(* The log.                                                                *)

\* A call that was not made yet is added to those that were.
LEMMA OneCallMore ==
  ASSUME Shape, OnceEach, FramesFirst, NEW at \in Places, at \notin Logged,
         at[1] = "frame" => \A i, j \in Nat : <<"term", i, j>> \notin Logged,
         log' = Append(log, at)
  PROVE  /\ log' \in Seq(Places)
         /\ Logged' = Logged \cup {at}
         /\ OnceEach' /\ FramesFirst'
  <1>1. /\ log' \in Seq(Places) /\ DOMAIN log' = 1 .. Len(log) + 1
        /\ DOMAIN log = 1 .. Len(log) /\ Len(log) \in Nat
        /\ \A k \in 1 .. Len(log) : log'[k] = log[k]
        /\ log'[Len(log) + 1] = at
    BY AppendProperties DEF Shape
  <1>2. Logged' = Logged \cup {at}
    <2>1. \A x \in Logged' : x \in Logged \cup {at}
      BY <1>1 DEF Logged
    <2>2. \A x \in Logged \cup {at} : x \in Logged'
      BY <1>1 DEF Logged
    <2> QED
      BY <2>1, <2>2
  <1>3. OnceEach'
    <2> SUFFICES ASSUME NEW k \in DOMAIN log', NEW l \in DOMAIN log', log'[k] = log'[l]
                 PROVE  k = l
      BY DEF OnceEach
    <2>1. CASE k \in DOMAIN log /\ l \in DOMAIN log
      BY <1>1, <2>1 DEF OnceEach
    <2>2. CASE k \in DOMAIN log /\ l \notin DOMAIN log
      <3>1. log[k] = at
        BY <1>1, <2>2
      <3> QED
        BY <2>2, <3>1 DEF Logged
    <2>3. CASE k \notin DOMAIN log /\ l \in DOMAIN log
      <3>1. log[l] = at
        BY <1>1, <2>3
      <3> QED
        BY <2>3, <3>1 DEF Logged
    <2>4. CASE k \notin DOMAIN log /\ l \notin DOMAIN log
      BY <1>1, <2>4
    <2> QED
      BY <2>1, <2>2, <2>3, <2>4
  <1>4. FramesFirst'
    <2> SUFFICES ASSUME NEW k \in DOMAIN log', NEW l \in DOMAIN log',
                        log'[k][1] = "frame", log'[l][1] = "term"
                 PROVE  k < l
      BY DEF FramesFirst
    <2>1. CASE k \in DOMAIN log /\ l \in DOMAIN log
      BY <1>1, <2>1 DEF FramesFirst
    <2>2. CASE k \in DOMAIN log /\ l \notin DOMAIN log
      BY <1>1, <2>2
    <2>3. CASE k \notin DOMAIN log /\ l \in DOMAIN log
      <3>1. at[1] = "frame" /\ log[l][1] = "term" /\ log[l] \in Places
        BY <1>1, <2>3 DEF Shape
      <3>2. PICK i \in Nat, j \in Nat : log[l] = <<"term", i, j>>
        BY <3>1 DEF Places
      <3>3. <<"term", i, j>> \in Logged
        BY <2>3, <3>2 DEF Logged
      <3> QED
        BY <3>1, <3>3
    <2>4. CASE k \notin DOMAIN log /\ l \notin DOMAIN log
      BY <1>1, <2>4
    <2> QED
      BY <2>1, <2>2, <2>3, <2>4
  <1> QED
    BY <1>1, <1>2, <1>3, <1>4

LEMMA CallsOnce ==
  ASSUME Shape, OnceEach, NEW at
  PROVE  Calls(at) = IF at \in Logged THEN 1 ELSE 0
  <1> DEFINE K == {k \in DOMAIN log : log[k] = at}
  <1>1. Calls(at) = Cardinality(K)
    BY DEF Calls
  <1>2. CASE at \in Logged
    <2>1. PICK k \in DOMAIN log : log[k] = at
      BY <1>2 DEF Logged
    <2>2. K = {k}
      BY <2>1 DEF OnceEach
    <2> QED
      BY <1>1, <1>2, <2>2, FS_Singleton
  <1>3. CASE at \notin Logged
    <2>1. K = {}
      BY <1>3 DEF Logged
    <2> QED
      BY <1>1, <1>3, <2>1, FS_EmptySet
  <1> QED
    BY <1>2, <1>3

\* A line of no terms has a size of none, and no size but that of its list.
LEMMA SizeIs ==
  ASSUME Shape
  PROVE  Size \in Int /\ (tv # <<>> => Size \in Nat)
  <1>1. Len(tv) \in Nat /\ (tv # <<>> => Len(tv) >= 1)
    BY DEF Shape
  <1> QED
    BY <1>1 DEF Size, Start

LEMMA IInvInit == Init => IInv
  <1> SUFFICES ASSUME Init PROVE IInv
    OBVIOUS
  <1>1. <<>> \in Seq(STRING) /\ <<>> \in Seq(Places) /\ DOMAIN <<>> = {}
    OBVIOUS
  <1>2. Shape
    BY <1>1, TrainerAssumption DEF Init, Shape
  <1> QED
    BY <1>1, <1>2 DEF Init, IInv, Bounds, Progress, OnceEach, FramesFirst

\* A line begins with nothing trained.
LEMMA ReadLineStep == IInv /\ ReadLine => IInv'
  <1> SUFFICES ASSUME IInv, ReadLine PROVE IInv'
    OBVIOUS
  <1>1. /\ tv' \in Seq(STRING) /\ tv' # <<>> /\ log' = <<>> /\ first' = 1
        /\ pc' = "reverse" /\ UNCHANGED <<opts, next>>
    BY TrainerAssumption DEF ReadLine, Goto
  <1>2. <<>> \in Seq(Places) /\ DOMAIN <<>> = {}
    OBVIOUS
  <1>3. Shape' /\ OnceEach' /\ FramesFirst' /\ Logged' = {}
    BY <1>1, <1>2 DEF IInv, Shape, OnceEach, FramesFirst, Logged
  <1>4. Bounds'
    BY <1>1 DEF IInv, Bounds
  <1>5. MadeFrames(first)'
    BY <1>1, <1>3 DEF MadeFrames
  <1>6. MadePairs(1, 2, 2)'
    BY <1>3 DEF MadePairs, Before
  <1> QED
    BY <1>1, <1>3, <1>4, <1>5, <1>6 DEF IInv, Progress

\* One more term is put on the frame.
LEMMA ReverseStep == IInv /\ Reverse => IInv'
  <1> SUFFICES ASSUME IInv, Reverse PROVE IInv'
    OBVIOUS
  <1>a. /\ Shape /\ OnceEach /\ FramesFirst /\ tv # <<>>
        /\ first \in Nat /\ first >= 1 /\ next \in Nat
        /\ MadeFrames(first) /\ MadePairs(1, 2, 2)
        /\ opts.reverse_index /\ first <= Size /\ pc = "reverse"
    BY DEF IInv, Bounds, Progress, Reverse
  <1>s. Size' = Size /\ UNCHANGED <<opts, tv, next>>
    BY DEF Reverse, Superpose, Size, Start
  <1>1. CASE /\ log' = Append(log, <<"frame", first>>) /\ first' = first + 1
             /\ UNCHANGED <<pc, next>>
    <2>1. /\ <<"frame", first>> \in Places /\ <<"frame", first>> \notin Logged
          /\ \A i, j \in Nat : <<"term", i, j>> \notin Logged
      BY <1>a DEF Places, MadeFrames, MadePairs, Before
    <2>2. /\ log' \in Seq(Places) /\ Logged' = Logged \cup {<<"frame", first>>}
          /\ OnceEach' /\ FramesFirst'
      BY <1>1, <1>a, <2>1, OneCallMore
    <2>3. \A i \in Nat : <<"frame", i>> \in Logged' <=> <<"frame", i>> \in Logged \/ i = first
      BY <2>2
    <2>4. \A i, j \in Nat : <<"term", i, j>> \in Logged' <=> <<"term", i, j>> \in Logged
      BY <2>2
    <2>5. MadeFrames(first)'
      <3>1. \A i \in Nat :
               <<"frame", i>> \in Logged'
                 <=> opts.reverse_index /\ 1 <= i /\ i <= Size /\ i < first + 1
        <4> TAKE i \in Nat
        <4>1. <<"frame", i>> \in Logged <=> 1 <= i /\ i <= Size /\ i < first
          BY <1>a DEF MadeFrames
        <4>2. i < first \/ i = first <=> i < first + 1
          BY <1>a
        <4> QED
          BY <1>a, <2>3, <4>1, <4>2
      <3> QED
        BY <1>1, <1>s, <3>1 DEF MadeFrames
    <2>6. MadePairs(1, 2, 2)'
      BY <1>a, <1>s, <2>4 DEF MadePairs, Before
    <2>7. Shape'
      BY <1>a, <1>s, <2>2 DEF Shape
    <2>8. Bounds'
      BY <1>1, <1>a, <1>s DEF Bounds
    <2>9. Progress'
      BY <1>1, <1>a, <2>5, <2>6 DEF Progress
    <2> QED
      BY <2>2, <2>7, <2>8, <2>9 DEF IInv
  <1>2. CASE pc' = "terminated" /\ UNCHANGED <<log, first, next>>
    BY <1>2, <1>a, <1>s DEF IInv, Shape, Bounds, Progress, OnceEach, FramesFirst
  <1> QED
    BY <1>1, <1>2 DEF Reverse, Superpose, Goto

LEMMA EndReverseStep == IInv /\ EndReverse => IInv'
  <1> SUFFICES ASSUME IInv, EndReverse PROVE IInv'
    OBVIOUS
  <1>a. /\ Shape /\ OnceEach /\ FramesFirst /\ tv # <<>> /\ pc = "reverse"
        /\ first \in Nat /\ MadeFrames(first) /\ MadePairs(1, 2, 2)
        /\ ~opts.reverse_index \/ first > Size
    BY DEF IInv, Bounds, Progress, EndReverse
  <1>b. /\ first' = 1 /\ next' = 2 /\ pc' = "cotrain" /\ UNCHANGED <<opts, tv, log>>
    BY DEF EndReverse, Goto
  <1>s. Size' = Size /\ Logged' = Logged /\ Size \in Int
    BY <1>a, <1>b, SizeIs DEF Size, Start, Logged
  <1>1. MadeFrames(Size + 1)'
    <2>1. \A i \in Nat : (opts.reverse_index /\ 1 <= i /\ i <= Size /\ i < first
                           <=> opts.reverse_index /\ 1 <= i /\ i <= Size /\ i < Size + 1)
      BY <1>a, <1>s
    <2>2. \A i \in Nat : (<<"frame", i>> \in Logged
                           <=> opts.reverse_index /\ 1 <= i /\ i <= Size /\ i < Size + 1)
      BY <1>a, <2>1 DEF MadeFrames
    <2> QED
      BY <1>b, <1>s, <2>2 DEF MadeFrames
  <1>2. MadePairs(first, next, next)'
    BY <1>a, <1>b, <1>s DEF MadePairs, Before
  <1> QED
    BY <1>a, <1>b, <1>1, <1>2 DEF IInv, Shape, Bounds, Progress, OnceEach, FramesFirst

\* The later term of a pair is put on the earlier one.
LEMMA ForwardStep == IInv /\ Forward => IInv'
  <1> SUFFICES ASSUME IInv, Forward PROVE IInv'
    OBVIOUS
  <1>a. /\ Shape /\ OnceEach /\ FramesFirst /\ tv # <<>> /\ pc = "cotrain"
        /\ first \in Nat /\ next \in Nat /\ 1 <= first /\ first < next
        /\ MadeFrames(Size + 1) /\ MadePairs(first, next, next)
        /\ opts.cotrain /\ next <= Size
    BY DEF IInv, Bounds, Progress, Forward
  <1>s. Size' = Size /\ UNCHANGED <<opts, tv>>
    BY DEF Forward, Size, Start
  <1>t. Size \in Int
    BY <1>a, SizeIs
  <1> DEFINE at == <<"term", first, next>>
  <1>1. CASE /\ log' = Append(log, at) /\ first' = first
             /\ IF opts.symmetric THEN pc' = "back" /\ next' = next
                                  ELSE next' = next + 1 /\ pc' = pc
    <2>1. at \in Places /\ at \notin Logged /\ at[1] = "term"
      BY <1>a DEF Places, MadePairs, Before
    <2>2. log' \in Seq(Places) /\ Logged' = Logged \cup {at} /\ OnceEach' /\ FramesFirst'
      <3> HIDE DEF at
      <3> QED
        BY <1>1, <1>a, <2>1, OneCallMore
    <2>3. \A i \in Nat : <<"frame", i>> \in Logged' <=> <<"frame", i>> \in Logged
      BY <2>2
    <2>4. \A i, j \in Nat :
             <<"term", i, j>> \in Logged'
               <=> <<"term", i, j>> \in Logged \/ (i = first /\ j = next)
      BY <2>2
    <2>5. MadeFrames(Size + 1)'
      BY <1>a, <1>s, <2>3 DEF MadeFrames
    <2>6. \A i, j \in Nat :
             Before(i, j, first, next + 1)
               <=> Before(i, j, first, next) \/ (i = first /\ j = next)
      BY <1>a, <1>t DEF Before
    <2>8. \A i, j \in Nat :
             <<"term", i, j>> \in Logged'
               <=> opts.cotrain /\ (Before(i, j, first, next + 1)
                                    \/ (opts.symmetric /\ Before(j, i, first, next)))
      BY <1>a, <2>4, <2>6 DEF MadePairs
    <2>9. CASE opts.symmetric
      <3>1. MadePairs(first, next + 1, next)'
        BY <1>1, <1>s, <2>8, <2>9 DEF MadePairs, Before
      <3> QED
        BY <1>1, <1>a, <1>s, <2>2, <2>5, <2>9, <3>1 DEF IInv, Shape, Bounds, Progress
    <2>10. CASE ~opts.symmetric
      <3>1. MadePairs(first, next, next)'
        BY <1>1, <1>s, <2>8, <2>10 DEF MadePairs, Before
      <3> QED
        BY <1>1, <1>a, <1>s, <2>2, <2>5, <2>10, <3>1 DEF IInv, Shape, Bounds, Progress
    <2> QED
      BY <2>9, <2>10
  <1>2. CASE pc' = "terminated" /\ UNCHANGED <<log, first, next>>
    BY <1>2, <1>a, <1>s DEF IInv, Shape, Bounds, Progress, OnceEach, FramesFirst
  <1> QED
    BY <1>1, <1>2 DEF Forward, Superpose, Goto

\* And the other way round.
LEMMA BackStep == IInv /\ Back => IInv'
  <1> SUFFICES ASSUME IInv, Back PROVE IInv'
    OBVIOUS
  <1>a. /\ Shape /\ OnceEach /\ FramesFirst /\ tv # <<>>
        /\ first \in Nat /\ next \in Nat /\ 1 <= first /\ first < next /\ next <= Size
        /\ MadeFrames(Size + 1) /\ MadePairs(first, next + 1, next)
        /\ opts.cotrain /\ opts.symmetric
    BY DEF IInv, Bounds, Progress, Back
  <1>s. Size' = Size /\ UNCHANGED <<opts, tv>>
    BY DEF Back, Size, Start
  <1>t. Size \in Int
    BY <1>a, SizeIs
  <1> DEFINE at == <<"term", next, first>>
  <1>1. CASE /\ log' = Append(log, at) /\ first' = first
             /\ next' = next + 1 /\ pc' = "cotrain"
    <2>1. at \in Places /\ at \notin Logged /\ at[1] = "term"
      BY <1>a DEF Places, MadePairs, Before
    <2>2. log' \in Seq(Places) /\ Logged' = Logged \cup {at} /\ OnceEach' /\ FramesFirst'
      <3> HIDE DEF at
      <3> QED
        BY <1>1, <1>a, <2>1, OneCallMore
    <2>3. \A i \in Nat : <<"frame", i>> \in Logged' <=> <<"frame", i>> \in Logged
      BY <2>2
    <2>4. \A i, j \in Nat :
             <<"term", i, j>> \in Logged'
               <=> <<"term", i, j>> \in Logged \/ (j = first /\ i = next)
      BY <2>2
    <2>5. MadeFrames(Size + 1)'
      BY <1>a, <1>s, <2>3 DEF MadeFrames
    <2>6. \A i, j \in Nat :
             Before(j, i, first, next + 1)
               <=> Before(j, i, first, next) \/ (j = first /\ i = next)
      BY <1>a, <1>t DEF Before
    <2>8. \A i, j \in Nat :
             <<"term", i, j>> \in Logged'
               <=> opts.cotrain /\ (Before(i, j, first, next + 1)
                                    \/ (opts.symmetric /\ Before(j, i, first, next + 1)))
      BY <1>a, <2>4, <2>6 DEF MadePairs
    <2>9. MadePairs(first, next, next)'
      BY <1>1, <1>a, <1>s, <2>8 DEF MadePairs, Before
    <2> QED
      BY <1>1, <1>a, <1>s, <2>2, <2>5, <2>9 DEF IInv, Shape, Bounds, Progress
  <1>2. CASE pc' = "terminated" /\ UNCHANGED <<log, first, next>>
    BY <1>2, <1>a, <1>s DEF IInv, Shape, Bounds, Progress, OnceEach, FramesFirst
  <1> QED
    BY <1>1, <1>2 DEF Back, Superpose, Goto

LEMMA NextFirstStep == IInv /\ NextFirst => IInv'
  <1> SUFFICES ASSUME IInv, NextFirst PROVE IInv'
    OBVIOUS
  <1>a. /\ Shape /\ OnceEach /\ FramesFirst /\ tv # <<>> /\ pc = "cotrain"
        /\ first \in Nat /\ next \in Nat /\ 1 <= first /\ first < next
        /\ MadeFrames(Size + 1) /\ MadePairs(first, next, next)
        /\ next > Size
    BY DEF IInv, Bounds, Progress, NextFirst
  <1>b. first' = first + 1 /\ next' = first + 2 /\ UNCHANGED <<opts, pc, tv, log>>
    BY DEF NextFirst, FromTheNext
  <1>s. Size' = Size /\ Logged' = Logged /\ Size \in Int
    BY <1>a, <1>b, SizeIs DEF Size, Start, Logged
  <1>1. MadeFrames(Size + 1)'
    BY <1>a, <1>b, <1>s DEF MadeFrames
  <1>2. \A i, j \in Nat : Before(i, j, first + 1, first + 2) <=> Before(i, j, first, next)
    BY <1>a, <1>s DEF Before
  <1>4. \A i, j \in Nat :
           <<"term", i, j>> \in Logged
             <=> opts.cotrain /\ (Before(i, j, first + 1, first + 2)
                                  \/ (opts.symmetric
                                      /\ Before(j, i, first + 1, first + 2)))
    BY <1>a, <1>2 DEF MadePairs
  <1>3. MadePairs(first, next, next)'
    BY <1>b, <1>s, <1>4 DEF MadePairs, Before
  <1> QED
    BY <1>a, <1>b, <1>1, <1>3 DEF IInv, Shape, Bounds, Progress, OnceEach, FramesFirst

LEMMA EndCotrainStep == IInv /\ EndCotrain => IInv'
  <1> SUFFICES ASSUME IInv, EndCotrain PROVE IInv'
    OBVIOUS
  <1>a. /\ Shape /\ OnceEach /\ FramesFirst /\ tv # <<>> /\ pc = "cotrain"
        /\ first \in Nat /\ next \in Nat /\ 1 <= first /\ first < next
        /\ MadeFrames(Size + 1) /\ MadePairs(first, next, next)
        /\ ~opts.cotrain \/ first >= Size
    BY DEF IInv, Bounds, Progress, EndCotrain, NoMoreTerms
  <1>b. pc' = "read" /\ UNCHANGED <<opts, first, next, tv, log>>
    BY DEF EndCotrain, Goto
  <1>s. Size' = Size /\ Logged' = Logged /\ Size \in Int
    BY <1>a, <1>b, SizeIs DEF Size, Start, Logged
  <1>1. MadeFrames(Size + 1)'
    BY <1>a, <1>b, <1>s DEF MadeFrames
  <1>2. first >= Size
          => \A i, j \in Nat : Before(i, j, Size, 0) <=> Before(i, j, first, next)
    BY <1>a, <1>s DEF Before
  <1>4. \A i, j \in Nat :
           <<"term", i, j>> \in Logged
             <=> opts.cotrain /\ (Before(i, j, Size, 0)
                                  \/ (opts.symmetric /\ Before(j, i, Size, 0)))
    BY <1>a, <1>2 DEF MadePairs
  <1>3. MadePairs(Size, 0, 0)'
    BY <1>b, <1>s, <1>4 DEF MadePairs, Before
  <1> QED
    BY <1>a, <1>b, <1>1, <1>3 DEF IInv, Shape, Bounds, Progress, OnceEach, FramesFirst

LEMMA IInvStep == IInv /\ [Next]_vars => IInv'
  <1> SUFFICES ASSUME IInv, [Next]_vars PROVE IInv'
    OBVIOUS
  <1>0. ASSUME UNCHANGED <<opts, first, next, tv, log>>,
               pc' = pc \/ pc' = "done"
        PROVE  IInv'
    <2>1. Size' = Size /\ Logged' = Logged
      BY <1>0 DEF Size, Start, Logged
    <2> QED
      BY <1>0, <2>1
      DEF IInv, Shape, Bounds, Progress, OnceEach, FramesFirst, MadeFrames, MadePairs,
          Before
  <1>1. CASE ReadEmpty
    BY <1>0, <1>1 DEF ReadEmpty
  <1>2. CASE EndOfInput
    BY <1>0, <1>2 DEF EndOfInput, Goto
  <1>3. CASE UNCHANGED vars
    BY <1>0, <1>3 DEF vars
  <1> QED
    BY <1>1, <1>2, <1>3, ReadLineStep, ReverseStep, EndReverseStep, ForwardStep,
       BackStep, NextFirstStep, EndCotrainStep
    DEF Next

-----------------------------------------------------------------------------

(* Each term of a line is put on its frame, and each pair of its terms on  *)
(* one another, as often and in the order that the switches say.           *)
THEOREM EveryLineIsTrained == Spec => []LineTrained
  <1>1. IInv => LineTrained
    <2> SUFFICES ASSUME IInv, pc = "read", tv # <<>>
                 PROVE  /\ \A i \in 1 .. Size :
                              Calls(<<"frame", i>>) = IF opts.reverse_index THEN 1 ELSE 0
                        /\ \A i, j \in 1 .. Size :
                              Calls(<<"term", i, j>>) =
                                 IF opts.cotrain /\ (i < j \/ (opts.symmetric /\ j < i))
                                 THEN 1 ELSE 0
                        /\ FramesFirst
      BY DEF LineTrained, FramesFirst
    <2>a. /\ Shape /\ OnceEach /\ FramesFirst
          /\ MadeFrames(Size + 1) /\ MadePairs(Size, 0, 0)
          /\ Size \in Nat
      BY SizeIs DEF IInv, Progress
    <2>1. ASSUME NEW i \in 1 .. Size
          PROVE  Calls(<<"frame", i>>) = IF opts.reverse_index THEN 1 ELSE 0
      <3>1. i \in Nat /\ 1 <= i /\ i <= Size /\ i < Size + 1
        BY <2>a
      <3>2. <<"frame", i>> \in Logged <=> opts.reverse_index
        BY <2>a, <3>1 DEF MadeFrames
      <3> QED
        BY <2>a, <3>2, CallsOnce
    <2>2. ASSUME NEW i \in 1 .. Size, NEW j \in 1 .. Size
          PROVE  Calls(<<"term", i, j>>) =
                    IF opts.cotrain /\ (i < j \/ (opts.symmetric /\ j < i))
                    THEN 1 ELSE 0
      <3>1. /\ i \in Nat /\ j \in Nat
            /\ Before(i, j, Size, 0) <=> i < j
            /\ Before(j, i, Size, 0) <=> j < i
        BY <2>a DEF Before
      <3>2. <<"term", i, j>> \in Logged
              <=> opts.cotrain /\ (i < j \/ (opts.symmetric /\ j < i))
        BY <2>a, <3>1 DEF MadePairs
      <3> QED
        BY <2>a, <3>2, CallsOnce
    <2> QED
      BY <2>a, <2>1, <2>2
  <1> QED
    BY <1>1, IInvInit, IInvStep, PTL DEF Spec

-----------------------------------------------------------------------------
(* The frames: the statistics and the lessons are of the lines read.       *)

\* The lines that begin a frame, if lines have frame ids.
Starting == {k \in Filled : ~Continues(k)}

\* The frame the trainer is in is that of the last line with a token.
Known ==
  /\ ~opts.frameids => frameid = NoFrame
  /\ opts.frameids /\ Filled = {} => frameid = NoFrame
  /\ opts.frameids /\ Filled # {} =>
       \E k \in Filled : frameid = input[k][1] /\ \A l \in Filled : l <= k

Counts ==
  /\ opts \in Switches
  /\ pc \in {"read", "reverse", "cotrain", "back", "done", "terminated"}
  /\ input \in Seq(Seq(STRING)) /\ rows = Len(input) /\ rows <= MaxRows
  /\ empty = rows - Cardinality(Filled)
  /\ frames = IF opts.frameids THEN Cardinality(Starting) ELSE Cardinality(Filled)

\* While terms are put on a frame, it is that of the line read last.
InLine ==
  pc = "reverse" => /\ input # <<>> /\ tv = input[Len(input)]
                    /\ frameid = FrameOf(tv)

\* The terms of the line at k that come before the given one are on its frame.
TaughtOf(k, upTo) ==
  \A i \in Start + 1 .. Len(input[k]) :
     i < Start + upTo => <<"frame", FrameOf(input[k]), "term", input[k][i]>> \in taught

Lessons ==
  /\ {lesson \in taught : lesson[1] = "frame"} \subseteq FrameLessons
  /\ ~refused /\ opts.reverse_index =>
       /\ pc \in {"read", "cotrain", "back", "done"} => FrameLessons \subseteq taught
       /\ pc = "reverse" => /\ TaughtOf(Len(input), first)
                            /\ \A k \in DOMAIN input :
                                 k < Len(input) => TaughtOf(k, Len(input[k]) + 1)

Frames == IInv /\ Counts /\ Known /\ InLine /\ Lessons

LEMMA FilledIsFinite ==
  ASSUME Counts
  PROVE  /\ IsFiniteSet(Filled) /\ Cardinality(Filled) \in 0 .. Len(input)
         /\ IsFiniteSet(Starting) /\ Cardinality(Starting) \in 0 .. Len(input)
  <1>1. DOMAIN input = 1 .. Len(input) /\ Len(input) \in Nat
    BY DEF Counts
  <1>2. IsFiniteSet(1 .. Len(input)) /\ Cardinality(1 .. Len(input)) = Len(input)
    <2>1. \A n \in Nat : IsFiniteSet(1 .. n) /\ Cardinality(1 .. n) = n
      BY FS_Interval
    <2> QED
      BY <1>1, <2>1
  <1>3. Filled \subseteq 1 .. Len(input) /\ Starting \subseteq 1 .. Len(input)
    BY <1>1 DEF Filled, Starting
  <1>4. ASSUME NEW S, S \subseteq 1 .. Len(input)
        PROVE  IsFiniteSet(S) /\ Cardinality(S) \in 0 .. Len(input)
    <2>1. IsFiniteSet(S) /\ Cardinality(S) <= Cardinality(1 .. Len(input))
      BY <1>2, <1>4, FS_Subset
    <2> QED
      BY <1>1, <1>2, <2>1, FS_CardinalityType
  <1> QED
    BY <1>3, <1>4

\* A line more leaves those before it what they are.
LEMMA OneLineMore ==
  ASSUME Counts, NEW line \in Seq(STRING), input' = Append(input, line)
  PROVE  /\ input' \in Seq(Seq(STRING)) /\ Len(input') = Len(input) + 1
         /\ DOMAIN input' = DOMAIN input \cup {Len(input) + 1}
         /\ DOMAIN input = 1 .. Len(input) /\ Len(input) \in Nat
         /\ \A k \in DOMAIN input : input'[k] = input[k]
         /\ input'[Len(input) + 1] = line
         /\ Filled' = IF line = <<>> THEN Filled ELSE Filled \cup {Len(input) + 1}
         /\ \A k \in Filled : Continues(k)' <=> Continues(k)
  <1>1. /\ input' \in Seq(Seq(STRING)) /\ Len(input') = Len(input) + 1
        /\ DOMAIN input = 1 .. Len(input) /\ Len(input) \in Nat
        /\ DOMAIN input' = 1 .. Len(input) + 1
        /\ \A k \in 1 .. Len(input) : input'[k] = input[k]
        /\ input'[Len(input) + 1] = line
    BY AppendProperties DEF Counts
  <1>2. DOMAIN input' = DOMAIN input \cup {Len(input) + 1}
    BY <1>1
  <1>3. Filled' = IF line = <<>> THEN Filled ELSE Filled \cup {Len(input) + 1}
    BY <1>1, <1>2 DEF Filled
  <1>4. ASSUME NEW k \in Filled PROVE Continues(k)' <=> Continues(k)
    <2>1. /\ k \in Int /\ k < Len(input) + 1 /\ Filled \subseteq 1 .. Len(input)
          /\ \A j \in Filled : input'[j] = input[j]
      BY <1>1 DEF Filled
    <2>2. \A j \in Filled' : j < k => j \in Filled
      BY <1>1, <1>3, <2>1
    <2>3. Filled \subseteq Filled'
      BY <1>3
    <2> QED
      BY <2>1, <2>2, <2>3 DEF Continues
  <1> QED
    BY <1>1, <1>2, <1>3, <1>4

LEMMA FramesInit == Init => Frames
  <1> SUFFICES ASSUME Init PROVE Frames
    OBVIOUS
  <1>1. input = <<>> /\ <<>> \in Seq(Seq(STRING)) /\ Len(<<>>) = 0 /\ DOMAIN <<>> = {}
    BY DEF Init
  <1>2. Filled = {} /\ Starting = {} /\ FrameLessons = {} /\ Cardinality({}) = 0
    BY <1>1, FS_EmptySet DEF Filled, Starting, FrameLessons
  <1>3. MaxRows \in Nat
    BY TrainerAssumption
  <1> QED
    BY <1>1, <1>2, <1>3, IInvInit DEF Init, Frames, Counts, Known, InLine, Lessons

\* The lessons of a line join those of the lines before.
LEMMA LessonsGrow ==
  ASSUME Counts, NEW line \in Seq(STRING), input' = Append(input, line), opts' = opts
  PROVE  FrameLessons \subseteq FrameLessons'
  <1>1. ASSUME NEW k \in DOMAIN input, NEW i \in Start + 1 .. Len(input[k])
        PROVE  <<"frame", FrameOf(input[k]), "term", input[k][i]>> \in FrameLessons'
    <2>1. k \in DOMAIN input' /\ input'[k] = input[k] /\ Start' = Start
          /\ FrameOf(input[k])' = FrameOf(input[k])
      BY OneLineMore DEF Start, FrameOf
    <2> QED
      BY <2>1 DEF FrameLessons, FrameOf
  <1> QED
    BY <1>1 DEF FrameLessons

LEMMA FramesReadEmpty == Frames /\ ReadEmpty => Frames'
  <1> SUFFICES ASSUME Frames, ReadEmpty PROVE Frames'
    OBVIOUS
  <1>a. Counts /\ Known /\ InLine /\ Lessons /\ pc = "read" /\ rows < MaxRows
    BY DEF Frames, ReadEmpty
  <1>b. /\ input' = Append(input, <<>>) /\ rows' = rows + 1 /\ empty' = empty + 1
        /\ UNCHANGED <<opts, pc, frames, frameid, taught, refused>>
    BY DEF ReadEmpty
  <1>e. <<>> \in Seq(STRING) /\ Len(<<>>) = 0
    OBVIOUS
  <1>1. /\ input' \in Seq(Seq(STRING)) /\ Len(input') = Len(input) + 1
        /\ DOMAIN input' = DOMAIN input \cup {Len(input) + 1}
        /\ \A k \in DOMAIN input : input'[k] = input[k]
        /\ input'[Len(input) + 1] = <<>>
        /\ Filled' = Filled
        /\ \A k \in Filled : Continues(k)' <=> Continues(k)
    BY <1>a, <1>b, <1>e, OneLineMore
  <1>2. Starting' = Starting
    BY <1>1 DEF Starting
  <1>3. Counts'
    <2>1. Cardinality(Filled) \in Int /\ MaxRows \in Nat /\ rows \in Nat
      BY <1>a, FilledIsFinite, TrainerAssumption DEF Counts
    <2> QED
      BY <1>a, <1>b, <1>1, <1>2, <2>1 DEF Counts
  <1>4. Known'
    BY <1>a, <1>b, <1>1 DEF Known, Filled
  <1>5. FrameLessons' \subseteq FrameLessons
    <2>1. ASSUME NEW k \in DOMAIN input', NEW i \in Start' + 1 .. Len(input'[k])
          PROVE  <<"frame", FrameOf(input[k])', "term", input'[k][i]>> \in FrameLessons
      <3>1. Start' = Start /\ Start \in Nat /\ FrameOf(input[k])' = FrameOf(input'[k])
        BY <1>b DEF Start, FrameOf
      <3>2. k \in DOMAIN input
        BY <1>1, <1>e, <3>1
      <3> QED
        BY <1>1, <3>1, <3>2 DEF FrameLessons
    <2> QED
      BY <2>1 DEF FrameLessons, FrameOf
  <1>6. FrameLessons' = FrameLessons
    BY <1>a, <1>b, <1>e, <1>5, LessonsGrow
  <1> QED
    BY <1>a, <1>b, <1>3, <1>4, <1>6, IInvStep DEF Frames, InLine, Lessons, Next

\* A line that has a token begins a frame unless its id is that of the frame
\* the trainer is in.
LEMMA FramesReadLine == Frames /\ ReadLine => Frames'
  <1> SUFFICES ASSUME Frames, ReadLine PROVE Frames'
    OBVIOUS
  <1>a. IInv' /\ Counts /\ Known /\ Lessons /\ pc = "read" /\ rows < MaxRows
    BY IInvStep DEF Frames, ReadLine, Next
  <1>b. PICK line \in Lines \ {<<>>} :
           /\ tv' = line
           /\ input' = Append(input, line)
           /\ \/ /\ opts.frameids
                 /\ frameid # line[1]
                 /\ frameid' = line[1]
                 /\ frames' = frames + 1
              \/ /\ opts.frameids
                 /\ frameid = line[1]
                 /\ UNCHANGED <<frameid, frames>>
              \/ /\ ~opts.frameids
                 /\ frames' = frames + 1
                 /\ UNCHANGED frameid
    BY DEF ReadLine, ChangeOfFrame
  <1>c. /\ rows' = rows + 1 /\ first' = 1 /\ pc' = "reverse"
        /\ UNCHANGED <<opts, empty, taught, refused>>
    BY DEF ReadLine, Goto
  <1>d. line \in Seq(STRING) /\ line # <<>> /\ line[1] # NoFrame
    BY TrainerAssumption
  <1>n. PICK n : n = Len(input) + 1
    OBVIOUS
  <1>1. /\ input' \in Seq(Seq(STRING)) /\ Len(input') = n
        /\ DOMAIN input' = DOMAIN input \cup {n}
        /\ DOMAIN input = 1 .. Len(input) /\ Len(input) \in Nat
        /\ \A k \in DOMAIN input : input'[k] = input[k]
        /\ input'[n] = line
        /\ Filled' = Filled \cup {n}
        /\ \A k \in Filled : Continues(k)' <=> Continues(k)
    BY <1>a, <1>b, <1>d, <1>n, OneLineMore
  <1>2. n \notin Filled /\ n \in Nat /\ \A k \in Filled : k \in Nat /\ k < n /\ input'[k] = input[k]
    BY <1>1, <1>n DEF Filled
  <1>3. ASSUME opts.frameids PROVE Continues(n)' <=> frameid = line[1]
    <2>1. CASE Filled = {}
      <3>1. frameid = NoFrame
        BY <1>3, <1>a, <2>1 DEF Known
      <3>2. ~Continues(n)'
        BY <1>1, <1>2, <2>1 DEF Continues
      <3> QED
        BY <1>d, <3>1, <3>2
    <2>2. CASE Filled # {}
      <3>1. PICK k \in Filled : frameid = input[k][1] /\ \A l \in Filled : l <= k
        BY <1>3, <1>a, <2>2 DEF Known
      <3>2. ASSUME frameid = line[1] PROVE Continues(n)'
        <4>1. \A l \in Filled' : ~(k < l /\ l < n)
          BY <1>1, <1>2, <3>1
        <4>2. k \in Filled' /\ k < n /\ input'[k][1] = input'[n][1]
          BY <1>1, <1>2, <3>1, <3>2
        <4> QED
          BY <4>1, <4>2 DEF Continues
      <3>3. ASSUME Continues(n)' PROVE frameid = line[1]
        <4>1. PICK j \in Filled' : /\ j < n /\ input'[j][1] = input'[n][1]
                                   /\ \A l \in Filled' : ~(j < l /\ l < n)
          BY <3>3 DEF Continues
        <4>2. j \in Filled /\ j <= k /\ ~(j < k)
          BY <1>1, <1>2, <3>1, <4>1
        <4>3. j = k
          BY <1>2, <3>1, <4>2
        <4> QED
          BY <1>1, <1>2, <3>1, <4>1, <4>3
      <3> QED
        BY <3>2, <3>3
    <2> QED
      BY <2>1, <2>2
  <1>4. /\ IsFiniteSet(Filled) /\ Cardinality(Filled) \in Nat
        /\ IsFiniteSet(Starting) /\ Cardinality(Starting) \in Nat
        /\ Cardinality(Filled') = Cardinality(Filled) + 1
        /\ Cardinality(Starting \cup {n}) = Cardinality(Starting) + 1
    <2>1. n \notin Starting
      BY <1>2 DEF Starting
    <2>2. IsFiniteSet(Filled) /\ IsFiniteSet(Starting)
      BY <1>a, FilledIsFinite
    <2> QED
      BY <1>1, <1>2, <2>1, <2>2, FS_AddElement, FS_CardinalityType
  <1>5. Starting' = IF Continues(n)' THEN Starting ELSE Starting \cup {n}
    BY <1>1, <1>2 DEF Starting
  <1>6. frames' = IF opts'.frameids THEN Cardinality(Starting') ELSE Cardinality(Filled')
    <2>1. CASE opts.frameids
      BY <1>a, <1>b, <1>c, <1>3, <1>4, <1>5, <2>1 DEF Counts
    <2>2. CASE ~opts.frameids
      BY <1>a, <1>b, <1>c, <1>4, <2>2 DEF Counts
    <2> QED
      BY <2>1, <2>2
  <1>7. Counts'
    <2>1. MaxRows \in Nat /\ rows \in Nat /\ rows = Len(input)
      BY <1>a, <1>1, TrainerAssumption DEF Counts
    <2>2. rows' = Len(input') /\ rows' <= MaxRows
      BY <1>a, <1>c, <1>n, <1>1, <2>1
    <2>3. empty' = rows' - Cardinality(Filled')
      BY <1>a, <1>c, <1>4, <2>1 DEF Counts
    <2> QED
      BY <1>a, <1>c, <1>1, <1>6, <2>2, <2>3 DEF Counts
  <1>8. Known' /\ InLine'
    <2>1. frameid' = FrameOf(line)
      BY <1>a, <1>b DEF Known, FrameOf
    <2>2. Known'
      <3>1. opts.frameids => frameid' = input'[n][1] /\ n \in Filled' /\ \A l \in Filled' : l <= n
        BY <1>1, <1>2, <2>1 DEF FrameOf
      <3>2. ~opts.frameids => frameid' = NoFrame
        BY <2>1 DEF FrameOf
      <3> QED
        BY <1>c, <3>1, <3>2 DEF Known
    <2>3. FrameOf(line)' = FrameOf(line)
      BY <1>c DEF FrameOf
    <2>4. input' # <<>> /\ input'[Len(input')] = line
      BY <1>1
    <2> QED
      BY <1>b, <1>d, <2>1, <2>2, <2>3, <2>4 DEF InLine, FrameOf
  <1>9. Lessons'
    <2>1. FrameLessons \subseteq FrameLessons'
      BY <1>a, <1>b, <1>c, <1>d, LessonsGrow
    <2>2. Start' = Start /\ Start \in Nat /\ \A l : FrameOf(l)' = FrameOf(l)
      BY <1>c DEF Start, FrameOf
    <2>3. ASSUME ~refused, opts.reverse_index
          PROVE  /\ TaughtOf(Len(input), first)'
                 /\ \A k \in DOMAIN input' :
                       k < Len(input') => TaughtOf(k, Len(input[k]) + 1)'
      <3>1. TaughtOf(Len(input), first)'
        BY <1>c, <2>2 DEF TaughtOf
      <3>2. ASSUME NEW k \in DOMAIN input', k < Len(input')
            PROVE  TaughtOf(k, Len(input[k]) + 1)'
        <4>1. k \in DOMAIN input /\ input'[k] = input[k]
          BY <1>1, <3>2
        <4>2. \A i \in Start + 1 .. Len(input[k]) :
                 <<"frame", FrameOf(input[k]), "term", input[k][i]>> \in FrameLessons
          BY <4>1 DEF FrameLessons
        <4>3. FrameLessons \subseteq taught
          BY <1>a, <2>3 DEF Lessons
        <4> QED
          BY <1>c, <2>2, <4>1, <4>2, <4>3 DEF TaughtOf, FrameOf
      <3> QED
        BY <3>1, <3>2
    <2> QED
      BY <1>a, <1>c, <2>1, <2>3 DEF Lessons
  <1> QED
    BY <1>a, <1>7, <1>8, <1>9 DEF Frames

\* Where the line is the same, so are the frames; a lesson may be new.
LEMMA FramesKept ==
  ASSUME Frames, IInv', UNCHANGED <<opts, stats, frameid, tv, input>>,
         pc' \in {"read", "reverse", "cotrain", "back", "done", "terminated"},
         pc' = "reverse" => pc = "reverse",
         Lessons'
  PROVE  Frames'
  <1>1. Filled' = Filled /\ \A k \in Filled : Continues(k)' <=> Continues(k)
    BY DEF Filled, Continues
  <1>2. Starting' = Starting
    BY <1>1 DEF Starting
  <1>3. Counts'
    BY <1>1, <1>2 DEF Frames, Counts, stats
  <1>4. Known' /\ InLine'
    BY <1>1 DEF Frames, Known, InLine, stats, FrameOf
  <1> QED
    BY <1>3, <1>4 DEF Frames

\* A lesson that is on no frame.
LEMMA LessonsOther ==
  ASSUME Lessons, UNCHANGED <<opts, tv, input>>,
         pc \in {"cotrain", "back", "read"},
         pc' \in {"cotrain", "back", "read", "done", "terminated"},
         refused => refused',
         \/ taught' = taught
         \/ \E t, s : taught' = taught \cup {OnTerm(t, s)}
  PROVE  Lessons'
  <1>1. FrameLessons' = FrameLessons
    BY DEF FrameLessons, FrameOf, Start
  <1>2. /\ {lesson \in taught' : lesson[1] = "frame"}
             \subseteq {lesson \in taught : lesson[1] = "frame"}
        /\ taught \subseteq taught'
    BY DEF OnTerm
  <1> QED
    BY <1>1, <1>2 DEF Lessons

LEMMA FramesReverse == Frames /\ Reverse => Frames'
  <1> SUFFICES ASSUME Frames, Reverse PROVE Frames'
    OBVIOUS
  <1>a. /\ IInv' /\ IInv /\ Counts /\ InLine /\ Lessons /\ Shape
        /\ pc = "reverse" /\ first \in Nat /\ first >= 1 /\ first <= Size
        /\ UNCHANGED <<opts, stats, frameid, tv, input>>
    BY IInvStep DEF Frames, IInv, Reverse, Next, Bounds
  <1> DEFINE n == Len(input)
             lesson == OnFrame(Termset[first])
             at == Start + first
  <1>1. /\ n \in DOMAIN input /\ input[n] = tv /\ frameid = FrameOf(tv)
        /\ Start \in Nat /\ at \in Start + 1 .. Len(tv)
        /\ Termset[first] = tv[at]
    <2>1. input # <<>> /\ tv = input[Len(input)] /\ frameid = FrameOf(tv)
      BY <1>a DEF InLine
    <2>2. Start \in Nat /\ Len(tv) \in Nat /\ first <= Len(tv) - Start
      BY <1>a DEF Start, Size, Shape
    <2>3. Termset[first] = tv[at]
      BY <1>a, <2>2 DEF Termset, Shape
    <2> QED
      BY <1>a, <2>1, <2>2, <2>3 DEF Counts
  <1>2. lesson = <<"frame", FrameOf(input[n]), "term", input[n][at]>>
    BY <1>1 DEF OnFrame
  <1>3. lesson \in FrameLessons
    BY <1>1, <1>2 DEF FrameLessons
  <1>4. FrameLessons' = FrameLessons /\ Start' = Start /\ \A l : FrameOf(l)' = FrameOf(l)
    BY <1>a DEF FrameLessons, FrameOf, Start
  <1>5. CASE /\ taught' = taught \cup {lesson} /\ UNCHANGED refused
             /\ first' = first + 1 /\ UNCHANGED pc
    <2>1. {x \in taught' : x[1] = "frame"} \subseteq FrameLessons'
      BY <1>a, <1>3, <1>4, <1>5 DEF Lessons
    <2>2. ASSUME ~refused, opts.reverse_index
          PROVE  /\ TaughtOf(n, first)'
                 /\ \A k \in DOMAIN input :
                       k < n => TaughtOf(k, Len(input[k]) + 1)'
      <3>1. /\ TaughtOf(n, first)
            /\ \A k \in DOMAIN input : k < n => TaughtOf(k, Len(input[k]) + 1)
        BY <1>a, <2>2 DEF Lessons
      <3>2. TaughtOf(n, first)'
        <4>1. \A i \in Start + 1 .. Len(tv) : i < Start + first + 1 => i < at \/ i = at
          BY <1>a, <1>1
        <4>2. \A i \in Start + 1 .. Len(tv) :
                 i < Start + first + 1
                   => <<"frame", FrameOf(input[n]), "term", input[n][i]>> \in taught'
          BY <1>1, <1>2, <1>5, <3>1, <4>1 DEF TaughtOf
        <4>3. /\ input' = input /\ opts' = opts /\ Start' = Start
              /\ first' = first + 1 /\ input[n] = tv
          BY <1>a, <1>1, <1>4, <1>5
        <4>4. Start + (first + 1) = Start + first + 1
          BY <1>a, <1>1
        <4> QED
          BY <4>2, <4>3, <4>4 DEF TaughtOf, FrameOf
      <3>3. \A k \in DOMAIN input : k < n => TaughtOf(k, Len(input[k]) + 1)'
        BY <1>a, <1>4, <1>5, <3>1 DEF TaughtOf, FrameOf
      <3> QED
        BY <3>2, <3>3
    <2>3. Lessons'
      BY <1>a, <1>5, <2>1, <2>2 DEF Lessons
    <2> QED
      BY <1>a, <1>5, <2>3, FramesKept DEF Frames, Counts
  <1>6. CASE refused' = TRUE /\ taught' = taught /\ UNCHANGED pc
    <2>1. Lessons'
      BY <1>a, <1>4, <1>6 DEF Lessons
    <2> QED
      BY <1>a, <1>6, <2>1, FramesKept DEF Frames, Counts
  <1>7. CASE pc' = "terminated" /\ UNCHANGED <<taught, refused>>
    <2>1. Lessons'
      BY <1>a, <1>4, <1>7 DEF Lessons
    <2> QED
      BY <1>a, <1>7, <2>1, FramesKept DEF Frames, Counts
  <1> QED
    BY <1>5, <1>6, <1>7 DEF Reverse, Superpose, Goto

\* With the last term of its line the frame has all of them.
LEMMA FramesEndReverse == Frames /\ EndReverse => Frames'
  <1> SUFFICES ASSUME Frames, EndReverse PROVE Frames'
    OBVIOUS
  <1>a. /\ IInv' /\ Counts /\ InLine /\ Lessons /\ Shape
        /\ pc = "reverse" /\ first \in Nat
        /\ ~opts.reverse_index \/ first > Size
        /\ UNCHANGED <<opts, stats, frameid, tv, input, taught, refused>>
        /\ pc' = "cotrain"
    BY IInvStep DEF Frames, IInv, EndReverse, Next, Bounds, Goto
  <1> DEFINE n == Len(input)
  <1>1. FrameLessons' = FrameLessons
    BY <1>a DEF FrameLessons, FrameOf, Start
  <1>2. ASSUME ~refused, opts.reverse_index PROVE FrameLessons \subseteq taught
    <2>1. ASSUME NEW k \in DOMAIN input, NEW i \in Start + 1 .. Len(input[k])
          PROVE  <<"frame", FrameOf(input[k]), "term", input[k][i]>> \in taught
      <3>0. Start \in Nat /\ DOMAIN input = 1 .. n /\ n \in Nat /\ Len(input[k]) \in Nat
        BY <1>a DEF Counts, Start
      <3>1. CASE k < n
        <4>1. TaughtOf(k, Len(input[k]) + 1) /\ i < Start + (Len(input[k]) + 1)
          BY <1>a, <1>2, <3>0, <3>1 DEF Lessons
        <4> QED
          BY <4>1 DEF TaughtOf
      <3>2. CASE k = n
        <4>1. TaughtOf(n, first) /\ tv = input[n] /\ first > Len(tv) - Start
          BY <1>a, <1>2 DEF Lessons, InLine, Size
        <4>2. i < Start + first
          BY <1>a, <3>0, <3>2, <4>1
        <4> QED
          BY <3>2, <4>1, <4>2 DEF TaughtOf
      <3> QED
        BY <3>0, <3>1, <3>2
    <2> QED
      BY <2>1 DEF FrameLessons
  <1>3. Lessons'
    BY <1>a, <1>1, <1>2 DEF Lessons
  <1> QED
    BY <1>a, <1>3, FramesKept

LEMMA FramesStep == Frames /\ [Next]_vars => Frames'
  <1> SUFFICES ASSUME Frames, [Next]_vars PROVE Frames'
    OBVIOUS
  <1>a. IInv' /\ Lessons /\ Counts
    BY IInvStep DEF Frames
  <1>1. CASE Forward
    <2>1. /\ UNCHANGED <<opts, stats, frameid, tv, input>> /\ pc = "cotrain"
          /\ pc' \in {"cotrain", "back", "terminated"} /\ (refused => refused')
          /\ \/ taught' = taught
             \/ taught' = taught \cup {OnTerm(Termset[first], Termset[next])}
      BY <1>1 DEF Forward, Superpose, Goto
    <2>2. Lessons'
      BY <1>a, <2>1, LessonsOther
    <2> QED
      BY <1>a, <2>1, <2>2, FramesKept
  <1>2. CASE Back
    <2>1. /\ UNCHANGED <<opts, stats, frameid, tv, input>> /\ pc = "back"
          /\ pc' \in {"cotrain", "terminated"} /\ (refused => refused')
          /\ \/ taught' = taught
             \/ taught' = taught \cup {OnTerm(Termset[next], Termset[first])}
      BY <1>2 DEF Back, Superpose, Goto
    <2>2. Lessons'
      BY <1>a, <2>1, LessonsOther
    <2> QED
      BY <1>a, <2>1, <2>2, FramesKept
  <1>3. CASE NextFirst \/ EndCotrain \/ EndOfInput
    <2>1. /\ UNCHANGED <<opts, stats, frameid, tv, input, taught, refused>>
          /\ pc \in {"cotrain", "read"} /\ pc' \in {"cotrain", "read", "done"}
      BY <1>3 DEF NextFirst, EndCotrain, EndOfInput, Goto
    <2>2. Lessons'
      BY <1>a, <2>1, LessonsOther
    <2> QED
      BY <1>a, <2>1, <2>2, FramesKept
  <1>4. CASE UNCHANGED vars
    <2>1. Lessons'
      BY <1>a, <1>4 DEF vars, Lessons, FrameLessons, FrameOf, Start, TaughtOf
    <2> QED
      BY <1>a, <1>4, <2>1, FramesKept DEF vars, Counts
  <1> QED
    BY <1>1, <1>2, <1>3, <1>4, FramesReadEmpty, FramesReadLine, FramesReverse,
       FramesEndReverse
    DEF Next

\* The typing: what is counted is among the rows, and the iterators are bounded.
LEMMA FramesTyped == Frames => TypeOK
  <1> SUFFICES ASSUME Frames PROVE TypeOK
    OBVIOUS
  <1>a. Counts /\ Shape /\ Bounds
    BY DEF Frames, IInv
  <1>1. {rows, frames, empty} \subseteq 0 .. MaxRows
    <2>1. MaxRows \in Nat /\ rows \in Nat /\ Len(input) = rows
      BY <1>a, TrainerAssumption DEF Counts
    <2>2. Cardinality(Filled) \in 0 .. rows /\ Cardinality(Starting) \in 0 .. rows
      BY <1>a, <2>1, FilledIsFinite
    <2>3. frames \in 0 .. rows /\ empty \in 0 .. rows /\ rows <= MaxRows
      BY <1>a, <2>1, <2>2 DEF Counts
    <2> QED
      BY <2>1, <2>3
  <1>2. Size \in 0 .. Len(tv) \/ tv = <<>>
    <2>1. Len(tv) \in Nat /\ (tv # <<>> => Len(tv) >= 1)
      BY <1>a DEF Shape
    <2> QED
      BY <2>1 DEF Size, Start
  <1> QED
    BY <1>a, <1>1, <1>2 DEF TypeOK, Counts, Bounds

(* The statistics are those of the lines that were read, however long the  *)
(* input and whatever the order in which frames come, go and come back.    *)
THEOREM FramesAreCounted == Spec => []FramesCounted
  <1>1. Frames => FramesCounted
    <2> SUFFICES ASSUME Frames PROVE FramesCounted
      OBVIOUS
    <2>1. TypeOK
      BY FramesTyped
    <2>2. Starting = {k \in Filled : ~Continues(k)}
      BY DEF Starting
    <2> QED
      BY <2>1, <2>2 DEF Frames, Counts, FramesCounted
  <1> QED
    BY <1>1, FramesInit, FramesStep, PTL DEF Spec

(* A frame is taught the terms of its lines and no other, and all of them  *)
(* where the database refused nothing.                                     *)
THEOREM FramesHold == Spec => []FramesHoldTheirTerms
  <1>1. Frames => FramesHoldTheirTerms
    BY DEF Frames, Lessons, FramesHoldTheirTerms
  <1> QED
    BY <1>1, FramesInit, FramesStep, PTL DEF Spec
=============================================================================
