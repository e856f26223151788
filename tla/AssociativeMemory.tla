-------------------------- MODULE AssociativeMemory --------------------------
(* What the database promises, with no image, heap, cache or process in    *)
(* it: a growing set of symbols, each with a fingerprint and a dither that *)
(* are fixed when it is defined, and with a vector that starts empty and   *)
(* changes one bit at a time, by a position of the fingerprint of a        *)
(* defined symbol: a leading position sets its bit, a trailing one clears  *)
(* it.  A lesson may be turned: its fingerprint is put elsewhere first.    *)
(* Nothing is ever undefined, renamed or unlearnt.                         *)
(*                                                                         *)
(* Nothing is promised to those who teach one symbol at the same time but  *)
(* that its vector holds bits it was taught: it is contested from then on. *)
EXTENDS Integers

CONSTANTS SymId, Dimensions, BasisSize, DitherScale, None,
          Turns     \* the ways to turn a fingerprint: functions of dimensions

VARIABLES index, basis, dither, vector, lessons, contested

mvars == <<index, basis, dither, vector, lessons, contested>>

Leading(d) == {i \in 1 .. BasisSize : i <= (d * BasisSize) \div DitherScale}

\* The bits that the lessons of t so far set.
Taught(t) == {bit \in 0 .. Dimensions - 1 :
                \E s \in SymId : \E i \in lessons[t][s] \cap Leading(dither[s]) :
                   \E turn \in Turns : turn[basis[s][i]] = bit}

Init ==
  /\ index = {}
  /\ basis = [id \in SymId |-> None]
  /\ dither = [id \in SymId |-> 0]
  /\ vector = [id \in SymId |-> {}]
  /\ lessons = [t \in SymId |-> [s \in SymId |-> {}]]
  /\ contested = {}

Define(id) ==
  /\ id \notin index
  /\ index' = index \cup {id}
  /\ \E f \in [1 .. BasisSize -> 0 .. Dimensions - 1] :
        basis' = [basis EXCEPT ![id] = f]
  /\ \E d \in 0 .. DitherScale : dither' = [dither EXCEPT ![id] = d]
  /\ UNCHANGED <<vector, lessons, contested>>

Teach(t, s) ==
  /\ {t, s} \subseteq index
  /\ \E i \in 1 .. BasisSize :
        /\ lessons' = [lessons EXCEPT ![t][s] = @ \cup {i}]
        /\ UNCHANGED <<index, basis, dither, contested>>
        /\ \/ /\ t \notin contested
              /\ \E turn \in Turns :
                    vector' = [vector EXCEPT ![t] =
                                 IF i \in Leading(dither[s])
                                 THEN @ \cup {turn[basis[s][i]]}
                                 ELSE @ \ {turn[basis[s][i]]}]
           \/ /\ t \in contested
              /\ \E bits \in SUBSET Taught(t)' :
                    vector' = [vector EXCEPT ![t] = bits]

Contest(t) ==
  /\ t \in index \ contested
  /\ contested' = contested \cup {t}
  /\ UNCHANGED <<index, basis, dither, vector, lessons>>

Next ==
  \/ \E id \in SymId : Define(id)
  \/ \E t, s \in SymId : Teach(t, s)
  \/ \E t \in SymId : Contest(t)

Spec == Init /\ [][Next]_mvars
=============================================================================
