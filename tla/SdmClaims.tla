------------------------------ MODULE SdmClaims ------------------------------
(* What comments, declarations and tests of the repository say of the      *)
(* database and the code does not do.  Each claim is the one property of a *)
(* run that TLC refutes; README.md quotes the lines.                       *)
EXTENDS MCSdmDatabase

(* "remove source from target -- source and target must exist else this is *)
(* a noop" (database.cpp:151): after a subtract of two symbols that exist  *)
(* no leading element of the source is left in the target.                 *)
SubtractRemoves ==
  \A p \in Procs :
     pc[p] = "idle" /\ call[p].op = "subtract" /\ call[p].status = "AOLD"
       => \A i \in 1 .. Heads(dither[call[p].src]) :
             basis[call[p].src][i] \notin vector[call[p].tgt]

(* "train with differentiated instances of terms" (frametrain.cpp:140-141) *)
(* by the shift argument of superpose: a success has set the fingerprint   *)
(* rotated by the shift.                                                   *)
ShiftLearnt ==
  \A p \in Procs :
     /\ pc[p] = "idle"
     /\ call[p].op = "superpose"
     /\ call[p].status \in Success
     => \A i \in 1 .. Heads(dither[call[p].src]) :
           (basis[call[p].src][i] + call[p].shift) % Dimensions
              \in vector[call[p].tgt]

(* "cache all spaces at rts start up via ensure space_by_name"             *)
(* (manifold.cpp:318): an opened database has every space in its cache.    *)
StartUpCachesAll ==
  [][\A p \in Procs :
       pc[p] = "down" /\ pc'[p] = "idle" => cache'[p] = tables]_vars

(* "read through space cache" (manifold.hpp:255): a space that is in the   *)
(* image is not reported missing.                                          *)
ReadsThrough ==
  [][\A p \in Procs :
       call'[p] # call[p] /\ call'[p].status = "ESPACE"
         => ~({SpaceOf(call'[p].tgt), SpaceOf(call'[p].src)}
                \subseteq tables)]_vars

(* superpose is declared noexcept and "may cause memory outage which may   *)
(* incur database growth if possible (or indeed may fail)"                 *)
(* (database.cpp:69-72): the caller gets a status, and keeps its process.  *)
OutageIsReported ==
  \A p \in Procs : call[p].status # "terminated"

(* A symbol is named by its "fingerprint" (symbol.hpp:15), and elemental   *)
(* vectors are "random" (symbol_space.hpp:38): two symbols of one database *)
(* have different ones.                                                    *)
FingerprintsDiffer ==
  \A x, y \in index : basis[x] = basis[y] => x = y

(* superpose is one of the "learning/transactional operations"             *)
(* (database.cpp:61-63): of two calls on one target that both succeeded,   *)
(* the one that came last is in force as a whole, bit for bit.             *)
InForce(p) ==
  \A i \in Positions :
     basis[call[p].src][i] \in vector[call[p].tgt]
       <=> i <= Heads(dither[call[p].src])

LessonsSerialize ==
  \A p, q \in Procs :
     /\ p # q
     /\ pc[p] = "idle" /\ call[p].op = "superpose" /\ call[p].status \in Success
     /\ pc[q] = "idle" /\ call[q].op = "superpose" /\ call[q].status \in Success
     /\ call[p].tgt = call[q].tgt
     => InForce(p) \/ InForce(q)

(* "CAVEAT: this must follow any insertions in the space as any insert to  *)
(* index MAY invalidate vector or symbol pointers" (database.cpp:115-118): *)
(* nothing is inserted into a space while superpose holds a reference to a *)
(* symbol of it.                                                           *)
InsertionsComeFirst ==
  [][\A p \in Procs :
       pc[p] \in {"find_target", "construct_target", "link_target", "learn", "store"}
         => \A id \in index' \ index : SpaceOf(id) # SpaceOf(call[p].src)]_vars

=============================================================================
