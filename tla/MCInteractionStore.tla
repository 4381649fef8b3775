------------------------- MODULE MCInteractionStore -------------------------
(* InteractionStore for TLC: visitors, contents and requests are            *)
(* interchangeable, and no property speaks of one of them.                  *)
EXTENDS InteractionStore, TLC

Symmetry == Permutations(Visitors) \cup Permutations(Contents) \cup Permutations(Procs)

(* Bound: another group, and reactions that the group itself offers, only   *)
(* where requests come one at a time.                                       *)
BoundedInit == Init /\ (scene.shared \/ scene.vouched # "no" => scene.serial)
BoundedSpec == BoundedInit /\ [][Next]_vars
=============================================================================
