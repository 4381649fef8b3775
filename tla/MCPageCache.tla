---------------------------- MODULE MCPageCache ----------------------------
(* PageCache for TLC.                                                       *)
EXTENDS PageCache

(* Bounds: the replica is one change behind at most; the entry of a page    *)
(* alone is changed as often as there are versions, and only one reader at  *)
(* a time is still there after the last change.                             *)
Bounded ==
    /\ database - replica <= 1
    /\ crosspage => database < MaxVersion
    /\ database = MaxVersion => \E r \in Readers : pc[r] = "idle"
=============================================================================
