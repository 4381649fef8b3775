--------------------------- MODULE ReactionLedger ---------------------------
(***************************************************************************)
(* What a visitor may expect of the stored reactions, whatever accounts he *)
(* has them under: an entry <<visitor, content>> appears when he reacts    *)
(* and leaves only after a deletion that named it.  Logging in is no step  *)
(* of this specification: it moves reactions and must change none.         *)
(***************************************************************************)
CONSTANTS Visitors, Contents

VARIABLES
    ledger,         \* who has reacted to what
    withdrawn       \* the entries some deletion has named

vars == <<ledger, withdrawn>>

Entry == Visitors \X Contents

Init == ledger = {} /\ withdrawn = {}

React(e) ==
    /\ ledger' = ledger \cup {e}
    /\ UNCHANGED withdrawn

(* A deletion takes effect at once, or as far as it can; the rest may follow. *)
Withdraw(S) ==
    /\ withdrawn' = withdrawn \cup S
    /\ ledger' \subseteq ledger
    /\ ledger \ ledger' \subseteq withdrawn'

Next ==
    \/ \E e \in Entry : React(e)
    \/ \E S \in SUBSET Entry : Withdraw(S)

Spec == Init /\ [][Next]_vars
=============================================================================
