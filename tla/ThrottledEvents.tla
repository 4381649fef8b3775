-------------------------- MODULE ThrottledEvents --------------------------
(***************************************************************************)
(* Throttled scroll events of the widget: a list of callbacks behind one   *)
(* DOM listener, called at most once per 66 ms.  The list is made for the  *)
(* first callback and dropped with the last one; a dropped list may still  *)
(* have its timer running, and a new list be there by then.                *)
(*                                                                         *)
(* The operations are functions of the state of all lists, since a step of *)
(* a module that uses them may take callbacks off and put others on.       *)
(***************************************************************************)
EXTENDS Naturals, FiniteSets, FiniteSetsExt

CONSTANT MaxLists   \* bound: lists at a time, dropped ones with a timer included

(* The callbacks and timer of each list, and throttledListeners['scroll'],  *)
(* which is 0 when there is none.                                           *)
IsThrottle(t, Callbacks) ==
    /\ DOMAIN t.lists = 1..MaxLists
    /\ t.current \in 0..MaxLists
    /\ \A l \in 1..MaxLists :
         /\ t.lists[l].callbacks \subseteq Callbacks
         /\ t.lists[l].timer \in BOOLEAN
         /\ l = t.current <=> t.lists[l].callbacks # {}

NoThrottle ==
    [lists |-> [l \in 1..MaxLists |-> [callbacks |-> {}, timer |-> FALSE]], current |-> 0]

Registered(t) == UNION {t.lists[l].callbacks : l \in 1..MaxLists}
Idle(t) == {l \in 1..MaxLists : l # t.current /\ ~t.lists[l].timer}

-----------------------------------------------------------------------------
(* on('scroll', c): the first callback makes a list, which listens at once. *)
On(t, c) ==
    LET l == IF t.current = 0 THEN Min(Idle(t)) ELSE t.current
    IN  [lists |-> [t.lists EXCEPT ![l].callbacks = @ \cup {c}], current |-> l]

(* off('scroll', c) for each c of cs: with its last callback the list is    *)
(* dropped.  Its timer is not cleared.                                      *)
Off(t, cs) ==
    IF t.current = 0 THEN t
    ELSE [lists |-> [t.lists EXCEPT ![t.current].callbacks = @ \ cs],
          current |-> IF t.lists[t.current].callbacks \subseteq cs THEN 0 ELSE t.current]

(* Mutant: one timer for all the lists there have been. *)
HandleEventOneTimer(t) ==
    IF t.current = 0 \/ \E l \in 1..MaxLists : t.lists[l].timer THEN t
    ELSE [t EXCEPT !.lists[t.current].timer = TRUE]

(* handleEvent: the window is scrolled. *)
HandleEvent(t) ==
    IF t.current = 0 THEN t ELSE [t EXCEPT !.lists[t.current].timer = TRUE]

(* The timer of list l ends: its callbacks are called, and those of leaving *)
(* take themselves off.                                                     *)
TimerEnded(t, l, leaving) == Off([t EXCEPT !.lists[l].timer = FALSE], leaving)
=============================================================================
