---------------------------- MODULE RequestReply ----------------------------
(***************************************************************************)
(* What the widget expects of the cross-domain (XDM) channel, with no       *)
(* channel in it.  Requests are numbered in the order in which the widget's *)
(* code asked for them.  A request may be lost, but one that is performed is*)
(* performed once, never after a later one, and its callback runs once at   *)
(* most and only when the request was performed.  Both are counted, so that *)
(* a repetition is a step that no action below allows.                      *)
(***************************************************************************)
EXTENDS Naturals

CONSTANT Requests  \* the ranks of the requests

VARIABLES
    issued,     \* how many requests the widget has asked for
    performed,  \* how often the other side has carried out each request
    called      \* how often the callback of each request has been entered

vars == <<issued, performed, called>>

Init ==
    /\ issued = 0
    /\ performed = [r \in Requests |-> 0]
    /\ called = [r \in Requests |-> 0]

Issue == /\ issued' = issued + 1
         /\ UNCHANGED <<performed, called>>

Perform(r) == /\ r <= issued
              /\ \A q \in Requests : performed[q] > 0 => q < r
              /\ performed' = [performed EXCEPT ![r] = @ + 1]
              /\ UNCHANGED <<issued, called>>

Call(r) == /\ performed[r] > 0 /\ called[r] = 0
           /\ called' = [called EXCEPT ![r] = 1]
           /\ UNCHANGED <<issued, performed>>

Next == Issue \/ \E r \in Requests : Perform(r) \/ Call(r)

Spec == Init /\ [][Next]_vars
=============================================================================
