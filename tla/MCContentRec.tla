---------------------------- MODULE MCContentRec ----------------------------
(* ContentRec for TLC: contents of the widgets' pages and of one more, of   *)
(* every type.                                                              *)
EXTENDS ContentRec

CONSTANTS p1, p2, p3, p4

MCContents == {[page |-> p1, type |-> "text"], [page |-> p2, type |-> "youtube"],
               [page |-> p3, type |-> "image"], [page |-> p3, type |-> "text"],
               [page |-> p4, type |-> "video"]}
=============================================================================
