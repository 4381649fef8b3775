--------------------------- MODULE MCPageRegistry ---------------------------
(* Instances of PageRegistry.  The first two URLs are of one page, whose      *)
(* addresses differ in what the server strips: they have one hash.            *)
EXTENDS PageRegistry

SharedHash == <<4, 4, 5>>

LastRepeats == <<1, 2, 3, 2>>
NoExtension == {}
=============================================================================
