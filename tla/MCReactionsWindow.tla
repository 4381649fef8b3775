------------------------- MODULE MCReactionsWindow -------------------------
(* ReactionsWindow for TLC.  Nothing but its types is claimed of a window    *)
(* once it is overtaken, and taps on what moves then go on for ever: TLC     *)
(* looks at such a state, and no further.                                    *)
EXTENDS ReactionsWindow

Settling == ~overtaken
=============================================================================
