---------------------------- MODULE MCInteraction ----------------------------
(* The interaction handler with two ticks to the millisecond, a 3-bit int  *)
(* (in milliseconds) and arguments whose sums with the offset fall below,  *)
(* on, between and above the limits, and below zero.                       *)
EXTENDS InteractionHandler

MCDurations == {-4, -2, 0, 2, 4}
=============================================================================
