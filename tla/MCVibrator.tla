----------------------------- MODULE MCVibrator -----------------------------
(***************************************************************************)
(* An instance of Vibrator: one effect with a trigger, one that is timed,  *)
(* one that is not supported.                                              *)
(***************************************************************************)
EXTENDS Vibrator

MCEffects == {"CLICK", "THUD", "STRENGTH_SWEEP"}
MCEffectTicks == [CLICK |-> 1, THUD |-> 1, STRENGTH_SWEEP |-> 0]
=============================================================================
