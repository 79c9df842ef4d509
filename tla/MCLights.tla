------------------------------ MODULE MCLights ------------------------------
(***************************************************************************)
(* Four levels for each channel; colours that are dark, mixed and white;   *)
(* every flash mode, on all the time and in a rhythm.                      *)
(***************************************************************************)
EXTENDS Lights

MCState(c, f) ==
  [r |-> c[1], g |-> c[2], b |-> c[3],
   flashMode |-> f[1], flashOnMs |-> f[2], flashOffMs |-> f[3]]

MCLightStates ==
  { MCState(<<0, 0, 0>>, <<"NONE", 0, 0>>), MCState(<<3, 3, 3>>, <<"NONE", 0, 0>>),
    MCState(<<1, 2, 3>>, <<"TIMED", 2, 1>>), MCState(<<3, 1, 0>>, <<"HARDWARE", 2, 0>>),
    MCState(<<2, 0, 0>>, <<"HARDWARE", 2, 1>>) }

MCLedBrightness == [BATTERY |-> 2, NOTIFICATIONS |-> 3, ATTENTION |-> 3]
=============================================================================
