------------------------- MODULE MCPowerHintSession -------------------------
(***************************************************************************)
(* An instance of PowerHintSession for TLC.                                *)
(***************************************************************************)
EXTENDS PowerHintSession, TLC

CONSTANTS s1, s2, t1, t2

\* Two sessions that share a thread.
SharedTids == (s1 :> <<t1>>) @@ (s2 :> <<t1, t2>>)
=============================================================================
