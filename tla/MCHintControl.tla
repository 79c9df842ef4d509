--------------------------- MODULE MCHintControl ---------------------------
(* One controlled session with a thread of its own and one it shares with  *)
(* a session that lists it twice.                                          *)
EXTENDS HintControl, TLC

CONSTANTS s1, s2, t1, t2

MCTidsOf == (s1 :> <<t1, t2>>) @@ (s2 :> <<t2, t2>>)
MCILowLimit == -2
=============================================================================
