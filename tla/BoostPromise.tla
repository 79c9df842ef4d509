---------------------------- MODULE BoostPromise ----------------------------
(***************************************************************************)
(* What InteractionHandler promises, without threads, locks or system      *)
(* calls: a boost that is on stays on for as long as it is owed to some    *)
(* caller, unless it is cut short (the display went idle, or the wait      *)
(* failed).  A caller that is granted a boost revokes an earlier cut; one  *)
(* whose request is covered by the running boost does not.                 *)
(***************************************************************************)
EXTENDS Integers

CONSTANT MaxBoost   \* the longest boost a caller can be granted

VARIABLES
  boosted,  \* the boost is on
  owed,     \* time for which some caller is still owed the boost
  cut       \* the running boost was cut short and may end at any time

vars == <<boosted, owed, cut>>

AtLeast(t) == IF owed >= t THEN owed ELSE t

Init == boosted = FALSE /\ owed = 0 /\ cut = FALSE

Grant ==
  /\ boosted' = TRUE
  /\ \E t \in 0..MaxBoost : owed' = AtLeast(t)
  /\ cut' = FALSE

Cover ==
  /\ boosted
  /\ \E t \in 0..MaxBoost : owed' = AtLeast(t)
  /\ UNCHANGED <<boosted, cut>>

CutShort == boosted /\ cut' = TRUE /\ UNCHANGED <<boosted, owed>>

(* The handler is shut down: whatever was to end the boost no longer will. *)
Abandon == boosted /\ cut' = FALSE /\ UNCHANGED <<boosted, owed>>

End ==
  /\ boosted
  /\ owed = 0 \/ cut
  /\ boosted' = FALSE
  /\ owed' = 0
  /\ cut' = FALSE

TimePasses ==
  /\ owed' = IF owed = 0 THEN 0 ELSE owed - 1
  /\ UNCHANGED <<boosted, cut>>

Next == Grant \/ Cover \/ CutShort \/ Abandon \/ End \/ TimePasses

Spec == Init /\ [][Next]_vars
=============================================================================
