---------------------------- MODULE MCFingerprint ----------------------------
(***************************************************************************)
(* Instances of Fingerprint for TLC: what the vendor library returns, the  *)
(* flags this board builds with, and a build with every flag that matters  *)
(* here, whose uinput device may fail.                                     *)
(***************************************************************************)
EXTENDS Fingerprint

MCResults == {0, -5, -1}
MCSettings == {{"HAS_FINGERPRINT_GESTURES"}, Flags}
=============================================================================
