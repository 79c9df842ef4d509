---------------------------- MODULE MCPowerModes ----------------------------
(***************************************************************************)
(* Instances of PowerModes for TLC: the hints of the configuration file    *)
(* the device ships (configs/power/powerhint.json), as far as the modelled *)
(* modes and boosts go, and a configuration that has a hint "VR".          *)
(***************************************************************************)
EXTENDS PowerModes

CAMERA == "CAMERA_STREAMING_MID"

\* The shipped file, which has VR_MODE and no VR.
Shipped ==
  [hints  |-> {"LAUNCH", "CAMERA_LAUNCH", CAMERA, AUDIO, SUSTAINED, "VR_MODE", BOTH, RENDERING},
   states |-> <<CAMERA, SUSTAINED, "VR_MODE", BOTH>>]

\* A file that has the hints Power.cpp asks for.
WithVr ==
  [hints  |-> (Shipped.hints \ {"VR_MODE"}) \cup {VR},
   states |-> <<CAMERA, SUSTAINED, VR, BOTH>>]

MCConfigs == {Shipped, WithVr}
ExpiringHints == {"LAUNCH", "CAMERA_LAUNCH"}
=============================================================================
