-------------------------- MODULE MCUsbPortStatus --------------------------
(* A charging laptop, a USB stick on an OTG cable and a headset.           *)
EXTENDS UsbPortStatus

MCPartners ==
  {[power |-> "sink", data |-> "device", accessory |-> "none", pd |-> TRUE],
   [power |-> "source", data |-> "host", accessory |-> "none", pd |-> FALSE],
   [power |-> "source", data |-> "host", accessory |-> "analog_audio", pd |-> FALSE]}
=============================================================================
