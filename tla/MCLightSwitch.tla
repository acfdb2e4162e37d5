------------------------------ MODULE MCLightSwitch ------------------------------
(* LightSwitch with short waits: see the README for how they relate.            *)
EXTENDS LightSwitch
================================================================================
