---------------------------- MODULE MCControllerApps ----------------------------
(* ControllerApps with two blinds.                                            *)
EXTENDS ControllerApps
================================================================================
