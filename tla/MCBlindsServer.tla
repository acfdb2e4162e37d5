----------------------------- MODULE MCBlindsServer -----------------------------
(* BlindsServer on small instances.  The peers are not declared symmetric:      *)
(* liveness is checked too.                                                     *)
EXTENDS BlindsServer

CONSTANTS c1, c2
================================================================================
