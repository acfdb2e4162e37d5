-------------------------------- MODULE MCEspAt --------------------------------
(* EspAt with one client that comes and goes.                                *)
EXTENDS EspAt
================================================================================
