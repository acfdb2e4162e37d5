------------------------------ MODULE MCPfodParser ------------------------------
(* PfodParser on all messages of a few bytes. *)
EXTENDS PfodParser

MCVersion == <<"a">>
================================================================================
