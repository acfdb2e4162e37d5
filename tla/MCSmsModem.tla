------------------------------- MODULE MCSmsModem -------------------------------
(* SmsModem with a SIM that holds more messages than the queue. *)
EXTENDS SmsModem
================================================================================
