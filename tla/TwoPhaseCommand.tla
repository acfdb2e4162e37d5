---------------------------- MODULE TwoPhaseCommand ----------------------------
(***************************************************************************)
(* What the blinds promise a user about the motors: a command is first     *)
(* put on hold, and a motor turns only while the held command is being     *)
(* carried out after a confirmation.  A held command is confirmed once or  *)
(* given up; it is never replaced by another one while it is held.         *)
(*                                                                         *)
(* No client, message, timer or pin appears here: BlindsServer says how    *)
(* the sketch gets there, and is shown to implement this specification.    *)
(***************************************************************************)
CONSTANTS Commands,   \* what a client can ask for
          Motors,     \* the commands that turn a motor
          Confirm,    \* the command that confirms
          None        \* no command

VARIABLES held,       \* the command waiting for its confirmation, or None
          running,    \* the motor being driven, or None
          said        \* the last command of a client, or None

avars == <<held, running, said>>

Init == held = None /\ running = None /\ said = None

\* A first message is put on hold.
Hold(x) ==
    /\ held = None /\ running = None
    /\ said' = x /\ held' = x
    /\ UNCHANGED running

\* The confirmation of a held motor command starts that motor; the command
\* stays held until the run is over.
Run ==
    /\ held \in Motors /\ running = None
    /\ said' = Confirm /\ running' = held
    /\ UNCHANGED held

\* The run is over, and with it the command.
Finish ==
    /\ running # None
    /\ held' = None /\ running' = None
    /\ UNCHANGED said

\* The held command is rejected, or is confirmed but turns no motor.
GiveUp(x) ==
    /\ held # None /\ running = None
    /\ x = Confirm => held \notin Motors
    /\ said' = x /\ held' = None
    /\ UNCHANGED running

\* A power cut forgets everything and stops the motor.
PowerCut == held' = None /\ running' = None /\ said' = None

Next == (\E x \in Commands : Hold(x) \/ GiveUp(x)) \/ Run \/ Finish \/ PowerCut

Spec == Init /\ [][Next]_avars
================================================================================
