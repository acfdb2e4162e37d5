----------------------------- MODULE DebouncedSwitch -----------------------------
(***************************************************************************)
(* The library DebouncedSwitch: update() as an operator on the state of a  *)
(* switch.  An AC switch is read through a half-wave opto-isolator, which  *)
(* gives pulses while there is power; any other switch is read as it is.   *)
(* A timer is the time since it was started, or Off: the code subtracts    *)
(* start times, which is right when millis() wraps.                        *)
(***************************************************************************)
EXTENDS Integers

CONSTANTS
    Debounce_mS,            \* Debounce_mS_Down and Debounce_mS_Up are equal
    AC_DEBOUNCE_LENGTH,
    POWER_ON_CYCLE_LENGTH

ASSUME DebounceAssumption ==
    {Debounce_mS, AC_DEBOUNCE_LENGTH, POWER_ON_CYCLE_LENGTH} \subseteq Nat \ {0}

Off    == -1
Most   == AC_DEBOUNCE_LENGTH + Debounce_mS + POWER_ON_CYCLE_LENGTH     \* longer than any wait
Timers == Off .. Most

Switches == [Down : BOOLEAN, Changed : BOOLEAN, lastSwitchReading : BOOLEAN,
             timer : Timers, powerOnTimer : Timers]

\* The constructor, which reads the pin.
NewSwitch(pinInput) ==
    [Down |-> pinInput, Changed |-> pinInput, lastSwitchReading |-> pinInput,
     timer |-> Off, powerOnTimer |-> Off]

Later(t, d)  == IF t = Off THEN Off ELSE IF t + d > Most THEN Most ELSE t + d
After(s, d)  == [s EXCEPT !.timer = Later(@, d), !.powerOnTimer = Later(@, d)]
TimedOut(t, n) == t # Off /\ t > n

--------------------------------------------------------------------------------
(* An AC switch: a pulse, missing pulses, and the time-out, in this order.   *)

PulseKeepsTimer(s) == s                                           \* mutant
Pulse(s) ==
    IF s.Down THEN [s EXCEPT !.timer = 0, !.lastSwitchReading = FALSE]
    ELSE IF s.lastSwitchReading THEN [s EXCEPT !.powerOnTimer = 0]
    ELSE [s EXCEPT !.powerOnTimer = 0, !.timer = 0, !.lastSwitchReading = TRUE]

PulsesMissing(s) ==
    IF ~TimedOut(s.powerOnTimer, POWER_ON_CYCLE_LENGTH) THEN s
    ELSE IF s.Down THEN [s EXCEPT !.powerOnTimer = Off]
    ELSE [s EXCEPT !.powerOnTimer = Off, !.timer = Off, !.lastSwitchReading = FALSE]

TimeOut(s) ==
    IF ~TimedOut(s.timer, AC_DEBOUNCE_LENGTH) THEN s
    ELSE [s EXCEPT !.powerOnTimer = Off, !.timer = Off, !.lastSwitchReading = FALSE,
                   !.Down = ~@, !.Changed = TRUE]

updateAC(s, pinInput) == TimeOut(PulsesMissing(IF pinInput THEN Pulse(s) ELSE s))

--------------------------------------------------------------------------------
(* Any other switch. *)

EachReading(s, pinInput) ==                                       \* mutant
    IF s.Down = pinInput THEN s ELSE [s EXCEPT !.Down = pinInput, !.Changed = TRUE]
updateDC(s, pinInput) ==
    IF s.lastSwitchReading # pinInput
    THEN [s EXCEPT !.timer = 0, !.lastSwitchReading = pinInput]
    ELSE IF s.Down # pinInput /\ TimedOut(s.timer, Debounce_mS)
    THEN [s EXCEPT !.timer = Off, !.Down = pinInput, !.Changed = TRUE]
    ELSE s

update(s, ACinput, pinInput) ==
    LET t == [s EXCEPT !.Changed = FALSE]
    IN  IF ACinput THEN updateAC(t, pinInput) ELSE updateDC(t, pinInput)
================================================================================
