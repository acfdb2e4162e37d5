------------------------------- MODULE LightSwitch -------------------------------
(***************************************************************************)
(* Pfod_Wifi_Test: a light that a wall switch and a pfodApp both operate.  *)
(* Every iteration of loop() first looks at the switch (DebouncedSwitch)   *)
(* and then does one of the things that the mode calls for.  An iteration  *)
(* takes one unit of time, half an AC cycle, unless it closes the access   *)
(* point or answers a web page, which block for longer than any debounce.  *)
(* The access point time and the connection time-out are far longer than   *)
(* a unit: they may be over in any iteration.                              *)
(*                                                                         *)
(* The parser and the buffered client are as in BlindsServer, and the form *)
(* as in AccessPoint: here a message is read whole.                        *)
(***************************************************************************)
EXTENDS DebouncedSwitch, Sequences

CONSTANTS
    Levels,         \* arguments of {A}: the numbers that cmd_A_var takes
    Bounce,         \* a switch that is moved settles in this many units
    Blocked,        \* how long an iteration that blocks can take
    Limit           \* the time in which a move is noticed: see SettlesInTime

ASSUME LightAssumption ==
    /\ {0, 1} \subseteq Levels /\ Levels \subseteq Nat
    /\ Bounce \in Nat /\ Limit \in Nat /\ Blocked \subseteq Nat \ {0}

\* Contacts settle within the debounce time.  In half-cycles of 50 Hz the code's
\* times are 5 (Debounce_mS), 10 (AC_DEBOUNCE_LENGTH) and 4: both lines hold for
\* a bounce of up to 50 ms.  Limit is longer than the longest wait there is.
ASSUME TimingAssumption ==
    /\ Bounce <= Debounce_mS
    /\ Bounce + POWER_ON_CYCLE_LENGTH <= AC_DEBOUNCE_LENGTH
    /\ Bounce + Debounce_mS + 2 < Limit
    /\ Bounce + AC_DEBOUNCE_LENGTH + 3 < Limit

VARIABLES
    ACinput,        \* TRUE in the sketch, FALSE in the examples of the library
    sw,             \* the DebouncedSwitch
    wall,           \* the switch is on (AC) or down
    pulse,          \* the half-wave is in its first half
    calm,           \* units since the wall switch was moved or loop() blocked
    moved,          \* history: moved since sw took its position last, and Limit is not over
    late,           \* history: loop() has blocked, and Limit is not over
    gap,            \* what the last iteration took
    mode,           \* "AP", "start", "joining" or "serving"
    stopAP, cmd_A_var,
    app,            \* the pfodApp: "none", "open" or "closed"
    sent,           \* its messages that are not read yet
    alreadyConnected

swVars   == <<sw, moved, late, calm, pulse>>
vars == <<ACinput, swVars, wall, gap, mode, stopAP, cmd_A_var, app, sent, alreadyConnected>>

Messages == [cmd : {".", "!", "?"}, arg : {0}] \cup [cmd : {"A"}, arg : Levels]

TypeOK ==
    /\ ACinput \in BOOLEAN /\ sw \in Switches /\ wall \in BOOLEAN /\ pulse \in BOOLEAN
    /\ calm \in 0 .. Limit /\ moved \in BOOLEAN /\ late \in BOOLEAN
    /\ gap \in {1} \cup Blocked
    /\ mode \in {"AP", "start", "joining", "serving"} /\ stopAP \in BOOLEAN
    /\ cmd_A_var \in Levels
    /\ app \in {"none", "open", "closed"} /\ sent \in Seq(Messages) /\ Len(sent) <= 1
    /\ alreadyConnected \in BOOLEAN

\* setup() waits for five seconds with the light on, and opens the access point.
Init ==
    /\ ACinput \in BOOLEAN /\ wall \in BOOLEAN /\ pulse \in BOOLEAN
    /\ sw = NewSwitch(wall /\ (ACinput => pulse))
    /\ calm = 0 /\ moved = (wall # sw.Down) /\ late = TRUE /\ gap \in Blocked
    /\ mode = "AP" /\ stopAP = FALSE /\ cmd_A_var = 1
    /\ app = "none" /\ sent = <<>> /\ alreadyConnected = FALSE

--------------------------------------------------------------------------------
(* The wall switch, and what digitalRead() finds. *)

Move ==
    /\ wall' = ~wall /\ calm' = 0 /\ moved' = TRUE
    /\ UNCHANGED <<ACinput, sw, pulse, late, gap, mode, stopAP, cmd_A_var, app, sent, alreadyConnected>>

Readings(half, quiet) ==
    IF quiet <= Bounce THEN BOOLEAN ELSE {wall /\ (ACinput => half)}

--------------------------------------------------------------------------------
(* loop().  sw.update() after the time that the last iteration took; then    *)
(* processSwitch() toggles the light and stops the access point.             *)

LateCalm == IF gap # 1 THEN 0 ELSE IF calm < Limit THEN calm + 1 ELSE Limit
LateNow  == gap # 1 \/ (late /\ LateCalm < Limit)

UpdateSwitch ==
    /\ pulse' = IF gap % 2 = 0 THEN pulse ELSE ~pulse
    /\ calm' = LateCalm /\ late' = LateNow
    /\ \E pinInput \in Readings(pulse', calm + gap) : sw' = update(After(sw, gap), ACinput, pinInput)
    /\ moved' = (moved /\ calm' < Limit /\ ~(sw'.Changed /\ sw'.Down = wall))
    /\ UNCHANGED <<ACinput, wall>>

Negates(in) == 1 - in                                             \* mutant
swap01(in)  == IF in = 0 THEN 1 ELSE 0
light       == IF sw'.Changed THEN swap01(cmd_A_var) ELSE cmd_A_var
stop        == stopAP \/ sw'.Changed

\* The access point: a page is asked for or not, its time is over or not.
\* handleConfig() stops it; closeAP() turns off the light.
AccessPoint ==
    /\ mode = "AP" /\ UpdateSwitch
    /\ \E page \in {"none", "root", "config"}, over \in BOOLEAN :
          LET stops == stop \/ over \/ page = "config"
          IN  /\ stopAP' = stops
              /\ mode' = IF stops THEN "start" ELSE "AP"
              /\ cmd_A_var' = IF stops THEN 0 ELSE light
              /\ IF stops \/ page # "none" THEN gap' \in Blocked ELSE gap' = 1
    /\ UNCHANGED <<app, sent, alreadyConnected>>

startConnectingToWiFi ==
    /\ mode = "start" /\ UpdateSwitch
    /\ mode' = "joining" /\ cmd_A_var' = light /\ stopAP' = stop /\ gap' = 1
    /\ UNCHANGED <<app, sent, alreadyConnected>>

checkConnected ==
    /\ mode = "joining" /\ UpdateSwitch
    /\ mode' \in {"joining", "serving"}
    /\ cmd_A_var' = light /\ stopAP' = stop /\ gap' = 1
    /\ UNCHANGED <<app, sent, alreadyConnected>>

\* closeConnection(): stopAll() ends the connection.
closeConnection == app' = "none" /\ sent' = <<>> /\ alreadyConnected' = FALSE

Serving == mode = "serving" /\ UpdateSwitch /\ stopAP' = stop /\ gap' = 1 /\ UNCHANGED mode

\* The handle is false when the connection has gone and all is read: the next
\* is taken.  alreadyConnected stays, unless CONNECTION_TIMEOUT is over or the
\* connection went between the test of the handle and connected().
NoClient ==
    /\ Serving
    /\ app = "none" \/ (app = "closed" /\ sent = <<>>)
    /\ app' = "none" /\ sent' = <<>> /\ alreadyConnected' \in {alreadyConnected, FALSE}
    /\ cmd_A_var' = light

\* A message, or nothing, is read from a connection that is up or holds data.
LightAfter(m, level) == IF m.cmd = "A" THEN m.arg ELSE level
ServeMessage ==
    /\ Serving /\ sent # <<>> /\ app # "none"
    /\ cmd_A_var' = LightAfter(Head(sent), light)
    /\ IF Head(sent).cmd = "!"
       THEN closeConnection
       ELSE sent' = Tail(sent) /\ alreadyConnected' = TRUE /\ UNCHANGED app

ServeNothing ==
    /\ Serving /\ sent = <<>> /\ app = "open"
    /\ cmd_A_var' = light
    /\ \/ alreadyConnected' = TRUE /\ UNCHANGED <<app, sent>>
       \/ alreadyConnected /\ closeConnection                     \* CONNECTION_TIMEOUT

Loop == AccessPoint \/ startConnectingToWiFi \/ checkConnected
        \/ NoClient \/ ServeMessage \/ ServeNothing

--------------------------------------------------------------------------------
(* The pfodApp (external). *)

appUnchanged == UNCHANGED <<ACinput, swVars, wall, gap, mode, stopAP, cmd_A_var, alreadyConnected>>

AppOpens  == mode = "serving" /\ app = "none" /\ app' = "open" /\ UNCHANGED sent /\ appUnchanged
AppSends  == app = "open" /\ sent = <<>> /\ (\E m \in Messages : sent' = <<m>>) /\ UNCHANGED app /\ appUnchanged
AppCloses == app = "open" /\ app' = "closed" /\ UNCHANGED sent /\ appUnchanged

Next == Loop \/ Move \/ AppOpens \/ AppSends \/ AppCloses
Spec == Init /\ [][Next]_vars

--------------------------------------------------------------------------------
(* Properties. *)

\* Each move of the wall switch operates the light at most once, whatever its
\* contacts bounce and whatever the phase of the pulses: sw changes only when
\* the switch was moved since sw took its position last.  After loop() was blocked this
\* can fail, so that is left out.
OneChangeForEachMove == [][sw'.Down # sw.Down /\ ~late' => moved]_vars

\* DebouncedSwitch.h: "for ACinput switch after 5 pulses on or missing 5 pulses
\* at 50Hz".  A switch that is left alone is where sw says after Limit units
\* without a block.
IsNoticed == calm = Limit => sw.Down = wall

\* What holds of that: the only switch that is missed is an AC switch that has
\* turned on, or was on in the constructor, and gave no pulse since; there is
\* no timer that would turn it off.
SettlesInTime == IsNoticed \/ (ACinput /\ sw.Down /\ sw.timer = Off)
================================================================================
