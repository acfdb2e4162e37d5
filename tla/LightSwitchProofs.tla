---------------------------- MODULE LightSwitchProofs ----------------------------
(***************************************************************************)
(* What holds of LightSwitch for any debounce times, any bounce shorter    *)
(* than these and any time that loop() may block: a switch that is left    *)
(* alone is noticed, or is an AC switch without a running timer, and one   *)
(* move is one change.                                                     *)
(***************************************************************************)
EXTENDS LightSwitch, TLAPS

\* What the fields of a switch have to do with each other.
SaneAC(s) ==
    /\ s.Down => s.powerOnTimer = Off
    /\ ~s.Down => /\ s.lastSwitchReading => s.timer # Off /\ s.powerOnTimer # Off
                  /\ ~s.lastSwitchReading => s.timer = Off
SaneDC(s) == s.Down # s.lastSwitchReading => s.timer # Off
Sane(s)   == IF ACinput THEN SaneAC(s) ELSE SaneDC(s)

\* A switch read as it is, k units after it was moved to w: when it does not bounce
\* any more, it is read as it stands, and a change waits for its timer.
SettlesDC(s, k, w) ==
    k > Bounce => /\ s.lastSwitchReading = w
                  /\ s.Down # w => k - Bounce - 1 <= s.timer /\ s.timer <= Debounce_mS

\* An AC switch that is on gives a pulse in every second unit (half), which keeps
\* it down, or counts towards that.
SincePulse(half) == IF half THEN 0 ELSE 1
OnForSure(k, half) == k > Bounce + 1 \/ (k = Bounce + 1 /\ half)
SettlesOn(s, k, half) ==
    OnForSure(k, half) =>
        /\ s.Down => s.timer <= SincePulse(half)
        /\ ~s.Down => /\ s.lastSwitchReading /\ s.powerOnTimer <= SincePulse(half)
                      /\ k - Bounce - 2 <= s.timer /\ s.timer <= AC_DEBOUNCE_LENGTH

\* One that is off gives none: a timer that runs goes on to its end.
SettlesOff(s, k) ==
    k > Bounce =>
        /\ s.Down => s.timer = Off \/ (k - Bounce <= s.timer /\ s.timer <= AC_DEBOUNCE_LENGTH)
        /\ ~s.Down /\ s.lastSwitchReading =>
               k - Bounce <= s.powerOnTimer /\ s.powerOnTimer <= POWER_ON_CYCLE_LENGTH

Settles(s, k, w, half) ==
    IF ~ACinput THEN SettlesDC(s, k, w) ELSE IF w THEN SettlesOn(s, k, half) ELSE SettlesOff(s, k)

\* A switch that has taken its position keeps it: what is read of its bounces
\* has not lasted for longer than the bounces.
KeepsDC(s, k, w) == s.Down = w /\ (s.lastSwitchReading # w => s.timer < k)
KeepsOn(s, k)    == s.Down /\ s.timer < k
KeepsOff(s, k)   == \/ ~s.Down /\ s.timer < k
                    \/ s.Down /\ s.timer = Off /\ k = Limit
Keeps(s, k, w)   ==
    IF ~ACinput THEN KeepsDC(s, k, w) ELSE IF w THEN KeepsOn(s, k) ELSE KeepsOff(s, k)

IInv ==
    /\ TypeOK
    /\ Sane(sw) /\ Settles(sw, calm, wall, pulse)
    /\ ~moved /\ ~late => Keeps(sw, calm, wall)

--------------------------------------------------------------------------------
(* The library. *)

LEMMA MostIsLongest ==
    /\ Most \in Nat /\ Debounce_mS \in Nat /\ AC_DEBOUNCE_LENGTH \in Nat \ {0}
    /\ POWER_ON_CYCLE_LENGTH \in Nat \ {0}
    /\ Debounce_mS < Most /\ AC_DEBOUNCE_LENGTH < Most /\ POWER_ON_CYCLE_LENGTH < Most
  BY DebounceAssumption DEF Most

\* Time passes for the timers that run, and for no other.
LEMMA TimersRun ==
    ASSUME NEW t \in Timers, NEW d \in Nat \ {0}
    PROVE  /\ Later(t, d) \in Timers
           /\ t = Off <=> Later(t, d) = Off
           /\ t # Off => Later(t, d) > 0 /\ (Later(t, d) = t + d \/ Later(t, d) = Most)
           /\ t # Off /\ t < Most /\ d = 1 => Later(t, d) = t + 1
  BY MostIsLongest DEF Later, Timers, Off

\* What time makes of a switch: only its timers.
Timed(s, d) == [After(s, d) EXCEPT !.Changed = FALSE]
LEMMA AfterFacts ==
    ASSUME NEW s \in Switches, NEW d \in Nat \ {0}
    PROVE  /\ Timed(s, d) \in Switches
           /\ Timed(s, d).Down = s.Down /\ Timed(s, d).lastSwitchReading = s.lastSwitchReading
           /\ ~Timed(s, d).Changed
           /\ Timed(s, d).timer = Later(s.timer, d)
           /\ Timed(s, d).powerOnTimer = Later(s.powerOnTimer, d)
  <1>1. s.timer \in Timers /\ s.powerOnTimer \in Timers BY DEF Switches
  <1>2. Later(s.timer, d) \in Timers /\ Later(s.powerOnTimer, d) \in Timers BY <1>1, TimersRun
  <1> QED BY <1>2 DEF Timed, After, Switches

LEMMA Stopped == 0 \in Timers /\ Off \in Timers /\ 0 # Off
  BY MostIsLongest DEF Timers, Off

LEMMA Fields ==
    ASSUME NEW s \in Switches
    PROVE  /\ s.Down \in BOOLEAN /\ s.Changed \in BOOLEAN /\ s.lastSwitchReading \in BOOLEAN
           /\ s.timer \in Timers /\ s.powerOnTimer \in Timers
  BY DEF Switches

\* A switch read as it is: a new reading, a change, or nothing.
LEMMA ReadsDC ==
    ASSUME NEW s \in Switches, NEW in \in BOOLEAN, NEW t, t = updateDC(s, in)
    PROVE  /\ t \in Switches /\ t.lastSwitchReading = in
           /\ s.lastSwitchReading # in => t.Down = s.Down /\ t.timer = 0 /\ t.Changed = s.Changed
           /\ s.lastSwitchReading = in =>
                  IF s.Down # in /\ TimedOut(s.timer, Debounce_mS)
                  THEN t.Down = in /\ t.timer = Off /\ t.Changed
                  ELSE t = s
  <1> DEFINE new == s.lastSwitchReading # in
             over == s.Down # in /\ TimedOut(s.timer, Debounce_mS)
  <1>1. CASE new
    <2>1. t = [s EXCEPT !.timer = 0, !.lastSwitchReading = in] BY <1>1 DEF updateDC
    <2> QED BY <1>1, <2>1, Stopped DEF Switches
  <1>2. CASE ~new /\ over
    <2>1. t = [s EXCEPT !.timer = Off, !.Down = in, !.Changed = TRUE] BY <1>2 DEF updateDC
    <2> QED BY <1>2, <2>1, Stopped DEF Switches
  <1>3. CASE ~new /\ ~over
    <2>1. t = s BY <1>3 DEF updateDC
    <2> QED BY <1>3, <2>1
  <1> QED BY <1>1, <1>2, <1>3

\* An AC switch: the state is taken apart as the code does, one step at a time.
LEMMA PulseFacts ==
    ASSUME NEW s \in Switches, NEW t, t = Pulse(s)
    PROVE  /\ t \in Switches /\ t.Down = s.Down /\ t.Changed = s.Changed
           /\ s.Down => t.timer = 0 /\ ~t.lastSwitchReading /\ t.powerOnTimer = s.powerOnTimer
           /\ ~s.Down => /\ t.lastSwitchReading /\ t.powerOnTimer = 0
                         /\ s.lastSwitchReading => t.timer = s.timer
                         /\ ~s.lastSwitchReading => t.timer = 0
  <1>1. CASE s.Down
    <2>1. t = [s EXCEPT !.timer = 0, !.lastSwitchReading = FALSE] BY <1>1 DEF Pulse
    <2> QED BY <1>1, <2>1, Stopped DEF Switches
  <1>2. CASE ~s.Down /\ s.lastSwitchReading
    <2>1. t = [s EXCEPT !.powerOnTimer = 0] BY <1>2 DEF Pulse
    <2> QED BY <1>2, <2>1, Stopped DEF Switches
  <1>3. CASE ~s.Down /\ ~s.lastSwitchReading
    <2>1. t = [s EXCEPT !.powerOnTimer = 0, !.timer = 0, !.lastSwitchReading = TRUE]
      BY <1>3 DEF Pulse
    <2> QED BY <1>3, <2>1, Stopped DEF Switches
  <1> QED BY <1>1, <1>2, <1>3

LEMMA PulsesMissingFacts ==
    ASSUME NEW s \in Switches, NEW t, t = PulsesMissing(s)
    PROVE  /\ t \in Switches /\ t.Down = s.Down /\ t.Changed = s.Changed
           /\ ~TimedOut(s.powerOnTimer, POWER_ON_CYCLE_LENGTH) => t = s
           /\ TimedOut(s.powerOnTimer, POWER_ON_CYCLE_LENGTH) =>
                  /\ t.powerOnTimer = Off
                  /\ s.Down => t.timer = s.timer /\ t.lastSwitchReading = s.lastSwitchReading
                  /\ ~s.Down => t.timer = Off /\ ~t.lastSwitchReading
  <1> DEFINE over == TimedOut(s.powerOnTimer, POWER_ON_CYCLE_LENGTH)
  <1>1. CASE ~over
    <2>1. t = s BY <1>1 DEF PulsesMissing
    <2> QED BY <1>1, <2>1
  <1>2. CASE over /\ s.Down
    <2>1. t = [s EXCEPT !.powerOnTimer = Off] BY <1>2 DEF PulsesMissing
    <2> QED BY <1>2, <2>1, Stopped DEF Switches
  <1>3. CASE over /\ ~s.Down
    <2>1. t = [s EXCEPT !.powerOnTimer = Off, !.timer = Off, !.lastSwitchReading = FALSE]
      BY <1>3 DEF PulsesMissing
    <2> QED BY <1>3, <2>1, Stopped DEF Switches
  <1> QED BY <1>1, <1>2, <1>3

LEMMA TimeOutFacts ==
    ASSUME NEW s \in Switches, NEW t, t = TimeOut(s)
    PROVE  /\ t \in Switches
           /\ ~TimedOut(s.timer, AC_DEBOUNCE_LENGTH) => t = s
           /\ TimedOut(s.timer, AC_DEBOUNCE_LENGTH) =>
                  /\ t.timer = Off /\ t.powerOnTimer = Off /\ ~t.lastSwitchReading
                  /\ t.Down = ~s.Down /\ t.Changed
  <1> DEFINE over == TimedOut(s.timer, AC_DEBOUNCE_LENGTH)
  <1>1. CASE ~over
    <2>1. t = s BY <1>1 DEF TimeOut
    <2> QED BY <1>1, <2>1
  <1>2. CASE over
    <2>1. t = [s EXCEPT !.powerOnTimer = Off, !.timer = Off, !.lastSwitchReading = FALSE,
                        !.Down = ~s.Down, !.Changed = TRUE]
      BY <1>2 DEF TimeOut
    <2> QED BY <1>2, <2>1, Stopped DEF Switches
  <1> QED BY <1>1, <1>2

--------------------------------------------------------------------------------
(* One unit of an undisturbed switch.  n is the number of quiet units after it. *)

LEMMA Timing ==
    /\ Bounce \in Nat /\ Limit \in Nat /\ Blocked \subseteq Nat \ {0}
    /\ Debounce_mS \in Nat /\ AC_DEBOUNCE_LENGTH \in Nat \ {0} /\ POWER_ON_CYCLE_LENGTH \in Nat \ {0}
    /\ Bounce <= Debounce_mS
    /\ Bounce + POWER_ON_CYCLE_LENGTH <= AC_DEBOUNCE_LENGTH
    /\ Bounce + Debounce_mS + 2 < Limit
    /\ Bounce + AC_DEBOUNCE_LENGTH + 3 < Limit
  BY LightAssumption, TimingAssumption, DebounceAssumption

Quiet(k) == IF k < Limit THEN k + 1 ELSE Limit

LEMMA StepDC ==
    ASSUME NEW s \in Switches, NEW k \in 0 .. Limit, NEW w \in BOOLEAN, NEW in \in BOOLEAN,
           SaneDC(s),
           k + 1 > Bounce => in = w,
           SettlesDC(s, k, w), NEW n, n = Quiet(k), NEW t, t = updateDC(Timed(s, 1), in)
    PROVE  /\ SettlesDC(t, n, w)
           /\ KeepsDC(s, k, w) => KeepsDC(t, n, w) /\ t.Down = s.Down
           /\ n = Limit => KeepsDC(t, n, w) /\ t.Down = s.Down
           /\ t.Changed /\ t.Down = w => KeepsDC(t, n, w)
  <1> DEFINE u == Timed(s, 1)
  <1>0. 1 \in Nat \ {0} /\ t = updateDC(u, in) OBVIOUS
  <1>1. /\ u \in Switches /\ u.Down = s.Down /\ u.lastSwitchReading = s.lastSwitchReading
        /\ ~u.Changed /\ u.timer = Later(s.timer, 1)
    BY <1>0, AfterFacts
  <1>2. /\ s.timer \in Timers /\ s.Down \in BOOLEAN /\ s.lastSwitchReading \in BOOLEAN
        /\ u.timer \in Timers /\ t.timer \in Timers
    <2>1. t \in Switches BY <1>1, <1>0, ReadsDC
    <2> QED BY <1>1, <2>1, Fields
  <1>3. /\ s.timer = Off <=> u.timer = Off
        /\ s.timer # Off => u.timer > 0 /\ (u.timer = s.timer + 1 \/ u.timer = Most)
        /\ s.timer # Off /\ s.timer < Most => u.timer = s.timer + 1
    BY <1>1, <1>2, <1>0, TimersRun
  <1>4. t.lastSwitchReading = in BY <1>1, <1>0, ReadsDC
  <1>5. n \in 0 .. Limit /\ n > 0 /\ n <= k + 1 /\ (n = k + 1 \/ (n = k /\ k = Limit))
    BY Timing DEF Quiet
  <1> HIDE DEF u
  <1>6. CASE s.lastSwitchReading # in
    <2>1. t.Down = s.Down /\ t.timer = 0 /\ ~t.Changed BY <1>1, <1>6, <1>0, ReadsDC
    <2>2. SettlesDC(t, n, w) BY <1>4, <1>5, <1>6, <2>1, Timing DEF SettlesDC
    <2>3. KeepsDC(s, k, w) => KeepsDC(t, n, w) BY <1>4, <1>5, <2>1 DEF KeepsDC
    <2>4. k <= Bounce
      BY <1>6, Timing DEF SettlesDC
    <2>5. n # Limit BY <2>4, <1>5, Timing
    <2> QED BY <2>1, <2>2, <2>3, <2>5
  <1>7. CASE s.lastSwitchReading = in /\ s.Down # in /\ TimedOut(u.timer, Debounce_mS)
    <2>1. t.Down = in /\ t.timer = Off BY <1>1, <1>7, <1>0, ReadsDC
    <2>2. SettlesDC(t, n, w) BY <1>4, <1>5, <1>7, <2>1, Timing DEF SettlesDC
    <2>3. u.timer > Debounce_mS BY <1>7 DEF TimedOut
    <2>4. ~KeepsDC(s, k, w)
      <3>1. ASSUME s.Down = w, s.timer < k PROVE FALSE
        <4>1. k + 1 <= Bounce BY <1>7, <3>1, Timing
        <4>2. s.timer < Debounce_mS BY <1>2, <3>1, <4>1, Timing, MostIsLongest DEF Timers, Off
        <4>3. u.timer <= Debounce_mS BY <1>2, <1>3, <4>2, Timing, MostIsLongest DEF Timers, Off
        <4> QED BY <2>3, <4>3, <1>2, Timing, MostIsLongest DEF Timers, Off
      <3>2. s.Down = w => s.lastSwitchReading # w BY <1>7
      <3> QED BY <3>1, <3>2 DEF KeepsDC
    <2>5. n # Limit
      <3>1. ASSUME n = Limit PROVE FALSE
        <4>1. k > Bounce /\ in = w /\ s.Down # w BY <1>5, <1>7, <3>1, Timing
        <4>2. k - Bounce - 1 <= s.timer /\ s.timer <= Debounce_mS BY <4>1 DEF SettlesDC
        <4>3. k + 1 >= Limit BY <1>5, <3>1, Timing
        <4> QED BY <1>2, <4>2, <4>3, Timing, MostIsLongest DEF Timers, Off
      <3> QED BY <3>1
    <2>6. t.Down = w => KeepsDC(t, n, w) BY <1>4, <2>1 DEF KeepsDC
    <2> QED BY <2>2, <2>4, <2>5, <2>6
  <1>8. CASE s.lastSwitchReading = in /\ (s.Down = in \/ ~TimedOut(u.timer, Debounce_mS))
    <2>1. t = u BY <1>1, <1>8, <1>0, ReadsDC
    <2>2. t.Down = s.Down /\ ~t.Changed BY <1>1, <2>1
    <2>3. t.timer = u.timer BY <2>1
    <2>4. SettlesDC(t, n, w)
      <3> SUFFICES ASSUME n > Bounce, s.Down # w
                   PROVE  n - Bounce - 1 <= t.timer /\ t.timer <= Debounce_mS
        BY <1>4, <1>5, <2>2, Timing DEF SettlesDC
      <3>1. in = w BY <1>5, Timing
      <3>2. u.timer # Off /\ u.timer <= Debounce_mS
        BY <1>1, <1>2, <1>3, <1>8, <3>1, Timing, MostIsLongest DEF SaneDC, TimedOut, Timers, Off
      <3>3. u.timer = s.timer + 1 /\ s.timer >= 0
        BY <1>2, <1>3, <3>2, Timing, MostIsLongest DEF Timers, Off
      <3>4. k > Bounce => k - Bounce - 1 <= s.timer BY DEF SettlesDC
      <3> QED BY <1>2, <1>5, <2>3, <3>2, <3>3, <3>4, Timing, MostIsLongest DEF Timers, Off
    <2>5. KeepsDC(s, k, w) => KeepsDC(t, n, w)
      <3> SUFFICES ASSUME s.Down = w, s.lastSwitchReading # w, s.timer < k
                   PROVE  t.timer < n
        BY <1>4, <1>8, <2>2 DEF KeepsDC
      <3>1. k < Bounce BY <1>8, Timing
      <3>2. n = k + 1 BY <1>5, <3>1, Timing
      <3>3. s.timer < Most BY <1>2, <3>1, Timing, MostIsLongest DEF Timers, Off
      <3> QED BY <1>2, <1>3, <2>3, <3>2, <3>3, Timing, MostIsLongest DEF Timers, Off
    <2>6. n = Limit => KeepsDC(t, n, w)
      <3> SUFFICES ASSUME n = Limit PROVE KeepsDC(t, n, w) OBVIOUS
      <3>1. n > Bounce /\ n - Bounce - 1 > Debounce_mS BY Timing
      <3>2. t.lastSwitchReading = w /\ t.Down = w
        BY <1>2, <2>3, <2>4, <3>1, Timing, MostIsLongest DEF SettlesDC, Timers, Off
      <3> QED BY <3>2 DEF KeepsDC
    <2> QED BY <2>2, <2>4, <2>5, <2>6
  <1> QED BY <1>1, <1>6, <1>7, <1>8

\* What an AC switch makes of a reading: v after the pulse, x after the missing
\* ones, t after the time-out.
LEMMA StepAC ==
    ASSUME NEW s \in Switches, NEW d \in Nat \ {0}, NEW in \in BOOLEAN,
           NEW t, t = updateAC(Timed(s, d), in), SaneAC(s)
    PROVE  /\ t \in Switches /\ SaneAC(t)
           /\ s.Down /\ in => t.Down /\ t.timer = 0 /\ ~t.Changed
           /\ s.Down /\ ~in /\ ~TimedOut(Later(s.timer, d), AC_DEBOUNCE_LENGTH) =>
                  t.Down /\ t.timer = Later(s.timer, d) /\ ~t.Changed
           /\ s.Down /\ ~in /\ TimedOut(Later(s.timer, d), AC_DEBOUNCE_LENGTH) =>
                  ~t.Down /\ ~t.lastSwitchReading /\ t.timer = Off
           /\ ~s.Down /\ s.lastSwitchReading /\ in =>
                  /\ TimedOut(Later(s.timer, d), AC_DEBOUNCE_LENGTH) => t.Down /\ t.timer = Off
                  /\ ~TimedOut(Later(s.timer, d), AC_DEBOUNCE_LENGTH) =>
                        /\ ~t.Down /\ t.lastSwitchReading /\ ~t.Changed
                        /\ t.timer = Later(s.timer, d) /\ t.powerOnTimer = 0
           /\ ~s.Down /\ ~s.lastSwitchReading /\ in =>
                  ~t.Down /\ t.lastSwitchReading /\ ~t.Changed /\ t.timer = 0 /\ t.powerOnTimer = 0
           /\ ~s.Down /\ ~s.lastSwitchReading /\ ~in =>
                  ~t.Down /\ ~t.lastSwitchReading /\ t.timer = Off /\ ~t.Changed
           /\ ~s.Down /\ s.lastSwitchReading /\ ~in =>
                  IF TimedOut(Later(s.powerOnTimer, d), POWER_ON_CYCLE_LENGTH)
                  THEN ~t.Down /\ ~t.lastSwitchReading /\ t.timer = Off /\ ~t.Changed
                  ELSE IF TimedOut(Later(s.timer, d), AC_DEBOUNCE_LENGTH)
                  THEN t.Down /\ t.timer = Off
                  ELSE /\ ~t.Down /\ t.lastSwitchReading /\ ~t.Changed
                       /\ t.timer = Later(s.timer, d)
                       /\ t.powerOnTimer = Later(s.powerOnTimer, d)
           /\ t.Changed => t.timer = Off /\ ~t.lastSwitchReading
  <1> DEFINE u == Timed(s, d)
             v == IF in THEN Pulse(u) ELSE u
             x == PulsesMissing(v)
  <1>1. /\ u \in Switches /\ u.Down = s.Down /\ u.lastSwitchReading = s.lastSwitchReading
        /\ ~u.Changed /\ u.timer = Later(s.timer, d) /\ u.powerOnTimer = Later(s.powerOnTimer, d)
    BY AfterFacts
  <1>2. t = TimeOut(x) BY DEF updateAC
  <1>3. /\ s.timer = Off <=> u.timer = Off
        /\ s.powerOnTimer = Off <=> u.powerOnTimer = Off
    BY <1>1, Fields, TimersRun
  <1>4. ~TimedOut(Off, POWER_ON_CYCLE_LENGTH) /\ ~TimedOut(0, POWER_ON_CYCLE_LENGTH)
        /\ ~TimedOut(Off, AC_DEBOUNCE_LENGTH) /\ ~TimedOut(0, AC_DEBOUNCE_LENGTH)
    BY MostIsLongest DEF TimedOut, Off
  <1> HIDE DEF u
  <1>5. /\ v \in Switches /\ v.Down = s.Down /\ ~v.Changed
        /\ ~in => v = u
        /\ in /\ s.Down => v.timer = 0 /\ ~v.lastSwitchReading /\ v.powerOnTimer = Off
        /\ in /\ ~s.Down => /\ v.lastSwitchReading /\ v.powerOnTimer = 0
                            /\ s.lastSwitchReading => v.timer = u.timer
                            /\ ~s.lastSwitchReading => v.timer = 0
    BY <1>1, <1>3, PulseFacts DEF SaneAC
  <1> HIDE DEF v
  <1>6. /\ x \in Switches /\ x.Down = s.Down /\ ~x.Changed
        /\ in => x = v
        /\ ~in /\ s.Down => x = u
        /\ ~in /\ ~s.Down /\ ~TimedOut(u.powerOnTimer, POWER_ON_CYCLE_LENGTH) => x = u
        /\ ~in /\ ~s.Down /\ TimedOut(u.powerOnTimer, POWER_ON_CYCLE_LENGTH) =>
               x.timer = Off /\ x.powerOnTimer = Off /\ ~x.lastSwitchReading
    BY <1>1, <1>3, <1>4, <1>5, PulsesMissingFacts DEF SaneAC
  <1> HIDE DEF x
  <1>7. /\ t \in Switches
        /\ ~TimedOut(x.timer, AC_DEBOUNCE_LENGTH) => t = x
        /\ TimedOut(x.timer, AC_DEBOUNCE_LENGTH) =>
               /\ t.timer = Off /\ t.powerOnTimer = Off /\ ~t.lastSwitchReading
               /\ t.Down = ~s.Down /\ t.Changed
    BY <1>2, <1>6, TimeOutFacts
  <1>8. CASE in
    <2>1. CASE s.Down
      <3>1. t = v BY <1>4, <1>5, <1>6, <1>7, <1>8, <2>1
      <3> QED BY <1>4, <1>5, <1>8, <2>1, <1>7, <3>1 DEF SaneAC
    <2>2. CASE ~s.Down
      <3>1. x = v BY <1>6, <1>8
      <3>2. CASE TimedOut(v.timer, AC_DEBOUNCE_LENGTH)
        BY <1>1, <1>4, <1>5, <1>7, <1>8, <2>2, <3>1, <3>2 DEF SaneAC
      <3>3. CASE ~TimedOut(v.timer, AC_DEBOUNCE_LENGTH)
        <4>1. t = v BY <1>7, <3>1, <3>3
        <4> QED BY <1>1, <1>3, <1>5, <1>7, <1>8, <2>2, <3>3, <4>1, Stopped DEF SaneAC
      <3> QED BY <3>2, <3>3
    <2> QED BY <2>1, <2>2
  <1>9. CASE ~in
    <2>1. CASE s.Down
      <3>1. x = u BY <1>6, <1>9, <2>1
      <3> QED BY <1>1, <1>3, <1>7, <1>9, <2>1, <3>1 DEF SaneAC
    <2>2. CASE ~s.Down /\ ~s.lastSwitchReading
      <3>1. x.timer = Off /\ ~x.lastSwitchReading BY <1>1, <1>3, <1>6, <1>9, <2>2 DEF SaneAC
      <3>2. t = x BY <1>4, <1>7, <3>1
      <3> QED BY <1>6, <1>7, <1>9, <2>2, <3>1, <3>2 DEF SaneAC
    <2>3. CASE ~s.Down /\ s.lastSwitchReading
      <3>1. CASE TimedOut(u.powerOnTimer, POWER_ON_CYCLE_LENGTH)
        <4>1. x.timer = Off /\ ~x.lastSwitchReading BY <1>6, <1>9, <2>3, <3>1
        <4>2. t = x BY <1>4, <1>7, <4>1
        <4> QED BY <1>1, <1>6, <1>7, <1>9, <2>3, <3>1, <4>1, <4>2 DEF SaneAC
      <3>2. CASE ~TimedOut(u.powerOnTimer, POWER_ON_CYCLE_LENGTH)
        <4>1. x = u BY <1>6, <1>9, <2>3, <3>2
        <4> QED BY <1>1, <1>3, <1>7, <1>9, <2>3, <3>2, <4>1 DEF SaneAC
      <3> QED BY <3>1, <3>2
    <2> QED BY <2>1, <2>2, <2>3, <1>1, Fields
  <1> QED BY <1>8, <1>9

\* A unit of an AC switch that is on, and gives its pulse in the second half.
LEMMA StepOn ==
    ASSUME NEW s \in Switches, NEW k \in 0 .. Limit, NEW half \in BOOLEAN, NEW in \in BOOLEAN,
           SaneAC(s),
           k + 1 > Bounce => in = ~half,
           SettlesOn(s, k, half),
           NEW n, n = Quiet(k), NEW t, t = updateAC(Timed(s, 1), in)
    PROVE  /\ SettlesOn(t, n, ~half)
           /\ KeepsOn(s, k) => KeepsOn(t, n) /\ t.Down = s.Down
           /\ n = Limit => KeepsOn(t, n) /\ t.Down = s.Down
           /\ t.Changed /\ t.Down => KeepsOn(t, n)
  <1> DEFINE time == Later(s.timer, 1)
             power == Later(s.powerOnTimer, 1)
  <1>0. 1 \in Nat \ {0} OBVIOUS
  <1>1. /\ s.timer \in Timers /\ s.powerOnTimer \in Timers
        /\ s.Down \in BOOLEAN /\ s.lastSwitchReading \in BOOLEAN
    BY Fields
  <1>2. /\ time \in Timers /\ power \in Timers
        /\ s.timer = Off <=> time = Off
        /\ s.timer # Off /\ s.timer < Most => time = s.timer + 1
        /\ s.timer # Off => time = s.timer + 1 \/ time = Most
        /\ s.powerOnTimer # Off /\ s.powerOnTimer < Most => power = s.powerOnTimer + 1
    BY <1>0, <1>1, TimersRun
  <1>3. n \in 0 .. Limit /\ n > 0 /\ (n = k + 1 \/ (n = k /\ k = Limit))
    BY Timing DEF Quiet
  <1>4. /\ t \in Switches /\ SaneAC(t)
        /\ s.Down /\ in => t.Down /\ t.timer = 0
        /\ s.Down /\ ~in /\ ~TimedOut(time, AC_DEBOUNCE_LENGTH) => t.Down /\ t.timer = time
        /\ ~s.Down /\ in =>
               \/ t.Down /\ t.timer = Off
               \/ /\ ~t.Down /\ t.lastSwitchReading /\ t.powerOnTimer = 0
                  /\ s.lastSwitchReading => t.timer = time /\ ~TimedOut(time, AC_DEBOUNCE_LENGTH)
                  /\ ~s.lastSwitchReading => t.timer = 0
        /\ ~s.Down /\ s.lastSwitchReading /\ ~in /\ ~TimedOut(power, POWER_ON_CYCLE_LENGTH) =>
               \/ t.Down /\ t.timer = Off
               \/ /\ ~t.Down /\ t.lastSwitchReading /\ t.powerOnTimer = power
                  /\ t.timer = time /\ ~TimedOut(time, AC_DEBOUNCE_LENGTH)
        /\ t.Changed => t.timer = Off
    BY <1>0, <1>1, StepAC
  <1>5. t.timer \in Timers /\ t.Down \in BOOLEAN BY <1>4, Fields
  <1> HIDE DEF time, power
  <1>6. ASSUME s.Down, ~in, OnForSure(k, half) \/ s.timer < k
        PROVE  t.Down /\ t.timer = time /\ time <= AC_DEBOUNCE_LENGTH /\ time < n
    <2>1. CASE OnForSure(k, half) /\ half
      <3>1. s.timer <= 0 BY <1>6, <2>1 DEF SettlesOn, SincePulse
      <3>2. time <= 1 BY <1>1, <1>2, <3>1, MostIsLongest DEF Timers, Off
      <3>3. n > 1 BY <1>3, <2>1, Timing DEF OnForSure
      <3> QED BY <1>2, <1>4, <1>6, <3>2, <3>3, <1>3, Timing DEF TimedOut, Timers, Off
    <2>2. CASE ~(OnForSure(k, half) /\ half)
      <3>1. k <= Bounce BY <1>6, <2>2, Timing DEF OnForSure
      <3>2. s.timer < k BY <1>6, <3>1, Timing DEF OnForSure
      <3>3. time <= k BY <1>1, <1>2, <3>1, <3>2, Timing, MostIsLongest DEF Timers, Off
      <3>4. time <= AC_DEBOUNCE_LENGTH /\ time < n
        BY <1>2, <1>3, <3>1, <3>3, Timing, MostIsLongest DEF Timers, Off
      <3> QED BY <1>2, <1>4, <1>6, <3>4, MostIsLongest DEF TimedOut, Timers, Off
    <2> QED BY <2>1, <2>2
  <1>7. SettlesOn(t, n, ~half)
    <2> SUFFICES ASSUME OnForSure(n, ~half)
                 PROVE  /\ t.Down => t.timer <= SincePulse(~half)
                        /\ ~t.Down => /\ t.lastSwitchReading /\ t.powerOnTimer <= SincePulse(~half)
                                      /\ n - Bounce - 2 <= t.timer /\ t.timer <= AC_DEBOUNCE_LENGTH
      BY DEF SettlesOn
    <2>1. in = ~half BY <1>3, Timing DEF OnForSure
    <2>2. s.timer >= Off /\ s.powerOnTimer >= Off BY <1>1, MostIsLongest DEF Timers, Off
    <2>3. CASE in
      <3>1. SincePulse(~half) = 0 BY <2>1, <2>3 DEF SincePulse
      <3>2. CASE s.Down \/ t.Down
        <4>1. CASE s.Down
          <5>1. t.Down /\ t.timer = 0 BY <1>4, <2>3, <4>1
          <5> QED BY <3>1, <5>1
        <4>2. CASE ~s.Down /\ t.Down
          <5>1. t.timer = Off BY <1>4, <2>3, <4>2
          <5> QED BY <3>1, <4>2, <5>1 DEF Off
        <4> QED BY <1>1, <3>2, <4>1, <4>2
      <3>3. CASE ~s.Down /\ ~t.Down
        <4>1. t.lastSwitchReading /\ t.powerOnTimer = 0 BY <1>4, <2>3, <3>3
        <4>2. t.timer # Off /\ t.timer >= 0
          BY <1>4, <1>5, <3>3, <4>1, MostIsLongest DEF SaneAC, Timers, Off
        <4>3. t.timer <= AC_DEBOUNCE_LENGTH
          <5>1. t.timer = 0 \/ (t.timer = time /\ ~TimedOut(time, AC_DEBOUNCE_LENGTH))
            BY <1>1, <1>4, <2>3, <3>3
          <5>2. t.timer = 0 \/ ~(t.timer > AC_DEBOUNCE_LENGTH) BY <4>2, <5>1 DEF TimedOut
          <5> QED BY <1>5, <5>2, Timing, MostIsLongest DEF Timers, Off
        <4>4. CASE OnForSure(k, half)
          <5>1. s.lastSwitchReading /\ k - Bounce - 2 <= s.timer /\ s.timer <= AC_DEBOUNCE_LENGTH
            BY <3>3, <4>4 DEF SettlesOn
          <5>2. t.timer = time BY <1>4, <2>3, <3>3, <5>1
          <5>3. time = s.timer + 1 BY <1>1, <1>2, <4>2, <5>1, <5>2, MostIsLongest DEF Timers, Off
          <5> QED BY <1>1, <1>3, <3>1, <3>3, <4>1, <4>3, <5>1, <5>2, <5>3, Timing DEF Timers, Off
        <4>5. CASE ~OnForSure(k, half)
          <5>1. n <= Bounce + 2 BY <1>3, <4>5, Timing DEF OnForSure
          <5> QED BY <1>3, <1>5, <3>1, <3>3, <4>1, <4>2, <4>3, <5>1, Timing, MostIsLongest DEF Timers, Off
        <4> QED BY <4>4, <4>5
      <3> QED BY <1>1, <1>5, <3>2, <3>3
    <2>4. CASE ~in
      <3>0. half BY <2>1, <2>4
      <3>1. half /\ OnForSure(k, half)
        <4>1. n > Bounce + 1 BY <3>0 DEF OnForSure
        <4>2. k > Bounce BY <1>3, <4>1, Timing
        <4> QED BY <3>0, <4>2, Timing DEF OnForSure
      <3>2. SincePulse(~half) = 1 /\ SincePulse(half) = 0 BY <3>1 DEF SincePulse
      <3>3. CASE s.Down
        <4>1. s.timer <= 0 BY <3>1, <3>2, <3>3 DEF SettlesOn
        <4>2. time <= 1 BY <1>1, <1>2, <4>1, MostIsLongest DEF Timers, Off
        <4> QED BY <1>6, <2>4, <3>1, <3>2, <3>3, <4>2
      <3>4. CASE ~s.Down
        <4>1. /\ s.lastSwitchReading /\ s.powerOnTimer <= 0
              /\ k - Bounce - 2 <= s.timer /\ s.timer <= AC_DEBOUNCE_LENGTH
          BY <3>1, <3>2, <3>4 DEF SettlesOn
        <4>2. s.powerOnTimer = 0 /\ s.timer # Off
          BY <1>1, <3>4, <4>1, MostIsLongest DEF SaneAC, Timers, Off
        <4>3. power = 1 /\ time = s.timer + 1
          BY <1>1, <1>2, <4>1, <4>2, Timing, MostIsLongest DEF Timers, Off
        <4>4. ~TimedOut(power, POWER_ON_CYCLE_LENGTH) BY <4>3, Timing DEF TimedOut
        <4>5. CASE t.Down
          BY <1>4, <2>4, <3>2, <3>4, <4>1, <4>4, <4>5 DEF Off
        <4>6. CASE ~t.Down
          <5>1. /\ t.lastSwitchReading /\ t.powerOnTimer = power
                /\ t.timer = time /\ ~TimedOut(time, AC_DEBOUNCE_LENGTH)
            BY <1>4, <2>4, <3>4, <4>1, <4>4, <4>6
          <5>2. time <= AC_DEBOUNCE_LENGTH
            BY <1>2, <5>1, <4>2, Timing, MostIsLongest DEF TimedOut, Timers, Off
          <5> QED BY <1>1, <1>3, <3>2, <4>1, <4>3, <4>6, <5>1, <5>2, Timing DEF Timers, Off
        <4> QED BY <1>5, <4>5, <4>6
      <3> QED BY <1>1, <3>3, <3>4
    <2> QED BY <2>3, <2>4
  <1>8. KeepsOn(s, k) => KeepsOn(t, n) /\ t.Down = s.Down
    BY <1>3, <1>4, <1>6, Timing DEF KeepsOn
  <1>9. n = Limit => KeepsOn(s, k)
    <2> SUFFICES ASSUME n = Limit PROVE KeepsOn(s, k) OBVIOUS
    <2>1. k >= Limit - 1 BY <1>3, Timing
    <2>2. OnForSure(k, half) BY <2>1, Timing DEF OnForSure
    <2>3. SincePulse(half) <= 1 /\ SincePulse(half) >= 0 /\ SincePulse(half) \in Int BY DEF SincePulse
    <2>4. s.Down BY <1>1, <2>1, <2>2, Timing, MostIsLongest DEF SettlesOn, Timers, Off
    <2>5. s.timer <= 1 BY <1>1, <2>2, <2>3, <2>4, MostIsLongest DEF SettlesOn, Timers, Off
    <2> QED BY <1>1, <2>1, <2>4, <2>5, Timing, MostIsLongest DEF KeepsOn, Timers, Off
  <1>10. t.Changed /\ t.Down => KeepsOn(t, n) BY <1>3, <1>4 DEF KeepsOn, Off
  <1> QED BY <1>7, <1>8, <1>9, <1>10

\* A unit of an AC switch that is off.
LEMMA StepOff ==
    ASSUME NEW s \in Switches, NEW k \in 0 .. Limit, NEW in \in BOOLEAN,
           SaneAC(s),
           k + 1 > Bounce => ~in,
           SettlesOff(s, k),
           NEW n, n = Quiet(k), NEW t, t = updateAC(Timed(s, 1), in)
    PROVE  /\ SettlesOff(t, n)
           /\ KeepsOff(s, k) => KeepsOff(t, n) /\ t.Down = s.Down
           /\ n = Limit => KeepsOff(t, n) /\ t.Down = s.Down
           /\ t.Changed /\ ~t.Down => KeepsOff(t, n)
  <1> DEFINE time == Later(s.timer, 1)
             power == Later(s.powerOnTimer, 1)
             late1 == TimedOut(time, AC_DEBOUNCE_LENGTH)
             late2 == TimedOut(power, POWER_ON_CYCLE_LENGTH)
  <1>0. 1 \in Nat \ {0} OBVIOUS
  <1>1. /\ s.timer \in Timers /\ s.powerOnTimer \in Timers
        /\ s.Down \in BOOLEAN /\ s.lastSwitchReading \in BOOLEAN
    BY Fields
  <1>2. /\ time \in Timers /\ power \in Timers
        /\ s.timer = Off <=> time = Off
        /\ s.powerOnTimer = Off <=> power = Off
        /\ s.timer # Off /\ s.timer < Most => time = s.timer + 1
        /\ s.timer # Off => time = s.timer + 1 \/ time = Most
        /\ s.powerOnTimer # Off /\ s.powerOnTimer < Most => power = s.powerOnTimer + 1
        /\ s.powerOnTimer # Off => power = s.powerOnTimer + 1 \/ power = Most
    BY <1>0, <1>1, TimersRun
  <1>3. n \in 0 .. Limit /\ n > 0 /\ (n = k + 1 \/ (n = k /\ k = Limit))
    BY Timing DEF Quiet
  <1>4. /\ s.Down /\ ~in /\ ~late1 => t.Down /\ t.timer = time
        /\ s.Down /\ ~in /\ late1 => ~t.Down /\ ~t.lastSwitchReading /\ t.timer = Off
        /\ ~s.Down /\ in /\ ~late1 =>
               ~t.Down /\ (t.timer = 0 \/ t.timer = time)
        /\ ~s.Down /\ ~s.lastSwitchReading /\ ~in =>
               ~t.Down /\ ~t.lastSwitchReading /\ t.timer = Off
        /\ ~s.Down /\ s.lastSwitchReading /\ ~in =>
               \/ ~t.Down /\ ~t.lastSwitchReading /\ t.timer = Off
               \/ ~late2 /\ late1 /\ t.Down /\ t.timer = Off
               \/ ~late2 /\ ~late1 /\ ~t.Down /\ t.timer = time /\ t.powerOnTimer = power
        /\ t.Changed => t.timer = Off
        /\ t \in Switches
    BY <1>0, <1>1, StepAC
  <1>5. t.timer \in Timers /\ t.Down \in BOOLEAN BY <1>4, Fields
  <1> HIDE DEF time, power, late1, late2
  <1>6. /\ ~late1 => time <= AC_DEBOUNCE_LENGTH
        /\ ~late2 => power <= POWER_ON_CYCLE_LENGTH
        /\ late1 => time # Off /\ time > AC_DEBOUNCE_LENGTH
    BY <1>2, Timing, MostIsLongest DEF late1, late2, TimedOut, Timers, Off
  <1>7. SettlesOff(t, n)
    <2> SUFFICES ASSUME n > Bounce
                 PROVE  /\ t.Down => t.timer = Off \/ (n - Bounce <= t.timer /\ t.timer <= AC_DEBOUNCE_LENGTH)
                        /\ ~t.Down /\ t.lastSwitchReading =>
                               n - Bounce <= t.powerOnTimer /\ t.powerOnTimer <= POWER_ON_CYCLE_LENGTH
      BY DEF SettlesOff
    <2>1. ~in BY <1>3, Timing
    <2>2. CASE s.Down
      <3>1. CASE late1 BY <1>4, <2>1, <2>2, <3>1
      <3>2. CASE ~late1 /\ time = Off BY <1>4, <2>1, <2>2, <3>2
      <3>3. CASE ~late1 /\ time # Off
        <4>1. t.Down /\ t.timer = time /\ time <= AC_DEBOUNCE_LENGTH BY <1>4, <1>6, <2>1, <2>2, <3>3
        <4>2. s.timer # Off /\ time = s.timer + 1
          BY <1>1, <1>2, <3>3, <4>1, MostIsLongest DEF Timers, Off
        <4>3. k > Bounce => k - Bounce <= s.timer BY <2>2, <4>2 DEF SettlesOff
        <4> QED BY <1>1, <1>3, <4>1, <4>2, <4>3, Timing, MostIsLongest DEF Timers, Off
      <3> QED BY <3>1, <3>2, <3>3
    <2>3. CASE ~s.Down /\ ~s.lastSwitchReading BY <1>4, <2>1, <2>3
    <2>4. CASE ~s.Down /\ s.lastSwitchReading
      <3>1. CASE ~t.Down /\ t.lastSwitchReading
        <4>1. ~late2 /\ t.powerOnTimer = power BY <1>4, <2>1, <2>4, <3>1
        <4>2. s.powerOnTimer # Off /\ power = s.powerOnTimer + 1 /\ power <= POWER_ON_CYCLE_LENGTH
          BY <1>1, <1>2, <1>6, <2>4, <4>1, MostIsLongest DEF SaneAC, Timers, Off
        <4>3. k > Bounce => k - Bounce <= s.powerOnTimer BY <2>4 DEF SettlesOff
        <4> QED BY <1>1, <1>3, <3>1, <4>1, <4>2, <4>3, Timing, MostIsLongest DEF Timers, Off
      <3>2. CASE t.Down BY <1>4, <2>1, <2>4, <3>2
      <3> QED BY <3>1, <3>2
    <2> QED BY <1>1, <2>2, <2>3, <2>4
  <1>8. KeepsOff(s, k) => KeepsOff(t, n) /\ t.Down = s.Down
    <2>1. CASE s.Down /\ s.timer = Off /\ k = Limit
      <3>1. ~in /\ n = Limit BY <1>3, <2>1, Timing
      <3>2. time = Off /\ ~late1 BY <1>2, <1>6, <2>1
      <3> QED BY <1>4, <2>1, <3>1, <3>2, <1>5 DEF KeepsOff
    <2>2. CASE ~s.Down /\ s.timer < k /\ in
      <3>1. k < Bounce /\ n = k + 1 BY <1>3, <2>2, Timing
      <3>2. time <= k BY <1>1, <1>2, <2>2, <3>1, Timing, MostIsLongest DEF Timers, Off
      <3>3. ~late1 BY <1>2, <1>6, <3>1, <3>2, Timing, MostIsLongest DEF Timers, Off
      <3>4. ~t.Down /\ (t.timer = 0 \/ t.timer = time) BY <1>4, <2>2, <3>3
      <3>5. t.timer < n BY <1>2, <3>1, <3>2, <3>4, MostIsLongest DEF Timers, Off
      <3> QED BY <2>2, <3>4, <3>5, <1>1, <1>5 DEF KeepsOff
    <2>3. CASE ~s.Down /\ s.timer < k /\ ~in /\ ~s.lastSwitchReading
      <3>1. ~t.Down /\ t.timer = Off BY <1>4, <2>3
      <3> QED BY <1>1, <1>3, <1>5, <2>3, <3>1 DEF KeepsOff, Off
    <2>4. CASE ~s.Down /\ s.timer < k /\ ~in /\ s.lastSwitchReading
      <3>1. s.powerOnTimer # Off BY <2>4 DEF SaneAC
      <3>2. k > Bounce => k - Bounce <= s.powerOnTimer /\ s.powerOnTimer <= POWER_ON_CYCLE_LENGTH
        BY <2>4 DEF SettlesOff
      <3>3. n = k + 1 BY <1>1, <1>3, <3>2, Timing, MostIsLongest DEF Timers, Off
      <3>4. ASSUME ~late2 PROVE time <= k /\ k <= AC_DEBOUNCE_LENGTH
        <4>1. power <= POWER_ON_CYCLE_LENGTH BY <1>6, <3>4
        <4>2. power = s.powerOnTimer + 1 BY <1>1, <1>2, <3>1, <4>1, MostIsLongest DEF Timers, Off
        <4>3. k <= AC_DEBOUNCE_LENGTH
          BY <1>1, <3>2, <4>1, <4>2, Timing, MostIsLongest DEF Timers, Off
        <4> QED BY <1>1, <1>2, <2>4, <4>3, Timing, MostIsLongest DEF Timers, Off
      <3>5. ~t.Down /\ t.timer < n
        <4>1. CASE ~t.Down /\ t.timer = Off BY <1>3, <4>1 DEF Off
        <4>2. CASE ~late2 /\ late1
          BY <1>2, <1>6, <3>4, <4>2, Timing, MostIsLongest DEF Timers, Off
        <4>3. CASE ~late2 /\ ~t.Down /\ t.timer = time
          BY <1>2, <3>3, <3>4, <4>3, Timing, MostIsLongest DEF Timers, Off
        <4> QED BY <1>4, <2>4, <4>1, <4>2, <4>3
      <3> QED BY <2>4, <3>5, <1>1, <1>5 DEF KeepsOff
    <2> QED BY <2>1, <2>2, <2>3, <2>4, <1>1 DEF KeepsOff
  <1>9. n = Limit => KeepsOff(t, n) /\ t.Down = s.Down
    <2> SUFFICES ASSUME n = Limit PROVE KeepsOff(t, n) /\ t.Down = s.Down OBVIOUS
    <2>1. k >= Limit - 1 /\ k > Bounce BY <1>3, Timing
    <2>2. ~in BY <2>1, Timing
    <2>3. CASE s.Down
      <3>1. s.timer = Off
        BY <1>1, <2>1, <2>3, Timing, MostIsLongest DEF SettlesOff, Timers, Off
      <3>2. ~late1 /\ time = Off BY <1>2, <1>6, <3>1
      <3>3. t.Down /\ t.timer = Off BY <1>4, <2>2, <2>3, <3>2
      <3> QED BY <2>3, <3>3, <1>1, <1>5 DEF KeepsOff
    <2>4. CASE ~s.Down
      <3>1. ~s.lastSwitchReading
        BY <1>1, <2>1, <2>4, Timing, MostIsLongest DEF SettlesOff, Timers, Off
      <3>2. s.timer = Off BY <2>4, <3>1 DEF SaneAC
      <3>3. KeepsOff(s, k) BY <2>1, <2>4, <3>2, Timing DEF KeepsOff, Off
      <3> QED BY <1>8, <3>3
    <2> QED BY <1>1, <2>3, <2>4
  <1>10. t.Changed /\ ~t.Down => KeepsOff(t, n) BY <1>3, <1>4 DEF KeepsOff, Off
  <1> QED BY <1>7, <1>8, <1>9, <1>10

--------------------------------------------------------------------------------
(* The actions.  All of loop() begins with UpdateSwitch. *)

OtherTypes ==
    /\ ACinput \in BOOLEAN /\ wall \in BOOLEAN
    /\ gap \in {1} \cup Blocked
    /\ mode \in {"AP", "start", "joining", "serving"} /\ stopAP \in BOOLEAN
    /\ cmd_A_var \in Levels
    /\ app \in {"none", "open", "closed"} /\ sent \in Seq(Messages) /\ Len(sent) <= 1
    /\ alreadyConnected \in BOOLEAN
SwitchTypes ==
    /\ sw \in Switches /\ pulse \in BOOLEAN /\ calm \in 0 .. Limit
    /\ moved \in BOOLEAN /\ late \in BOOLEAN

LEMMA Types == TypeOK <=> OtherTypes /\ SwitchTypes
  BY DEF TypeOK, OtherTypes, SwitchTypes

SwitchInv ==
    /\ SwitchTypes
    /\ Sane(sw) /\ Settles(sw, calm, wall, pulse)
    /\ ~moved /\ ~late => Keeps(sw, calm, wall)

\* One iteration as sw sees it, after a block or after a unit.
LEMMA UpdateHolds ==
    ASSUME IInv, UpdateSwitch
    PROVE  /\ SwitchInv'
           /\ sw'.Down # sw.Down /\ ~late' => moved
  <1>1. /\ ACinput \in BOOLEAN /\ wall \in BOOLEAN /\ sw \in Switches /\ calm \in 0 .. Limit
        /\ gap \in Nat \ {0} /\ pulse \in BOOLEAN /\ moved \in BOOLEAN /\ late \in BOOLEAN
        /\ Sane(sw) /\ Settles(sw, calm, wall, pulse)
        /\ ~moved /\ ~late => Keeps(sw, calm, wall)
    BY Timing DEF IInv, TypeOK
  <1>2. /\ calm' = LateCalm /\ late' = LateNow /\ UNCHANGED <<ACinput, wall>>
        /\ pulse' = (IF gap % 2 = 0 THEN pulse ELSE ~pulse)
        /\ moved' = (moved /\ calm' < Limit /\ ~(sw'.Changed /\ sw'.Down = wall))
    BY DEF UpdateSwitch
  <1>3. PICK in \in Readings(pulse', calm + gap) : sw' = update(After(sw, gap), ACinput, in)
    BY DEF UpdateSwitch
  <1>4. pulse' \in BOOLEAN /\ in \in BOOLEAN
    <2>1. pulse' \in BOOLEAN BY <1>1, <1>2
    <2> QED BY <1>1, <1>3, <2>1 DEF Readings
  <1>5. /\ ACinput => sw' = updateAC(Timed(sw, gap), in)
        /\ ~ACinput => sw' = updateDC(Timed(sw, gap), in)
    BY <1>3 DEF update, Timed
  <1>6. sw' \in Switches /\ Sane(sw)'
    <2>1. CASE ACinput
      <3>1. sw' \in Switches /\ SaneAC(sw')
        <4>1. SaneAC(sw) BY <1>1, <2>1 DEF Sane
        <4> QED BY <1>1, <1>4, <1>5, <2>1, <4>1, StepAC
      <3> QED BY <1>2, <2>1, <3>1 DEF Sane, SaneAC
    <2>2. CASE ~ACinput
      <3>1. Timed(sw, gap) \in Switches /\ Timed(sw, gap).Down = sw.Down
            /\ Timed(sw, gap).timer = Later(sw.timer, gap)
            /\ Timed(sw, gap).lastSwitchReading = sw.lastSwitchReading
        BY <1>1, AfterFacts
      <3>2. sw.timer = Off <=> Timed(sw, gap).timer = Off BY <1>1, <3>1, Fields, TimersRun
      <3>3. SaneDC(sw) BY <1>1, <2>2 DEF Sane
      <3>4. /\ sw' \in Switches /\ sw'.lastSwitchReading = in
            /\ sw'.timer = 0 \/ sw'.Down = in \/ sw' = Timed(sw, gap)
        BY <1>4, <1>5, <2>2, <3>1, ReadsDC
      <3>5. SaneDC(sw') BY <3>1, <3>2, <3>3, <3>4, Stopped DEF SaneDC
      <3> QED BY <1>2, <2>2, <3>4, <3>5 DEF Sane, SaneDC
    <2> QED BY <2>1, <2>2
  <1>7. calm' \in 0 .. Limit /\ moved' \in BOOLEAN /\ late' \in BOOLEAN
    BY <1>1, <1>2, Timing DEF LateCalm, LateNow
  <1>8. CASE gap # 1
    <2>1. calm' = 0 /\ late' BY <1>2, <1>8 DEF LateCalm, LateNow
    <2>2. Settles(sw, calm, wall, pulse)'
      BY <2>1, Timing DEF Settles, SettlesDC, SettlesOn, SettlesOff, OnForSure
    <2> QED BY <1>4, <1>6, <1>7, <2>1, <2>2 DEF SwitchInv, SwitchTypes
  <1>9. CASE gap = 1
    <2>1. calm' = Quiet(calm) /\ (~late' => ~late \/ calm' = Limit) /\ pulse' = ~pulse
      <3>1. calm' = Quiet(calm) BY <1>2, <1>9 DEF LateCalm, Quiet
      <3>2. pulse' = ~pulse BY <1>2, <1>9
      <3>3. ~late' => ~late \/ ~(calm' < Limit) BY <1>2 DEF LateNow
      <3> QED BY <1>7, <3>1, <3>2, <3>3, Timing
    <2>2. calm + 1 > Bounce => in = (wall /\ (ACinput => ~pulse))
      <3> SUFFICES ASSUME calm + 1 > Bounce PROVE in = (wall /\ (ACinput => ~pulse)) OBVIOUS
      <3>1. ~(calm + gap <= Bounce) BY <1>1, <1>9, Timing
      <3>2. in \in {wall /\ (ACinput => pulse')} BY <1>3, <3>1 DEF Readings
      <3>3. in = (wall /\ (ACinput => pulse')) BY <3>2
      <3>4. pulse' = ~pulse BY <2>1
      <3> QED BY <3>3, <3>4
    <2>3. /\ Settles(sw', calm', wall, pulse')
          /\ Keeps(sw, calm, wall) => Keeps(sw', calm', wall) /\ sw'.Down = sw.Down
          /\ calm' = Limit => Keeps(sw', calm', wall) /\ sw'.Down = sw.Down
          /\ sw'.Changed /\ sw'.Down = wall => Keeps(sw', calm', wall)
      <3>1. CASE ~ACinput
        <4>1. SaneDC(sw) /\ SettlesDC(sw, calm, wall) BY <1>1, <3>1 DEF Sane, Settles
        <4>2. calm + 1 > Bounce => in = wall BY <1>1, <2>2, <3>1
        <4>3. /\ SettlesDC(sw', calm', wall)
              /\ KeepsDC(sw, calm, wall) => KeepsDC(sw', calm', wall) /\ sw'.Down = sw.Down
              /\ calm' = Limit => KeepsDC(sw', calm', wall) /\ sw'.Down = sw.Down
              /\ sw'.Changed /\ sw'.Down = wall => KeepsDC(sw', calm', wall)
          BY <1>1, <1>4, <1>5, <1>9, <2>1, <3>1, <4>1, <4>2, StepDC
        <4> QED BY <3>1, <4>3 DEF Settles, Keeps
      <3>2. CASE ACinput /\ wall
        <4>1. SaneAC(sw) /\ SettlesOn(sw, calm, pulse) BY <1>1, <3>2 DEF Sane, Settles
        <4>2. calm + 1 > Bounce => in = ~pulse BY <1>1, <2>2, <3>2
        <4>3. /\ SettlesOn(sw', calm', ~pulse)
              /\ KeepsOn(sw, calm) => KeepsOn(sw', calm') /\ sw'.Down = sw.Down
              /\ calm' = Limit => KeepsOn(sw', calm') /\ sw'.Down = sw.Down
              /\ sw'.Changed /\ sw'.Down => KeepsOn(sw', calm')
          BY <1>1, <1>4, <1>5, <1>9, <2>1, <3>2, <4>1, <4>2, StepOn
        <4>4. sw'.Down \in BOOLEAN BY <1>6, Fields
        <4> QED BY <2>1, <3>2, <4>3, <4>4, <1>1 DEF Settles, Keeps
      <3>3. CASE ACinput /\ ~wall
        <4>1. SaneAC(sw) /\ SettlesOff(sw, calm) BY <1>1, <3>3 DEF Sane, Settles
        <4>2. calm + 1 > Bounce => ~in BY <1>1, <2>2, <3>3
        <4>3. /\ SettlesOff(sw', calm')
              /\ KeepsOff(sw, calm) => KeepsOff(sw', calm') /\ sw'.Down = sw.Down
              /\ calm' = Limit => KeepsOff(sw', calm') /\ sw'.Down = sw.Down
              /\ sw'.Changed /\ ~sw'.Down => KeepsOff(sw', calm')
          BY <1>1, <1>4, <1>5, <1>9, <2>1, <3>3, <4>1, <4>2, StepOff
        <4>4. sw'.Down \in BOOLEAN BY <1>6, Fields
        <4> QED BY <3>3, <4>3, <4>4, <1>1 DEF Settles, Keeps
      <3> QED BY <1>1, <3>1, <3>2, <3>3
    <2>4. Settles(sw, calm, wall, pulse)'
      BY <1>2, <2>3 DEF Settles, SettlesDC, SettlesOn, SettlesOff, OnForSure, SincePulse
    <2>5. ~moved' => ~moved \/ calm' = Limit \/ (sw'.Changed /\ sw'.Down = wall)
      BY <1>1, <1>2, <1>7, Timing
    <2>6. ~moved' /\ ~late' => Keeps(sw', calm', wall)
      BY <1>1, <2>1, <2>3, <2>5
    <2>7. ~moved' /\ ~late' => Keeps(sw, calm, wall)'
      BY <1>2, <2>6 DEF Keeps, KeepsDC, KeepsOn, KeepsOff
    <2>8. sw'.Down # sw.Down /\ ~late' => moved
      BY <1>1, <2>1, <2>3
    <2> QED BY <1>4, <1>6, <1>7, <2>4, <2>7, <2>8 DEF SwitchInv, SwitchTypes
  <1> QED BY <1>8, <1>9

LEMMA InitHolds == Init => IInv
  <1> SUFFICES ASSUME Init PROVE IInv OBVIOUS
  <1> DEFINE in == wall /\ (ACinput => pulse)
  <1>1. ACinput \in BOOLEAN /\ wall \in BOOLEAN /\ pulse \in BOOLEAN /\ in \in BOOLEAN
    BY DEF Init
  <1>2. /\ sw \in Switches /\ sw.Down = in /\ sw.lastSwitchReading = in
        /\ sw.timer = Off /\ sw.powerOnTimer = Off
    BY <1>1, Stopped DEF Init, NewSwitch, Switches
  <1> HIDE DEF in
  <1>3. TypeOK
    <2>1. moved \in BOOLEAN /\ late \in BOOLEAN /\ calm \in 0 .. Limit BY Timing DEF Init
    <2>2. gap \in {1} \cup Blocked /\ cmd_A_var \in Levels /\ stopAP \in BOOLEAN
          /\ alreadyConnected \in BOOLEAN /\ app = "none" /\ mode = "AP"
      BY LightAssumption DEF Init
    <2>3. sent \in Seq(Messages) /\ Len(sent) <= 1 BY DEF Init
    <2> QED BY <1>1, <1>2, <2>1, <2>2, <2>3 DEF TypeOK
  <1>4. Sane(sw) BY <1>2 DEF Sane, SaneAC, SaneDC
  <1>5. Settles(sw, calm, wall, pulse)
    BY Timing DEF Init, Settles, SettlesDC, SettlesOn, SettlesOff, OnForSure
  <1>6. late BY DEF Init
  <1> QED BY <1>3, <1>4, <1>5, <1>6 DEF IInv

\* A step of loop(), and one that does not touch the switch.
LEMMA LoopHolds ==
    ASSUME IInv, UpdateSwitch, OtherTypes'
    PROVE  IInv' /\ (sw'.Down # sw.Down /\ ~late' => moved)
  <1>1. SwitchInv' /\ (sw'.Down # sw.Down /\ ~late' => moved) BY UpdateHolds
  <1>2. TypeOK' BY <1>1 DEF SwitchInv, SwitchTypes, OtherTypes, TypeOK
  <1> QED BY <1>1, <1>2 DEF SwitchInv, IInv

LEMMA ElseHolds ==
    ASSUME IInv, UNCHANGED <<ACinput, swVars, wall>>, OtherTypes'
    PROVE  IInv' /\ (sw'.Down # sw.Down /\ ~late' => moved)
  <1>1. /\ ACinput' = ACinput /\ sw' = sw /\ calm' = calm /\ wall' = wall /\ pulse' = pulse
        /\ moved' = moved /\ late' = late
    BY DEF swVars
  <1>2. SwitchTypes' BY <1>1 DEF IInv, TypeOK, SwitchTypes
  <1>3. TypeOK' BY <1>2 DEF SwitchTypes, OtherTypes, TypeOK
  <1>4. Sane(sw)' BY <1>1 DEF IInv, Sane, SaneAC, SaneDC
  <1>5. Settles(sw, calm, wall, pulse)'
    BY <1>1 DEF IInv, Settles, SettlesDC, SettlesOn, SettlesOff, OnForSure, SincePulse
  <1>6. (~moved /\ ~late => Keeps(sw, calm, wall))'
    BY <1>1 DEF IInv, Keeps, KeepsDC, KeepsOn, KeepsOff
  <1> QED BY <1>1, <1>3, <1>4, <1>5, <1>6 DEF IInv

\* The light: toggled, set by {A}, or as it was.
LEMMA LightTypes ==
    ASSUME OtherTypes
    PROVE  /\ light \in Levels /\ 0 \in Levels /\ stop \in BOOLEAN
           /\ \A m \in Messages : LightAfter(m, light) \in Levels
  <1>1. light \in Levels BY LightAssumption DEF light, swap01, OtherTypes
  <1>2. \A m \in Messages : m.cmd = "A" => m.arg \in Levels
    BY DEF Messages
  <1> QED BY <1>1, <1>2, LightAssumption DEF OtherTypes, stop, LightAfter

LEMMA StepHolds ==
    ASSUME IInv, [Next]_vars
    PROVE  IInv' /\ (sw'.Down # sw.Down /\ ~late' => moved)
  <1> USE LightTypes
  <1>1. OtherTypes BY DEF IInv, TypeOK, OtherTypes
  <1>2. ASSUME UpdateSwitch PROVE ACinput' \in BOOLEAN /\ wall' \in BOOLEAN
    BY <1>1, <1>2 DEF UpdateSwitch, OtherTypes
  <1>3. CASE Move
    <2>1. /\ UNCHANGED <<ACinput, sw, pulse, late, gap, mode, stopAP, cmd_A_var, app, sent, alreadyConnected>>
          /\ wall' = ~wall /\ calm' = 0 /\ moved'
      BY <1>3 DEF Move
    <2>2. TypeOK'
      <3>1. moved' \in BOOLEAN BY <1>3 DEF Move
      <3> QED BY <2>1, <3>1, Timing DEF IInv, TypeOK
    <2>3. Sane(sw)' BY <2>1 DEF IInv, Sane, SaneAC, SaneDC
    <2>4. Settles(sw, calm, wall, pulse)'
      BY <2>1, Timing DEF Settles, SettlesDC, SettlesOn, SettlesOff, OnForSure
    <2> QED BY <2>1, <2>2, <2>3, <2>4 DEF IInv
  <1>4. CASE AccessPoint
    <2>1. /\ UpdateSwitch /\ stopAP' \in BOOLEAN /\ mode' \in {"AP", "start"}
          /\ cmd_A_var' \in Levels /\ gap' \in {1} \cup Blocked
          /\ UNCHANGED <<app, sent, alreadyConnected>>
      <3>1. UpdateSwitch /\ UNCHANGED <<app, sent, alreadyConnected>> BY <1>4 DEF AccessPoint
      <3>2. PICK page \in {"none", "root", "config"}, over \in BOOLEAN :
               LET stops == stop \/ over \/ page = "config"
               IN  /\ stopAP' = stops
                   /\ mode' = IF stops THEN "start" ELSE "AP"
                   /\ cmd_A_var' = IF stops THEN 0 ELSE light
                   /\ IF stops \/ page # "none" THEN gap' \in Blocked ELSE gap' = 1
        BY <1>4 DEF AccessPoint
      <3>3. stopAP' \in BOOLEAN BY <1>1, <3>2
      <3>4. mode' \in {"AP", "start"} BY <3>2
      <3>5. cmd_A_var' \in Levels BY <1>1, <3>2
      <3>6. gap' \in {1} \cup Blocked BY <3>2
      <3> QED BY <3>1, <3>3, <3>4, <3>5, <3>6
    <2>2. OtherTypes' BY <1>1, <1>2, <2>1 DEF OtherTypes
    <2> QED BY <2>1, <2>2, LoopHolds
  <1>5. CASE startConnectingToWiFi
    <2>1. UpdateSwitch /\ OtherTypes'
      BY <1>1, <1>2, <1>5 DEF startConnectingToWiFi, OtherTypes
    <2> QED BY <2>1, LoopHolds
  <1>6. CASE checkConnected
    <2>1. UpdateSwitch /\ OtherTypes'
      BY <1>1, <1>2, <1>6 DEF checkConnected, OtherTypes
    <2> QED BY <2>1, LoopHolds
  <1>7. ASSUME Serving
        PROVE  /\ UpdateSwitch /\ ACinput' \in BOOLEAN /\ wall' \in BOOLEAN
               /\ stopAP' \in BOOLEAN /\ gap' \in {1} \cup Blocked
               /\ mode' \in {"AP", "start", "joining", "serving"}
    BY <1>1, <1>2, <1>7 DEF Serving, OtherTypes
  <1>8. CASE NoClient
    <2>1. UpdateSwitch BY <1>7, <1>8 DEF NoClient
    <2>2. alreadyConnected' \in BOOLEAN BY <1>1, <1>8 DEF NoClient, OtherTypes
    <2>3. /\ sent' \in Seq(Messages) /\ Len(sent') <= 1
          /\ app' \in {"none", "open", "closed"} /\ cmd_A_var' \in Levels
      BY <1>1, <1>8 DEF NoClient
    <2>4. OtherTypes' BY <1>7, <1>8, <2>2, <2>3 DEF NoClient, OtherTypes
    <2> QED BY <2>1, <2>4, LoopHolds
  <1>9. CASE ServeMessage
    <2>1. Serving /\ sent # <<>> /\ sent \in Seq(Messages) /\ Len(sent) <= 1
      BY <1>1, <1>9 DEF ServeMessage, OtherTypes
    <2>2. Head(sent) \in Messages /\ Tail(sent) \in Seq(Messages) /\ Len(Tail(sent)) <= 1
      BY <2>1
    <2>3. cmd_A_var' \in Levels BY <1>1, <1>9, <2>2 DEF ServeMessage
    <2>4. sent' \in Seq(Messages) /\ Len(sent') <= 1 /\ app' \in {"none", "open", "closed"}
      <3>1. CASE Head(sent).cmd = "!" BY <1>9, <3>1 DEF ServeMessage, closeConnection
      <3>2. CASE Head(sent).cmd # "!" BY <1>1, <1>9, <2>2, <3>2 DEF ServeMessage, OtherTypes
      <3> QED BY <3>1, <3>2
    <2>5. alreadyConnected' = TRUE \/ alreadyConnected' = FALSE
      BY <1>9, Zenon DEF ServeMessage, closeConnection
    <2>6. OtherTypes' BY <1>7, <2>1, <2>3, <2>4, <2>5 DEF OtherTypes
    <2> QED BY <1>7, <2>1, <2>6, LoopHolds
  <1>10. CASE ServeNothing
    <2>1. Serving BY <1>10 DEF ServeNothing
    <2>2. OtherTypes' BY <1>1, <1>7, <1>10 DEF ServeNothing, closeConnection, OtherTypes
    <2> QED BY <1>7, <2>1, <2>2, LoopHolds
  <1>11. CASE AppOpens \/ AppSends \/ AppCloses
    <2>1. appUnchanged BY <1>11 DEF AppOpens, AppSends, AppCloses
    <2>2. app' \in {"none", "open", "closed"}
      BY <1>1, <1>11 DEF AppOpens, AppSends, AppCloses, OtherTypes
    <2>3. sent' \in Seq(Messages) /\ Len(sent') <= 1
      <3>1. CASE AppSends
        <4>1. PICK m \in Messages : sent' = <<m>> BY <3>1 DEF AppSends
        <4> QED BY <4>1
      <3>2. CASE AppOpens \/ AppCloses BY <1>1, <3>2 DEF AppOpens, AppCloses, OtherTypes
      <3> QED BY <1>11, <3>1, <3>2
    <2>4. OtherTypes' BY <1>1, <2>1, <2>2, <2>3 DEF OtherTypes, appUnchanged, swVars
    <2> QED BY <2>1, <2>4, ElseHolds DEF appUnchanged
  <1>12. CASE UNCHANGED vars
    <2>1. OtherTypes' BY <1>1, <1>12 DEF OtherTypes, vars
    <2> QED BY <1>12, <2>1, ElseHolds DEF vars
  <1> QED BY <1>3, <1>4, <1>5, <1>6, <1>8, <1>9, <1>10, <1>11, <1>12 DEF Next, Loop

--------------------------------------------------------------------------------
(* The theorems. *)

LEMMA Invariance == Spec => []IInv
  <1>1. Init => IInv BY InitHolds
  <1>2. IInv /\ [Next]_vars => IInv' BY StepHolds
  <1> QED BY <1>1, <1>2, PTL DEF Spec

\* The sketch's variables keep to their types: the timers are off or count, the
\* light has a level that {A} or a toggle gives it.
THEOREM TypeCorrect == Spec => []TypeOK
  <1>1. IInv => TypeOK BY DEF IInv
  <1> QED BY <1>1, Invariance, PTL

\* A switch that is left alone is where sw says after Limit units without a block,
\* or is an AC switch that has no timer and gave no pulse.
THEOREM Settled == Spec => []SettlesInTime
  <1>1. IInv => SettlesInTime
    <2> SUFFICES ASSUME IInv, calm = Limit PROVE sw.Down = wall \/ (ACinput /\ sw.Down /\ sw.timer = Off)
      BY DEF SettlesInTime, IsNoticed
    <2>1. /\ sw \in Switches /\ wall \in BOOLEAN /\ ACinput \in BOOLEAN
          /\ Sane(sw) /\ Settles(sw, Limit, wall, pulse)
      BY DEF IInv, TypeOK
    <2>2. sw.Down \in BOOLEAN /\ sw.timer \in Timers /\ sw.powerOnTimer \in Timers
      BY <2>1, Fields
    <2>3. CASE ~ACinput
      <3>1. SettlesDC(sw, Limit, wall) BY <2>1, <2>3 DEF Settles
      <3>2. ~(sw.Down # wall) BY <2>2, <3>1, Timing, MostIsLongest DEF SettlesDC, Timers, Off
      <3> QED BY <2>1, <2>2, <3>2
    <2>4. CASE ACinput /\ wall
      <3>1. SettlesOn(sw, Limit, pulse) BY <2>1, <2>4 DEF Settles
      <3>2. sw.Down
        BY <2>2, <3>1, Timing, MostIsLongest DEF SettlesOn, OnForSure, Timers, Off
      <3> QED BY <2>2, <2>4, <3>2
    <2>5. CASE ACinput /\ ~wall
      <3>1. SettlesOff(sw, Limit) BY <2>1, <2>5 DEF Settles
      <3>2. sw.Down => sw.timer = Off
        BY <2>2, <3>1, Timing, MostIsLongest DEF SettlesOff, Timers, Off
      <3>3. sw.Down = wall \/ sw.Down BY <2>1, <2>2, <2>5, Zenon
      <3> QED BY <2>5, <3>2, <3>3
    <2> QED BY <2>1, <2>3, <2>4, <2>5
  <1> QED BY <1>1, Invariance, PTL

\* A move of the wall switch operates the light at most once.
THEOREM OneMoveOneChange == Spec => OneChangeForEachMove
  <1>1. IInv /\ [Next]_vars => [sw'.Down # sw.Down /\ ~late' => moved]_vars
    BY StepHolds
  <1> QED BY <1>1, Invariance, PTL DEF Spec, OneChangeForEachMove
================================================================================
