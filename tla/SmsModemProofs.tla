------------------------------ MODULE SmsModemProofs ------------------------------
(***************************************************************************)
(* What holds of SmsModem for any SIM, any length of the queue, any number *)
(* of messages and any length of a response: the driver and its modem stay *)
(* in step until the queue has overflowed, there is always something to    *)
(* send when the modem prompts, and, while messages arrive on an idle line *)
(* only, whatever is asked for comes.                                      *)
(***************************************************************************)
EXTENDS SmsModem, SequenceTheorems, TLAPS

--------------------------------------------------------------------------------
(* Sequences, as the steps change them.                                      *)

LEMMA AppendFacts ==
    ASSUME NEW S, NEW s \in Seq(S), NEW e \in S, NEW t, t = Append(s, e)
    PROVE  /\ t \in Seq(S) /\ Len(s) \in Nat /\ Len(t) = Len(s) + 1 /\ t # <<>>
           /\ \A i \in 1 .. Len(s) : t[i] = s[i]
           /\ t[Len(s) + 1] = e
  BY AppendProperties, LenProperties

LEMMA TailFacts ==
    ASSUME NEW S, NEW s \in Seq(S), s # <<>>
    PROVE  /\ Head(s) = s[1] /\ s[1] \in S /\ Tail(s) \in Seq(S)
           /\ Len(s) \in Nat /\ Len(s) >= 1 /\ Len(Tail(s)) = Len(s) - 1
           /\ \A i \in 1 .. Len(s) - 1 : Tail(s)[i] = s[i + 1]
  <1>1. Len(s) \in Nat /\ Len(s) >= 1 BY EmptySeq
  <1>2. Head(s) \in S /\ Tail(s) \in Seq(S) /\ Len(Tail(s)) = Len(s) - 1
        /\ \A i \in 1 .. Len(s) - 1 : Tail(s)[i] = s[i + 1]
    BY HeadTailProperties
  <1>3. Head(s) = s[1] OBVIOUS
  <1> QED BY <1>1, <1>2, <1>3

LEMMA FunctionIsSeq ==
    ASSUME NEW S, NEW n \in Nat, NEW f \in [1 .. n -> S]
    PROVE  f \in Seq(S) /\ Len(f) = n
  <1>1. f \in Seq(S)
    <2>1. Seq(S) = UNION {[1 .. k -> S] : k \in Nat} BY SeqDef
    <2> QED BY <2>1
  <1>2. DOMAIN f = 1 .. n /\ DOMAIN f = 1 .. Len(f) /\ Len(f) \in Nat
    BY <1>1, LenProperties
  <1> QED BY <1>1, <1>2

\* What Says() adds.
LEMMA SaysFacts ==
    ASSUME lines \in Seq(Lines), NEW T, NEW seq \in Seq(T),
           \A t \in T : Item(t, 0) \in Lines, Says(seq)
    PROVE  /\ lines' \in Seq(Lines) /\ Len(lines) \in Nat /\ Len(seq) \in Nat
           /\ Len(lines') = Len(lines) + Len(seq)
           /\ \A i \in 1 .. Len(lines) : lines'[i] = lines[i]
           /\ \A i \in 1 .. Len(seq) : lines'[Len(lines) + i] = Item(seq[i], 0)
  <1> DEFINE new == [i \in DOMAIN seq |-> Item(seq[i], 0)]
  <1>1. \A t \in T : Item(t, 0) \in Lines OBVIOUS
  <1>2. Len(seq) \in Nat /\ DOMAIN seq = 1 .. Len(seq) /\ \A i \in 1 .. Len(seq) : seq[i] \in T
    BY LenProperties, ElementOfSeq
  <1>3. new \in [1 .. Len(seq) -> Lines] BY <1>1, <1>2
  <1>4. \A i \in 1 .. Len(seq) : new[i] = Item(seq[i], 0) BY <1>2
  <1>5. lines' = lines \o new BY DEF Says
  <1> HIDE DEF new
  <1>6. new \in Seq(Lines) /\ Len(new) = Len(seq)
    BY <1>2, <1>3, FunctionIsSeq
  <1>7. /\ lines' \in Seq(Lines) /\ Len(lines) \in Nat /\ Len(lines') = Len(lines) + Len(seq)
        /\ \A i \in 1 .. Len(lines) : lines'[i] = lines[i]
        /\ \A i \in 1 .. Len(seq) : lines'[Len(lines) + i] = new[i]
    <2> DEFINE both == lines \o new
               n == Len(lines)
               m == Len(new)
    <2>1. n \in Nat /\ m \in Nat BY <1>6, LenProperties
    <2>2. both \in Seq(Lines) /\ Len(both) = n + m
      BY <1>6, ConcatProperties
    <2>3. \A i \in 1 .. n + m : both[i] = IF i <= n THEN lines[i] ELSE new[i - n]
      BY <1>6, ConcatProperties
    <2> HIDE DEF both, n, m
    <2>4. \A i \in 1 .. n : both[i] = lines[i] BY <2>1, <2>3
    <2>5. ASSUME NEW i \in 1 .. m PROVE both[n + i] = new[i]
      <3>1. n + i \in 1 .. n + m /\ ~(n + i <= n) /\ (n + i) - n = i
        BY <2>1
      <3> QED BY <2>3, <3>1
    <2> QED BY <1>5, <1>6, <2>1, <2>2, <2>4, <2>5 DEF both, n, m
  <1> QED BY <1>2, <1>4, <1>7

--------------------------------------------------------------------------------
(* What an OK can lead to.                                                   *)

Rests   == toModem' = toModem /\ foundOK' = TRUE /\ UNCHANGED <<queue, requested>>
Deletes == /\ deleteRead /\ requested' = requested
           /\ \/ Say("DEL ALL", 0) /\ queue' = <<>>
              \/ Say("DEL READ", 0) /\ queue' = queue
Asks    == ~requested /\ queue # <<>> /\ requestIncomingSmsMsg
Transmits(r) == /\ queue = <<>> /\ Say("CMGS", 0) /\ (send'.out \/ r)
             /\ UNCHANGED <<queue, requested>>

LEMMA EncodedFacts ==
    ASSUME NEW s \in Sends
    PROVE  Encoded(s) \in Sends /\ (s.out => Encoded(s).out)
  <1>1. CASE s.idx < s.parts
    <2>1. Encoded(s) = [s EXCEPT !.out = TRUE, !.idx = @ + 1] BY <1>1 DEF Encoded
    <2>2. s.idx + 1 \in 0 .. MaxParts /\ s.idx + 1 <= s.parts
      BY <1>1, ModemAssumption DEF Sends
    <2> QED BY <2>1, <2>2 DEF Sends
  <1>2. CASE ~(s.idx < s.parts)
    BY <1>2 DEF Encoded
  <1> QED BY <1>1, <1>2

LEMMA ContinuedFacts ==
    ASSUME NEW s \in Sends
    PROVE  Continued(s) \in Sends /\ (s.out => Continued(s).out)
  <1> DEFINE a == [s EXCEPT !.again = FALSE, !.resend = FALSE]
             b == [s EXCEPT !.again = FALSE]
             c == [s EXCEPT !.again = FALSE, !.resend = TRUE, !.idx = 0]
  <1>1. /\ a \in Sends /\ a.out = s.out
        /\ b \in Sends /\ b.out = s.out
    BY DEF Sends
  <1>2. c \in Sends /\ c.out = s.out
    <2>1. 0 \in 0 .. MaxParts /\ 0 <= s.parts BY ModemAssumption DEF Sends
    <2> QED BY <2>1 DEF Sends
  <1>3. Continued(s) \in {Encoded(a), Encoded(b), Encoded(c), s}
    BY DEF Continued
  <1> HIDE DEF a, b, c
  <1>4. /\ Encoded(a) \in Sends /\ (a.out => Encoded(a).out)
        /\ Encoded(b) \in Sends /\ (b.out => Encoded(b).out)
        /\ Encoded(c) \in Sends /\ (c.out => Encoded(c).out)
    BY <1>1, <1>2, EncodedFacts
  <1> QED BY <1>1, <1>2, <1>3, <1>4

LEMMA OKFacts ==
    ASSUME NEW s \in Sends, NEW r \in BOOLEAN, deleteRead \in BOOLEAN,
           requested \in BOOLEAN, OK(s, r)
    PROVE  /\ send' \in Sends /\ (s.out => send'.out)
           /\ expecting' = expecting /\ deleteRead' = FALSE
           /\ Rests \/ Deletes \/ Asks \/ Transmits(r)
  <1>1. CASE deleteRead
    BY <1>1 DEF OK, Deletes, clearAllSmsMsgs
  <1>2. CASE ~deleteRead /\ requested
    BY <1>2 DEF OK, Rests, lineVars
  <1>3. CASE ~deleteRead /\ ~requested /\ queue # <<>>
    BY <1>3 DEF OK, Asks
  <1>4. CASE ~deleteRead /\ ~requested /\ queue = <<>>
    <2>1. SendSomething(s, r) BY <1>4 DEF OK
    <2>2. send' = s \/ send' = Continued(s) BY <2>1 DEF SendSomething
    <2>3. send' \in Sends /\ (s.out => send'.out) BY <2>2, ContinuedFacts
    <2>4. UNCHANGED lineVars BY <2>1 DEF SendSomething
    <2>5. Rests \/ Transmits(r)
      BY <1>4, <2>1, <2>4 DEF SendSomething, Rests, Transmits, lineVars
    <2> QED BY <1>4, <2>3, <2>4, <2>5 DEF lineVars
  <1> QED BY <1>1, <1>2, <1>3, <1>4

--------------------------------------------------------------------------------
(* How a step changes a direction of the line.                               *)

Longer(s, t, e) == /\ Len(t) = Len(s) + 1 /\ t[Len(s) + 1] = e
                   /\ \A i \in 1 .. Len(s) : t[i] = s[i]
Shorter(s, t) == /\ Len(s) >= 1 /\ Len(t) = Len(s) - 1
                 /\ \A i \in 1 .. Len(s) - 1 : t[i] = s[i + 1]

Lens == Len(toModem) \in Nat /\ Len(lines) \in Nat /\ Len(queue) \in Nat

LEMMA LenFacts ==
    ASSUME TypeOK
    PROVE  /\ Lens
           /\ (queue = <<>> <=> Len(queue) = 0) /\ (lines = <<>> <=> Len(lines) = 0)
           /\ (toModem = <<>> <=> Len(toModem) = 0)
  <1>1. \A S : \A s \in Seq(S) : Len(s) \in Nat /\ (s = <<>> <=> Len(s) = 0)
    BY EmptySeq, LenProperties
  <1>2. queue \in Seq(Slots) /\ lines \in Seq(Lines) /\ toModem \in Seq(ToModem)
    BY DEF TypeOK
  <1> QED BY <1>1, <1>2 DEF Lens

LEMMA SayFacts ==
    ASSUME TypeOK, NEW t, NEW n, Item(t, n) \in ToModem, Say(t, n)
    PROVE  /\ toModem' \in Seq(ToModem) /\ foundOK' = FALSE
           /\ Longer(toModem, toModem', Item(t, n))
  <1>1. toModem \in Seq(ToModem) /\ toModem' = Append(toModem, Item(t, n)) /\ foundOK' = FALSE
    BY DEF TypeOK, Say
  <1> QED BY <1>1, AppendFacts DEF Longer

LEMMA TakeFacts ==
    ASSUME TypeOK, lines # <<>>, Take
    PROVE  /\ lines' \in Seq(Lines) /\ Shorter(lines, lines')
           /\ Head(lines) = lines[1] /\ lines[1] \in Lines
  <1>1. lines \in Seq(Lines) /\ lines' = Tail(lines) BY DEF TypeOK, Take
  <1> QED BY <1>1, TailFacts DEF Shorter

LEMMA HearsFacts ==
    ASSUME TypeOK, NEW t, Hears(t)
    PROVE  /\ toModem' \in Seq(ToModem) /\ Shorter(toModem, toModem')
           /\ toModem[1].type = t /\ Head(toModem) = toModem[1] /\ toModem[1] \in ToModem
  <1>1. /\ toModem \in Seq(ToModem) /\ toModem # <<>> /\ toModem' = Tail(toModem)
        /\ Head(toModem).type = t
    BY DEF TypeOK, Hears
  <1> QED BY <1>1, TailFacts DEF Shorter

LEMMA SaysOneFacts ==
    ASSUME TypeOK, NEW t, Item(t, 0) \in Lines, Says(<<t>>)
    PROVE  lines' \in Seq(Lines) /\ Longer(lines, lines', Item(t, 0))
  <1>1. lines \in Seq(Lines) BY DEF TypeOK
  <1>2. <<t>> \in Seq({t}) /\ Len(<<t>>) = 1 /\ <<t>>[1] = t OBVIOUS
  <1> DEFINE seq == <<t>>
             T == {t}
  <1>3. Says(seq) /\ \A x \in T : Item(x, 0) \in Lines OBVIOUS
  <1>4. seq \in Seq(T) /\ Len(seq) = 1 /\ seq[1] = t BY <1>2
  <1> HIDE DEF seq, T
  <1>5. /\ lines' \in Seq(Lines) /\ Len(lines') = Len(lines) + Len(seq)
        /\ \A i \in 1 .. Len(lines) : lines'[i] = lines[i]
        /\ \A i \in 1 .. Len(seq) : lines'[Len(lines) + i] = Item(seq[i], 0)
    BY <1>1, <1>3, <1>4, SaysFacts
  <1>6. 1 \in 1 .. Len(seq) BY <1>4
  <1>7. lines'[Len(lines) + 1] = Item(t, 0) BY <1>4, <1>5, <1>6
  <1>8. Len(lines') = Len(lines) + 1 BY <1>4, <1>5
  <1> QED BY <1>5, <1>7, <1>8 DEF Longer

LEMMA SaysMessageFacts ==
    ASSUME TypeOK, Says(<<"+CMGR", "message", "OK">>)
    PROVE  /\ lines' \in Seq(Lines) /\ Len(lines') = Len(lines) + 3
           /\ \A i \in 1 .. Len(lines) : lines'[i] = lines[i]
           /\ lines'[Len(lines) + 1] = Item("+CMGR", 0)
           /\ lines'[Len(lines) + 2] = Item("message", 0)
           /\ lines'[Len(lines) + 3] = Item("OK", 0)
  <1>1. lines \in Seq(Lines) BY DEF TypeOK
  <1> DEFINE T == {"+CMGR", "message", "OK"}
             seq == <<"+CMGR", "message", "OK">>
  <1>2. seq \in Seq(T) /\ Len(seq) = 3 /\ seq[1] = "+CMGR" /\ seq[2] = "message" /\ seq[3] = "OK"
    OBVIOUS
  <1>3. \A t \in T : Item(t, 0) \in Lines BY DEF Lines
  <1>4. Says(seq) OBVIOUS
  <1> HIDE DEF seq, T
  <1>5. /\ lines' \in Seq(Lines) /\ Len(lines') = Len(lines) + Len(seq)
        /\ \A i \in 1 .. Len(lines) : lines'[i] = lines[i]
        /\ \A i \in 1 .. Len(seq) : lines'[Len(lines) + i] = Item(seq[i], 0)
    BY <1>1, <1>2, <1>3, <1>4, SaysFacts
  <1> QED BY <1>2, <1>5

--------------------------------------------------------------------------------
(* Types.                                                                    *)

LEMMA QueueHolds == MaxQueue \in Nat /\ 0 <= MaxQueue /\ 1 <= MaxQueue
  BY ModemAssumption

LEMMA Items ==
    /\ \A n \in Slots : Item("CMGR", n) \in ToModem /\ Item("CMGD", n) \in ToModem
    /\ \A n \in Slots : Item("+CMTI", n) \in Lines
    /\ \A t \in {"DEL ALL", "DEL READ", "CMGS", "text", "nothing"} : Item(t, 0) \in ToModem
    /\ \A t \in {"+CMGR", "message", "> ", "OK", "ERROR"} : Item(t, 0) \in Lines
    /\ \A l \in Lines : l.type = "+CMTI" => l.slot \in Slots
    /\ \A t, n : Item(t, n).type = t /\ Item(t, n).slot = n
  <1>1. \A n \in Slots : Item("CMGR", n) \in ToModem /\ Item("CMGD", n) \in ToModem
    BY DEF Item, ToModem
  <1>2. \A n \in Slots : Item("+CMTI", n) \in Lines BY DEF Item, Lines
  <1>3. \A t \in {"DEL ALL", "DEL READ", "CMGS", "text", "nothing"} : Item(t, 0) \in ToModem
    BY DEF ToModem
  <1>4. \A t \in {"+CMGR", "message", "> ", "OK", "ERROR"} : Item(t, 0) \in Lines
    BY DEF Lines
  <1>5. \A t, n : Item(t, n).type = t /\ Item(t, n).slot = n BY DEF Item
  <1>6. ASSUME NEW l \in Lines, l.type = "+CMTI" PROVE l.slot \in Slots
    <2>1. CASE l \in [type : {"+CMTI"}, slot : Slots] BY <2>1
    <2>2. CASE l \in {Item(t, 0) : t \in {"+CMGR", "message", "> ", "OK", "ERROR"}}
      <3>1. PICK t \in {"+CMGR", "message", "> ", "OK", "ERROR"} : l = Item(t, 0) BY <2>2
      <3>2. l.type = t BY <3>1, <1>5
      <3> QED BY <1>6, <3>2
    <2> QED BY <2>1, <2>2 DEF Lines
  <1> QED BY <1>1, <1>2, <1>3, <1>4, <1>5, <1>6

\* What the device tells the modem next, and when it believes it has finished.
Told == /\ toModem' \in Seq(ToModem) /\ foundOK' \in BOOLEAN
        /\ queue' \in Seq(Slots) /\ Len(queue') <= MaxQueue

LEMMA SilentTold ==
    ASSUME TypeOK, Silent \/ (toModem' = toModem /\ foundOK' \in BOOLEAN), queue' = queue
    PROVE  Told
  BY DEF TypeOK, Silent, Told

LEMMA SayTold ==
    ASSUME TypeOK, NEW t \in {"DEL ALL", "DEL READ", "CMGS", "text", "nothing"}, Say(t, 0),
           queue' = queue \/ queue' = <<>>
    PROVE  Told
  <1>1. Item(t, 0) \in ToModem BY Items
  <1>2. toModem' \in Seq(ToModem) /\ foundOK' = FALSE BY <1>1, SayFacts
  <1>3. queue' \in Seq(Slots) /\ Len(queue') <= MaxQueue
    <2>1. CASE queue' = queue BY <2>1 DEF TypeOK
    <2>2. CASE queue' = <<>>
      <3>1. queue' \in Seq(Slots) /\ Len(queue') = 0 BY <2>2, EmptySeq
      <3> QED BY <3>1, QueueHolds
    <2> QED BY <2>1, <2>2
  <1> QED BY <1>2, <1>3 DEF Told

LEMMA RequestFacts ==
    ASSUME TypeOK, queue # <<>>, requestIncomingSmsMsg
    PROVE  /\ Told /\ foundOK' = FALSE /\ requested' = TRUE
           /\ Longer(toModem, toModem', Item("CMGR", queue[1]))
           /\ Shorter(queue, queue')
  <1>1. /\ queue \in Seq(Slots) /\ Len(queue) <= MaxQueue /\ queue' = Tail(queue)
        /\ Say("CMGR", Head(queue)) /\ requested' = TRUE
    BY DEF TypeOK, requestIncomingSmsMsg
  <1>2. /\ Head(queue) = queue[1] /\ queue[1] \in Slots /\ Tail(queue) \in Seq(Slots)
        /\ Len(queue) \in Nat /\ Len(queue) >= 1 /\ Len(Tail(queue)) = Len(queue) - 1
        /\ \A i \in 1 .. Len(queue) - 1 : Tail(queue)[i] = queue[i + 1]
    BY <1>1, TailFacts
  <1>3. Item("CMGR", queue[1]) \in ToModem BY <1>2, Items
  <1>4. /\ toModem' \in Seq(ToModem) /\ foundOK' = FALSE
        /\ Longer(toModem, toModem', Item("CMGR", queue[1]))
    BY <1>1, <1>2, <1>3, SayFacts
  <1>5. Len(Tail(queue)) <= MaxQueue BY <1>1, <1>2, QueueHolds
  <1> QED BY <1>1, <1>2, <1>4, <1>5 DEF Told, Shorter

LEMMA OKTypes ==
    ASSUME TypeOK, NEW s \in Sends, NEW r \in BOOLEAN, OK(s, r)
    PROVE  /\ Told /\ send' \in Sends /\ requested' \in BOOLEAN
           /\ expecting' = expecting /\ deleteRead' = FALSE
  <1>1. deleteRead \in BOOLEAN /\ requested \in BOOLEAN BY DEF TypeOK
  <1>2. /\ send' \in Sends /\ expecting' = expecting /\ deleteRead' = FALSE
        /\ Rests \/ Deletes \/ Asks \/ Transmits(r)
    BY <1>1, OKFacts
  <1>3. CASE Rests BY <1>1, <1>2, <1>3, SilentTold DEF Rests
  <1>4. CASE Deletes BY <1>1, <1>2, <1>4, SayTold DEF Deletes
  <1>5. CASE Asks BY <1>2, <1>5, RequestFacts DEF Asks
  <1>6. CASE Transmits(r) BY <1>1, <1>2, <1>6, SayTold DEF Transmits
  <1> QED BY <1>2, <1>3, <1>4, <1>5, <1>6

LEMMA TypeInit ==
    ASSUME Init
    PROVE  TypeOK
  <1>1. NoSend \in Sends
    <2>1. 0 \in 0 .. MaxParts BY ModemAssumption
    <2> QED BY <2>1 DEF NoSend, Sends
  <1>2. queue \in Seq(Slots) /\ toModem \in Seq(ToModem) /\ lines \in Seq(Lines) /\ Len(queue) = 0
    BY EmptySeq DEF Init
  <1>3. Len(queue) <= MaxQueue BY <1>2, QueueHolds
  <1>4. arrivals \in 0 .. MaxArrivals BY ModemAssumption DEF Init
  <1> QED BY <1>1, <1>2, <1>3, <1>4 DEF Init, TypeOK

\* A step of the device changes no more than this.
DeviceTypes ==
    /\ Told /\ send' \in Sends /\ lines' \in Seq(Lines)
    /\ requested' \in BOOLEAN /\ expecting' \in BOOLEAN /\ deleteRead' \in BOOLEAN
    /\ endOfCommand' \in BOOLEAN /\ connected' \in BOOLEAN /\ asked' \in BOOLEAN
    /\ raw' \in BOOLEAN /\ overflowed' \in BOOLEAN /\ UNCHANGED modemVars

LEMMA DeviceKeepsTypes ==
    ASSUME TypeOK, DeviceTypes
    PROVE  TypeOK'
  BY DEF TypeOK, DeviceTypes, Told, modemVars

LEMMA SendFacts ==
    ASSUME NEW s \in Sends
    PROVE  /\ Stopped(s) \in Sends /\ Stopped(s).out = s.out
           /\ [s EXCEPT !.again = TRUE] \in Sends /\ [s EXCEPT !.again = TRUE].out = s.out
           /\ Handed(s) \in Sends
  <1>1. 0 \in 0 .. MaxParts BY ModemAssumption
  <1>2. s.out \in BOOLEAN BY DEF Sends
  <1>3. Stopped(s) \in Sends /\ Stopped(s).out = s.out
    <2> DEFINE o == s.out
    <2>1. o \in BOOLEAN BY <1>2
    <2>2. NoSend \in Sends BY <1>1 DEF NoSend, Sends
    <2> HIDE DEF o
    <2>3. [NoSend EXCEPT !.out = o] \in Sends /\ [NoSend EXCEPT !.out = o].out = o
      BY <2>1, <2>2 DEF Sends
    <2> QED BY <2>3 DEF o, Stopped
  <1>4. [s EXCEPT !.again = TRUE] \in Sends /\ [s EXCEPT !.again = TRUE].out = s.out
    BY DEF Sends
  <1>5. Handed(s) \in Sends
    <2> DEFINE a == s.response /\ s.idx < s.parts
               b == s.resend /\ s.idx < s.parts
    <2>1. a \in BOOLEAN /\ b \in BOOLEAN BY DEF Sends
    <2>2. Handed(s) = [s EXCEPT !.out = FALSE, !.response = a, !.resend = b] BY DEF Handed
    <2> HIDE DEF a, b
    <2> QED BY <2>1, <2>2 DEF Sends
  <1> QED BY <1>3, <1>4, <1>5

LEMMA ReplySend ==
    ASSUME NEW s \in Sends, NEW n \in 1 .. MaxParts
    PROVE  LET t == Encoded([parts |-> n, idx |-> 0, out |-> s.out,
                             response |-> TRUE, resend |-> FALSE, again |-> s.again])
           IN  t \in Sends /\ (s.out => t.out)
  <1> DEFINE t == [parts |-> n, idx |-> 0, out |-> s.out,
                   response |-> TRUE, resend |-> FALSE, again |-> s.again]
  <1>1. n \in 0 .. MaxParts /\ 0 \in 0 .. MaxParts /\ 0 <= n BY ModemAssumption
  <1>2. s.out \in BOOLEAN /\ s.again \in BOOLEAN BY DEF Sends
  <1>3. t \in Sends /\ t.out = s.out BY <1>1, <1>2 DEF Sends
  <1> HIDE DEF t
  <1>4. Encoded(t) \in Sends /\ (t.out => Encoded(t).out) BY <1>3, EncodedFacts
  <1> QED BY <1>3, <1>4 DEF t

LEMMA RequestTypes == TypeOK /\ Request => TypeOK'
  <1> SUFFICES ASSUME TypeOK, Request PROVE DeviceTypes
    BY DeviceKeepsTypes
  <1>1. Told /\ requested' = TRUE BY RequestFacts DEF Request, MustRequest
  <1> QED BY <1>1 DEF Request, TypeOK, DeviceTypes, cmdVars, simVars

LEMMA TakeMessageTypes == TypeOK /\ TakeMessage => TypeOK'
  <1> SUFFICES ASSUME TypeOK, TakeMessage PROVE DeviceTypes
    BY DeviceKeepsTypes
  <1>1. lines' \in Seq(Lines) BY TakeFacts DEF TakeMessage
  <1>2. Told BY SilentTold DEF TakeMessage
  <1>3. send' \in Sends
    <2>1. send \in Sends BY DEF TypeOK
    <2>2. send' \in {Stopped(send), [send EXCEPT !.again = TRUE], send}
      BY DEF TakeMessage
    <2> QED BY <2>1, <2>2, SendFacts
  <1>4. endOfCommand' \in BOOLEAN /\ connected' \in BOOLEAN /\ asked' \in BOOLEAN
    BY DEF TakeMessage, TypeOK, cmdVars
  <1> QED BY <1>1, <1>2, <1>3, <1>4 DEF TakeMessage, TypeOK, DeviceTypes, simVars

LEMMA TakePromptTypes == TypeOK /\ TakePrompt => TypeOK'
  <1> SUFFICES ASSUME TypeOK, TakePrompt PROVE DeviceTypes
    BY DeviceKeepsTypes
  <1>1. lines' \in Seq(Lines) BY TakeFacts DEF TakePrompt, NextLine
  <1>2. Told
    <2>1. queue' = queue BY DEF TakePrompt, lineVars
    <2>2. Say("text", 0) \/ Say("nothing", 0) BY DEF TakePrompt
    <2> QED BY <2>1, <2>2, SayTold
  <1>3. send' \in Sends
    <2>1. send' = Handed(send) \/ send' = send BY DEF TakePrompt
    <2> QED BY <2>1, SendFacts DEF TypeOK
  <1>4. raw' \in BOOLEAN BY DEF TakePrompt, TypeOK
  <1> QED BY <1>1, <1>2, <1>3, <1>4
       DEF TakePrompt, TypeOK, DeviceTypes, lineVars, cmdVars, simVars

LEMMA ArrivalFacts ==
    ASSUME TypeOK, TakeArrival
    PROVE  /\ Told /\ Shorter(lines, lines') /\ lines' \in Seq(Lines)
           /\ lines[1].type = "+CMTI" /\ ~MustRequest
           /\ \/ /\ Len(queue) < MaxQueue /\ Silent
                 /\ Longer(queue, queue', lines[1].slot)
              \/ Len(queue) = MaxQueue /\ Say("CMGD", lines[1].slot) /\ queue' = queue
  <1> DEFINE n == Head(lines).slot
  <1>1. lines' \in Seq(Lines) /\ Shorter(lines, lines') /\ Head(lines) = lines[1]
        /\ lines[1] \in Lines
    BY TakeFacts DEF TakeArrival, NextLine
  <1>2. lines[1].type = "+CMTI" /\ ~MustRequest BY <1>1 DEF TakeArrival, NextLine
  <1>3. n \in Slots BY <1>1, <1>2, Items
  <1>4. AddIncoming(n) /\ queue \in Seq(Slots) /\ Len(queue) <= MaxQueue /\ Len(queue) \in Nat
    BY LenFacts DEF TakeArrival, TypeOK, Lens
  <1>5. n = lines[1].slot BY <1>1
  <1> HIDE DEF n
  <1>6. CASE Len(queue) < MaxQueue
    <2>1. queue' = Append(queue, n) /\ Silent BY <1>4, <1>6 DEF AddIncoming
    <2>2. queue' \in Seq(Slots) /\ Longer(queue, queue', n)
      BY <1>3, <1>4, <2>1, AppendFacts DEF Longer
    <2>3. Len(queue') <= MaxQueue BY <1>4, <1>6, <2>2, QueueHolds DEF Longer
    <2>4. toModem' \in Seq(ToModem) /\ foundOK' \in BOOLEAN
      BY <2>1 DEF Silent, TypeOK
    <2> QED BY <1>1, <1>2, <1>5, <1>6, <2>1, <2>2, <2>3, <2>4 DEF Told
  <1>7. CASE ~(Len(queue) < MaxQueue)
    <2>1. Say("CMGD", n) /\ queue' = queue BY <1>4, <1>7 DEF AddIncoming
    <2>2. Item("CMGD", n) \in ToModem BY <1>3, Items
    <2>3. toModem' \in Seq(ToModem) /\ foundOK' = FALSE BY <2>1, <2>2, SayFacts
    <2>4. Len(queue) = MaxQueue BY <1>4, <1>7, QueueHolds
    <2> QED BY <1>1, <1>2, <1>4, <1>5, <2>1, <2>3, <2>4 DEF Told
  <1> QED BY <1>6, <1>7

LEMMA TakeArrivalTypes == TypeOK /\ TakeArrival => TypeOK'
  <1> SUFFICES ASSUME TypeOK, TakeArrival PROVE DeviceTypes
    BY DeviceKeepsTypes
  <1>1. Told /\ lines' \in Seq(Lines) BY ArrivalFacts
  <1>2. overflowed' \in BOOLEAN BY DEF TakeArrival, TypeOK
  <1> QED BY <1>1, <1>2 DEF TakeArrival, TypeOK, DeviceTypes, cmdVars

LEMMA TakeHeaderTypes == TypeOK /\ TakeHeader => TypeOK'
  <1> SUFFICES ASSUME TypeOK, TakeHeader PROVE DeviceTypes
    BY DeviceKeepsTypes
  <1>1. lines' \in Seq(Lines) BY TakeFacts DEF TakeHeader, NextLine
  <1>2. Told BY SilentTold DEF TakeHeader
  <1> QED BY <1>1, <1>2 DEF TakeHeader, TypeOK, DeviceTypes, cmdVars, simVars

LEMMA TakeErrorTypes == TypeOK /\ TakeError => TypeOK'
  <1> SUFFICES ASSUME TypeOK, TakeError PROVE DeviceTypes
    BY DeviceKeepsTypes
  <1>1. lines' \in Seq(Lines) BY TakeFacts DEF TakeError, NextLine
  <1>2. Told BY SayTold DEF TakeError, clearAllSmsMsgs
  <1> QED BY <1>1, <1>2 DEF TakeError, TypeOK, DeviceTypes, cmdVars, simVars

LEMMA TakeOKTypes == TypeOK /\ TakeOK => TypeOK'
  <1> SUFFICES ASSUME TypeOK, TakeOK PROVE DeviceTypes
    BY DeviceKeepsTypes
  <1>1. lines' \in Seq(Lines) BY TakeFacts DEF TakeOK, NextLine
  <1>2. OK(send, raw) /\ send \in Sends /\ raw \in BOOLEAN /\ expecting \in BOOLEAN
    BY DEF TakeOK, TypeOK
  <1>3. /\ Told /\ send' \in Sends /\ requested' \in BOOLEAN
        /\ expecting' = expecting /\ deleteRead' = FALSE
    BY <1>2, OKTypes
  <1> QED BY <1>1, <1>2, <1>3 DEF TakeOK, TypeOK, DeviceTypes, cmdVars, simVars

LEMMA ReplyFacts ==
    ASSUME TypeOK, Reply
    PROVE  \E s \in Sends : /\ send.out => s.out
                            /\ \/ foundOK /\ OK(s, raw)
                               \/ /\ ~foundOK /\ send' = s
                                  /\ UNCHANGED <<toModem, foundOK, lineVars>>
  <1>1. send \in Sends BY DEF TypeOK
  <1>2. PICK n \in 1 .. MaxParts :
          LET s == Encoded([parts |-> n, idx |-> 0, out |-> send.out,
                            response |-> TRUE, resend |-> FALSE, again |-> send.again])
          IN  IF foundOK THEN OK(s, raw)
              ELSE send' = s /\ UNCHANGED <<toModem, foundOK, lineVars>>
    BY DEF Reply
  <1> DEFINE s == Encoded([parts |-> n, idx |-> 0, out |-> send.out,
                           response |-> TRUE, resend |-> FALSE, again |-> send.again])
  <1>3. s \in Sends /\ (send.out => s.out) BY <1>1, ReplySend
  <1>4. IF foundOK THEN OK(s, raw)
        ELSE send' = s /\ UNCHANGED <<toModem, foundOK, lineVars>>
    BY <1>2
  <1> HIDE DEF s
  <1> QED BY <1>3, <1>4

LEMMA ReplyTypes == TypeOK /\ Reply => TypeOK'
  <1> SUFFICES ASSUME TypeOK, Reply PROVE DeviceTypes
    BY DeviceKeepsTypes
  <1>1. PICK s \in Sends : \/ foundOK /\ OK(s, raw)
                           \/ /\ ~foundOK /\ send' = s
                              /\ UNCHANGED <<toModem, foundOK, lineVars>>
    BY ReplyFacts
  <1>2. /\ Told /\ send' \in Sends /\ requested' \in BOOLEAN /\ expecting' \in BOOLEAN
        /\ deleteRead' \in BOOLEAN
    <2>1. CASE OK(s, raw)
      <3>1. raw \in BOOLEAN /\ expecting \in BOOLEAN BY DEF TypeOK
      <3> QED BY <2>1, <3>1, OKTypes
    <2>2. CASE send' = s /\ UNCHANGED <<toModem, foundOK, lineVars>>
      <3>1. queue' = queue /\ toModem' = toModem /\ foundOK' \in BOOLEAN
        BY <2>2 DEF lineVars, TypeOK
      <3>2. Told BY <3>1, SilentTold
      <3> QED BY <2>2, <3>2 DEF lineVars, TypeOK
    <2> QED BY <1>1, <2>1, <2>2
  <1> QED BY <1>2 DEF Reply, TypeOK, DeviceTypes, simVars

LEMMA WriteRawDataTypes == TypeOK /\ WriteRawData => TypeOK'
  <1> SUFFICES ASSUME TypeOK, WriteRawData PROVE DeviceTypes
    BY DeviceKeepsTypes
  <1>1. send \in Sends /\ expecting \in BOOLEAN BY DEF TypeOK
  <1>2. /\ Told /\ send' \in Sends /\ requested' \in BOOLEAN /\ expecting' \in BOOLEAN
        /\ deleteRead' \in BOOLEAN
    <2>1. CASE foundOK
      <3>1. OK(send, TRUE) BY <2>1 DEF WriteRawData
      <3> QED BY <1>1, <3>1, OKTypes
    <2>2. CASE ~foundOK
      <3>1. UNCHANGED <<toModem, foundOK, lineVars, send>> BY <2>2 DEF WriteRawData
      <3>2. queue' = queue /\ toModem' = toModem /\ foundOK' \in BOOLEAN
        BY <3>1 DEF lineVars, TypeOK
      <3>3. Told BY <3>2, SilentTold
      <3> QED BY <1>1, <3>1, <3>3 DEF lineVars, TypeOK
    <2> QED BY <2>1, <2>2
  <1> QED BY <1>2 DEF WriteRawData, TypeOK, DeviceTypes, cmdVars, simVars

ModemTypes ==
    /\ toModem' \in Seq(ToModem) /\ lines' \in Seq(Lines)
    /\ slots' \subseteq Slots /\ read' \subseteq slots'
    /\ texting' \in BOOLEAN /\ arrivals' \in 0 .. MaxArrivals /\ quiet' \in BOOLEAN

LEMMA ModemKeepsTypes ==
    ASSUME TypeOK, ModemTypes,
           UNCHANGED <<foundOK, lineVars, cmdVars, send, raw, overflowed>>
    PROVE  TypeOK'
  BY DEF TypeOK, ModemTypes, lineVars, cmdVars

LEMMA ArriveFacts ==
    ASSUME TypeOK, Arrive
    PROVE  \E n \in Slots \ slots : /\ slots' = slots \cup {n}
                                    /\ lines' \in Seq(Lines)
                                    /\ Longer(lines, lines', Item("+CMTI", n))
  <1>1. PICK n \in Slots \ slots :
            slots' = slots \cup {n} /\ lines' = Append(lines, Item("+CMTI", n))
    BY DEF Arrive
  <1>2. Item("+CMTI", n) \in Lines BY Items
  <1>3. lines \in Seq(Lines) BY DEF TypeOK
  <1>4. lines' \in Seq(Lines) /\ Longer(lines, lines', Item("+CMTI", n))
    BY <1>1, <1>2, <1>3, AppendFacts DEF Longer
  <1> QED BY <1>1, <1>4

LEMMA AnswersFacts ==
    ASSUME TypeOK, Answers
    PROVE  \E t \in {"OK", "ERROR"} : /\ lines' \in Seq(Lines)
                                      /\ Longer(lines, lines', Item(t, 0))
  <1>1. PICK t \in {"OK", "ERROR"} : Says(<<t>>) BY DEF Answers
  <1>2. Item(t, 0) \in Lines BY Items
  <1> QED BY <1>1, <1>2, SaysOneFacts

LEMMA ArriveTypes == TypeOK /\ Arrive => ModemTypes
  <1> SUFFICES ASSUME TypeOK, Arrive PROVE ModemTypes
    OBVIOUS
  <1>1. lines' \in Seq(Lines) /\ slots' \subseteq Slots /\ slots \subseteq slots'
    BY ArriveFacts DEF TypeOK
  <1>2. arrivals' \in 0 .. MaxArrivals
    <2>1. arrivals \in 0 .. MaxArrivals /\ arrivals < MaxArrivals /\ arrivals' = arrivals + 1
      BY DEF TypeOK, Arrive
    <2> QED BY <2>1, ModemAssumption
  <1> QED BY <1>1, <1>2 DEF Arrive, TypeOK, ModemTypes

LEMMA TextTypes == TypeOK /\ Text => ModemTypes
  <1> SUFFICES ASSUME TypeOK, Text PROVE ModemTypes
    OBVIOUS
  <1>1. toModem' \in Seq(ToModem) BY HearsFacts DEF Text
  <1>2. lines' \in Seq(Lines)
    <2>1. CASE lines' = lines BY <2>1 DEF TypeOK
    <2>2. CASE Answers BY <2>2, AnswersFacts
    <2> QED BY <2>1, <2>2 DEF Text
  <1> QED BY <1>1, <1>2 DEF Text, TypeOK, ModemTypes, modemVars

LEMMA DeleteTypes == TypeOK /\ Delete => ModemTypes
  <1> SUFFICES ASSUME TypeOK, Delete PROVE ModemTypes
    OBVIOUS
  <1>1. toModem' \in Seq(ToModem) BY HearsFacts DEF Delete
  <1>2. Item("OK", 0) \in Lines /\ Says(<<"OK">>) BY Items DEF Delete
  <1>3. lines' \in Seq(Lines) BY <1>2, SaysOneFacts
  <1> QED BY <1>1, <1>3 DEF Delete, TypeOK, ModemTypes

LEMMA ReadOutTypes == TypeOK /\ ReadOut => ModemTypes
  <1> SUFFICES ASSUME TypeOK, ReadOut PROVE ModemTypes
    OBVIOUS
  <1>1. toModem' \in Seq(ToModem) BY HearsFacts DEF ReadOut
  <1>2. lines' \in Seq(Lines)
    <2>1. CASE Says(<<"+CMGR", "message", "OK">>) BY <2>1, SaysMessageFacts
    <2>2. CASE Answers BY <2>2, AnswersFacts
    <2> QED BY <2>1, <2>2 DEF ReadOut
  <1> QED BY <1>1, <1>2 DEF ReadOut, TypeOK, ModemTypes

LEMMA PromptTypes == TypeOK /\ Prompt => ModemTypes
  <1> SUFFICES ASSUME TypeOK, Prompt PROVE ModemTypes
    OBVIOUS
  <1>1. toModem' \in Seq(ToModem) BY HearsFacts DEF Prompt
  <1>2. Item("> ", 0) \in Lines /\ Says(<<"> ">>) BY Items DEF Prompt
  <1>3. lines' \in Seq(Lines) BY <1>2, SaysOneFacts
  <1> QED BY <1>1, <1>3 DEF Prompt, TypeOK, ModemTypes

LEMMA TypeStep == TypeOK /\ [Next]_vars => TypeOK'
  <1> SUFFICES ASSUME TypeOK, [Next]_vars PROVE TypeOK'
    OBVIOUS
  <1>1. CASE Modem
    <2>1. ModemTypes
      BY <1>1, ArriveTypes, TextTypes, DeleteTypes, ReadOutTypes, PromptTypes DEF Modem
    <2> QED BY <1>1, <2>1, ModemKeepsTypes DEF Modem
  <1>2. CASE UNCHANGED vars
    BY <1>2 DEF TypeOK, vars, lineVars, cmdVars, simVars, modemVars
  <1> QED BY <1>1, <1>2, RequestTypes, TakeMessageTypes, TakePromptTypes, TakeArrivalTypes,
             TakeHeaderTypes, TakeErrorTypes, TakeOKTypes, ReplyTypes, WriteRawDataTypes
          DEF Next, Device, ReadLine

\* Every value stays in its range: in particular the queue never exceeds
\* MAX_INCOMING_MSG_NOS and no more parts are sent than the response has.
THEOREM TypeCorrect == Spec => []TypeOK
  <1>1. Init => TypeOK BY TypeInit
  <1> QED BY <1>1, TypeStep, PTL DEF Spec

--------------------------------------------------------------------------------
(* The invariant, in parts.                                                  *)

\* A message comes as three lines, in one piece.
Chunks ==
    /\ expecting => Len(lines) >= 1 /\ lines[1].type = "message"
    /\ \A i \in 1 .. Len(lines) :
          /\ lines[i].type = "+CMGR" => i < Len(lines) /\ lines[i + 1].type = "message"
          /\ lines[i].type = "message" => i < Len(lines) /\ lines[i + 1].type = "OK"

LEMMA ChunksTaken ==
    ASSUME Lens, Chunks, Shorter(lines, lines'), expecting' => lines[1].type = "+CMGR"
    PROVE  Chunks'
  <1> DEFINE n == Len(lines)
             m == Len(lines')
             old == lines
             new == lines'
  <1>1. n \in Nat /\ n >= 1 /\ m = n - 1 /\ \A i \in 1 .. n - 1 : new[i] = old[i + 1]
    BY DEF Lens, Shorter
  <1>2. \A i \in 1 .. n :
          /\ old[i].type = "+CMGR" => i < n /\ old[i + 1].type = "message"
          /\ old[i].type = "message" => i < n /\ old[i + 1].type = "OK"
    BY DEF Chunks
  <1> HIDE DEF n, m, old, new
  <1>3. ASSUME NEW i \in 1 .. m
        PROVE  /\ new[i].type = "+CMGR" => i < m /\ new[i + 1].type = "message"
               /\ new[i].type = "message" => i < m /\ new[i + 1].type = "OK"
    <2>1. i + 1 \in 1 .. n /\ i \in 1 .. n - 1 /\ (i + 1 < n => i < m /\ i + 1 \in 1 .. n - 1)
      BY <1>1
    <2>2. new[i] = old[i + 1] /\ (i + 1 < n => new[i + 1] = old[i + 1 + 1]) BY <1>1, <2>1
    <2> QED BY <1>2, <2>1, <2>2
  <1>4. ASSUME expecting' PROVE m >= 1 /\ new[1].type = "message"
    <2>1. 1 \in 1 .. n /\ old[1].type = "+CMGR" BY <1>1, <1>4 DEF old
    <2>2. 1 < n /\ old[1 + 1].type = "message" BY <1>2, <2>1
    <2>3. 1 \in 1 .. n - 1 /\ m >= 1 BY <1>1, <2>2
    <2> QED BY <1>1, <2>2, <2>3
  <1> QED BY <1>3, <1>4 DEF Chunks, m, new

LEMMA ChunksSaid ==
    ASSUME Lens, Chunks, NEW l, Longer(lines, lines', l), l.type \notin {"+CMGR", "message"},
           expecting' = expecting
    PROVE  Chunks'
  <1> DEFINE n == Len(lines)
             m == Len(lines')
             old == lines
             new == lines'
  <1>1. n \in Nat /\ m = n + 1 /\ new[n + 1] = l /\ \A i \in 1 .. n : new[i] = old[i]
    BY DEF Lens, Longer
  <1>2. \A i \in 1 .. n :
          /\ old[i].type = "+CMGR" => i < n /\ old[i + 1].type = "message"
          /\ old[i].type = "message" => i < n /\ old[i + 1].type = "OK"
    BY DEF Chunks
  <1>3. expecting => n >= 1 /\ old[1].type = "message" BY DEF Chunks
  <1> HIDE DEF n, m, old, new
  <1>4. ASSUME NEW i \in 1 .. m
        PROVE  /\ new[i].type = "+CMGR" => i < m /\ new[i + 1].type = "message"
               /\ new[i].type = "message" => i < m /\ new[i + 1].type = "OK"
    <2>1. CASE i \in 1 .. n
      <3>1. new[i] = old[i] /\ (i < n => i + 1 \in 1 .. n) /\ (i < n => i < m)
        BY <1>1, <2>1
      <3>2. i < n => new[i + 1] = old[i + 1] BY <1>1, <3>1
      <3> QED BY <1>2, <2>1, <3>1, <3>2
    <2>2. CASE i = n + 1 BY <1>1, <2>2
    <2> QED BY <1>1, <2>1, <2>2
  <1>5. ASSUME expecting' PROVE m >= 1 /\ new[1].type = "message"
    <2>1. n >= 1 /\ old[1].type = "message" BY <1>3, <1>5
    <2>2. 1 \in 1 .. n /\ m >= 1 BY <1>1, <2>1
    <2> QED BY <1>1, <2>1, <2>2
  <1> QED BY <1>4, <1>5 DEF Chunks, m, new

\* The three lines of a message.
ReadsOut == /\ Len(lines') = Len(lines) + 3
            /\ \A i \in 1 .. Len(lines) : lines'[i] = lines[i]
            /\ lines'[Len(lines) + 1].type = "+CMGR"
            /\ lines'[Len(lines) + 2].type = "message"
            /\ lines'[Len(lines) + 3].type = "OK"

LEMMA ChunksRead ==
    ASSUME Lens, Chunks, ReadsOut, expecting' = expecting
    PROVE  Chunks'
  <1> DEFINE n == Len(lines)
             m == Len(lines')
             old == lines
             new == lines'
  <1>1. /\ n \in Nat /\ m = n + 3 /\ \A i \in 1 .. n : new[i] = old[i]
        /\ new[n + 1].type = "+CMGR" /\ new[n + 2].type = "message" /\ new[n + 3].type = "OK"
    BY DEF Lens, ReadsOut
  <1>2. \A i \in 1 .. n :
          /\ old[i].type = "+CMGR" => i < n /\ old[i + 1].type = "message"
          /\ old[i].type = "message" => i < n /\ old[i + 1].type = "OK"
    BY DEF Chunks
  <1>3. expecting => n >= 1 /\ old[1].type = "message" BY DEF Chunks
  <1> HIDE DEF n, m, old, new
  <1>4. ASSUME NEW i \in 1 .. m
        PROVE  /\ new[i].type = "+CMGR" => i < m /\ new[i + 1].type = "message"
               /\ new[i].type = "message" => i < m /\ new[i + 1].type = "OK"
    <2>1. CASE i \in 1 .. n
      <3>1. new[i] = old[i] /\ (i < n => i + 1 \in 1 .. n) /\ i < m
        BY <1>1, <2>1
      <3>2. i < n => new[i + 1] = old[i + 1] BY <1>1, <3>1
      <3> QED BY <1>2, <2>1, <3>1, <3>2
    <2>2. CASE i = n + 1
      <3>1. i < m /\ i + 1 = n + 2 BY <1>1, <2>2
      <3> QED BY <1>1, <2>2, <3>1
    <2>3. CASE i = n + 2
      <3>1. i < m /\ i + 1 = n + 3 BY <1>1, <2>3
      <3> QED BY <1>1, <2>3, <3>1
    <2>4. CASE i = n + 3 BY <1>1, <2>4
    <2> QED BY <1>1, <2>1, <2>2, <2>3, <2>4
  <1>5. ASSUME expecting' PROVE m >= 1 /\ new[1].type = "message"
    <2>1. n >= 1 /\ old[1].type = "message" BY <1>3, <1>5
    <2>2. 1 \in 1 .. n /\ m >= 1 BY <1>1, <2>1
    <2> QED BY <1>1, <2>1, <2>2
  <1> QED BY <1>4, <1>5 DEF Chunks, m, new

\* What a direction of the line has on it.
Has(s, K)       == \E i \in 1 .. Len(s) : s[i].type \in K
AtMostOne(s, K) == \A i, j \in 1 .. Len(s) : s[i].type \in K /\ s[j].type \in K => i = j

LEMMA ShorterHas ==
    ASSUME NEW s, NEW t, Len(s) \in Nat, Shorter(s, t), NEW K
    PROVE  /\ Has(t, K) => Has(s, K)
           /\ Has(s, K) /\ s[1].type \notin K => Has(t, K)
           /\ s[1].type \in K => Has(s, K)
           /\ AtMostOne(s, K) => AtMostOne(t, K)
           /\ AtMostOne(s, K) /\ s[1].type \in K => ~Has(t, K)
  <1> DEFINE n == Len(s)
             m == Len(t)
  <1>1. n \in Nat /\ n >= 1 /\ m = n - 1 /\ \A i \in 1 .. n - 1 : t[i] = s[i + 1]
    BY DEF Shorter
  <1>2. /\ Has(s, K) <=> \E i \in 1 .. n : s[i].type \in K
        /\ Has(t, K) <=> \E i \in 1 .. m : t[i].type \in K
        /\ AtMostOne(s, K) <=> \A i, j \in 1 .. n : s[i].type \in K /\ s[j].type \in K => i = j
        /\ AtMostOne(t, K) <=> \A i, j \in 1 .. m : t[i].type \in K /\ t[j].type \in K => i = j
    BY DEF Has, AtMostOne
  <1> HIDE DEF n, m
  <1>3. \A i \in 1 .. m : i + 1 \in 1 .. n /\ i + 1 # 1 /\ t[i] = s[i + 1] BY <1>1
  <1>4. 1 \in 1 .. n BY <1>1
  <1>5. ASSUME NEW i \in 1 .. n, i # 1 PROVE \E k \in 1 .. m : t[k] = s[i]
    <2>1. i - 1 \in 1 .. n - 1 /\ i - 1 \in 1 .. m /\ (i - 1) + 1 = i BY <1>1, <1>5
    <2> QED BY <1>1, <2>1
  <1>6. Has(t, K) => Has(s, K) BY <1>2, <1>3
  <1>7. Has(s, K) /\ s[1].type \notin K => Has(t, K) BY <1>2, <1>5
  <1>8. AtMostOne(s, K) => AtMostOne(t, K)
    <2> SUFFICES ASSUME AtMostOne(s, K), NEW i \in 1 .. m, NEW j \in 1 .. m,
                        t[i].type \in K, t[j].type \in K
                 PROVE  i = j
      BY <1>2
    <2>1. i + 1 = j + 1 BY <1>2, <1>3
    <2> QED BY <2>1
  <1>9. AtMostOne(s, K) /\ s[1].type \in K => ~Has(t, K) BY <1>2, <1>3, <1>4
  <1> QED BY <1>2, <1>4, <1>6, <1>7, <1>8, <1>9

LEMMA LongerHas ==
    ASSUME NEW s, NEW t, NEW e, Len(s) \in Nat, Longer(s, t, e), NEW K
    PROVE  /\ Has(t, K) <=> Has(s, K) \/ e.type \in K
           /\ AtMostOne(s, K) /\ (e.type \notin K \/ ~Has(s, K)) => AtMostOne(t, K)
  <1> DEFINE n == Len(s)
             m == Len(t)
  <1>1. n \in Nat /\ m = n + 1 /\ t[n + 1] = e /\ \A i \in 1 .. n : t[i] = s[i]
    BY DEF Longer
  <1>2. /\ Has(s, K) <=> \E i \in 1 .. n : s[i].type \in K
        /\ Has(t, K) <=> \E i \in 1 .. m : t[i].type \in K
        /\ AtMostOne(s, K) <=> \A i, j \in 1 .. n : s[i].type \in K /\ s[j].type \in K => i = j
        /\ AtMostOne(t, K) <=> \A i, j \in 1 .. m : t[i].type \in K /\ t[j].type \in K => i = j
    BY DEF Has, AtMostOne
  <1> HIDE DEF n, m
  <1>3. /\ \A i \in 1 .. m : i \in 1 .. n \/ i = n + 1
        /\ \A i \in 1 .. n : i \in 1 .. m
        /\ n + 1 \in 1 .. m
    BY <1>1
  <1>4. Has(t, K) <=> Has(s, K) \/ e.type \in K BY <1>1, <1>2, <1>3
  <1>5. AtMostOne(s, K) /\ (e.type \notin K \/ ~Has(s, K)) => AtMostOne(t, K)
    BY <1>1, <1>2, <1>3
  <1> QED BY <1>4, <1>5

LEMMA ReadsOutHas ==
    ASSUME Len(lines) \in Nat, ReadsOut, NEW K
    PROVE  /\ Has(lines', K) <=> \/ Has(lines, K)
                                 \/ "+CMGR" \in K \/ "message" \in K \/ "OK" \in K
           /\ AtMostOne(lines, K) /\ "+CMGR" \notin K /\ "message" \notin K
                /\ ("OK" \notin K \/ ~Has(lines, K)) => AtMostOne(lines', K)
  <1> DEFINE n == Len(lines)
             m == Len(lines')
             s == lines
             t == lines'
  <1>1. /\ n \in Nat /\ m = n + 3 /\ \A i \in 1 .. n : t[i] = s[i]
        /\ t[n + 1].type = "+CMGR" /\ t[n + 2].type = "message" /\ t[n + 3].type = "OK"
    BY DEF ReadsOut
  <1>2. /\ Has(lines, K) <=> \E i \in 1 .. n : s[i].type \in K
        /\ Has(lines', K) <=> \E i \in 1 .. m : t[i].type \in K
        /\ AtMostOne(lines, K) <=> \A i, j \in 1 .. n : s[i].type \in K /\ s[j].type \in K => i = j
        /\ AtMostOne(lines', K) <=> \A i, j \in 1 .. m : t[i].type \in K /\ t[j].type \in K => i = j
    BY DEF Has, AtMostOne
  <1> HIDE DEF n, m, s, t
  <1>3. /\ \A i \in 1 .. m : i \in 1 .. n \/ i = n + 1 \/ i = n + 2 \/ i = n + 3
        /\ \A i \in 1 .. n : i \in 1 .. m
        /\ n + 1 \in 1 .. m /\ n + 2 \in 1 .. m /\ n + 3 \in 1 .. m
    BY <1>1
  <1>4. Has(lines', K) <=> \/ Has(lines, K)
                           \/ "+CMGR" \in K \/ "message" \in K \/ "OK" \in K
    BY <1>1, <1>2, <1>3
  <1>5. AtMostOne(lines, K) /\ "+CMGR" \notin K /\ "message" \notin K
          /\ ("OK" \notin K \/ ~Has(lines, K)) => AtMostOne(lines', K)
    <2> SUFFICES ASSUME AtMostOne(lines, K), "+CMGR" \notin K, "message" \notin K,
                        "OK" \notin K \/ ~Has(lines, K),
                        NEW i \in 1 .. m, NEW j \in 1 .. m, t[i].type \in K, t[j].type \in K
                 PROVE  i = j
      BY <1>2
    <2>1. /\ i \in 1 .. n \/ (i = n + 3 /\ "OK" \in K)
          /\ j \in 1 .. n \/ (j = n + 3 /\ "OK" \in K)
      BY <1>1, <1>3
    <2>2. CASE i \in 1 .. n /\ j \in 1 .. n
      <3>1. s[i].type \in K /\ s[j].type \in K BY <1>1, <2>2
      <3> QED BY <1>2, <2>2, <3>1
    <2>3. i \in 1 .. n => Has(lines, K) BY <1>1, <1>2
    <2>4. j \in 1 .. n => Has(lines, K) BY <1>1, <1>2
    <2> QED BY <2>1, <2>2, <2>3, <2>4
  <1> QED BY <1>4, <1>5

\* The modem prompts for one text at a time, for a text that there is, and takes
\* nothing else for a text.
Mark         == {"> "}
Texts        == {"text", "nothing"}
Something    == send.out \/ raw
TextBefore(i) == \E j \in 1 .. i - 1 : toModem[j].type \in Texts
Orders ==
    \A i \in 1 .. Len(toModem) :
        toModem[i].type = "CMGS" /\ (texting => TextBefore(i)) => Something
Prompts ==
    /\ AtMostOne(lines, Mark) /\ AtMostOne(toModem, Texts)
    /\ Has(lines, Mark) => texting /\ Something /\ ~Has(toModem, Texts)
    /\ Has(toModem, Texts) => texting
    /\ Orders

LEMMA OrdersLonger ==
    ASSUME Lens, Orders, texting' = texting, Something => Something', NEW e,
           Longer(toModem, toModem', e), e.type = "CMGS" => Something'
    PROVE  Orders'
  <1> DEFINE n == Len(toModem)
             m == Len(toModem')
             s == toModem
             t == toModem'
             Thing == Something'
  <1>1. n \in Nat /\ m = n + 1 /\ t[n + 1] = e /\ \A i \in 1 .. n : t[i] = s[i]
    BY DEF Lens, Longer
  <1>2. \A i \in 1 .. n :
           s[i].type = "CMGS" /\ (texting => \E j \in 1 .. i - 1 : s[j].type \in Texts) => Thing
    BY DEF Orders, TextBefore
  <1>3. e.type = "CMGS" => Thing OBVIOUS
  <1> HIDE DEF n, m, s, t, Thing
  <1>4. ASSUME NEW i \in 1 .. m, t[i].type = "CMGS",
               texting => \E j \in 1 .. i - 1 : t[j].type \in Texts
        PROVE  Thing
    <2>1. CASE i = n + 1 BY <1>1, <1>3, <1>4, <2>1
    <2>2. CASE i \in 1 .. n
      <3>1. \A j \in 1 .. i - 1 : j \in 1 .. n BY <1>1, <2>2
      <3>2. texting => \E j \in 1 .. i - 1 : s[j].type \in Texts BY <1>1, <1>4, <3>1
      <3> QED BY <1>1, <1>2, <1>4, <2>2, <3>2
    <2> QED BY <1>1, <2>1, <2>2
  <1>5. \A i \in 1 .. m :
           t[i].type = "CMGS" /\ (texting' => \E j \in 1 .. i - 1 : t[j].type \in Texts) => Thing
    BY <1>4
  <1> QED BY <1>5 DEF Orders, TextBefore, m, t, Thing

LEMMA PromptsKept ==
    ASSUME Lens, Prompts, texting' = texting, Something => Something',
           \/ lines' = lines \/ Shorter(lines, lines')
           \/ \E l : Longer(lines, lines', l) /\ l.type \notin Mark,
           \/ toModem' = toModem
           \/ \E e : /\ Longer(toModem, toModem', e) /\ e.type \notin Texts
                     /\ e.type = "CMGS" => Something'
    PROVE  Prompts'
  <1>1. AtMostOne(lines', Mark) /\ (Has(lines', Mark) => Has(lines, Mark))
    <2>1. CASE lines' = lines BY <2>1 DEF Prompts
    <2>2. CASE Shorter(lines, lines') BY <2>2, ShorterHas DEF Prompts, Lens
    <2>3. CASE \E l : Longer(lines, lines', l) /\ l.type \notin Mark
      BY <2>3, LongerHas DEF Prompts, Lens
    <2> QED BY <2>1, <2>2, <2>3
  <1>2. AtMostOne(toModem', Texts) /\ (Has(toModem', Texts) => Has(toModem, Texts)) /\ Orders'
    <2>1. CASE toModem' = toModem BY <2>1 DEF Prompts, Orders, TextBefore
    <2>2. CASE \E e : /\ Longer(toModem, toModem', e) /\ e.type \notin Texts
                      /\ e.type = "CMGS" => Something'
      <3>1. PICK e : /\ Longer(toModem, toModem', e) /\ e.type \notin Texts
                     /\ e.type = "CMGS" => Something'
        BY <2>2
      <3>2. AtMostOne(toModem', Texts) /\ (Has(toModem', Texts) => Has(toModem, Texts))
        BY <3>1, LongerHas DEF Prompts, Lens
      <3>3. Orders' BY <3>1, OrdersLonger DEF Prompts
      <3> QED BY <3>2, <3>3
    <2> QED BY <2>1, <2>2
  <1> QED BY <1>1, <1>2 DEF Prompts

\* The modem has heard something: what was behind it is first now.
LEMMA PromptsHeard ==
    ASSUME Lens, Prompts, Shorter(toModem, toModem'), Something' = Something,
           \/ texting' = texting /\ (texting => toModem[1].type \notin Texts)
           \/ texting /\ toModem[1].type \in Texts /\ ~texting'
    PROVE  AtMostOne(toModem', Texts) /\ Orders' /\ (Has(toModem', Texts) => texting')
           /\ (Has(toModem', Texts) => Has(toModem, Texts))
  <1> DEFINE n == Len(toModem)
             m == Len(toModem')
             s == toModem
             t == toModem'
  <1>1. n \in Nat /\ n >= 1 /\ m = n - 1 /\ \A i \in 1 .. n - 1 : t[i] = s[i + 1]
    BY DEF Lens, Shorter
  <1>2. \A i \in 1 .. n :
           s[i].type = "CMGS" /\ (texting => \E j \in 1 .. i - 1 : s[j].type \in Texts)
              => Something
    BY DEF Prompts, Orders, TextBefore
  <1>3. /\ AtMostOne(toModem', Texts) /\ (Has(toModem', Texts) => Has(toModem, Texts))
        /\ s[1].type \in Texts => ~Has(toModem', Texts)
    BY ShorterHas DEF Prompts, Lens
  <1>4. Has(toModem', Texts) => texting' BY <1>3 DEF Prompts, s
  <1>5. \/ texting' = texting /\ (texting => s[1].type \notin Texts)
        \/ texting /\ s[1].type \in Texts /\ ~texting'
    OBVIOUS
  <1> HIDE DEF n, m, s, t
  <1>6. ASSUME NEW i \in 1 .. m, t[i].type = "CMGS",
               texting' => \E j \in 1 .. i - 1 : t[j].type \in Texts
        PROVE  Something
    <2>1. i + 1 \in 1 .. n /\ t[i] = s[i + 1] /\ 1 \in 1 .. (i + 1) - 1 BY <1>1
    <2>2. texting => \E j \in 1 .. (i + 1) - 1 : s[j].type \in Texts
      <3>1. CASE texting /\ s[1].type \in Texts BY <2>1, <3>1
      <3>2. CASE texting /\ texting'
        <4>1. PICK j \in 1 .. i - 1 : t[j].type \in Texts BY <1>6, <3>2
        <4>2. j + 1 \in 1 .. (i + 1) - 1 /\ t[j] = s[j + 1] BY <1>1, <4>1
        <4> QED BY <4>1, <4>2
      <3> QED BY <1>5, <3>1, <3>2
    <2> QED BY <1>2, <1>6, <2>1, <2>2
  <1>7. Orders'
    <2>1. \A i \in 1 .. m :
             t[i].type = "CMGS" /\ (texting' => \E j \in 1 .. i - 1 : t[j].type \in Texts)
                => Something'
      BY <1>6
    <2> QED BY <2>1 DEF Orders, TextBefore, m, t
  <1> QED BY <1>3, <1>4, <1>7

\* Until the queue has overflowed one thing is under way at a time.
Ans == {"> ", "OK", "ERROR"}
InOrder ==
    ~overflowed =>
       /\ Len(toModem) <= 1 /\ AtMostOne(lines, Ans)
       /\ Len(toModem) >= 1 => /\ ~Has(lines, Ans)
                               /\ toModem[1].type \notin {"CMGD", "nothing"}
       /\ foundOK => Len(toModem) = 0 /\ ~Has(lines, Ans) /\ ~texting /\ ~deleteRead
       /\ texting /\ Len(toModem) >= 1 => toModem[1].type = "text"
       /\ texting /\ Len(toModem) = 0 => Has(lines, Mark)

LEMMA HasSub ==
    ASSUME NEW s, NEW K, NEW L, K \subseteq L
    PROVE  /\ Has(s, K) => Has(s, L)
           /\ AtMostOne(s, L) => AtMostOne(s, K)
           /\ ~Has(s, L) => AtMostOne(s, L)
  BY DEF Has, AtMostOne

LEMMA AnswerTaken ==
    ASSUME Lens, InOrder, ~overflowed, Shorter(lines, lines'), lines[1].type \in Ans
    PROVE  /\ Len(toModem) = 0 /\ ~foundOK /\ ~Has(lines', Ans)
           /\ texting => lines[1].type = "> "
  <1>1. Has(lines, Ans) /\ ~Has(lines', Ans)
    BY ShorterHas DEF Lens, InOrder
  <1>2. Len(toModem) = 0 /\ ~foundOK
    <2>1. ~(Len(toModem) >= 1) /\ ~foundOK BY <1>1 DEF InOrder
    <2>2. Len(toModem) \in Nat BY DEF Lens
    <2> QED BY <2>1, <2>2
  <1>3. ASSUME texting, lines[1].type # "> " PROVE FALSE
    <2>1. Has(lines, Mark) BY <1>2, <1>3 DEF InOrder
    <2>2. lines[1].type \notin Mark BY <1>3 DEF Mark
    <2>3. Has(lines', Mark) BY <2>1, <2>2, ShorterHas DEF Lens
    <2>4. Mark \subseteq Ans BY DEF Mark, Ans
    <2>5. Has(lines', Ans) BY <2>3, <2>4, HasSub
    <2> QED BY <1>1, <2>5
  <1> QED BY <1>1, <1>2, <1>3

\* The modem tells something that is no answer, or the device takes it.
LEMMA InOrderKept ==
    ASSUME Lens, InOrder, overflowed' = overflowed, toModem' = toModem,
           texting' = texting, foundOK' = foundOK, foundOK => deleteRead' = deleteRead,
           \/ lines' = lines
           \/ Shorter(lines, lines') /\ lines[1].type \notin Ans
           \/ \E l : Longer(lines, lines', l) /\ l.type \notin Ans
    PROVE  InOrder'
  <1>1. Mark \subseteq Ans BY DEF Mark, Ans
  <1>2. /\ AtMostOne(lines, Ans) => AtMostOne(lines', Ans)
        /\ Has(lines', Ans) => Has(lines, Ans)
        /\ Has(lines, Mark) => Has(lines', Mark)
    <2>1. CASE lines' = lines BY <2>1
    <2>2. CASE Shorter(lines, lines') /\ lines[1].type \notin Ans
      <3>1. lines[1].type \notin Mark BY <1>1, <2>2
      <3> QED BY <2>2, <3>1, ShorterHas DEF Lens
    <2>3. CASE \E l : Longer(lines, lines', l) /\ l.type \notin Ans
      BY <2>3, LongerHas DEF Lens
    <2> QED BY <2>1, <2>2, <2>3
  <1> QED BY <1>2 DEF InOrder

\* With nothing under way the device says something, or rests.
LEMMA InOrderSaid ==
    ASSUME Len(toModem) = 0, ~Has(lines', Ans), ~texting', NEW e,
           Longer(toModem, toModem', e), e.type \notin {"CMGD", "nothing"}, foundOK' = FALSE
    PROVE  InOrder'
  <1>1. Len(toModem') = 1 /\ toModem'[1] = e BY DEF Longer
  <1>2. AtMostOne(lines', Ans) BY HasSub
  <1> QED BY <1>1, <1>2 DEF InOrder

LEMMA InOrderRests ==
    ASSUME Len(toModem) = 0, ~Has(lines', Ans), ~texting', toModem' = toModem, ~deleteRead'
    PROVE  InOrder'
  <1>1. AtMostOne(lines', Ans) BY HasSub
  <1>2. Len(toModem') <= 1 /\ ~(Len(toModem') >= 1) /\ Len(toModem') = 0 OBVIOUS
  <1> QED BY <1>1, <1>2, Zenon DEF InOrder

\* What an OK leads to, on the line.
TellsNext(r) ==
    \E e : /\ Longer(toModem, toModem', e)
           /\ e.type \in {"CMGR", "CMGS", "DEL ALL", "DEL READ"}
           /\ e.type = "CMGS" => send'.out \/ r

LEMMA OKSays ==
    ASSUME TypeOK, NEW s \in Sends, NEW r \in BOOLEAN, OK(s, r)
    PROVE  /\ deleteRead' = FALSE /\ (s.out => send'.out) /\ expecting' = expecting
           /\ Rests \/ (foundOK' = FALSE /\ TellsNext(r))
  <1>1. deleteRead \in BOOLEAN /\ requested \in BOOLEAN BY DEF TypeOK
  <1>2. /\ (s.out => send'.out) /\ expecting' = expecting /\ deleteRead' = FALSE
        /\ Rests \/ Deletes \/ Asks \/ Transmits(r)
    BY <1>1, OKFacts
  <1>3. ASSUME Asks PROVE foundOK' = FALSE /\ TellsNext(r)
    <2>1. foundOK' = FALSE /\ Longer(toModem, toModem', Item("CMGR", queue[1]))
      BY <1>3, RequestFacts DEF Asks
    <2>2. Item("CMGR", queue[1]).type = "CMGR" BY Items
    <2>3. TellsNext(r) BY <2>1, <2>2 DEF TellsNext
    <2> QED BY <2>1, <2>3
  <1>4. ASSUME Deletes PROVE foundOK' = FALSE /\ TellsNext(r)
    <2>1. PICK t \in {"DEL ALL", "DEL READ"} : Say(t, 0) BY <1>4 DEF Deletes
    <2>2. Item(t, 0) \in ToModem /\ Item(t, 0).type = t BY Items
    <2>3. foundOK' = FALSE /\ Longer(toModem, toModem', Item(t, 0)) BY <2>1, <2>2, SayFacts
    <2>4. TellsNext(r) BY <2>2, <2>3 DEF TellsNext
    <2> QED BY <2>3, <2>4
  <1>5. ASSUME Transmits(r) PROVE foundOK' = FALSE /\ TellsNext(r)
    <2>1. Say("CMGS", 0) /\ (send'.out \/ r) BY <1>5 DEF Transmits
    <2>2. Item("CMGS", 0) \in ToModem /\ Item("CMGS", 0).type = "CMGS" BY Items
    <2>3. foundOK' = FALSE /\ Longer(toModem, toModem', Item("CMGS", 0)) BY <2>1, <2>2, SayFacts
    <2>4. TellsNext(r) BY <2>1, <2>2, <2>3 DEF TellsNext
    <2> QED BY <2>3, <2>4
  <1>6. Rests \/ (foundOK' = FALSE /\ TellsNext(r))
    <2> QED BY <1>2, <1>3, <1>4, <1>5
  <1> QED BY <1>2, <1>6

--------------------------------------------------------------------------------
(* Every step keeps the device and the modem in step.                        *)

Together == Chunks /\ Prompts /\ InOrder

LEMMA RequestTogether == TypeOK /\ Together /\ Request => Together'
  <1> SUFFICES ASSUME TypeOK, Together, Request PROVE Together'
    OBVIOUS
  <1>1. /\ Lens /\ foundOK' = FALSE
        /\ Longer(toModem, toModem', Item("CMGR", queue[1]))
        /\ Item("CMGR", queue[1]).type = "CMGR"
    BY LenFacts, RequestFacts, Items DEF Request, MustRequest
  <1>2. /\ UNCHANGED <<expecting, deleteRead, send, raw, lines, texting, overflowed>>
        /\ foundOK
    BY DEF Request, MustRequest, simVars, modemVars
  <1>3. Chunks' BY <1>2 DEF Together, Chunks
  <1>4. Prompts'
    <2>1. Item("CMGR", queue[1]).type \notin Texts BY <1>1 DEF Texts
    <2>2. Prompts /\ Something' = Something BY <1>2 DEF Together, Something
    <2> QED BY <1>1, <1>2, <2>1, <2>2, PromptsKept
  <1>5. InOrder'
    <2>1. CASE overflowed BY <1>2, <2>1 DEF InOrder
    <2>2. CASE ~overflowed
      <3>1. Len(toModem) = 0 /\ ~Has(lines, Ans) /\ ~texting
        BY <1>2, <2>2 DEF Together, InOrder
      <3> QED BY <1>1, <1>2, <3>1, InOrderSaid
    <2> QED BY <2>1, <2>2
  <1> QED BY <1>3, <1>4, <1>5 DEF Together

LEMMA TakeMessageTogether == TypeOK /\ Together /\ TakeMessage => Together'
  <1> SUFFICES ASSUME TypeOK, Together, TakeMessage PROVE Together'
    OBVIOUS
  <1>1. Lens /\ Shorter(lines, lines') BY LenFacts, TakeFacts DEF TakeMessage
  <1>2. expecting /\ ~expecting' /\ UNCHANGED <<toModem, foundOK, raw, texting, overflowed>>
    BY DEF TakeMessage, Silent, simVars, modemVars
  <1>3. Chunks' BY <1>1, <1>2, ChunksTaken DEF Together
  <1>4. Prompts'
    <2>1. send' \in {Stopped(send), [send EXCEPT !.again = TRUE], send} BY DEF TakeMessage
    <2>2. send'.out = send.out BY <2>1, SendFacts DEF TypeOK
    <2>3. Something' = Something BY <1>2, <2>2 DEF Something
    <2> QED BY <1>1, <1>2, <2>3, PromptsKept DEF Together
  <1>5. InOrder'
    <2>1. CASE overflowed BY <1>2, <2>1 DEF InOrder
    <2>2. CASE ~overflowed
      <3>1. lines[1].type = "message" /\ 1 \in 1 .. Len(lines) /\ Len(lines) \in Nat
        BY <1>1, <1>2 DEF Together, Chunks, Lens, Shorter
      <3>2. 1 < Len(lines) /\ lines[1 + 1].type = "OK" BY <3>1 DEF Together, Chunks
      <3>3. 2 \in 1 .. Len(lines) /\ lines[2].type = "OK" BY <3>1, <3>2
      <3>4. Has(lines, Ans) BY <3>3 DEF Has, Ans
      <3>5. ~foundOK BY <2>2, <3>4 DEF Together, InOrder
      <3>6. lines[1].type \notin Ans BY <3>1 DEF Ans
      <3> QED BY <1>1, <1>2, <3>5, <3>6, InOrderKept DEF Together
    <2> QED BY <2>1, <2>2
  <1> QED BY <1>3, <1>4, <1>5 DEF Together

LEMMA TakePromptTogether == TypeOK /\ Together /\ TakePrompt => Together'
  <1> SUFFICES ASSUME TypeOK, Together, TakePrompt PROVE Together'
    OBVIOUS
  <1>1. Lens /\ Shorter(lines, lines') /\ lines[1].type = "> "
    BY LenFacts, TakeFacts DEF TakePrompt, NextLine
  <1>2. ~expecting /\ UNCHANGED <<expecting, deleteRead, texting, overflowed>>
    BY DEF TakePrompt, simVars, modemVars, lineVars
  <1>3. /\ Has(lines, Mark) /\ ~Has(lines', Mark) /\ AtMostOne(lines', Mark)
        /\ texting /\ Something /\ ~Has(toModem, Texts)
    <2>1. lines[1].type \in Mark /\ Len(lines) \in Nat BY <1>1 DEF Mark, Lens
    <2>2. AtMostOne(lines, Mark) BY DEF Together, Prompts
    <2>3. Has(lines, Mark) /\ ~Has(lines', Mark) /\ AtMostOne(lines', Mark)
      BY <1>1, <2>1, <2>2, ShorterHas
    <2> QED BY <2>3 DEF Together, Prompts
  <1>4. PICK t \in {"text", "nothing"} : Say(t, 0) /\ (Something => t = "text")
    BY DEF TakePrompt, Something
  <1>5. Longer(toModem, toModem', Item(t, 0)) /\ foundOK' = FALSE /\ Item(t, 0).type = t
    <2>1. Item(t, 0) \in ToModem /\ Item(t, 0).type = t BY Items
    <2> QED BY <1>4, <2>1, SayFacts
  <1>6. Chunks' BY <1>1, <1>2, ChunksTaken DEF Together
  <1>7. Prompts'
    <2>1. AtMostOne(toModem', Texts) BY <1>1, <1>3, <1>5, LongerHas DEF Together, Prompts, Lens
    <2>2. Orders'
      <3> DEFINE n == Len(toModem)
                 m == Len(toModem')
                 old == toModem
                 new == toModem'
      <3>1. /\ n \in Nat /\ m = n + 1 /\ new[n + 1].type = t
            /\ \A i \in 1 .. n : new[i] = old[i]
        BY <1>1, <1>5 DEF Lens, Longer
      <3>2. \A i \in 1 .. n : old[i].type \notin Texts BY <1>3 DEF Has
      <3>3. texting' BY <1>2, <1>3
      <3>4. t # "CMGS" OBVIOUS
      <3> HIDE DEF n, m, old, new
      <3>5. ASSUME NEW i \in 1 .. m, new[i].type = "CMGS",
                   \E j \in 1 .. i - 1 : new[j].type \in Texts
            PROVE  FALSE
        <4>1. i \in 1 .. n BY <3>1, <3>4, <3>5
        <4>2. \A j \in 1 .. i - 1 : j \in 1 .. n BY <3>1, <4>1
        <4> QED BY <3>1, <3>2, <3>5, <4>2
      <3> QED BY <3>3, <3>5 DEF Orders, TextBefore, m, new
    <2> QED BY <1>2, <1>3, <2>1, <2>2 DEF Prompts
  <1>8. InOrder'
    <2>1. CASE overflowed BY <1>2, <2>1 DEF InOrder
    <2>2. CASE ~overflowed
      <3>1. Len(toModem) = 0 /\ ~Has(lines', Ans)
        BY <1>1, <2>2, AnswerTaken DEF Together, Ans
      <3>2. t = "text" BY <1>3, <1>4
      <3>3. Len(toModem') = 1 /\ toModem'[1].type = "text"
        BY <1>5, <3>1, <3>2 DEF Longer
      <3>4. AtMostOne(lines', Ans) BY <3>1, HasSub
      <3> QED BY <1>5, <3>1, <3>3, <3>4 DEF InOrder
    <2> QED BY <2>1, <2>2
  <1> QED BY <1>6, <1>7, <1>8 DEF Together

LEMMA TakeArrivalTogether == TypeOK /\ Together /\ TakeArrival => Together'
  <1> SUFFICES ASSUME TypeOK, Together, TakeArrival PROVE Together'
    OBVIOUS
  <1>1. Lens /\ Shorter(lines, lines') /\ lines[1].type = "+CMTI"
    BY LenFacts, ArrivalFacts
  <1>2. /\ ~expecting /\ UNCHANGED <<expecting, deleteRead, send, raw, texting>>
        /\ overflowed' = (overflowed \/ Len(queue) = MaxQueue)
    BY DEF TakeArrival, modemVars
  <1>3. \/ Len(queue) < MaxQueue /\ UNCHANGED <<toModem, foundOK>>
        \/ \E e : /\ Longer(toModem, toModem', e) /\ e.type = "CMGD" /\ Len(queue) = MaxQueue
    <2>1. CASE Len(queue) < MaxQueue /\ Silent BY <2>1 DEF Silent
    <2>2. CASE Len(queue) = MaxQueue /\ Say("CMGD", lines[1].slot)
      <3>1. lines[1] \in Lines BY TakeFacts DEF TakeArrival, NextLine
      <3>2. Item("CMGD", lines[1].slot) \in ToModem
            /\ Item("CMGD", lines[1].slot).type = "CMGD"
        BY <1>1, <3>1, Items
      <3> QED BY <2>2, <3>2, SayFacts
    <2> QED BY <2>1, <2>2, ArrivalFacts
  <1>4. Chunks' BY <1>1, <1>2, ChunksTaken DEF Together
  <1>5. Prompts'
    <2>1. Something' = Something BY <1>2 DEF Something
    <2>2. \/ toModem' = toModem
          \/ \E e : /\ Longer(toModem, toModem', e) /\ e.type \notin Texts
                    /\ e.type = "CMGS" => Something'
      BY <1>3 DEF Texts
    <2> QED BY <1>1, <1>2, <2>1, <2>2, PromptsKept DEF Together
  <1>6. InOrder'
    <2>1. CASE overflowed' BY <2>1 DEF InOrder
    <2>2. CASE ~overflowed'
      <3>1. ~overflowed /\ Len(queue) # MaxQueue BY <1>2, <2>2
      <3>2. UNCHANGED <<toModem, foundOK>> BY <1>3, <3>1
      <3>3. lines[1].type \notin Ans BY <1>1 DEF Ans
      <3>4. overflowed' = overflowed
        <4>1. overflowed = FALSE BY <3>1 DEF TypeOK
        <4>2. overflowed' = FALSE BY <1>2, <3>1, <4>1
        <4> QED BY <4>1, <4>2
      <3> QED BY <1>1, <1>2, <3>2, <3>3, <3>4, InOrderKept DEF Together
    <2> QED BY <2>1, <2>2
  <1> QED BY <1>4, <1>5, <1>6 DEF Together

LEMMA TakeHeaderTogether == TypeOK /\ Together /\ TakeHeader => Together'
  <1> SUFFICES ASSUME TypeOK, Together, TakeHeader PROVE Together'
    OBVIOUS
  <1>1. Lens /\ Shorter(lines, lines') /\ lines[1].type = "+CMGR"
    BY LenFacts, TakeFacts DEF TakeHeader, NextLine
  <1>2. UNCHANGED <<toModem, foundOK, deleteRead, send, raw, texting, overflowed>>
    BY DEF TakeHeader, Silent, simVars, modemVars
  <1>3. Chunks' BY <1>1, ChunksTaken DEF Together
  <1>4. Prompts'
    <2>1. Something' = Something BY <1>2 DEF Something
    <2> QED BY <1>1, <1>2, <2>1, PromptsKept DEF Together
  <1>5. InOrder'
    <2>1. lines[1].type \notin Ans BY <1>1 DEF Ans
    <2> QED BY <1>1, <1>2, <2>1, InOrderKept DEF Together
  <1> QED BY <1>3, <1>4, <1>5 DEF Together

LEMMA TakeErrorTogether == TypeOK /\ Together /\ TakeError => Together'
  <1> SUFFICES ASSUME TypeOK, Together, TakeError PROVE Together'
    OBVIOUS
  <1>1. Lens /\ Shorter(lines, lines') /\ lines[1].type = "ERROR"
    BY LenFacts, TakeFacts DEF TakeError, NextLine
  <1>2. ~expecting /\ UNCHANGED <<expecting, deleteRead, send, raw, texting, overflowed>>
    BY DEF TakeError, simVars, modemVars
  <1>3. /\ foundOK' = FALSE /\ Longer(toModem, toModem', Item("DEL ALL", 0))
        /\ Item("DEL ALL", 0).type = "DEL ALL"
    <2>1. Say("DEL ALL", 0) BY DEF TakeError, clearAllSmsMsgs
    <2>2. Item("DEL ALL", 0) \in ToModem /\ Item("DEL ALL", 0).type = "DEL ALL" BY Items
    <2> QED BY <2>1, <2>2, SayFacts
  <1>4. Chunks' BY <1>1, <1>2, ChunksTaken DEF Together
  <1>5. Prompts'
    <2>1. Something' = Something BY <1>2 DEF Something
    <2>2. Item("DEL ALL", 0).type \notin Texts BY <1>3 DEF Texts
    <2> QED BY <1>1, <1>2, <1>3, <2>1, <2>2, PromptsKept DEF Together
  <1>6. InOrder'
    <2>1. CASE overflowed BY <1>2, <2>1 DEF InOrder
    <2>2. CASE ~overflowed
      <3>1. Len(toModem) = 0 /\ ~Has(lines', Ans) /\ ~texting
        BY <1>1, <2>2, AnswerTaken DEF Together, Ans
      <3> QED BY <1>2, <1>3, <3>1, InOrderSaid
    <2> QED BY <2>1, <2>2
  <1> QED BY <1>4, <1>5, <1>6 DEF Together

\* OK(s, r), whatever the line had before.
LEMMA OKTogether ==
    ASSUME TypeOK, Lens, Prompts, NEW s \in Sends, NEW r \in BOOLEAN, OK(s, r),
           send.out => s.out, raw => r, raw' = r,
           UNCHANGED <<texting, overflowed>>, lines' = lines \/ Shorter(lines, lines'),
           ~overflowed => Len(toModem) = 0 /\ ~Has(lines', Ans) /\ ~texting
    PROVE  Prompts' /\ InOrder'
  <1>1. /\ deleteRead' = FALSE /\ (s.out => send'.out)
        /\ Rests \/ (foundOK' = FALSE /\ TellsNext(r))
    BY OKSays
  <1>2. CASE Rests
    <2>1. toModem' = toModem BY <1>2 DEF Rests
    <2>2. Something => Something' BY <1>1 DEF Something
    <2>3. Prompts' BY <2>1, <2>2, PromptsKept
    <2>4. ~overflowed' => InOrder' BY <1>1, <2>1, InOrderRests
    <2>5. overflowed' => InOrder' BY DEF InOrder
    <2> QED BY <2>3, <2>4, <2>5
  <1>3. CASE foundOK' = FALSE /\ TellsNext(r)
    <2>1. PICK e : /\ Longer(toModem, toModem', e)
                   /\ e.type \in {"CMGR", "CMGS", "DEL ALL", "DEL READ"}
                   /\ e.type = "CMGS" => send'.out \/ r
      BY <1>3 DEF TellsNext
    <2>2. (Something => Something') /\ (send'.out \/ r => Something') BY <1>1 DEF Something
    <2>3. e.type \notin Texts /\ e.type \notin {"CMGD", "nothing"} BY <2>1 DEF Texts
    <2>4. Prompts' BY <2>1, <2>2, <2>3, PromptsKept
    <2>5. ~overflowed' => InOrder' BY <1>3, <2>1, <2>3, InOrderSaid
    <2>6. overflowed' => InOrder' BY DEF InOrder
    <2> QED BY <2>4, <2>5, <2>6
  <1> QED BY <1>1, <1>2, <1>3

LEMMA TakeOKTogether == TypeOK /\ Together /\ TakeOK => Together'
  <1> SUFFICES ASSUME TypeOK, Together, TakeOK PROVE Together'
    OBVIOUS
  <1>1. Lens /\ Shorter(lines, lines') /\ lines[1].type = "OK"
    BY LenFacts, TakeFacts DEF TakeOK, NextLine
  <1>2. /\ OK(send, raw) /\ send \in Sends /\ raw \in BOOLEAN
        /\ ~expecting /\ UNCHANGED <<raw, texting, overflowed>>
    BY DEF TakeOK, TypeOK, simVars, modemVars
  <1>3. expecting' = expecting BY <1>2, OKSays
  <1>4. Chunks' BY <1>1, <1>2, <1>3, ChunksTaken DEF Together
  <1>5. ~overflowed => Len(toModem) = 0 /\ ~Has(lines', Ans) /\ ~texting
    BY <1>1, AnswerTaken DEF Together, Ans
  <1>6. Prompts' /\ InOrder' BY <1>1, <1>2, <1>5, OKTogether DEF Together
  <1> QED BY <1>4, <1>6 DEF Together

LEMMA ReplyTogether == TypeOK /\ Together /\ Reply => Together'
  <1> SUFFICES ASSUME TypeOK, Together, Reply PROVE Together'
    OBVIOUS
  <1>1. PICK s \in Sends : /\ send.out => s.out
                           /\ \/ foundOK /\ OK(s, raw)
                              \/ /\ ~foundOK /\ send' = s
                                 /\ UNCHANGED <<toModem, foundOK, lineVars>>
    BY ReplyFacts
  <1>2. Lens /\ raw \in BOOLEAN /\ UNCHANGED <<raw, lines, texting, overflowed>>
    BY LenFacts DEF Reply, TypeOK, simVars, modemVars
  <1>3. CASE foundOK /\ OK(s, raw)
    <2>1. expecting' = expecting BY <1>2, <1>3, OKSays
    <2>2. Chunks' BY <1>2, <2>1 DEF Together, Chunks
    <2>3. ~overflowed => Len(toModem) = 0 /\ ~Has(lines', Ans) /\ ~texting
      BY <1>2, <1>3 DEF Together, InOrder
    <2>4. Prompts' /\ InOrder' BY <1>1, <1>2, <1>3, <2>3, OKTogether DEF Together
    <2> QED BY <2>2, <2>4 DEF Together
  <1>4. CASE send' = s /\ UNCHANGED <<toModem, foundOK, lineVars>>
    <2>1. UNCHANGED <<expecting, deleteRead, toModem, foundOK>> BY <1>4 DEF lineVars
    <2>2. Chunks' BY <1>2, <2>1 DEF Together, Chunks
    <2>3. Something => Something' BY <1>1, <1>2, <1>4 DEF Something
    <2>4. Prompts' BY <1>2, <2>1, <2>3, PromptsKept DEF Together
    <2>5. InOrder' BY <1>2, <2>1, InOrderKept DEF Together
    <2> QED BY <2>2, <2>4, <2>5 DEF Together
  <1> QED BY <1>1, <1>3, <1>4

LEMMA WriteRawDataTogether == TypeOK /\ Together /\ WriteRawData => Together'
  <1> SUFFICES ASSUME TypeOK, Together, WriteRawData PROVE Together'
    OBVIOUS
  <1>1. /\ Lens /\ send \in Sends /\ raw' = TRUE
        /\ UNCHANGED <<lines, texting, overflowed>>
    BY LenFacts DEF WriteRawData, TypeOK, simVars, modemVars
  <1>2. CASE foundOK
    <2>1. OK(send, TRUE) BY <1>2 DEF WriteRawData
    <2>2. expecting' = expecting BY <1>1, <2>1, OKSays
    <2>3. Chunks' BY <1>1, <2>2 DEF Together, Chunks
    <2>4. ~overflowed => Len(toModem) = 0 /\ ~Has(lines', Ans) /\ ~texting
      BY <1>1, <1>2 DEF Together, InOrder
    <2>5. Prompts' /\ InOrder' BY <1>1, <2>1, <2>4, OKTogether DEF Together
    <2> QED BY <2>3, <2>5 DEF Together
  <1>3. CASE ~foundOK
    <2>1. UNCHANGED <<expecting, deleteRead, toModem, foundOK, send>>
      BY <1>3 DEF WriteRawData, lineVars
    <2>2. Chunks' BY <1>1, <2>1 DEF Together, Chunks
    <2>3. Something => Something' BY <1>1 DEF Something
    <2>4. Prompts' BY <1>1, <2>1, <2>3, PromptsKept DEF Together
    <2>5. InOrder' BY <1>1, <2>1, InOrderKept DEF Together
    <2> QED BY <2>2, <2>4, <2>5 DEF Together
  <1> QED BY <1>2, <1>3

\* What the modem leaves alone.
ModemLeaves == UNCHANGED <<foundOK, lineVars, cmdVars, send, raw, overflowed>>

LEMMA InOrderHeard ==
    ASSUME Lens, InOrder, Shorter(toModem, toModem'), ModemLeaves,
           ~Has(lines, Ans) => AtMostOne(lines', Ans),
           ~overflowed => (texting' => Has(lines', Mark))
    PROVE  InOrder'
  <1>1. UNCHANGED <<foundOK, deleteRead, overflowed>> BY DEF ModemLeaves, lineVars
  <1>2. CASE overflowed BY <1>1, <1>2 DEF InOrder
  <1>3. CASE ~overflowed
    <2>1. Len(toModem) >= 1 /\ Len(toModem') = Len(toModem) - 1 BY DEF Shorter
    <2>2. Len(toModem) <= 1 /\ ~Has(lines, Ans) /\ ~foundOK
      <3>1. Len(toModem) <= 1 /\ ~Has(lines, Ans) BY <1>3, <2>1 DEF InOrder
      <3>2. Len(toModem) # 0 BY <2>1 DEF Lens
      <3> QED BY <1>3, <3>1, <3>2 DEF InOrder
    <2>3. Len(toModem') = 0 /\ ~(Len(toModem') >= 1) /\ Len(toModem') <= 1
      <3>1. Len(toModem) = 1 BY <2>1, <2>2 DEF Lens
      <3>2. Len(toModem') = 0 BY <2>1, <3>1
      <3> QED BY <3>2
    <2>4. AtMostOne(lines', Ans) /\ (texting' => Has(lines', Mark)) /\ ~foundOK'
      BY <1>1, <1>3, <2>2
    <2> QED BY <2>3, <2>4, Zenon DEF InOrder
  <1> QED BY <1>2, <1>3

LEMMA ArriveTogether == TypeOK /\ Together /\ Arrive /\ ModemLeaves => Together'
  <1> SUFFICES ASSUME TypeOK, Together, Arrive, ModemLeaves PROVE Together'
    OBVIOUS
  <1>1. PICK n \in Slots \ slots : Longer(lines, lines', Item("+CMTI", n))
    BY ArriveFacts
  <1>2. Lens /\ Item("+CMTI", n).type = "+CMTI" BY LenFacts, Items
  <1>3. UNCHANGED <<toModem, foundOK, expecting, deleteRead, send, raw, texting, overflowed>>
    BY DEF Arrive, ModemLeaves, lineVars
  <1>4. Chunks' BY <1>1, <1>2, <1>3, ChunksSaid DEF Together
  <1>5. Prompts'
    <2>1. Something' = Something BY <1>3 DEF Something
    <2>2. Item("+CMTI", n).type \notin Mark BY <1>2 DEF Mark
    <2> QED BY <1>1, <1>2, <1>3, <2>1, <2>2, PromptsKept DEF Together
  <1>6. InOrder'
    <2>1. Item("+CMTI", n).type \notin Ans BY <1>2 DEF Ans
    <2> QED BY <1>1, <1>2, <1>3, <2>1, InOrderKept DEF Together
  <1> QED BY <1>4, <1>5, <1>6 DEF Together

\* The modem hears something that is no text, and answers or not.
LEMMA HeardTogether ==
    ASSUME Lens, Together, ModemLeaves, Shorter(toModem, toModem'),
           expecting' = expecting, Chunks',
           \/ texting' = texting /\ (texting => toModem[1].type \notin Texts)
           \/ texting /\ toModem[1].type \in Texts /\ ~texting',
           AtMostOne(lines, Mark) => AtMostOne(lines', Mark),
           Has(lines', Mark) => Has(lines, Mark) /\ texting',
           ~Has(lines, Ans) => AtMostOne(lines', Ans),
           ~overflowed => ~texting'
    PROVE  Together'
  <1>1. Something' = Something BY DEF Something, ModemLeaves
  <1>2. AtMostOne(toModem', Texts) /\ Orders' /\ (Has(toModem', Texts) => texting')
        /\ (Has(toModem', Texts) => Has(toModem, Texts))
    BY <1>1, PromptsHeard DEF Together
  <1>3. AtMostOne(lines, Mark) /\ (Has(lines, Mark) => Something /\ ~Has(toModem, Texts))
    BY DEF Together, Prompts
  <1>4. Prompts' BY <1>1, <1>2, <1>3 DEF Prompts
  <1>5. InOrder' BY InOrderHeard DEF Together
  <1> QED BY <1>4, <1>5 DEF Together

LEMMA TextTogether == TypeOK /\ Together /\ Text /\ ModemLeaves => Together'
  <1> SUFFICES ASSUME TypeOK, Together, Text, ModemLeaves PROVE Together'
    OBVIOUS
  <1>1. Lens /\ expecting' = expecting BY LenFacts DEF ModemLeaves, lineVars
  <1>2. CASE texting /\ (Hears("text") \/ Hears("nothing")) /\ ~texting' /\ Answers
    <2>1. Shorter(toModem, toModem') /\ toModem[1].type \in Texts
      BY <1>2, HearsFacts DEF Texts
    <2>2. PICK t \in {"OK", "ERROR"} : Longer(lines, lines', Item(t, 0))
      BY <1>2, AnswersFacts
    <2>3. Item(t, 0).type = t BY Items
    <2>4. /\ AtMostOne(lines, Mark) => AtMostOne(lines', Mark)
          /\ Has(lines', Mark) => Has(lines, Mark)
          /\ ~Has(lines, Ans) => AtMostOne(lines', Ans)
      <3>1. Item(t, 0).type \notin Mark BY <2>3 DEF Mark
      <3>2. ~Has(lines, Ans) => AtMostOne(lines, Ans) BY HasSub
      <3> QED BY <1>1, <2>2, <3>1, <3>2, LongerHas DEF Lens
    <2>5. ~Has(lines, Mark)
      <3>1. Has(toModem, Texts) BY <1>1, <2>1, ShorterHas DEF Lens
      <3> QED BY <3>1 DEF Together, Prompts
    <2>6. Chunks' BY <1>1, <2>2, <2>3, ChunksSaid DEF Together
    <2> QED BY <1>1, <1>2, <2>1, <2>4, <2>5, <2>6, HeardTogether
  <1>3. CASE /\ texting /\ UNCHANGED <<lines, modemVars>>
             /\ \E t \in {"CMGR", "CMGD", "DEL ALL", "DEL READ", "CMGS"} : Hears(t)
    <2>1. PICK t \in {"CMGR", "CMGD", "DEL ALL", "DEL READ", "CMGS"} : Hears(t) BY <1>3
    <2>2. Shorter(toModem, toModem') /\ toModem[1].type = t BY <2>1, HearsFacts
    <2>3. toModem[1].type \notin Texts /\ toModem[1].type # "text" BY <2>2 DEF Texts
    <2>4. overflowed
      <3>1. Len(toModem) >= 1 BY <2>2 DEF Shorter
      <3> QED BY <1>3, <2>3, <3>1 DEF Together, InOrder
    <2>5. lines' = lines /\ texting' = texting BY <1>3 DEF modemVars
    <2>6. Chunks' BY <1>1, <2>5 DEF Together, Chunks
    <2>7. ~Has(lines, Ans) => AtMostOne(lines', Ans) BY <2>5, HasSub
    <2>8. Has(lines', Mark) => texting' BY <1>3, <2>5
    <2> QED BY <1>1, <2>2, <2>3, <2>4, <2>5, <2>6, <2>7, <2>8, HeardTogether
  <1>4. CASE ~texting /\ (Hears("text") \/ Hears("nothing"))
    <2>1. Shorter(toModem, toModem') /\ toModem[1].type \in Texts
      BY <1>4, HearsFacts DEF Texts
    <2>2. Has(toModem, Texts) BY <1>1, <2>1, ShorterHas DEF Lens
    <2> QED BY <1>4, <2>2 DEF Together, Prompts
  <1> QED BY <1>2, <1>3, <1>4 DEF Text

\* The modem does what it is told and answers.
LEMMA DoneTogether ==
    ASSUME TypeOK, Together, ModemLeaves, ~texting, texting' = texting,
           NEW h, h \notin Texts, Hears(h),
           \/ \E t \in {"OK", "ERROR"} : Longer(lines, lines', Item(t, 0))
           \/ ReadsOut
    PROVE  Together'
  <1>1. Lens /\ expecting' = expecting BY LenFacts DEF ModemLeaves, lineVars
  <1>2. Shorter(toModem, toModem') /\ toModem[1].type \notin Texts BY HearsFacts
  <1>3. ~Has(lines, Mark) BY DEF Together, Prompts
  <1>4. ~Has(lines, Ans) => AtMostOne(lines, Ans) BY HasSub
  <1>5. /\ Chunks' /\ AtMostOne(lines', Mark) /\ ~Has(lines', Mark)
        /\ ~Has(lines, Ans) => AtMostOne(lines', Ans)
    <2>1. CASE \E t \in {"OK", "ERROR"} : Longer(lines, lines', Item(t, 0))
      <3>1. PICK t \in {"OK", "ERROR"} : Longer(lines, lines', Item(t, 0)) BY <2>1
      <3>2. Item(t, 0).type = t /\ Item(t, 0).type \notin Mark BY Items DEF Mark
      <3>3. Chunks' BY <1>1, <3>1, <3>2, ChunksSaid DEF Together
      <3> QED BY <1>1, <1>3, <1>4, <3>1, <3>2, <3>3, LongerHas DEF Lens, Together, Prompts
    <2>2. CASE ReadsOut
      <3>1. Chunks' BY <1>1, <2>2, ChunksRead DEF Together
      <3>2. ~Has(lines', Mark) /\ AtMostOne(lines', Mark)
        <4>1. "+CMGR" \notin Mark /\ "message" \notin Mark /\ "OK" \notin Mark BY DEF Mark
        <4> QED BY <1>1, <1>3, <2>2, <4>1, ReadsOutHas DEF Lens, Together, Prompts
      <3>3. "+CMGR" \notin Ans /\ "message" \notin Ans BY DEF Ans
      <3> QED BY <1>1, <1>4, <2>2, <3>1, <3>2, <3>3, ReadsOutHas DEF Lens
    <2> QED BY <2>1, <2>2
  <1> QED BY <1>1, <1>2, <1>5, HeardTogether

LEMMA DeleteTogether == TypeOK /\ Together /\ Delete /\ ModemLeaves => Together'
  <1> SUFFICES ASSUME TypeOK, Together, Delete, ModemLeaves PROVE Together'
    OBVIOUS
  <1>1. ~texting /\ texting' = texting /\ Says(<<"OK">>) BY DEF Delete
  <1>2. PICK h \in {"DEL ALL", "DEL READ", "CMGD"} : Hears(h) BY DEF Delete
  <1>3. h \notin Texts BY DEF Texts
  <1>4. Longer(lines, lines', Item("OK", 0))
    <2>1. Item("OK", 0) \in Lines BY Items
    <2> QED BY <1>1, <2>1, SaysOneFacts
  <1> QED BY <1>1, <1>2, <1>3, <1>4, DoneTogether

LEMMA SaysMessageReadsOut ==
    ASSUME TypeOK, Says(<<"+CMGR", "message", "OK">>)
    PROVE  ReadsOut
  <1>1. /\ Len(lines') = Len(lines) + 3
        /\ \A i \in 1 .. Len(lines) : lines'[i] = lines[i]
        /\ lines'[Len(lines) + 1] = Item("+CMGR", 0)
        /\ lines'[Len(lines) + 2] = Item("message", 0)
        /\ lines'[Len(lines) + 3] = Item("OK", 0)
    BY SaysMessageFacts
  <1>2. /\ Item("+CMGR", 0).type = "+CMGR" /\ Item("message", 0).type = "message"
        /\ Item("OK", 0).type = "OK"
    BY Items
  <1> QED BY <1>1, <1>2 DEF ReadsOut

LEMMA ReadOutTogether == TypeOK /\ Together /\ ReadOut /\ ModemLeaves => Together'
  <1> SUFFICES ASSUME TypeOK, Together, ReadOut, ModemLeaves PROVE Together'
    OBVIOUS
  <1>1. ~texting /\ texting' = texting /\ Hears("CMGR") /\ "CMGR" \notin Texts
    BY DEF ReadOut, Texts
  <1>2. \/ \E t \in {"OK", "ERROR"} : Longer(lines, lines', Item(t, 0))
        \/ ReadsOut
    <2>1. CASE Answers BY <2>1, AnswersFacts
    <2>2. CASE Says(<<"+CMGR", "message", "OK">>) BY <2>2, SaysMessageReadsOut
    <2> QED BY <2>1, <2>2 DEF ReadOut
  <1> QED BY <1>1, <1>2, DoneTogether

LEMMA PromptTogether == TypeOK /\ Together /\ Prompt /\ ModemLeaves => Together'
  <1> SUFFICES ASSUME TypeOK, Together, Prompt, ModemLeaves PROVE Together'
    OBVIOUS
  <1>1. /\ Lens /\ expecting' = expecting /\ Something' = Something
        /\ ~texting /\ texting' /\ Hears("CMGS") /\ Says(<<"> ">>)
    BY LenFacts DEF ModemLeaves, lineVars, Prompt, Something
  <1>2. Shorter(toModem, toModem') /\ toModem[1].type = "CMGS" BY <1>1, HearsFacts
  <1>3. 1 \in 1 .. Len(toModem) /\ Len(toModem') \in Nat
    <2>1. Lens /\ Shorter(toModem, toModem') BY <1>1, <1>2
    <2> QED BY <2>1 DEF Lens, Shorter
  <1>4. Longer(lines, lines', Item("> ", 0)) /\ Item("> ", 0).type = "> "
    <2>1. Item("> ", 0) \in Lines /\ Item("> ", 0).type = "> " BY Items
    <2> QED BY <1>1, <2>1, SaysOneFacts
  <1>5. ~Has(lines, Mark) /\ ~Has(toModem, Texts) BY <1>1 DEF Together, Prompts
  <1>6. Has(lines', Mark) /\ AtMostOne(lines', Mark)
        /\ (~Has(lines, Ans) => AtMostOne(lines', Ans))
    <2>1. ~Has(lines, Ans) => AtMostOne(lines, Ans) BY HasSub
    <2>2. Len(lines) \in Nat BY <1>1 DEF Lens
    <2>3. AtMostOne(lines, Mark) BY DEF Together, Prompts
    <2>4. Item("> ", 0).type \in Mark /\ Mark \subseteq Ans BY <1>4 DEF Mark, Ans
    <2> QED BY <1>4, <1>5, <2>1, <2>2, <2>3, <2>4, LongerHas
  <1>7. Chunks' BY <1>1, <1>4, ChunksSaid DEF Together
  <1>8. Something
    <2>1. 1 \in 1 .. Len(toModem) BY <1>3
    <2> QED BY <1>1, <1>2, <2>1 DEF Together, Prompts, Orders
  <1>9. AtMostOne(toModem', Texts) /\ ~Has(toModem', Texts)
    BY <1>1, <1>2, <1>5, ShorterHas DEF Together, Prompts, Lens
  <1>10. Orders'
    <2> DEFINE m == Len(toModem')
               new == toModem'
    <2>1. m \in Nat BY <1>3
    <2>2. \A i \in 1 .. m : new[i].type \notin Texts BY <1>9 DEF Has
    <2> HIDE DEF m, new
    <2>3. \A i \in 1 .. m : ~ \E j \in 1 .. i - 1 : new[j].type \in Texts
      <3>1. \A i \in 1 .. m : \A j \in 1 .. i - 1 : j \in 1 .. m BY <2>1
      <3> QED BY <2>2, <3>1
    <2> QED BY <1>1, <2>3 DEF Orders, TextBefore, m, new
  <1>11. Prompts' BY <1>1, <1>6, <1>8, <1>9, <1>10 DEF Prompts
  <1>12. InOrder' BY <1>1, <1>2, <1>6, InOrderHeard DEF Together
  <1> QED BY <1>7, <1>11, <1>12 DEF Together

LEMMA TogetherInit == Init => Together
  <1> SUFFICES ASSUME Init PROVE Together
    OBVIOUS
  <1>1. Len(toModem) = 0 /\ Len(lines) = 0 /\ ~expecting /\ ~texting /\ ~deleteRead
    BY DEF Init
  <1>2. \A K : ~Has(lines, K) /\ ~Has(toModem, K) /\ AtMostOne(lines, K) /\ AtMostOne(toModem, K)
    BY <1>1 DEF Has, AtMostOne
  <1>3. Chunks BY <1>1 DEF Chunks
  <1>4. Prompts BY <1>1, <1>2 DEF Prompts, Orders
  <1>5. InOrder BY <1>1, <1>2 DEF InOrder
  <1> QED BY <1>3, <1>4, <1>5 DEF Together

LEMMA TogetherStep == TypeOK /\ Together /\ [Next]_vars => Together'
  <1> SUFFICES ASSUME TypeOK, Together, [Next]_vars PROVE Together'
    OBVIOUS
  <1>1. CASE Modem
    <2>1. ModemLeaves BY <1>1 DEF Modem, ModemLeaves
    <2> QED BY <1>1, <2>1, ArriveTogether, TextTogether, DeleteTogether, ReadOutTogether,
               PromptTogether DEF Modem
  <1>2. CASE UNCHANGED vars
    <2>1. UNCHANGED <<foundOK, expecting, deleteRead, send, raw, toModem, lines, texting,
                      overflowed>>
      BY <1>2 DEF vars, lineVars, simVars, modemVars
    <2> QED BY <2>1 DEF Together, Chunks, Prompts, InOrder, Something, Orders, TextBefore
  <1> QED BY <1>1, <1>2, RequestTogether, TakeMessageTogether, TakePromptTogether,
             TakeArrivalTogether, TakeHeaderTogether, TakeErrorTogether, TakeOKTogether,
             ReplyTogether, WriteRawDataTogether
          DEF Next, Device, ReadLine

LEMMA TogetherMeansInStep == TypeOK /\ Together => InStep
  <1> SUFFICES ASSUME TypeOK, Together PROVE InStep
    OBVIOUS
  <1>1. /\ Lens /\ (toModem = <<>> <=> Len(toModem) = 0) /\ (lines = <<>> <=> Len(lines) = 0)
    BY LenFacts
  <1>2. toModem \in Seq(ToModem) /\ lines \in Seq(Lines) BY DEF TypeOK
  <1>3. DOMAIN toModem = 1 .. Len(toModem) /\ DOMAIN lines = 1 .. Len(lines)
    BY <1>2, LenProperties
  <1>4. ASSUME foundOK, ~overflowed
        PROVE  toModem = <<>> /\ ~texting /\ \A t \in {"> ", "OK", "ERROR"} : ~OnTheWay(t)
    <2>1. Len(toModem) = 0 /\ ~Has(lines, Ans) /\ ~texting
      BY <1>4 DEF Together, InOrder
    <2>2. \A i \in DOMAIN toModem : FALSE BY <1>3, <2>1
    <2>3. \A t \in {"> ", "OK", "ERROR"} : \A i \in DOMAIN lines : lines[i].type # t
      BY <1>3, <2>1 DEF Has, Ans
    <2> QED BY <1>1, <2>1, <2>2, <2>3 DEF OnTheWay
  <1>5. ASSUME texting, toModem # <<>>, ~overflowed PROVE Head(toModem).type = "text"
    <2>1. Len(toModem) >= 1 BY <1>1, <1>5 DEF Lens
    <2>2. toModem[1].type = "text" BY <1>5, <2>1 DEF Together, InOrder
    <2>3. Head(toModem) = toModem[1] BY <1>2, <1>5, TailFacts
    <2> QED BY <2>2, <2>3
  <1>6. lines # <<>> => 1 \in 1 .. Len(lines) BY <1>1 DEF Lens
  <1>7. ASSUME lines # <<>>, Head(lines).type = "> " PROVE send.out \/ raw
    <2>1. Head(lines) = lines[1] BY <1>2, <1>7, TailFacts
    <2>2. 1 \in 1 .. Len(lines) BY <1>7, <1>6
    <2>3. Head(lines).type \in Mark BY <1>7 DEF Mark
    <2>4. Has(lines, Mark) BY <2>1, <2>2, <2>3 DEF Has
    <2> QED BY <2>4 DEF Together, Prompts, Something
  <1> QED BY <1>4, <1>5, <1>7 DEF InStep

\* The device and the modem stay in step: when the driver believes that the modem
\* has finished, nothing that would be answered is on the way; the modem takes no
\* command for the text of an SMS; and a prompt finds something to send.
THEOREM StaysInStep == Spec => []InStep
  <1>1. Init => TypeOK /\ Together BY TypeInit, TogetherInit
  <1>2. TypeOK /\ Together /\ [Next]_vars => (TypeOK /\ Together)'
    BY TypeStep, TogetherStep
  <1>3. TypeOK /\ Together => InStep BY TogetherMeansInStep
  <1> QED BY <1>1, <1>2, <1>3, PTL DEF Spec

--------------------------------------------------------------------------------
(* While messages arrive on an idle line only, no message is lost.           *)

Arr    == {"+CMTI"}
Reads  == {"CMGR"}
Chunk  == {"+CMGR", "message"}
Dels   == {"DEL ALL", "DEL READ"}

\* The messages that are announced, that wait and that are asked for.
SlotsOf(s, K) == {s[i].slot : i \in {j \in 1 .. Len(s) : s[j].type \in K}}
Announced == SlotsOf(lines, Arr)
Queued    == {queue[i] : i \in 1 .. Len(queue)}
Asked     == SlotsOf(toModem, Reads)

\* At most one message is announced at a time, and it is the first line.
Single == AtMostOne(lines, Arr) /\ (Has(lines, Arr) => lines[1].type \in Arr)

Waiting ==
    /\ Announced \subseteq slots \ read /\ Queued \subseteq slots \ read /\ Asked \subseteq slots
    /\ Announced \cap Queued = {} /\ Announced \cap Asked = {} /\ Queued \cap Asked = {}
    /\ Len(queue) <= 1
    /\ Len(queue) >= 1 /\ ~foundOK => ~Has(lines, Arr)
    /\ Has(toModem, Dels) => ~Has(lines, Arr)
    /\ Has(toModem, {"DEL ALL"}) => Len(queue) = 0

OnWay == requested => ~foundOK /\ (Has(toModem, Reads) \/ Has(lines, Chunk))

Kept == quiet => ~overflowed /\ Single /\ Waiting /\ OnWay

LEMMA SlotsOfFacts ==
    ASSUME NEW s, NEW t, Len(s) \in Nat, NEW K
    PROVE  /\ Shorter(s, t) => SlotsOf(t, K) \subseteq SlotsOf(s, K)
           /\ Shorter(s, t) /\ s[1].type \in K => s[1].slot \in SlotsOf(s, K)
           /\ \A e : Longer(s, t, e) =>
                 /\ SlotsOf(s, K) \subseteq SlotsOf(t, K)
                 /\ SlotsOf(t, K) \subseteq SlotsOf(s, K) \cup {e.slot}
                 /\ e.type \notin K => SlotsOf(t, K) = SlotsOf(s, K)
           /\ ~Has(s, K) => SlotsOf(s, K) = {}
           /\ Len(s) = 0 => ~Has(s, K)
  <1> DEFINE n == Len(s)
             m == Len(t)
  <1>1. ASSUME Shorter(s, t) PROVE SlotsOf(t, K) \subseteq SlotsOf(s, K)
    <2>1. n \in Nat /\ n >= 1 /\ m = n - 1 /\ \A i \in 1 .. n - 1 : t[i] = s[i + 1]
      BY <1>1 DEF Shorter
    <2> HIDE DEF n, m
    <2>2. \A i \in 1 .. m : i + 1 \in 1 .. n /\ t[i] = s[i + 1] BY <2>1
    <2> QED BY <2>2 DEF SlotsOf, n, m
  <1>2. ASSUME Shorter(s, t), s[1].type \in K PROVE s[1].slot \in SlotsOf(s, K)
    <2>1. 1 \in 1 .. Len(s) BY <1>2 DEF Shorter
    <2> QED BY <1>2, <2>1 DEF SlotsOf
  <1>3. ASSUME NEW e, Longer(s, t, e)
        PROVE  /\ SlotsOf(s, K) \subseteq SlotsOf(t, K)
               /\ SlotsOf(t, K) \subseteq SlotsOf(s, K) \cup {e.slot}
               /\ e.type \notin K => SlotsOf(t, K) = SlotsOf(s, K)
    <2>1. n \in Nat /\ m = n + 1 /\ t[n + 1] = e /\ \A i \in 1 .. n : t[i] = s[i]
      BY <1>3 DEF Longer
    <2> HIDE DEF n, m
    <2>2. /\ \A i \in 1 .. m : i \in 1 .. n \/ i = n + 1
          /\ \A i \in 1 .. n : i \in 1 .. m
      BY <2>1
    <2> QED BY <2>1, <2>2 DEF SlotsOf, n, m
  <1>4. ~Has(s, K) => SlotsOf(s, K) = {} BY DEF Has, SlotsOf
  <1>5. Len(s) = 0 => ~Has(s, K) BY DEF Has
  <1> QED BY <1>1, <1>2, <1>3, <1>4, <1>5

\* The lines after a step announce nothing new.
NothingNew == Announced' \subseteq Announced /\ Single' /\ (Has(lines', Arr) => Has(lines, Arr))

LEMMA ShorterAnnounces ==
    ASSUME Lens, Single, Shorter(lines, lines')
    PROVE  NothingNew /\ ~Has(lines', Arr) /\ Announced' = {}
  <1>1. Len(lines) \in Nat /\ Len(lines') \in Nat BY DEF Lens, Shorter
  <1>2. AtMostOne(lines', Arr) /\ ~Has(lines', Arr)
    BY <1>1, ShorterHas DEF Single
  <1>3. Announced' = {} BY <1>1, <1>2, SlotsOfFacts DEF Announced
  <1> QED BY <1>2, <1>3 DEF NothingNew, Single

LEMMA LongerAnnounces ==
    ASSUME Lens, Single, NEW l, Longer(lines, lines', l), l.type \notin Arr
    PROVE  NothingNew
  <1>1. Len(lines) \in Nat BY DEF Lens
  <1>2. AtMostOne(lines', Arr) /\ (Has(lines', Arr) => Has(lines, Arr))
    BY <1>1, LongerHas DEF Single
  <1>3. Announced' = Announced BY <1>1, SlotsOfFacts DEF Announced
  <1>4. ASSUME Has(lines, Arr) PROVE lines'[1] = lines[1]
    <2>1. 1 \in 1 .. Len(lines)
      <3>1. \E i \in 1 .. Len(lines) : TRUE BY <1>4 DEF Has
      <3> QED BY <1>1, <3>1
    <2> QED BY <2>1 DEF Longer
  <1> QED BY <1>2, <1>3, <1>4 DEF NothingNew, Single

LEMMA ReadsOutAnnounces ==
    ASSUME Lens, Single, ReadsOut
    PROVE  NothingNew
  <1>1. Len(lines) \in Nat BY DEF Lens
  <1>2. "+CMGR" \notin Arr /\ "message" \notin Arr /\ "OK" \notin Arr BY DEF Arr
  <1>3. AtMostOne(lines', Arr) /\ (Has(lines', Arr) => Has(lines, Arr))
    BY <1>1, <1>2, ReadsOutHas DEF Single
  <1>4. Announced' \subseteq Announced
    <2> DEFINE n == Len(lines)
               m == Len(lines')
               s == lines
               t == lines'
    <2>1. /\ n \in Nat /\ m = n + 3 /\ \A i \in 1 .. n : t[i] = s[i]
          /\ t[n + 1].type = "+CMGR" /\ t[n + 2].type = "message" /\ t[n + 3].type = "OK"
      BY <1>1 DEF ReadsOut
    <2> HIDE DEF n, m, s, t
    <2>2. \A i \in 1 .. m : i \in 1 .. n \/ i = n + 1 \/ i = n + 2 \/ i = n + 3 BY <2>1
    <2>3. \A i \in 1 .. m : t[i].type \in Arr => i \in 1 .. n BY <1>2, <2>1, <2>2
    <2>4. \A i \in 1 .. m : t[i].type \in Arr => i \in 1 .. n /\ t[i] = s[i] BY <2>1, <2>3
    <2> QED BY <2>4 DEF Announced, SlotsOf, n, m, s, t
  <1>5. ASSUME Has(lines, Arr) PROVE lines'[1] = lines[1]
    <2>1. 1 \in 1 .. Len(lines)
      <3>1. \E i \in 1 .. Len(lines) : TRUE BY <1>5 DEF Has
      <3> QED BY <1>1, <3>1
    <2> QED BY <2>1 DEF ReadsOut
  <1> QED BY <1>3, <1>4, <1>5 DEF NothingNew, Single

\* What the queue holds after a step.
LEMMA QueuedFacts ==
    ASSUME Lens
    PROVE  /\ queue' = queue => Queued' = Queued
           /\ Len(queue') = 0 => Queued' = {}
           /\ Len(queue) >= 1 => queue[1] \in Queued
           /\ \A n : Len(queue) = 0 /\ Longer(queue, queue', n) => Queued' = {n}
  <1>1. queue' = queue => Queued' = Queued BY DEF Queued
  <1>2. Len(queue') = 0 => Queued' = {} BY DEF Queued
  <1>3. Len(queue) >= 1 => queue[1] \in Queued
    <2>1. Len(queue) >= 1 => 1 \in 1 .. Len(queue) BY DEF Lens
    <2> QED BY <2>1 DEF Queued
  <1>4. ASSUME NEW n, Len(queue) = 0, Longer(queue, queue', n) PROVE Queued' = {n}
    <2>1. Len(queue') = 1 /\ queue'[1] = n BY <1>4 DEF Longer
    <2> DEFINE m == Len(queue')
               q == queue'
    <2>2. m = 1 /\ q[1] = n BY <2>1
    <2> HIDE DEF m, q
    <2>3. \A i : i \in 1 .. m <=> i = 1 BY <2>2
    <2>4. Queued' = {q[i] : i \in 1 .. m} BY DEF Queued, m, q
    <2> QED BY <2>2, <2>3, <2>4
  <1> QED BY <1>1, <1>2, <1>3, <1>4

\* The first thing said on an idle line.
LEMMA FirstSaid ==
    ASSUME Lens, Len(toModem) = 0
    PROVE  /\ Asked = {} /\ \A K : ~Has(toModem, K)
           /\ toModem' = toModem => Asked' = {}
           /\ \A e : Longer(toModem, toModem', e) =>
                 /\ \A K : Has(toModem', K) <=> e.type \in K
                 /\ Asked' \subseteq {e.slot}
                 /\ e.type \notin Reads => Asked' = {}
  <1>1. Len(toModem) \in Nat BY DEF Lens
  <1>2. \A K : ~Has(toModem, K) BY <1>1, SlotsOfFacts
  <1>3. Asked = {} BY <1>1, <1>2, SlotsOfFacts DEF Asked
  <1>4. toModem' = toModem => Asked' = {} BY <1>3 DEF Asked
  <1>5. ASSUME NEW e, Longer(toModem, toModem', e)
        PROVE  /\ \A K : Has(toModem', K) <=> e.type \in K
               /\ Asked' \subseteq {e.slot}
               /\ e.type \notin Reads => Asked' = {}
    <2>1. \A K : Has(toModem', K) <=> e.type \in K BY <1>1, <1>2, <1>5, LongerHas
    <2>2. /\ SlotsOf(toModem', Reads) \subseteq SlotsOf(toModem, Reads) \cup {e.slot}
          /\ e.type \notin Reads => SlotsOf(toModem', Reads) = SlotsOf(toModem, Reads)
      BY <1>1, <1>5, SlotsOfFacts
    <2>3. Asked' = SlotsOf(toModem', Reads) /\ SlotsOf(toModem, Reads) = {}
      BY <1>3 DEF Asked
    <2> QED BY <2>1, <2>2, <2>3
  <1> QED BY <1>2, <1>3, <1>4, <1>5

LEMMA OKKept ==
    ASSUME TypeOK, Lens, Kept, quiet, NEW s \in Sends, NEW r \in BOOLEAN, OK(s, r),
           UNCHANGED <<slots, read, overflowed>>, Len(toModem) = 0, ~requested,
           NothingNew, (foundOK /\ ~deleteRead) \/ ~Has(lines', Arr)
    PROVE  Kept'
  <1>1. deleteRead \in BOOLEAN /\ requested \in BOOLEAN BY DEF TypeOK
  <1>2. Rests \/ Deletes \/ Asks \/ Transmits(r) BY <1>1, OKFacts
  <1>3. ~overflowed' /\ Single' BY DEF Kept, NothingNew
  <1>4. /\ Announced \subseteq slots \ read /\ Queued \subseteq slots \ read
        /\ Announced \cap Queued = {} /\ Len(queue) <= 1 /\ Announced' \subseteq Announced
        /\ slots' = slots /\ read' = read
    BY DEF Kept, Waiting, NothingNew
  <1>5. (queue = <<>> <=> Len(queue) = 0) /\ Len(queue) \in Nat BY LenFacts DEF Lens
  <1>6. ASSUME Rests PROVE Waiting' /\ OnWay'
    <2>1. toModem' = toModem /\ foundOK' = TRUE /\ queue' = queue /\ requested' = requested
      BY <1>6 DEF Rests
    <2>2. Queued' = Queued /\ Asked' = {} /\ Len(queue') = Len(queue)
      BY <2>1, QueuedFacts, FirstSaid
    <2>3. ~Has(toModem', Dels) /\ ~Has(toModem', {"DEL ALL"}) BY <2>1, FirstSaid
    <2> QED BY <1>4, <2>1, <2>2, <2>3 DEF Waiting, OnWay
  <1>7. ASSUME Deletes PROVE Waiting' /\ OnWay'
    <2>1. deleteRead /\ requested' = requested BY <1>7 DEF Deletes
    <2>2. ~Has(lines', Arr) BY <2>1
    <2>3. PICK t \in Dels : /\ Say(t, 0)
                            /\ queue' = queue \/ queue' = <<>>
                            /\ t = "DEL ALL" => queue' = <<>>
      BY <1>7 DEF Deletes, Dels
    <2>4. Item(t, 0) \in ToModem /\ Item(t, 0).type = t /\ t \notin Reads
      BY Items DEF Dels, Reads
    <2>5. Longer(toModem, toModem', Item(t, 0)) BY <2>3, <2>4, SayFacts
    <2>6. Asked' = {} /\ (Has(toModem', {"DEL ALL"}) => t = "DEL ALL")
      BY <2>4, <2>5, FirstSaid
    <2>7. queue' = <<>> => Len(queue') = 0 OBVIOUS
    <2>8. Queued' \subseteq Queued /\ Len(queue') <= 1
      <3>1. CASE queue' = queue
        <4>1. Queued' = Queued /\ Len(queue') = Len(queue) BY <3>1, QueuedFacts
        <4> QED BY <1>4, <4>1
      <3>2. CASE Len(queue') = 0
        <4>1. Queued' = {} BY <3>2, QueuedFacts
        <4> QED BY <3>2, <4>1
      <3> QED BY <2>3, <2>7, <3>1, <3>2
    <2>9. Has(toModem', {"DEL ALL"}) => Len(queue') = 0 BY <2>3, <2>6, <2>7
    <2> QED BY <1>4, <2>1, <2>2, <2>6, <2>8, <2>9 DEF Waiting, OnWay
  <1>8. ASSUME Asks PROVE Waiting' /\ OnWay'
    <2>1. /\ foundOK' = FALSE /\ requested' = TRUE
          /\ Longer(toModem, toModem', Item("CMGR", queue[1])) /\ Shorter(queue, queue')
      BY <1>8, RequestFacts DEF Asks
    <2>2. Len(queue) = 1 /\ Len(queue') = 0 BY <1>4, <1>5, <2>1 DEF Shorter
    <2>3. queue[1] \in Queued /\ Queued' = {} BY <2>2, QueuedFacts
    <2>4. Item("CMGR", queue[1]).type = "CMGR" /\ Item("CMGR", queue[1]).slot = queue[1]
      BY Items
    <2>5. "CMGR" \in Reads /\ "CMGR" \notin Dels /\ "CMGR" \notin {"DEL ALL"}
      BY DEF Reads, Dels
    <2>6. /\ Asked' \subseteq {queue[1]} /\ Has(toModem', Reads)
          /\ ~Has(toModem', Dels) /\ ~Has(toModem', {"DEL ALL"})
      BY <2>1, <2>4, <2>5, FirstSaid
    <2>7. Len(queue') <= 1 /\ ~(Len(queue') >= 1) BY <2>2
    <2> QED BY <1>4, <2>1, <2>3, <2>6, <2>7 DEF Waiting, OnWay
  <1>9. ASSUME Transmits(r) PROVE Waiting' /\ OnWay'
    <2>1. Say("CMGS", 0) /\ queue' = queue /\ requested' = requested /\ Len(queue) = 0
      BY <1>5, <1>9 DEF Transmits
    <2>2. Item("CMGS", 0) \in ToModem /\ Item("CMGS", 0).type = "CMGS" BY Items
    <2>3. Longer(toModem, toModem', Item("CMGS", 0)) BY <2>1, <2>2, SayFacts
    <2>4. "CMGS" \notin Reads /\ "CMGS" \notin Dels /\ "CMGS" \notin {"DEL ALL"}
      BY DEF Reads, Dels
    <2>5. Asked' = {} /\ ~Has(toModem', Dels) /\ ~Has(toModem', {"DEL ALL"})
      BY <2>2, <2>3, <2>4, FirstSaid
    <2>6. Queued' = Queued /\ Len(queue') <= 1 /\ ~(Len(queue') >= 1) BY <2>1, QueuedFacts
    <2> QED BY <1>4, <2>1, <2>5, <2>6 DEF Waiting, OnWay
  <1> QED BY <1>2, <1>3, <1>6, <1>7, <1>8, <1>9 DEF Kept

\* Under the invariant one thing is under way at a time.
LEMMA Idle ==
    ASSUME TypeOK, Together, Kept, quiet, foundOK \/ Has(lines, Ans)
    PROVE  Lens /\ Len(toModem) = 0 /\ (foundOK => ~deleteRead /\ ~requested)
  <1>1. Lens /\ Len(toModem) \in Nat BY LenFacts DEF Lens
  <1>2. ~overflowed /\ (requested => ~foundOK) BY DEF Kept, OnWay
  <1>3. ~(Len(toModem) >= 1) \/ Len(toModem) = 0 BY <1>2 DEF Together, InOrder
  <1> QED BY <1>1, <1>2, <1>3 DEF Together, InOrder

\* A message that is being read out ends with an OK.
LEMMA ChunkAnswered ==
    ASSUME NEW s, Len(s) \in Nat, Has(s, Chunk),
           \A i \in 1 .. Len(s) :
              /\ s[i].type = "+CMGR" => i < Len(s) /\ s[i + 1].type = "message"
              /\ s[i].type = "message" => i < Len(s) /\ s[i + 1].type = "OK"
    PROVE  Has(s, Ans)
  <1> DEFINE n == Len(s)
  <1>1. n \in Nat OBVIOUS
  <1>2. \A i \in 1 .. n :
          /\ s[i].type = "+CMGR" => i < n /\ s[i + 1].type = "message"
          /\ s[i].type = "message" => i < n /\ s[i + 1].type = "OK"
    OBVIOUS
  <1>3. \E i \in 1 .. n : s[i].type \in Chunk BY DEF Has
  <1> HIDE DEF n
  <1>4. ASSUME NEW i \in 1 .. n, s[i].type = "message" PROVE Has(s, Ans)
    <2>1. i < n /\ s[i + 1].type = "OK" BY <1>2, <1>4
    <2>2. i + 1 \in 1 .. n BY <1>1, <2>1
    <2>3. "OK" \in Ans BY DEF Ans
    <2> QED BY <2>1, <2>2, <2>3 DEF Has, n
  <1>5. PICK i \in 1 .. n : s[i].type \in Chunk BY <1>3
  <1>6. s[i].type = "+CMGR" \/ s[i].type = "message" BY <1>5 DEF Chunk
  <1>7. ASSUME s[i].type = "+CMGR" PROVE Has(s, Ans)
    <2>1. i < n /\ s[i + 1].type = "message" BY <1>2, <1>5, <1>7
    <2>2. i + 1 \in 1 .. n BY <1>1, <2>1
    <2> QED BY <1>4, <2>1, <2>2
  <1> QED BY <1>4, <1>5, <1>6, <1>7

LEMMA RequestKept == TypeOK /\ Together /\ Kept /\ quiet /\ Request => Kept'
  <1> SUFFICES ASSUME TypeOK, Together, Kept, quiet, Request PROVE Kept'
    OBVIOUS
  <1>1. Lens /\ Len(toModem) = 0 BY Idle DEF Request, MustRequest
  <1>2. UNCHANGED <<lines, slots, read, overflowed>> BY DEF Request, simVars, modemVars
  <1>3. /\ foundOK' = FALSE /\ requested' = TRUE
        /\ Longer(toModem, toModem', Item("CMGR", queue[1])) /\ Shorter(queue, queue')
    BY RequestFacts DEF Request, MustRequest
  <1>4. /\ Announced \subseteq slots \ read /\ Queued \subseteq slots \ read
        /\ Announced \cap Queued = {} /\ Len(queue) <= 1 /\ ~overflowed /\ Single
    BY DEF Kept, Waiting
  <1>5. Len(queue) = 1 /\ Len(queue') = 0 BY <1>1, <1>3, <1>4 DEF Shorter, Lens
  <1>6. queue[1] \in Queued /\ Queued' = {} BY <1>1, <1>5, QueuedFacts
  <1>7. Item("CMGR", queue[1]).type = "CMGR" /\ Item("CMGR", queue[1]).slot = queue[1]
    BY Items
  <1>8. "CMGR" \in Reads /\ "CMGR" \notin Dels /\ "CMGR" \notin {"DEL ALL"}
    BY DEF Reads, Dels
  <1>9. /\ Asked' \subseteq {queue[1]} /\ Has(toModem', Reads)
        /\ ~Has(toModem', Dels) /\ ~Has(toModem', {"DEL ALL"})
    BY <1>1, <1>3, <1>7, <1>8, FirstSaid
  <1>10. Announced' = Announced /\ Single' BY <1>2, <1>4 DEF Announced, Single
  <1>11. Len(queue') <= 1 /\ ~(Len(queue') >= 1) BY <1>5
  <1>12. Waiting' BY <1>2, <1>4, <1>6, <1>9, <1>10, <1>11 DEF Waiting
  <1> QED BY <1>2, <1>3, <1>4, <1>9, <1>10, <1>12 DEF Kept, OnWay

\* A line is taken that is no announcement, and the queue stays as it is.
LEMMA TakenKept ==
    ASSUME TypeOK, Lens, Kept, quiet, Shorter(lines, lines'),
           UNCHANGED <<slots, read, overflowed, queue>>,
           \/ UNCHANGED <<toModem, foundOK>>
           \/ /\ Len(toModem) = 0 /\ foundOK' = FALSE
              /\ \E e : Longer(toModem, toModem', e) /\ e.type \notin Reads \cup Dels,
           requested' => ~foundOK' /\ (Has(toModem', Reads) \/ Has(lines', Chunk))
    PROVE  Kept'
  <1>1. ~overflowed' /\ NothingNew /\ ~Has(lines', Arr) /\ Announced' = {}
    BY ShorterAnnounces DEF Kept
  <1>2. /\ Queued \subseteq slots \ read /\ Asked \subseteq slots /\ Queued \cap Asked = {}
        /\ Len(queue) <= 1 /\ (Has(toModem, {"DEL ALL"}) => Len(queue) = 0)
    BY DEF Kept, Waiting
  <1>3. Queued' = Queued BY QueuedFacts
  <1>4. Asked' \subseteq Asked /\ (Has(toModem', {"DEL ALL"}) => Has(toModem, {"DEL ALL"}))
    <2>1. CASE toModem' = toModem BY <2>1 DEF Asked
    <2>2. CASE /\ Len(toModem) = 0
               /\ \E e : Longer(toModem, toModem', e) /\ e.type \notin Reads \cup Dels
      <3>1. PICK e : Longer(toModem, toModem', e) /\ e.type \notin Reads \cup Dels BY <2>2
      <3>2. e.type \notin {"DEL ALL"} BY <3>1 DEF Dels
      <3> QED BY <2>2, <3>1, <3>2, FirstSaid
    <2> QED BY <2>1, <2>2
  <1>5. Len(queue') = Len(queue) /\ slots' = slots /\ read' = read OBVIOUS
  <1>6. Waiting' BY <1>1, <1>2, <1>3, <1>4, <1>5 DEF Waiting
  <1>7. OnWay' BY DEF OnWay
  <1> QED BY <1>1, <1>6, <1>7 DEF Kept, NothingNew

LEMMA TakeMessageKept == TypeOK /\ Together /\ Kept /\ quiet /\ TakeMessage => Kept'
  <1> SUFFICES ASSUME TypeOK, Together, Kept, quiet, TakeMessage PROVE Kept'
    OBVIOUS
  <1>1. Lens /\ Shorter(lines, lines') BY LenFacts, TakeFacts DEF TakeMessage
  <1>2. ~requested' /\ UNCHANGED <<toModem, foundOK, slots, read, overflowed, queue>>
    BY DEF TakeMessage, Silent, simVars, modemVars
  <1> QED BY <1>1, <1>2, TakenKept

LEMMA TakePromptKept == TypeOK /\ Together /\ Kept /\ quiet /\ TakePrompt => Kept'
  <1> SUFFICES ASSUME TypeOK, Together, Kept, quiet, TakePrompt PROVE Kept'
    OBVIOUS
  <1>1. Lens /\ Shorter(lines, lines') /\ lines[1].type \in Mark
    BY LenFacts, TakeFacts DEF TakePrompt, NextLine, Mark
  <1>2. Len(lines) \in Nat BY <1>1 DEF Lens
  <1>3. Mark \subseteq Ans /\ lines[1].type \notin Chunk BY <1>1 DEF Mark, Ans, Chunk
  <1>4. Has(lines, Ans) BY <1>1, <1>2, <1>3, ShorterHas
  <1>5. Len(toModem) = 0 BY <1>4, Idle
  <1>6. PICK t \in {"text", "nothing"} : Say(t, 0) BY DEF TakePrompt
  <1>7. /\ Item(t, 0) \in ToModem /\ Item(t, 0).type = t /\ t \notin Reads \cup Dels
    BY Items DEF Reads, Dels
  <1>8. Longer(toModem, toModem', Item(t, 0)) /\ foundOK' = FALSE BY <1>6, <1>7, SayFacts
  <1>9. UNCHANGED <<requested, slots, read, overflowed, queue>>
    BY DEF TakePrompt, lineVars, simVars, modemVars
  <1>10. requested => Has(lines', Chunk)
    <2>1. requested => Has(lines, Chunk) BY <1>1, <1>5, FirstSaid DEF Kept, OnWay
    <2> QED BY <1>1, <1>2, <1>3, <2>1, ShorterHas
  <1>11. \E e : Longer(toModem, toModem', e) /\ e.type \notin Reads \cup Dels
    BY <1>7, <1>8
  <1> QED BY <1>1, <1>5, <1>8, <1>9, <1>10, <1>11, TakenKept

LEMMA TakeHeaderKept == TypeOK /\ Together /\ Kept /\ quiet /\ TakeHeader => Kept'
  <1> SUFFICES ASSUME TypeOK, Together, Kept, quiet, TakeHeader PROVE Kept'
    OBVIOUS
  <1>1. Lens /\ Shorter(lines, lines') /\ lines[1].type = "+CMGR"
    BY LenFacts, TakeFacts DEF TakeHeader, NextLine
  <1>2. UNCHANGED <<requested, toModem, foundOK, slots, read, overflowed, queue>>
    BY DEF TakeHeader, Silent, simVars, modemVars
  <1>3. Has(lines', Chunk)
    <2>1. expecting' /\ Chunks' BY TakeHeaderTogether DEF TakeHeader, Together
    <2>2. Len(lines') >= 1 /\ lines'[1].type = "message" BY <2>1 DEF Chunks
    <2>3. Len(lines') \in Nat BY <1>1 DEF Lens, Shorter
    <2>4. 1 \in 1 .. Len(lines') /\ "message" \in Chunk BY <2>2, <2>3 DEF Chunk
    <2> QED BY <2>2, <2>4 DEF Has
  <1>4. requested' => ~foundOK' BY <1>2 DEF Kept, OnWay
  <1> QED BY <1>1, <1>2, <1>3, <1>4, TakenKept

LEMMA TakeArrivalKept == TypeOK /\ Together /\ Kept /\ quiet /\ TakeArrival => Kept'
  <1> SUFFICES ASSUME TypeOK, Together, Kept, quiet, TakeArrival PROVE Kept'
    OBVIOUS
  <1>1. Lens /\ Shorter(lines, lines') /\ lines[1].type = "+CMTI" /\ ~MustRequest
    BY LenFacts, ArrivalFacts
  <1>2. UNCHANGED <<requested, slots, read>> /\ overflowed' = (overflowed \/ Len(queue) = MaxQueue)
    BY DEF TakeArrival, modemVars
  <1>3. Len(lines) \in Nat /\ Len(queue) \in Nat BY <1>1 DEF Lens
  <1>4. lines[1].type \in Arr /\ lines[1].type \notin Chunk BY <1>1 DEF Arr, Chunk
  <1>5. Has(lines, Arr) /\ lines[1].slot \in Announced
    BY <1>1, <1>3, <1>4, ShorterHas, SlotsOfFacts DEF Announced
  <1>6. Len(queue) = 0
    <2>1. ASSUME Len(queue) >= 1 PROVE FALSE
      <3>1. foundOK /\ ~requested BY <1>5, <2>1 DEF Kept, Waiting, OnWay
      <3>2. queue # <<>> BY <2>1, LenFacts
      <3> QED BY <1>1, <3>1, <3>2 DEF MustRequest
    <2> QED BY <1>3, <2>1
  <1>7. /\ UNCHANGED <<toModem, foundOK>> /\ Longer(queue, queue', lines[1].slot)
        /\ Len(queue) # MaxQueue
    <2>1. Len(queue) # MaxQueue BY <1>6, QueueHolds
    <2> QED BY <2>1, ArrivalFacts DEF Silent
  <1>8. Queued' = {lines[1].slot} /\ Len(queue') = 1
    BY <1>1, <1>6, <1>7, QueuedFacts DEF Longer
  <1>9. ~Has(lines', Arr) /\ Announced' = {} /\ Single'
    BY <1>1, ShorterAnnounces DEF Kept, NothingNew
  <1>10. /\ Announced \subseteq slots \ read /\ Asked \subseteq slots /\ Announced \cap Asked = {}
         /\ Has(toModem, Dels) => ~Has(lines, Arr)
    BY DEF Kept, Waiting
  <1>11. ~Has(toModem, Dels) /\ ~Has(toModem, {"DEL ALL"})
    <2>1. ~Has(toModem, Dels) BY <1>5, <1>10
    <2>2. {"DEL ALL"} \subseteq Dels BY DEF Dels
    <2> QED BY <2>1, <2>2, HasSub
  <1>12. Asked' = Asked BY <1>7 DEF Asked
  <1>13. Waiting'
    <2>1. /\ Announced' = {} /\ Queued' = {lines[1].slot} /\ Asked' = Asked
          /\ slots' = slots /\ read' = read
      BY <1>2, <1>8, <1>9, <1>12
    <2>2. Len(queue') <= 1 BY <1>8
    <2>3. ~Has(toModem', Dels) /\ ~Has(toModem', {"DEL ALL"}) BY <1>7, <1>11
    <2> QED BY <1>5, <1>9, <1>10, <2>1, <2>2, <2>3 DEF Waiting
  <1>14. OnWay'
    <2>1. Has(lines, Chunk) => Has(lines', Chunk) BY <1>1, <1>3, <1>4, ShorterHas
    <2> QED BY <1>2, <1>7, <2>1 DEF Kept, OnWay
  <1>15. ~overflowed' BY <1>2, <1>7 DEF Kept
  <1> QED BY <1>9, <1>13, <1>14, <1>15 DEF Kept

LEMMA TakeErrorKept == TypeOK /\ Together /\ Kept /\ quiet /\ TakeError => Kept'
  <1> SUFFICES ASSUME TypeOK, Together, Kept, quiet, TakeError PROVE Kept'
    OBVIOUS
  <1>1. Lens /\ Shorter(lines, lines') /\ lines[1].type = "ERROR"
    BY LenFacts, TakeFacts DEF TakeError, NextLine
  <1>2. Len(lines) \in Nat BY <1>1 DEF Lens
  <1>3. lines[1].type \in Ans /\ lines[1].type \notin Chunk BY <1>1 DEF Ans, Chunk
  <1>4. Has(lines, Ans) BY <1>1, <1>2, <1>3, ShorterHas
  <1>5. Len(toModem) = 0 BY <1>4, Idle
  <1>6. Say("DEL ALL", 0) /\ Len(queue') = 0 BY DEF TakeError, clearAllSmsMsgs
  <1>7. Item("DEL ALL", 0) \in ToModem /\ Item("DEL ALL", 0).type = "DEL ALL" BY Items
  <1>8. Longer(toModem, toModem', Item("DEL ALL", 0)) /\ foundOK' = FALSE
    BY <1>6, <1>7, SayFacts
  <1>9. UNCHANGED <<requested, slots, read, overflowed>>
    BY DEF TakeError, simVars, modemVars
  <1>10. requested => Has(lines', Chunk)
    <2>1. requested => Has(lines, Chunk) BY <1>1, <1>5, FirstSaid DEF Kept, OnWay
    <2> QED BY <1>1, <1>2, <1>3, <2>1, ShorterHas
  <1>11. Asked' = {}
    <2>1. "DEL ALL" \notin Reads BY DEF Reads
    <2> QED BY <1>1, <1>5, <1>7, <1>8, <2>1, FirstSaid
  <1>12. Queued' = {} /\ Len(queue') <= 1 /\ ~(Len(queue') >= 1)
    <2>1. Queued' = {} BY <1>1, <1>6, QueuedFacts
    <2>2. Len(queue') = 0 BY <1>6
    <2>3. Len(queue') <= 1 /\ ~(Len(queue') >= 1) BY <2>2
    <2> QED BY <2>1, <2>3
  <1>13. ~Has(lines', Arr) /\ Announced' = {} /\ Single' /\ ~overflowed
    BY <1>1, ShorterAnnounces DEF Kept, NothingNew
  <1>14. Waiting' BY <1>6, <1>11, <1>12, <1>13 DEF Waiting
  <1> QED BY <1>8, <1>9, <1>10, <1>13, <1>14 DEF Kept, OnWay

LEMMA TakeOKKept == TypeOK /\ Together /\ Kept /\ quiet /\ TakeOK => Kept'
  <1> SUFFICES ASSUME TypeOK, Together, Kept, quiet, TakeOK PROVE Kept'
    OBVIOUS
  <1>1. Lens /\ Shorter(lines, lines') /\ lines[1].type = "OK"
    BY LenFacts, TakeFacts DEF TakeOK, NextLine
  <1>2. /\ OK(send, raw) /\ send \in Sends /\ raw \in BOOLEAN
        /\ UNCHANGED <<slots, read, overflowed>>
    BY DEF TakeOK, TypeOK, simVars, modemVars
  <1>3. Len(lines) \in Nat BY <1>1 DEF Lens
  <1>4. lines[1].type \in Ans /\ lines[1].type \notin Chunk BY <1>1 DEF Ans, Chunk
  <1>5. Has(lines, Ans) BY <1>1, <1>3, <1>4, ShorterHas
  <1>6. Len(toModem) = 0 BY <1>5, Idle
  <1>7. ~requested
    <2> SUFFICES ASSUME requested PROVE FALSE
      OBVIOUS
    <2>1. Has(lines, Chunk) BY <1>1, <1>6, FirstSaid DEF Kept, OnWay
    <2>2. Has(lines', Chunk) BY <1>1, <1>3, <1>4, <2>1, ShorterHas
    <2>3. ~Has(lines', Ans) BY <1>1, <1>4, AnswerTaken DEF Together, Kept
    <2>4. Chunks' BY TakeOKTogether DEF Together
    <2>5. \A i \in 1 .. Len(lines') :
             /\ lines'[i].type = "+CMGR" => i < Len(lines') /\ lines'[i + 1].type = "message"
             /\ lines'[i].type = "message" => i < Len(lines') /\ lines'[i + 1].type = "OK"
      BY <2>4 DEF Chunks
    <2>6. Len(lines') \in Nat BY <1>1, <1>3 DEF Shorter
    <2> QED BY <2>2, <2>3, <2>5, <2>6, ChunkAnswered
  <1>8. NothingNew /\ ~Has(lines', Arr) BY <1>1, ShorterAnnounces DEF Kept
  <1> QED BY <1>1, <1>2, <1>6, <1>7, <1>8, OKKept

LEMMA ReplyKept == TypeOK /\ Together /\ Kept /\ quiet /\ Reply => Kept'
  <1> SUFFICES ASSUME TypeOK, Together, Kept, quiet, Reply PROVE Kept'
    OBVIOUS
  <1>1. PICK s \in Sends : \/ foundOK /\ OK(s, raw)
                           \/ UNCHANGED <<toModem, foundOK, lineVars>>
    BY ReplyFacts
  <1>2. raw \in BOOLEAN /\ UNCHANGED <<lines, slots, read, overflowed>>
    BY DEF Reply, TypeOK, simVars, modemVars
  <1>3. CASE foundOK /\ OK(s, raw)
    <2>1. Lens /\ Len(toModem) = 0 /\ ~deleteRead /\ ~requested BY <1>3, Idle
    <2>2. NothingNew BY <1>2 DEF NothingNew, Announced, Single, Kept
    <2> QED BY <1>2, <1>3, <2>1, <2>2, OKKept
  <1>4. CASE UNCHANGED <<toModem, foundOK, lineVars>>
    <2>1. UNCHANGED <<queue, requested>> BY <1>4 DEF lineVars
    <2> QED BY <1>2, <1>4, <2>1
         DEF Kept, Single, Waiting, OnWay, Announced, Queued, Asked
  <1> QED BY <1>1, <1>3, <1>4

LEMMA WriteRawDataKept == TypeOK /\ Together /\ Kept /\ quiet /\ WriteRawData => Kept'
  <1> SUFFICES ASSUME TypeOK, Together, Kept, quiet, WriteRawData PROVE Kept'
    OBVIOUS
  <1>1. send \in Sends /\ UNCHANGED <<lines, slots, read, overflowed>>
    BY DEF WriteRawData, TypeOK, simVars, modemVars
  <1>2. CASE foundOK
    <2>1. OK(send, TRUE) BY <1>2 DEF WriteRawData
    <2>2. Lens /\ Len(toModem) = 0 /\ ~deleteRead /\ ~requested BY <1>2, Idle
    <2>3. NothingNew BY <1>1 DEF NothingNew, Announced, Single, Kept
    <2> QED BY <1>1, <1>2, <2>1, <2>2, <2>3, OKKept
  <1>3. CASE ~foundOK
    <2>1. UNCHANGED <<toModem, foundOK, queue, requested>>
      BY <1>3 DEF WriteRawData, lineVars
    <2> QED BY <1>1, <2>1 DEF Kept, Single, Waiting, OnWay, Announced, Queued, Asked
  <1> QED BY <1>2, <1>3

LEMMA ArriveKept == TypeOK /\ Together /\ Kept /\ quiet /\ Arrive /\ ModemLeaves => Kept'
  <1> SUFFICES ASSUME TypeOK, Together, Kept, quiet, Arrive, ModemLeaves PROVE Kept'
    OBVIOUS
  <1>1. toModem = <<>> /\ lines = <<>> /\ foundOK /\ UNCHANGED <<toModem, read>>
    BY DEF Arrive
  <1>2. Lens /\ Len(toModem) = 0 /\ Len(lines) = 0 BY <1>1, LenFacts
  <1>3. PICK n \in Slots \ slots : /\ slots' = slots \cup {n}
                                   /\ Longer(lines, lines', Item("+CMTI", n))
    BY ArriveFacts
  <1>4. UNCHANGED <<foundOK, queue, requested, overflowed>> BY DEF ModemLeaves, lineVars
  <1>5. Item("+CMTI", n).type \in Arr /\ Item("+CMTI", n).slot = n BY Items DEF Arr
  <1>6. Len(lines') = 1 /\ lines'[1] = Item("+CMTI", n) BY <1>2, <1>3 DEF Longer
  <1>7. Single'
    <2>1. AtMostOne(lines', Arr) BY <1>6 DEF AtMostOne
    <2> QED BY <1>5, <1>6, <2>1 DEF Single
  <1>8. Announced' \subseteq {n}
    <2>1. ~Has(lines, Arr) BY <1>2, SlotsOfFacts DEF Lens
    <2>2. SlotsOf(lines, Arr) = {} BY <1>2, <2>1, SlotsOfFacts DEF Lens
    <2>3. SlotsOf(lines', Arr) \subseteq SlotsOf(lines, Arr) \cup {Item("+CMTI", n).slot}
      BY <1>2, <1>3, SlotsOfFacts DEF Lens
    <2> QED BY <1>5, <2>2, <2>3 DEF Announced
  <1>9. /\ Queued \subseteq slots \ read /\ Asked = {} /\ read \subseteq slots
        /\ Len(queue) <= 1 /\ ~overflowed /\ ~requested
    BY <1>1, <1>2, FirstSaid DEF Kept, Waiting, OnWay, TypeOK
  <1>10. Queued' = Queued /\ Asked' = {} /\ Len(queue') = Len(queue)
    BY <1>1, <1>2, <1>4, QueuedFacts, FirstSaid
  <1>11. ~Has(toModem', Dels) /\ ~Has(toModem', {"DEL ALL"}) BY <1>1, <1>2, FirstSaid
  <1>12. Waiting'
    <2>1. n \notin slots /\ slots' = slots \cup {n} /\ read' = read /\ foundOK'
      BY <1>1, <1>3, <1>4
    <2> QED BY <1>8, <1>9, <1>10, <1>11, <2>1 DEF Waiting
  <1> QED BY <1>4, <1>7, <1>9, <1>12 DEF Kept, OnWay

\* What the modem hears leaves one thing less under way; what it answers
\* announces nothing.
LEMMA HeardKept ==
    ASSUME TypeOK, Together, Kept, quiet, ModemLeaves,
           NEW h, Hears(h), NothingNew,
           slots' \subseteq slots, read' \subseteq slots',
           (Announced \cup Queued) \subseteq slots' \ read',
           requested /\ (h \in Reads \/ Has(lines, Chunk)) => Has(lines', Chunk)
    PROVE  Kept'
  <1>1. Lens /\ Shorter(toModem, toModem') /\ toModem[1].type = h
    BY LenFacts, HearsFacts
  <1>2. UNCHANGED <<foundOK, queue, requested, overflowed>> BY DEF ModemLeaves, lineVars
  <1>3. ~overflowed /\ Len(queue) <= 1 /\ Announced \cap Queued = {}
        /\ (Len(queue) >= 1 /\ ~foundOK => ~Has(lines, Arr))
    BY DEF Kept, Waiting
  <1>4. Len(toModem') = 0
    <2>1. Len(toModem) >= 1 /\ Len(toModem) \in Nat /\ Len(toModem') = Len(toModem) - 1
      BY <1>1 DEF Shorter, Lens
    <2>2. Len(toModem) <= 1 BY <1>3 DEF Together, InOrder
    <2> QED BY <2>1, <2>2
  <1>5. \A K : ~Has(toModem', K) BY <1>4 DEF Has
  <1>6. Asked' = {} BY <1>4 DEF Asked, SlotsOf
  <1>7. Queued' = Queued /\ Len(queue') = Len(queue) BY <1>1, <1>2, QueuedFacts
  <1>8. Waiting'
    BY <1>2, <1>3, <1>5, <1>6, <1>7 DEF Waiting, NothingNew
  <1>9. OnWay'
    <2> SUFFICES ASSUME requested PROVE ~foundOK /\ Has(lines', Chunk)
      BY <1>2 DEF OnWay
    <2>1. ~foundOK /\ (Has(toModem, Reads) \/ Has(lines, Chunk)) BY DEF Kept, OnWay
    <2>2. Has(toModem, Reads) => h \in Reads
      <3>1. Len(toModem) \in Nat BY <1>1 DEF Lens
      <3> QED BY <1>1, <1>5, <3>1, ShorterHas
    <2> QED BY <2>1, <2>2
  <1> QED BY <1>2, <1>3, <1>8, <1>9 DEF Kept, NothingNew

LEMMA SaidChunk ==
    ASSUME Lens
    PROVE  /\ \A l : Longer(lines, lines', l) => (Has(lines, Chunk) => Has(lines', Chunk))
           /\ ReadsOut => Has(lines', Chunk)
  <1>1. Len(lines) \in Nat BY DEF Lens
  <1>2. "+CMGR" \in Chunk BY DEF Chunk
  <1> QED BY <1>1, <1>2, LongerHas, ReadsOutHas

LEMMA AnswerNew ==
    ASSUME Lens, Single, NEW t \in Ans, Longer(lines, lines', Item(t, 0))
    PROVE  NothingNew
  <1>1. Item(t, 0).type = t /\ t \notin Arr BY Items DEF Ans, Arr
  <1> QED BY <1>1, LongerAnnounces

LEMMA TextKept == TypeOK /\ Together /\ Kept /\ quiet /\ Text /\ ModemLeaves => Kept'
  <1> SUFFICES ASSUME TypeOK, Together, Kept, quiet, Text, ModemLeaves PROVE Kept'
    OBVIOUS
  <1>1. Lens /\ Single /\ ~overflowed BY LenFacts DEF Kept
  <1>2. UNCHANGED <<slots, read>> BY DEF Text, modemVars
  <1>3. PICK h \in {"text", "nothing", "CMGR", "CMGD", "DEL ALL", "DEL READ", "CMGS"} : Hears(h)
    BY DEF Text
  <1>4. (Announced \cup Queued) \subseteq slots \ read /\ read \subseteq slots
    BY DEF Kept, Waiting, TypeOK
  <1>5. CASE h \in {"text", "nothing"}
    <2>1. h \in Texts /\ h \notin Reads BY <1>5 DEF Texts, Reads
    <2>2. Shorter(toModem, toModem') /\ toModem[1].type = h BY <1>3, HearsFacts
    <2>3. NothingNew /\ (Has(lines, Chunk) => Has(lines', Chunk))
      <3>1. CASE lines' = lines
        BY <1>1, <3>1 DEF NothingNew, Announced, Single
      <3>2. CASE Answers
        <4>1. PICK t \in {"OK", "ERROR"} : Longer(lines, lines', Item(t, 0))
          BY <3>2, AnswersFacts
        <4>2. t \in Ans BY DEF Ans
        <4> QED BY <1>1, <4>1, <4>2, AnswerNew, SaidChunk
      <3> QED BY <3>1, <3>2 DEF Text
    <2>4. UNCHANGED <<slots, read>> /\ slots' \subseteq slots BY <1>2
    <2> QED BY <1>2, <1>3, <1>4, <2>1, <2>3, <2>4, HeardKept
  <1>6. CASE h \in {"CMGR", "CMGD", "DEL ALL", "DEL READ", "CMGS"}
    <2>1. Shorter(toModem, toModem') /\ toModem[1].type = h BY <1>3, HearsFacts
    <2>2. h \notin Texts BY <1>6 DEF Texts
    <2>3. texting \/ toModem[1].type \in Texts
      <3>1. ASSUME Hears("text") \/ Hears("nothing") PROVE toModem[1].type \in Texts
        BY <3>1, HearsFacts DEF Texts
      <3> QED BY <3>1 DEF Text
    <2>4. texting BY <2>1, <2>2, <2>3
    <2>5. Len(toModem) >= 1 BY <2>1 DEF Shorter
    <2>6. toModem[1].type = "text" BY <1>1, <2>4, <2>5 DEF Together, InOrder
    <2> QED BY <1>6, <2>1, <2>6
  <1> QED BY <1>3, <1>5, <1>6

LEMMA DeleteKept == TypeOK /\ Together /\ Kept /\ quiet /\ Delete /\ ModemLeaves => Kept'
  <1> SUFFICES ASSUME TypeOK, Together, Kept, quiet, Delete, ModemLeaves PROVE Kept'
    OBVIOUS
  <1>1. Lens /\ Single /\ ~overflowed BY LenFacts DEF Kept
  <1>2. Longer(lines, lines', Item("OK", 0)) /\ "OK" \in Ans
    <2>1. Item("OK", 0) \in Lines BY Items
    <2> QED BY <2>1, SaysOneFacts DEF Delete, Ans
  <1>3. NothingNew /\ (Has(lines, Chunk) => Has(lines', Chunk))
    BY <1>1, <1>2, AnswerNew, SaidChunk
  <1>4. /\ Announced \subseteq slots \ read /\ Queued \subseteq slots \ read
        /\ Has(toModem, Dels) => ~Has(lines, Arr)
        /\ Has(toModem, {"DEL ALL"}) => Len(queue) = 0
    BY DEF Kept, Waiting
  <1>5. read' = read \cap slots' BY DEF Delete
  <1>6. ASSUME NEW h, Hears(h), h \in Dels PROVE Announced = {}
    <2>1. Shorter(toModem, toModem') /\ toModem[1].type \in Dels BY <1>6, HearsFacts
    <2>2. Has(toModem, Dels) BY <1>1, <2>1, ShorterHas DEF Lens
    <2>3. Len(lines) \in Nat BY <1>1 DEF Lens
    <2> QED BY <1>4, <2>2, <2>3, SlotsOfFacts DEF Announced
  <1>7. CASE Hears("DEL ALL") /\ slots' = {}
    <2>1. Announced = {} BY <1>6, <1>7 DEF Dels
    <2>2. Queued = {}
      <3>1. Shorter(toModem, toModem') /\ toModem[1].type \in {"DEL ALL"}
        BY <1>7, HearsFacts
      <3>2. Has(toModem, {"DEL ALL"}) BY <1>1, <3>1, ShorterHas DEF Lens
      <3>3. Len(queue) = 0 BY <1>4, <3>2
      <3> QED BY <3>3 DEF Queued
    <2>3. "DEL ALL" \notin Reads BY DEF Reads
    <2> QED BY <1>3, <1>5, <1>7, <2>1, <2>2, <2>3, HeardKept
  <1>8. CASE Hears("DEL READ") /\ slots' = slots \ read
    <2>1. "DEL READ" \notin Reads BY DEF Reads
    <2> QED BY <1>3, <1>4, <1>5, <1>8, <2>1, HeardKept
  <1>9. CASE Hears("CMGD")
    <2>1. Shorter(toModem, toModem') /\ toModem[1].type = "CMGD" BY <1>9, HearsFacts
    <2>2. Len(toModem) >= 1 BY <2>1 DEF Shorter
    <2> QED BY <1>1, <2>1, <2>2 DEF Together, InOrder
  <1> QED BY <1>7, <1>8, <1>9 DEF Delete

LEMMA ReadOutKept == TypeOK /\ Together /\ Kept /\ quiet /\ ReadOut /\ ModemLeaves => Kept'
  <1> SUFFICES ASSUME TypeOK, Together, Kept, quiet, ReadOut, ModemLeaves PROVE Kept'
    OBVIOUS
  <1>1. Lens /\ Single BY LenFacts DEF Kept
  <1>2. Hears("CMGR") /\ slots' = slots BY DEF ReadOut
  <1>3. Shorter(toModem, toModem') /\ toModem[1].type \in Reads /\ Head(toModem) = toModem[1]
    BY <1>2, HearsFacts DEF Reads
  <1>4. toModem[1].slot \in Asked BY <1>1, <1>3, SlotsOfFacts DEF Asked, Lens
  <1>5. /\ Announced \subseteq slots \ read /\ Queued \subseteq slots \ read /\ Asked \subseteq slots
        /\ Announced \cap Asked = {} /\ Queued \cap Asked = {} /\ read \subseteq slots
    BY DEF Kept, Waiting, TypeOK
  <1>6. Says(<<"+CMGR", "message", "OK">>) /\ read' = read \cup {toModem[1].slot}
    BY <1>3, <1>4, <1>5 DEF ReadOut
  <1>7. ReadsOut BY <1>6, SaysMessageReadsOut
  <1>8. NothingNew /\ Has(lines', Chunk) BY <1>1, <1>7, ReadsOutAnnounces, SaidChunk
  <1>9. (Announced \cup Queued) \subseteq slots' \ read' /\ read' \subseteq slots'
    BY <1>2, <1>4, <1>5, <1>6
  <1> QED BY <1>2, <1>8, <1>9, HeardKept

LEMMA PromptKept == TypeOK /\ Together /\ Kept /\ quiet /\ Prompt /\ ModemLeaves => Kept'
  <1> SUFFICES ASSUME TypeOK, Together, Kept, quiet, Prompt, ModemLeaves PROVE Kept'
    OBVIOUS
  <1>1. Lens /\ Single BY LenFacts DEF Kept
  <1>2. Hears("CMGS") /\ UNCHANGED <<slots, read>> /\ "CMGS" \notin Reads
    BY DEF Prompt, Reads
  <1>3. Longer(lines, lines', Item("> ", 0)) /\ "> " \in Ans
    <2>1. Item("> ", 0) \in Lines BY Items
    <2> QED BY <2>1, SaysOneFacts DEF Prompt, Ans
  <1>4. NothingNew /\ (Has(lines, Chunk) => Has(lines', Chunk))
    BY <1>1, <1>3, AnswerNew, SaidChunk
  <1>5. (Announced \cup Queued) \subseteq slots \ read /\ read \subseteq slots
    BY DEF Kept, Waiting, TypeOK
  <1> QED BY <1>2, <1>4, <1>5, HeardKept

LEMMA KeptInit == Init => Kept
  <1> SUFFICES ASSUME Init PROVE Kept
    OBVIOUS
  <1>1. Len(toModem) = 0 /\ Len(lines) = 0 /\ Len(queue) = 0 /\ ~requested /\ ~overflowed
    BY DEF Init
  <1>2. /\ Announced = {} /\ Queued = {} /\ Asked = {}
        /\ \A K : ~Has(toModem, K) /\ ~Has(lines, K)
        /\ AtMostOne(lines, Arr)
    BY <1>1 DEF Announced, Queued, Asked, SlotsOf, Has, AtMostOne
  <1>3. Single BY <1>2 DEF Single
  <1>4. Waiting BY <1>1, <1>2 DEF Waiting
  <1> QED BY <1>1, <1>3, <1>4 DEF Kept, OnWay

LEMMA KeptStep == TypeOK /\ Together /\ Kept /\ [Next]_vars => Kept'
  <1> SUFFICES ASSUME TypeOK, Together, Kept, [Next]_vars PROVE Kept'
    OBVIOUS
  <1>1. quiet' = quiet
    BY DEF Next, Device, ReadLine, Request, TakeMessage, TakePrompt, TakeArrival, TakeHeader,
           TakeError, TakeOK, Reply, WriteRawData, Modem, Arrive, Text, Delete, ReadOut,
           Prompt, simVars, modemVars, vars
  <1>2. CASE ~quiet BY <1>1, <1>2 DEF Kept
  <1>3. CASE quiet
    <2>1. CASE Modem
      <3>1. ModemLeaves BY <2>1 DEF Modem, ModemLeaves
      <3> QED BY <1>3, <2>1, <3>1, ArriveKept, TextKept, DeleteKept, ReadOutKept, PromptKept
           DEF Modem
    <2>2. CASE UNCHANGED vars
      <3>1. UNCHANGED <<foundOK, requested, queue, toModem, lines, slots, read, overflowed>>
        BY <2>2 DEF vars, lineVars, simVars, modemVars
      <3> QED BY <1>1, <3>1 DEF Kept, Single, Waiting, OnWay, Announced, Queued, Asked
    <2> QED BY <1>3, <2>1, <2>2, RequestKept, TakeMessageKept, TakePromptKept,
               TakeArrivalKept, TakeHeaderKept, TakeErrorKept, TakeOKKept, ReplyKept,
               WriteRawDataKept
            DEF Next, Device, ReadLine
  <1> QED BY <1>2, <1>3

LEMMA KeptMeansAnswered == TypeOK /\ Kept => RequestIsAnswered
  <1> SUFFICES ASSUME TypeOK, Kept, quiet, requested
               PROVE  OnTheWay("CMGR") \/ OnTheWay("+CMGR") \/ OnTheWay("message")
    BY DEF RequestIsAnswered
  <1>1. DOMAIN toModem = 1 .. Len(toModem) /\ DOMAIN lines = 1 .. Len(lines)
    BY LenProperties DEF TypeOK
  <1>2. Has(toModem, Reads) \/ Has(lines, Chunk) BY DEF Kept, OnWay
  <1>3. CASE Has(toModem, Reads) BY <1>1, <1>3 DEF Has, Reads, OnTheWay
  <1>4. CASE Has(lines, Chunk) BY <1>1, <1>4 DEF Has, Chunk, OnTheWay
  <1> QED BY <1>2, <1>3, <1>4

\* While messages arrive on an idle line only, the message that the driver has
\* asked for is on its way: haveRequestedIncomingMsg is cleared by its arrival.
THEOREM RequestsAreAnswered == Spec => []RequestIsAnswered
  <1>1. Init => TypeOK /\ Together /\ Kept BY TypeInit, TogetherInit, KeptInit
  <1>2. TypeOK /\ Together /\ Kept /\ [Next]_vars => (TypeOK /\ Together /\ Kept)'
    BY TypeStep, TogetherStep, KeptStep
  <1>3. TypeOK /\ Kept => RequestIsAnswered BY KeptMeansAnswered
  <1> QED BY <1>1, <1>2, <1>3, PTL DEF Spec

================================================================================
