-------------------------- MODULE SmsConnectionsProofs --------------------------
(***************************************************************************)
(* What holds of SmsConnections for any phones, any number of known        *)
(* connections, any connection numbers and any network: the current phone  *)
(* is the first of the known ones and none is known twice, and a command   *)
(* that is read finds the driver ready to take its response; commands run  *)
(* once and in order if the driver has room for all phones and these count *)
(* their connections; and what SmsCoding does to every text.               *)
(***************************************************************************)
EXTENDS SmsConnections, SmsCoding, FiniteSetTheorems, SequenceTheorems, TLAPS

Connection ==
    [phone : Phones \cup {NoPhone}, connectionNo : 0 .. Modulus, rx : Nat,
     tx : Nat, newMsg : Nat, resend : Nat, timedOut : BOOLEAN]
KnownEntry == [phone : Phones \cup {NoPhone}, connectionNo : 0 .. Modulus]
Buffer     == [of : Commands \cup {NoCommand}, parts : 0 .. MaxParts, idx : 0 .. MaxParts]

CurrentOK == current \in Connection
KnownOK   == known \in [1 .. MaxKnown -> KnownEntry]
HalfOK    == half \in Messages \cup {NoMsg}
FlagsOK   == /\ responseSet \in BOOLEAN /\ sendingResponse \in BOOLEAN
             /\ sendingResend \in BOOLEAN /\ resendLastResponse \in BOOLEAN
             /\ modem \in {"free", "busy", "prompt"}
RunOK     == answered \subseteq Commands /\ lastRun \in [Phones -> Commands \cup {NoCommand}]

\* A buffer with anything in it answers a command.
Answers(b) == /\ b \in Buffer /\ b.idx <= b.parts
              /\ b.parts > 0 => b.of \in Commands
SendsOK == Answers(tx) /\ out \in Outgoing \cup {NoSms}

\* Phones number their messages as the protocol has it.
WellFormed(m) ==
    /\ m.of.serial \in DOMAIN Numbers[m.of.phone]
    /\ m.part # 0 => m.last
    /\ m.close => m.last
SentOK == sent \subseteq Messages /\ \A m \in sent : WellFormed(m)

\* No phone is known twice, and c is at the top.
OnceKnown(k) == \A i, j \in 1 .. MaxKnown :
                    k[i].phone = k[j].phone => i = j \/ k[i].phone = NoPhone
IsTop(k, c)  == c.phone # NoPhone =>
                    /\ k[1].phone = c.phone /\ k[1].connectionNo = c.connectionNo
TopOK == OnceKnown(known) /\ IsTop(known, current)

\* Between the messages of a command, and until it has been read, the driver
\* can take a response; when the last of them is there, a new command is due.
Due == current.rx % 3 = 0
MidOK == ~Due => Writable
RxOK ==
    \/ rx = <<>>
    \/ \E m \in sent : /\ rx = <<m>> \/ rx = <<Reset, m>>
                       /\ ~m.close => Writable
                       /\ m.last => Due

IInv ==
    /\ CurrentOK /\ KnownOK /\ HalfOK /\ FlagsOK /\ RunOK
    /\ SendsOK /\ SentOK /\ TopOK /\ MidOK /\ RxOK

--------------------------------------------------------------------------------
(* The operators of the model. *)

\* What a message that a phone has sent is made of.
LEMMA MessageFacts ==
    ASSUME SentOK, NEW m \in sent
    PROVE  /\ m \in Messages /\ m.of \in Commands /\ WellFormed(m)
           /\ Phone(m) \in Phones /\ Phone(m) # NoPhone
           /\ ConnectionNo(m) \in 0 .. Modulus
           /\ m.last \in BOOLEAN /\ m.close \in BOOLEAN
           /\ m # Reset /\ m # NoMsg
  <1>1. m \in Messages /\ WellFormed(m)
    BY DEF SentOK
  <1>2. m.of \in Commands /\ m.last \in BOOLEAN /\ m.close \in BOOLEAN
    BY <1>1 DEF Messages
  <1>3. Phone(m) \in Phones
    BY <1>2 DEF Phone, Commands
  <1>4. Phone(m) # NoPhone
    BY <1>3, SmsAssumption
  <1>5. ConnectionNo(m) \in 0 .. Modulus
    <2>1. Numbers[Phone(m)] \in Seq(0 .. Modulus)
      BY <1>3, SmsAssumption
    <2>2. m.of.serial \in 1 .. Len(Numbers[Phone(m)])
      BY <1>1, <2>1, LenProperties DEF WellFormed, Phone
    <2> QED BY <2>1, <2>2, ElementOfSeq DEF ConnectionNo, Phone
  <1>6. m.of.phone # NoCommand.phone
    BY <1>4 DEF Phone, NoCommand
  <1>7. m # Reset /\ m # NoMsg
    BY <1>6 DEF Reset, NoMsg
  <1> QED BY <1>1, <1>2, <1>3, <1>4, <1>5, <1>7

\* After the last message of a command the first one of another is expected.
LEMMA NextExpectedFacts ==
    ASSUME NEW n \in Nat, NEW last \in BOOLEAN
    PROVE  /\ NextExpected(n, last) \in Nat
           /\ last => NextExpected(n, last) % 3 = 0
  <1>1. CASE last /\ (n + 1) % 3 # 0
    <2> DEFINE d == (n + 1) \div 3
    <2>1. d \in Nat OBVIOUS
    <2>2. NextExpected(n, last) = (d + 1) * 3 BY <1>1 DEF NextExpected
    <2> HIDE DEF d
    <2>3. (d + 1) * 3 \in Nat /\ ((d + 1) * 3) % 3 = 0 BY <2>1
    <2> QED BY <2>2, <2>3
  <1>2. CASE ~(last /\ (n + 1) % 3 # 0)
    BY <1>2 DEF NextExpected
  <1> QED BY <1>1, <1>2

\* Heads and tails of what the driver puts in rxBuffer.
LEMMA RxFacts ==
    ASSUME NEW m
    PROVE  /\ <<m>> # <<>> /\ Head(<<m>>) = m /\ Tail(<<m>>) = <<>>
           /\ <<Reset, m>> # <<>> /\ Head(<<Reset, m>>) = Reset /\ Tail(<<Reset, m>>) = <<m>>
  OBVIOUS

\* The connections that decodeSMS() makes.
LEMMA DecodedFacts ==
    ASSUME SentOK, NEW m \in sent
    PROVE  /\ Decoded(m) \in Connection
           /\ Decoded(m).phone = Phone(m) /\ Decoded(m).connectionNo = ConnectionNo(m)
           /\ m.last => Decoded(m).rx % 3 = 0
  <1>1. /\ Phone(m) \in Phones /\ ConnectionNo(m) \in 0 .. Modulus
        /\ m.last \in BOOLEAN
    BY MessageFacts
  <1>2. NextExpected(0, m.last) \in Nat /\ (m.last => NextExpected(0, m.last) % 3 = 0)
    BY <1>1, NextExpectedFacts
  <1> QED BY <1>1, <1>2 DEF Decoded, Cleared, Connection

\* Closing keeps the phone and the number.
LEMMA ClosedFacts ==
    ASSUME NEW c \in Connection
    PROVE  /\ Closed(c) \in Connection
           /\ Closed(c).phone = c.phone /\ Closed(c).connectionNo = c.connectionNo
           /\ Closed(c).rx % 3 = 0
  <1>1. Closed(c).rx = 0 BY DEF Closed, Cleared
  <1>2. 0 % 3 = 0 OBVIOUS
  <1>3. Closed(c).phone = c.phone /\ Closed(c).connectionNo = c.connectionNo
    BY DEF Closed, Cleared
  <1>4. Closed(c) \in Connection
    BY DEF Closed, Cleared, Connection
  <1> QED BY <1>1, <1>2, <1>3, <1>4

\* Moving a phone to the top keeps every phone known at most once.
LEMMA MoveToTopFacts ==
    ASSUME NEW k \in [1 .. MaxKnown -> KnownEntry], OnceKnown(k),
           NEW c \in Connection, c.phone # NoPhone
    PROVE  /\ MoveToTop(k, c) \in [1 .. MaxKnown -> KnownEntry]
           /\ OnceKnown(MoveToTop(k, c)) /\ IsTop(MoveToTop(k, c), c)
  <1> USE SmsAssumption
  <1> DEFINE mine  == {i \in 1 .. MaxKnown : k[i].phone = c.phone}
             empty == {i \in 1 .. MaxKnown : k[i].phone = NoPhone}
             room  == IF mine # {} THEN mine ELSE empty
             Moves(i) == \A j \in 1 .. i : j \notin room
             from(i) == IF Moves(i - 1) THEN i - 1 ELSE i
             t == MoveToTop(k, c)
  <1>1. t[1] = [phone |-> c.phone, connectionNo |-> c.connectionNo]
    BY DEF MoveToTop
  <1>2. \A i \in 2 .. MaxKnown : t[i] = k[from(i)] /\ from(i) \in 1 .. MaxKnown
    BY DEF MoveToTop
  <1>3. t \in [1 .. MaxKnown -> KnownEntry]
    <2>1. t = [i \in 1 .. MaxKnown |-> t[i]] BY DEF MoveToTop
    <2>2. t[1] \in KnownEntry BY <1>1 DEF Connection, KnownEntry
    <2>3. \A i \in 2 .. MaxKnown : t[i] \in KnownEntry BY <1>2
    <2>4. \A i \in 1 .. MaxKnown : t[i] \in KnownEntry BY <2>2, <2>3
    <2> QED BY <2>1, <2>4
  <1>4. \A i, j \in 2 .. MaxKnown : i < j => from(i) # from(j)
    <2> TAKE i, j \in 2 .. MaxKnown
    <2> SUFFICES ASSUME i < j, from(i) = from(j) PROVE FALSE
      OBVIOUS
    <2>1. ~Moves(i - 1) /\ Moves(j - 1) /\ j - 1 = i
      BY DEF Moves
    <2>2. PICK h \in 1 .. i - 1 : h \in room
      BY <2>1
    <2> QED BY <2>1, <2>2
  <1>5. \A i \in 2 .. MaxKnown : k[from(i)].phone # c.phone
    <2> TAKE i \in 2 .. MaxKnown
    <2> SUFFICES ASSUME k[from(i)].phone = c.phone PROVE FALSE
      OBVIOUS
    <2>1. from(i) \in mine /\ room = mine
      BY <1>2
    <2>2. ~Moves(i - 1)
      BY <2>1
    <2>3. PICK h \in 1 .. i - 1 : h \in mine
      BY <2>1, <2>2
    <2>4. i \in mine
      BY <2>1, <2>2
    <2>5. h = i
      BY <2>3, <2>4 DEF OnceKnown
    <2> QED BY <2>3, <2>5
  <1>6. OnceKnown(t)
    <2> SUFFICES ASSUME NEW i \in 1 .. MaxKnown, NEW j \in 1 .. MaxKnown, i < j,
                        t[i].phone = t[j].phone, t[i].phone # NoPhone
                 PROVE  FALSE
      BY DEF OnceKnown
    <2>1. CASE i = 1
      BY <1>1, <1>2, <1>5, <2>1
    <2>2. CASE i # 1
      <3>1. i \in 2 .. MaxKnown /\ j \in 2 .. MaxKnown BY <2>2
      <3>2. from(i) = from(j) BY <1>2, <3>1 DEF OnceKnown
      <3> QED BY <1>4, <3>1, <3>2
    <2> QED BY <2>1, <2>2
  <1>7. IsTop(t, c)
    BY <1>1 DEF IsTop
  <1> QED BY <1>3, <1>6, <1>7

\* So does forgetting one.
LEMMA ForgottenFacts ==
    ASSUME KnownOK, OnceKnown(known), NEW m
    PROVE  /\ Forgotten(m) \in [1 .. MaxKnown -> KnownEntry]
           /\ OnceKnown(Forgotten(m))
           /\ ~Erases(m) => Forgotten(m) = known
           /\ \A i \in 1 .. MaxKnown : known[i].phone # Phone(m) => Forgotten(m)[i] = known[i]
  <1>1. NoKnown \in KnownEntry
    BY SmsAssumption DEF NoKnown, KnownEntry
  <1>2. NoKnown.phone = NoPhone
    BY DEF NoKnown
  <1> QED BY <1>1, <1>2 DEF Forgotten, KnownOK, OnceKnown

--------------------------------------------------------------------------------
(* The steps. *)

\* The messages that a phone makes of a command.
LEMMA MakesMessage ==
    ASSUME NEW c \in Commands, c.serial \in DOMAIN Numbers[c.phone]
    PROVE  \A m \in Whole(c, TRUE) \cup Whole(c, FALSE) \cup Halves(c) :
               m \in Messages /\ WellFormed(m)
  <1> TAKE m \in Whole(c, TRUE) \cup Whole(c, FALSE) \cup Halves(c)
  <1>1. \/ m = [of |-> c, part |-> 0, last |-> TRUE, close |-> TRUE]
        \/ m = [of |-> c, part |-> 0, last |-> TRUE, close |-> FALSE]
        \/ m = [of |-> c, part |-> 0, last |-> FALSE, close |-> FALSE]
        \/ m = [of |-> c, part |-> 1, last |-> TRUE, close |-> FALSE]
    BY DEF Whole, Halves
  <1>2. m \in Messages
    <2>1. /\ [of |-> c, part |-> 0, last |-> TRUE, close |-> TRUE] \in Messages
          /\ [of |-> c, part |-> 0, last |-> TRUE, close |-> FALSE] \in Messages
          /\ [of |-> c, part |-> 0, last |-> FALSE, close |-> FALSE] \in Messages
          /\ [of |-> c, part |-> 1, last |-> TRUE, close |-> FALSE] \in Messages
      BY DEF Messages
    <2> QED BY <1>1, <2>1
  <1>3. m.of = c /\ (m.part # 0 => m.last) /\ (m.close => m.last)
    BY <1>1
  <1> QED BY <1>2, <1>3 DEF WellFormed

\* What a step of the phones leaves alone.
LEMMA PhoneStep ==
    ASSUME IInv, NEW p \in Phones, Open(p) \/ Ask(p)
    PROVE  IInv'
  <1>1. /\ UNCHANGED <<current, known, rx, half, tx, responseSet, sendingResponse,
                       sendingResend, resendLastResponse, out, modem>>
        /\ UNCHANGED answered /\ UNCHANGED lastRun
    BY DEF Open, Ask, deviceVars
  <1>2. SentOK' /\ sent \subseteq sent'
    <2>1. CASE Open(p)
      <3>1. PICK n \in DOMAIN Numbers[p], close \in BOOLEAN :
                sent' = sent \cup Whole([phone |-> p, serial |-> n, cmd |-> 0], close)
        BY <2>1 DEF Open
      <3> DEFINE c == [phone |-> p, serial |-> n, cmd |-> 0]
      <3>2. n \in Nat \ {0}
        BY SmsAssumption, LenProperties
      <3>3. c \in Commands /\ c.serial \in DOMAIN Numbers[c.phone]
        BY <3>2 DEF Commands
      <3> HIDE DEF c
      <3>4. \A m \in Whole(c, close) : m \in Messages /\ WellFormed(m)
        <4>1. CASE close BY <3>3, <4>1, MakesMessage
        <4>2. CASE ~close
          <5>1. close = FALSE BY <4>2
          <5> QED BY <3>3, <5>1, MakesMessage
        <4> QED BY <4>1, <4>2
      <3> QED BY <3>1, <3>4 DEF SentOK, IInv, c
    <2>2. CASE Ask(p)
      <3>1. PICK c \in Asked(p) :
               LET next == [c EXCEPT !.cmd = @ + 1]
               IN  sent' \in {sent \cup Whole(next, FALSE), sent \cup Halves(next),
                              sent \cup Whole(next, TRUE)}
        BY <2>2 DEF Ask
      <3> DEFINE next == [c EXCEPT !.cmd = @ + 1]
      <3>2. PICK m \in sent : c = m.of
        BY DEF Asked
      <3>3. c \in Commands /\ c.serial \in DOMAIN Numbers[c.phone]
        BY <3>2, MessageFacts DEF IInv, WellFormed
      <3>4. next \in Commands /\ next.serial \in DOMAIN Numbers[next.phone]
        BY <3>3 DEF Commands
      <3> HIDE DEF next
      <3>5. \A x \in Whole(next, FALSE) \cup Halves(next) \cup Whole(next, TRUE) :
                x \in Messages /\ WellFormed(x)
        BY <3>4, MakesMessage
      <3>6. sent' \in {sent \cup Whole(next, FALSE), sent \cup Halves(next),
                       sent \cup Whole(next, TRUE)}
        BY <3>1 DEF next
      <3> QED BY <3>5, <3>6 DEF SentOK, IInv
    <2> QED BY <2>1, <2>2
  <1>3. RxOK'
    BY <1>1, <1>2 DEF IInv, RxOK, Writable, Due
  <1>4. CurrentOK' /\ KnownOK' /\ HalfOK' /\ FlagsOK' /\ RunOK' /\ SendsOK'
    BY <1>1 DEF IInv, CurrentOK, KnownOK, HalfOK, FlagsOK, RunOK, SendsOK
  <1>5. TopOK' /\ MidOK'
    BY <1>1 DEF IInv, TopOK, MidOK, Due, Writable
  <1> QED BY <1>2, <1>3, <1>4, <1>5 DEF IInv

\* What every step that hands over a message leaves alone.
LEMMA Received ==
    ASSUME IInv, NEW m \in sent, Receive(m)
    PROVE  HalfOK' /\ RunOK' /\ SentOK' /\ modem' = "busy" /\ out' = out /\ sent' = sent
  BY DEF Receive, IInv, HalfOK, RunOK, SentOK

\* The empty buffer answers nothing.
LEMMA NoTxAnswers == Answers(NoTx)
  BY SmsAssumption DEF Answers, NoTx, Buffer

\* The next message of the connection.
LEMMA NextStep ==
    ASSUME IInv, NEW m \in sent, ReceiveNext(m)
    PROVE  IInv'
  <1> DEFINE c == [current EXCEPT !.rx = NextExpected(@, m.last)]
  <1>1. HalfOK' /\ RunOK' /\ SentOK' /\ modem' = "busy" /\ out' = out /\ sent' = sent
    BY Received DEF ReceiveNext
  <1>2. /\ m.last \in BOOLEAN /\ m.close \in BOOLEAN /\ WellFormed(m)
        /\ Phone(m) # NoPhone
    BY MessageFacts DEF IInv
  <1>3. current \in Connection /\ current.rx \in Nat
    BY DEF IInv, CurrentOK, Connection
  <1>4. /\ NextExpected(current.rx, m.last) \in Nat
        /\ m.last => NextExpected(current.rx, m.last) % 3 = 0
    BY <1>2, <1>3, NextExpectedFacts
  <1>5. c \in Connection
    BY <1>3, <1>4 DEF Connection
  <1>6. /\ c.phone = current.phone /\ c.connectionNo = current.connectionNo
        /\ c.rx = NextExpected(current.rx, m.last)
    BY <1>3 DEF Connection
  <1>7. current.phone # NoPhone
    BY <1>2 DEF ReceiveNext, IsNext, Continues, Same
  <1> HIDE DEF c
  <1>8. rx' = <<m>> /\ known' = known
    BY DEF ReceiveNext
  <1>9. CASE m.part = 0 /\ ~m.close
    <2>1. /\ StopResponseSends /\ responseSet' = FALSE
          /\ current' = [c EXCEPT !.timedOut = FALSE] /\ tx' = NoTx
      BY <1>9 DEF ReceiveNext, c
    <2>2. /\ current' \in Connection /\ current'.phone = c.phone
          /\ current'.connectionNo = c.connectionNo /\ current'.rx = c.rx
      BY <1>5, <2>1 DEF Connection
    <2>3. Writable'
      BY <1>6, <1>7, <2>1, <2>2 DEF Writable, StopResponseSends
    <2>4. m.last => Due'
      BY <1>4, <1>6, <2>2 DEF Due
    <2>5. RxOK' /\ MidOK'
      BY <1>1, <1>8, <2>3, <2>4 DEF RxOK, MidOK
    <2>6. TopOK'
      BY <1>6, <1>8, <2>2 DEF IInv, TopOK, IsTop
    <2>7. CurrentOK' /\ KnownOK' /\ SendsOK'
      BY <1>1, <1>8, <2>1, <2>2, NoTxAnswers DEF IInv, CurrentOK, KnownOK, SendsOK
    <2>8. FlagsOK'
      BY <1>1, <2>1 DEF FlagsOK, StopResponseSends
    <2> QED BY <1>1, <2>5, <2>6, <2>7, <2>8 DEF IInv
  <1>10. CASE m.part = 0 /\ m.close
    <2>1. /\ StopResponseSends /\ responseSet' = responseSet
          /\ current' = Closed(c) /\ tx' = NoTx
      BY <1>10 DEF ReceiveNext, c
    <2>2. /\ current' \in Connection /\ current'.phone = c.phone
          /\ current'.connectionNo = c.connectionNo /\ current'.rx % 3 = 0
      BY <1>5, <2>1, ClosedFacts
    <2>3. Due'
      BY <2>2 DEF Due
    <2>4. RxOK' /\ MidOK'
      BY <1>1, <1>8, <1>10, <2>3 DEF RxOK, MidOK
    <2>5. TopOK'
      BY <1>6, <1>8, <2>2 DEF IInv, TopOK, IsTop
    <2>6. CurrentOK' /\ KnownOK' /\ SendsOK'
      BY <1>1, <1>8, <2>1, <2>2, NoTxAnswers DEF IInv, CurrentOK, KnownOK, SendsOK
    <2>7. FlagsOK'
      BY <1>1, <2>1 DEF IInv, FlagsOK, StopResponseSends
    <2> QED BY <1>1, <2>4, <2>5, <2>6, <2>7 DEF IInv
  <1>11. CASE m.part # 0
    <2>1. /\ current' = c /\ tx' = tx
          /\ UNCHANGED <<responseSet, sendingResponse, sendingResend, resendLastResponse>>
      BY <1>11 DEF ReceiveNext, c, flagVars
    <2>2. ~Due
      <3>1. m.part = 1 /\ m.of.cmd \in Nat
        BY <1>11, MessageFacts DEF IInv, Messages, Commands
      <3>2. current.rx = 3 * m.of.cmd + 1
        BY <3>1 DEF ReceiveNext, IsNext, MsgNo
      <3>3. \A n \in Nat : (3 * n + 1) % 3 = 1
        OBVIOUS
      <3> QED BY <3>1, <3>2, <3>3 DEF Due
    <2>3. Writable'
      BY <1>6, <2>1, <2>2 DEF IInv, MidOK, Writable
    <2>4. m.last => Due'
      BY <1>4, <1>6, <2>1 DEF Due
    <2>5. RxOK' /\ MidOK'
      BY <1>1, <1>8, <2>3, <2>4 DEF RxOK, MidOK
    <2>6. TopOK'
      BY <1>6, <1>8, <2>1 DEF IInv, TopOK, IsTop
    <2>7. CurrentOK' /\ KnownOK' /\ SendsOK'
      BY <1>1, <1>5, <1>8, <2>1 DEF IInv, CurrentOK, KnownOK, SendsOK
    <2>8. FlagsOK'
      BY <1>1, <2>1 DEF IInv, FlagsOK
    <2> QED BY <1>1, <2>5, <2>6, <2>7, <2>8 DEF IInv
  <1> QED BY <1>9, <1>10, <1>11 DEF ReceiveNext

\* A repeated command: the driver is between two commands.
LEMMA RepeatStep ==
    ASSUME IInv, NEW m \in sent, ReceiveRepeat(m)
    PROVE  IInv'
  <1>1. HalfOK' /\ RunOK' /\ SentOK' /\ modem' = "busy" /\ out' = out /\ sent' = sent
    BY Received DEF ReceiveRepeat
  <1>2. /\ resendLastResponse' = TRUE
        /\ UNCHANGED <<current, known, rx, tx, responseSet, sendingResponse, sendingResend>>
        /\ rx = <<>>
    BY DEF ReceiveRepeat, Receive
  <1>3. Due
    <2>1. m.part = 0 /\ m.of.cmd \in Nat
      BY MessageFacts DEF ReceiveRepeat, IsRepeat, IInv, Messages, Commands
    <2>2. current.rx = 3 * m.of.cmd + 3
      BY <2>1 DEF ReceiveRepeat, IsRepeat, MsgNo, IInv, CurrentOK, Connection
    <2>3. \A n \in Nat : (3 * n + 3) % 3 = 0
      OBVIOUS
    <2> QED BY <2>1, <2>2, <2>3 DEF Due
  <1>4. RxOK' /\ MidOK'
    BY <1>2, <1>3 DEF RxOK, MidOK, Due
  <1>5. CurrentOK' /\ KnownOK' /\ SendsOK' /\ TopOK'
    BY <1>1, <1>2 DEF IInv, CurrentOK, KnownOK, SendsOK, TopOK
  <1>6. FlagsOK'
    BY <1>1, <1>2 DEF IInv, FlagsOK
  <1> QED BY <1>1, <1>4, <1>5, <1>6 DEF IInv

\* A later connection of the current phone.
LEMMA LaterStep ==
    ASSUME IInv, NEW m \in sent, ReceiveLater(m)
    PROVE  IInv'
  <1>1. HalfOK' /\ RunOK' /\ SentOK' /\ modem' = "busy" /\ out' = out /\ sent' = sent
    BY Received DEF ReceiveLater
  <1>2. /\ m.last \in BOOLEAN /\ m.close \in BOOLEAN /\ (m.close => m.last)
        /\ Phone(m) # NoPhone /\ ConnectionNo(m) \in 0 .. Modulus
    BY MessageFacts DEF IInv, WellFormed
  <1>3. /\ Decoded(m) \in Connection
        /\ Decoded(m).phone = Phone(m) /\ Decoded(m).connectionNo = ConnectionNo(m)
        /\ m.last => Decoded(m).rx % 3 = 0
    BY DecodedFacts DEF IInv
  <1>4. /\ StopResponseSends /\ tx' = NoTx /\ Phone(m) = current.phone
        /\ known' = [known EXCEPT ![1].connectionNo = ConnectionNo(m)]
    BY DEF ReceiveLater, IsLater, Same
  <1>5. KnownOK' /\ OnceKnown(known') /\ known'[1].phone = Phone(m)
        /\ known'[1].connectionNo = ConnectionNo(m)
    <2>1. known \in [1 .. MaxKnown -> KnownEntry] /\ OnceKnown(known)
          /\ known[1].phone = Phone(m)
      BY <1>2, <1>4 DEF IInv, KnownOK, TopOK, IsTop
    <2>2. 1 \in 1 .. MaxKnown
      BY SmsAssumption
    <2>3. known[1] \in KnownEntry
      BY <2>1, <2>2
    <2>4. [known[1] EXCEPT !.connectionNo = ConnectionNo(m)] \in KnownEntry
      BY <1>2, <2>3 DEF KnownEntry
    <2>5. known' \in [1 .. MaxKnown -> KnownEntry]
      BY <1>4, <2>1, <2>2, <2>4
    <2>6. \A i \in 1 .. MaxKnown : known'[i].phone = known[i].phone
      BY <1>4, <2>1, <2>2, <2>3 DEF KnownEntry
    <2>7. known'[1].connectionNo = ConnectionNo(m)
      BY <1>4, <2>1, <2>2, <2>3 DEF KnownEntry
    <2> QED BY <2>1, <2>2, <2>5, <2>6, <2>7 DEF KnownOK, OnceKnown
  <1>6. SendsOK'
    BY <1>1, <1>4, NoTxAnswers DEF IInv, SendsOK
  <1>7. CASE m.close
    <2>1. current' = Closed(Decoded(m)) /\ rx' = <<m>> /\ responseSet' = responseSet
      BY <1>7 DEF ReceiveLater
    <2>2. /\ current' \in Connection /\ current'.phone = Phone(m)
          /\ current'.connectionNo = ConnectionNo(m) /\ current'.rx % 3 = 0
      BY <1>3, <2>1, ClosedFacts
    <2>3. Due'
      BY <2>2 DEF Due
    <2>4. RxOK' /\ MidOK'
      BY <1>1, <1>7, <2>1, <2>3 DEF RxOK, MidOK
    <2>5. TopOK' /\ CurrentOK'
      BY <1>5, <2>2 DEF TopOK, IsTop, CurrentOK
    <2>6. FlagsOK'
      BY <1>1, <1>4, <2>1 DEF IInv, FlagsOK, StopResponseSends
    <2> QED BY <1>1, <1>5, <1>6, <2>4, <2>5, <2>6 DEF IInv
  <1>8. CASE ~m.close
    <2>1. /\ current' = [Decoded(m) EXCEPT !.timedOut = FALSE]
          /\ rx' = <<Reset, m>> /\ responseSet' = FALSE
      BY <1>8 DEF ReceiveLater
    <2>2. /\ current' \in Connection /\ current'.phone = Phone(m)
          /\ current'.connectionNo = ConnectionNo(m) /\ current'.rx = Decoded(m).rx
      BY <1>3, <2>1 DEF Connection
    <2>3. Writable' /\ (m.last => Due')
      BY <1>2, <1>3, <1>4, <2>1, <2>2 DEF Writable, Due, StopResponseSends
    <2>4. RxOK' /\ MidOK'
      BY <1>1, <2>1, <2>3 DEF RxOK, MidOK
    <2>5. TopOK' /\ CurrentOK'
      BY <1>5, <2>2 DEF TopOK, IsTop, CurrentOK
    <2>6. FlagsOK'
      BY <1>1, <1>4, <2>1 DEF FlagsOK, StopResponseSends
    <2> QED BY <1>1, <1>5, <1>6, <2>4, <2>5, <2>6 DEF IInv
  <1> QED BY <1>7, <1>8

\* A connection of another phone.
LEMMA OtherStep ==
    ASSUME IInv, NEW m \in sent, ReceiveOther(m)
    PROVE  IInv'
  <1>1. HalfOK' /\ RunOK' /\ SentOK' /\ modem' = "busy" /\ out' = out /\ sent' = sent
    BY Received DEF ReceiveOther
  <1>2. /\ m.last \in BOOLEAN /\ m.close \in BOOLEAN /\ (m.close => m.last)
        /\ Phone(m) # NoPhone
    BY MessageFacts DEF IInv, WellFormed
  <1>3. /\ Decoded(m) \in Connection
        /\ Decoded(m).phone = Phone(m) /\ Decoded(m).connectionNo = ConnectionNo(m)
        /\ m.last => Decoded(m).rx % 3 = 0
    BY DecodedFacts DEF IInv
  <1>4. /\ StopResponseSends /\ tx' = NoTx /\ rx' = <<Reset, m>>
        /\ known' = MoveToTop(Forgotten(m), Decoded(m))
    BY DEF ReceiveOther
  <1>5. KnownOK' /\ OnceKnown(known') /\ IsTop(known', Decoded(m))
    <2>1. Forgotten(m) \in [1 .. MaxKnown -> KnownEntry] /\ OnceKnown(Forgotten(m))
      BY ForgottenFacts DEF IInv, TopOK
    <2> QED BY <1>2, <1>3, <1>4, <2>1, MoveToTopFacts DEF KnownOK
  <1>6. SendsOK'
    BY <1>1, <1>4, NoTxAnswers DEF IInv, SendsOK
  <1>7. CASE m.close
    <2>1. current' = Closed(Decoded(m)) /\ responseSet' = responseSet
      BY <1>7 DEF ReceiveOther
    <2>2. /\ current' \in Connection /\ current'.phone = Phone(m)
          /\ current'.connectionNo = ConnectionNo(m) /\ current'.rx % 3 = 0
      BY <1>3, <2>1, ClosedFacts
    <2>3. Due'
      BY <2>2 DEF Due
    <2>4. RxOK' /\ MidOK'
      BY <1>1, <1>4, <1>7, <2>3 DEF RxOK, MidOK
    <2>5. TopOK' /\ CurrentOK'
      BY <1>3, <1>5, <2>2 DEF TopOK, IsTop, CurrentOK
    <2>6. FlagsOK'
      BY <1>1, <1>4, <2>1 DEF IInv, FlagsOK, StopResponseSends
    <2> QED BY <1>1, <1>5, <1>6, <2>4, <2>5, <2>6 DEF IInv
  <1>8. CASE ~m.close
    <2>1. current' = [Decoded(m) EXCEPT !.timedOut = FALSE] /\ responseSet' = FALSE
      BY <1>8 DEF ReceiveOther
    <2>2. /\ current' \in Connection /\ current'.phone = Phone(m)
          /\ current'.connectionNo = ConnectionNo(m) /\ current'.rx = Decoded(m).rx
      BY <1>3, <2>1 DEF Connection
    <2>3. Writable' /\ (m.last => Due')
      BY <1>2, <1>3, <1>4, <2>1, <2>2 DEF Writable, Due, StopResponseSends
    <2>4. RxOK' /\ MidOK'
      BY <1>1, <1>4, <2>3 DEF RxOK, MidOK
    <2>5. TopOK' /\ CurrentOK'
      BY <1>3, <1>5, <2>2 DEF TopOK, IsTop, CurrentOK
    <2>6. FlagsOK'
      BY <1>1, <1>4, <2>1 DEF FlagsOK, StopResponseSends
    <2> QED BY <1>1, <1>5, <1>6, <2>4, <2>5, <2>6 DEF IInv
  <1> QED BY <1>7, <1>8

\* A message that is ignored may erase a phone, but never the current one.
LEMMA IgnoredStep ==
    ASSUME IInv, NEW m \in sent, ReceiveIgnored(m)
    PROVE  IInv'
  <1>1. HalfOK' /\ RunOK' /\ SentOK' /\ modem' = "busy" /\ out' = out /\ sent' = sent
    BY Received DEF ReceiveIgnored
  <1>2. /\ known' = Forgotten(m)
        /\ UNCHANGED <<current, rx, tx>>
        /\ UNCHANGED <<responseSet, sendingResponse, sendingResend, resendLastResponse>>
    BY DEF ReceiveIgnored, flagVars
  <1>3. Forgotten(m) \in [1 .. MaxKnown -> KnownEntry] /\ OnceKnown(Forgotten(m))
    BY ForgottenFacts DEF IInv, TopOK
  <1>4. Erases(m) => Phone(m) # current.phone
    BY DEF ReceiveIgnored, IsOther, MayReplace, Same, Erases
  <1>5. IsTop(known', current')
    <2>1. 1 \in 1 .. MaxKnown
      BY SmsAssumption
    <2>2. current.phone # NoPhone => Forgotten(m)[1] = known[1]
      BY <1>4, <2>1, ForgottenFacts DEF IInv, TopOK, IsTop
    <2> QED BY <1>2, <2>2 DEF IInv, TopOK, IsTop
  <1>6. RxOK' /\ MidOK'
    BY <1>1, <1>2 DEF IInv, RxOK, MidOK, Due, Writable
  <1>7. CurrentOK' /\ KnownOK' /\ SendsOK' /\ TopOK'
    BY <1>1, <1>2, <1>3, <1>5 DEF IInv, CurrentOK, KnownOK, SendsOK, TopOK
  <1>8. FlagsOK'
    BY <1>1, <1>2 DEF IInv, FlagsOK
  <1> QED BY <1>1, <1>6, <1>7, <1>8 DEF IInv

\* The idle time is over, or the parser closes: only timedOut changes.
LEMMA TimedOutFacts ==
    ASSUME NEW c \in Connection
    PROVE  LET d == [c EXCEPT !.timedOut = TRUE]
           IN  /\ d \in Connection /\ d.phone = c.phone
               /\ d.connectionNo = c.connectionNo /\ d.rx = c.rx
  BY DEF Connection

LEMMA TimeOutStep ==
    ASSUME IInv, TimeOut
    PROVE  IInv'
  <1>1. /\ current' \in Connection /\ current'.phone = current.phone
        /\ current'.connectionNo = current.connectionNo /\ current'.rx = current.rx
    BY TimedOutFacts DEF TimeOut, IInv, CurrentOK
  <1>2. /\ UNCHANGED <<known, rx, half, tx, out, modem, sent, answered, lastRun>>
        /\ UNCHANGED <<responseSet, sendingResponse, sendingResend, resendLastResponse>>
    BY DEF TimeOut, flagVars
  <1>3. RxOK' /\ MidOK'
    BY <1>1, <1>2 DEF IInv, RxOK, MidOK, Due, Writable
  <1>4. CurrentOK' /\ KnownOK' /\ SendsOK' /\ TopOK' /\ HalfOK' /\ RunOK' /\ SentOK'
    BY <1>1, <1>2
       DEF IInv, CurrentOK, KnownOK, SendsOK, TopOK, IsTop, HalfOK, RunOK, SentOK
  <1>5. FlagsOK'
    BY <1>2 DEF IInv, FlagsOK
  <1> QED BY <1>3, <1>4, <1>5 DEF IInv

\* The parser reads "{!}" or a reset.
LEMMA CloseStep ==
    ASSUME IInv, ReadClose
    PROVE  IInv'
  <1>1. /\ current' \in Connection /\ current'.phone = current.phone
        /\ current'.connectionNo = current.connectionNo /\ current'.rx = current.rx
    BY TimedOutFacts DEF ReadClose, IInv, CurrentOK
  <1>2. /\ UNCHANGED <<known, tx, out, modem, sent, answered, lastRun>>
        /\ UNCHANGED <<responseSet, sendingResponse, sendingResend, resendLastResponse>>
        /\ half' = NoMsg /\ rx' = Tail(rx) /\ rx # <<>>
    BY DEF ReadClose, flagVars
  <1>3. Writable' = Writable /\ Due' = Due
    BY <1>1, <1>2 DEF Writable, Due
  <1>4. RxOK'
    <2>1. PICK m \in sent : /\ rx = <<m>> \/ rx = <<Reset, m>>
                            /\ ~m.close => Writable
                            /\ m.last => Due
      BY <1>2 DEF IInv, RxOK
    <2>2. rx' = <<>> \/ rx' = <<m>>
      BY <1>2, <2>1, RxFacts
    <2> QED BY <1>2, <1>3, <2>1, <2>2 DEF RxOK
  <1>5. MidOK'
    BY <1>3 DEF IInv, MidOK
  <1>6. CurrentOK' /\ KnownOK' /\ SendsOK' /\ TopOK' /\ HalfOK' /\ RunOK' /\ SentOK'
    BY <1>1, <1>2
       DEF IInv, CurrentOK, KnownOK, SendsOK, TopOK, IsTop, HalfOK, RunOK, SentOK
  <1>7. FlagsOK'
    BY <1>2 DEF IInv, FlagsOK
  <1> QED BY <1>4, <1>5, <1>6, <1>7 DEF IInv

\* Part of a command is read.
LEMMA PartStep ==
    ASSUME IInv, ReadPart
    PROVE  IInv'
  <1>1. /\ UNCHANGED <<current, known, tx, out, modem, sent, answered, lastRun>>
        /\ UNCHANGED <<responseSet, sendingResponse, sendingResend, resendLastResponse>>
        /\ half' = (IF half = NoMsg THEN Head(rx) ELSE half)
        /\ rx' = Tail(rx) /\ rx # <<>> /\ ~Head(rx).last
    BY DEF ReadPart, flagVars
  <1>2. PICK m \in sent : rx = <<m>> \/ rx = <<Reset, m>>
    BY <1>1 DEF IInv, RxOK
  <1>3. Head(rx) = m /\ rx' = <<>>
    <2>1. Reset.last BY DEF Reset
    <2> QED BY <1>1, <1>2, <2>1, RxFacts
  <1>4. HalfOK'
    BY <1>1, <1>3, MessageFacts DEF IInv, HalfOK
  <1>5. RxOK' /\ MidOK'
    BY <1>1, <1>3 DEF IInv, RxOK, MidOK, Due, Writable
  <1>6. CurrentOK' /\ KnownOK' /\ SendsOK' /\ TopOK' /\ RunOK' /\ SentOK'
    BY <1>1 DEF IInv, CurrentOK, KnownOK, SendsOK, TopOK, RunOK, SentOK
  <1>7. FlagsOK'
    BY <1>1 DEF IInv, FlagsOK
  <1> QED BY <1>4, <1>5, <1>6, <1>7 DEF IInv

\* sendNextSMS() encodes a part of what the buffer answers.
LEMMA SendNextFacts ==
    ASSUME NEW c \in Connection, NEW b, Answers(b),
           out \in Outgoing \cup {NoSms}, SendNext(c, b)
    PROVE  /\ SendsOK' /\ current' \in Connection /\ current'.phone = c.phone
           /\ current'.connectionNo = c.connectionNo /\ current'.rx = c.rx
  <1>1. /\ b.idx \in 0 .. MaxParts /\ b.parts \in 0 .. MaxParts /\ b.idx <= b.parts
        /\ b \in Buffer /\ (b.parts > 0 => b.of \in Commands)
        /\ MaxParts \in Nat
    BY SmsAssumption DEF Answers, Buffer
  <1>2. CASE b.idx < b.parts
    <2>1. /\ out' = [connectionNo |-> c.connectionNo, msgNo |-> c.tx, of |-> b.of,
                     part |-> b.idx + 1, end |-> b.idx + 1 = b.parts]
          /\ tx' = [b EXCEPT !.idx = @ + 1] /\ current' = [c EXCEPT !.tx = @ + 1]
      BY <1>2 DEF SendNext
    <2>2. /\ current' \in Connection /\ current'.phone = c.phone
          /\ current'.connectionNo = c.connectionNo /\ current'.rx = c.rx
      BY <2>1 DEF Connection
    <2>3. b.idx + 1 \in 0 .. MaxParts /\ b.idx + 1 \in 1 .. MaxParts /\ b.idx + 1 <= b.parts
      BY <1>1, <1>2
    <2>4. Answers(tx')
      <3>1. tx' \in Buffer /\ tx'.idx = b.idx + 1 /\ tx'.parts = b.parts /\ tx'.of = b.of
        BY <1>1, <2>1, <2>3 DEF Buffer
      <3> QED BY <1>1, <2>3, <3>1 DEF Answers
    <2>5. out' \in Outgoing
      <3>1. b.of \in Commands /\ c.connectionNo \in 0 .. Modulus /\ c.tx \in Nat
        BY <1>1, <1>2 DEF Connection
      <3>2. (b.idx + 1 = b.parts) \in BOOLEAN
        OBVIOUS
      <3> QED BY <2>1, <2>3, <3>1, <3>2 DEF Outgoing
    <2> QED BY <2>2, <2>4, <2>5 DEF SendsOK
  <1>3. CASE ~(b.idx < b.parts)
    BY <1>3 DEF SendNext, SendsOK
  <1> QED BY <1>2, <1>3

\* A command is run and its response taken.
LEMMA CommandStep ==
    ASSUME IInv, ReadCommand
    PROVE  IInv'
  <1>1. /\ UNCHANGED <<known, sent, answered>> /\ resendLastResponse' = resendLastResponse
        /\ sendingResponse' = TRUE /\ sendingResend' = FALSE /\ responseSet' = TRUE
        /\ half' = NoMsg /\ rx' = Tail(rx) /\ rx # <<>> /\ Head(rx) # Reset /\ Head(rx).last
    BY DEF ReadCommand
  <1>2. PICK m \in sent : /\ rx = <<m>> \/ rx = <<Reset, m>>
                          /\ m.last => Due
    BY <1>1 DEF IInv, RxOK
  <1>3. Head(rx) = m /\ rx' = <<>>
    BY <1>1, <1>2, RxFacts
  <1> DEFINE c == Run
             r == [current EXCEPT !.tx = current.newMsg, !.resend = current.newMsg]
  <1>4. c \in Commands
    <2>1. m.of \in Commands
      BY MessageFacts DEF IInv
    <2>2. half # NoMsg => half.of \in Commands
      BY DEF IInv, HalfOK, Messages
    <2> QED BY <1>3, <2>1, <2>2 DEF Run
  <1>5. /\ r \in Connection /\ r.phone = current.phone
        /\ r.connectionNo = current.connectionNo /\ r.rx = current.rx
    BY DEF IInv, CurrentOK, Connection
  <1>6. PICK n \in 1 .. MaxParts :
            SendNext(r, IF Writable THEN [of |-> c, parts |-> n, idx |-> 0]
                                    ELSE [tx EXCEPT !.parts = tx.idx, !.idx = 0])
    BY DEF ReadCommand, Run
  <1> DEFINE b == IF Writable THEN [of |-> c, parts |-> n, idx |-> 0]
                              ELSE [tx EXCEPT !.parts = tx.idx, !.idx = 0]
  <1>7. lastRun' = [lastRun EXCEPT ![c.phone] = c]
    BY DEF ReadCommand, Run
  <1> HIDE DEF c, r
  <1>8. Answers(b)
    <2>1. CASE Writable
      BY <1>4, <2>1, SmsAssumption DEF Answers, Buffer
    <2>2. CASE ~Writable
      <3>1. tx \in Buffer /\ tx.idx \in 0 .. MaxParts /\ tx.parts \in 0 .. MaxParts
            /\ tx.idx <= tx.parts /\ (tx.parts > 0 => tx.of \in Commands)
        BY DEF IInv, SendsOK, Answers, Buffer
      <3>2. b = [tx EXCEPT !.parts = tx.idx, !.idx = 0]
        BY <2>2
      <3> HIDE DEF b
      <3>3. 0 \in 0 .. MaxParts
        BY SmsAssumption
      <3>4. b \in Buffer /\ b.parts = tx.idx /\ b.idx = 0 /\ b.of = tx.of
        BY <3>1, <3>2, <3>3 DEF Buffer
      <3> QED BY <3>1, <3>4 DEF Answers
    <2> QED BY <2>1, <2>2
  <1>9. SendNext(r, b)
    BY <1>6
  <1> HIDE DEF b
  <1>10. /\ SendsOK' /\ current' \in Connection /\ current'.phone = current.phone
         /\ current'.connectionNo = current.connectionNo /\ current'.rx = current.rx
    BY <1>5, <1>8, <1>9, SendNextFacts DEF IInv, SendsOK
  <1>11. RxOK' /\ MidOK'
    BY <1>1, <1>2, <1>3, <1>10 DEF RxOK, MidOK, Due
  <1>12. CurrentOK' /\ KnownOK' /\ TopOK' /\ HalfOK' /\ SentOK'
    BY <1>1, <1>10 DEF IInv, CurrentOK, KnownOK, TopOK, IsTop, HalfOK, SentOK
  <1>13. RunOK'
    BY <1>1, <1>4, <1>7 DEF IInv, RunOK, Commands
  <1>14. FlagsOK'
    <2>1. modem' \in {"free", "busy", "prompt"}
      BY DEF ReadCommand, IInv, FlagsOK
    <2> QED BY <1>1, <2>1 DEF IInv, FlagsOK
  <1> QED BY <1>10, <1>11, <1>12, <1>13, <1>14 DEF IInv

\* A step of the modem's dialogue keeps the invariant if it keeps what the
\* driver is ready for.
LEMMA ModemStep ==
    ASSUME IInv, UNCHANGED <<known, rx, half, sent, lastRun>>, SendsOK',
           current' \in Connection, current'.phone = current.phone,
           current'.connectionNo = current.connectionNo, current'.rx = current.rx,
           Writable => Writable', FlagsOK', answered' \subseteq Commands
    PROVE  IInv'
  <1>1. Due' = Due
    BY DEF Due
  <1>2. RxOK'
    <2>1. CASE rx = <<>>
      BY <2>1 DEF RxOK
    <2>2. CASE rx # <<>>
      <3>1. PICK m \in sent : /\ rx = <<m>> \/ rx = <<Reset, m>>
                              /\ ~m.close => Writable
                              /\ m.last => Due
        BY <2>2 DEF IInv, RxOK
      <3> QED BY <1>1, <3>1 DEF RxOK
    <2> QED BY <2>1, <2>2
  <1>3. MidOK'
    BY <1>1 DEF IInv, MidOK
  <1>4. CurrentOK' /\ KnownOK' /\ TopOK' /\ HalfOK' /\ SentOK' /\ RunOK'
    BY DEF IInv, CurrentOK, KnownOK, TopOK, IsTop, HalfOK, SentOK, RunOK
  <1> QED BY <1>2, <1>3, <1>4 DEF IInv

\* After an OK the next message is sent, or the device is idle.
LEMMA OkStep ==
    ASSUME IInv, FoundOK
    PROVE  IInv'
  <1>1. /\ UNCHANGED <<known, rx, half, responseSet, sent, answered, lastRun>>
        /\ sendingResponse' = sendingResponse
    BY DEF FoundOK
  <1>2. modem' \in {"free", "busy", "prompt"}
    BY DEF FoundOK, StartSMS
  <1>3. current \in Connection /\ Answers(tx) /\ out \in Outgoing \cup {NoSms}
        /\ answered \subseteq Commands
    BY DEF IInv, CurrentOK, SendsOK, RunOK
  <1>4. CASE UNCHANGED <<current, tx, out, sendingResponse, sendingResend, resendLastResponse>>
    <2>1. Writable => Writable' BY <1>1, <1>4 DEF Writable
    <2>2. FlagsOK' BY <1>1, <1>2, <1>4 DEF IInv, FlagsOK
    <2>3. SendsOK' BY <1>4 DEF IInv, SendsOK
    <2> QED BY <1>1, <1>3, <1>4, <2>1, <2>2, <2>3, ModemStep
  <1>5. CASE /\ sendingResponse \/ sendingResend
             /\ resendLastResponse' = FALSE
             /\ sendingResend' = (sendingResend /\ ~sendingResponse)
             /\ SendNext(current, tx)
    <2>1. ~Writable BY <1>5 DEF Writable
    <2>2. FlagsOK'
      <3>1. sendingResend' \in BOOLEAN /\ resendLastResponse' \in BOOLEAN BY <1>5
      <3> QED BY <1>1, <1>2, <3>1 DEF IInv, FlagsOK
    <2>3. /\ SendsOK' /\ current' \in Connection /\ current'.phone = current.phone
          /\ current'.connectionNo = current.connectionNo /\ current'.rx = current.rx
      BY <1>3, <1>5, SendNextFacts
    <2> QED BY <1>1, <1>3, <2>1, <2>2, <2>3, ModemStep
  <1>6. CASE /\ resendLastResponse
             /\ resendLastResponse' = FALSE /\ sendingResend' = TRUE
             /\ SendNext([current EXCEPT !.tx = current.resend], [tx EXCEPT !.idx = 0])
    <2> DEFINE c == [current EXCEPT !.tx = current.resend]
               b == [tx EXCEPT !.idx = 0]
    <2>1. ~Writable BY <1>6 DEF Writable
    <2>2. FlagsOK' BY <1>1, <1>2, <1>6 DEF IInv, FlagsOK
    <2>3. /\ c \in Connection /\ c.phone = current.phone
          /\ c.connectionNo = current.connectionNo /\ c.rx = current.rx
      BY <1>3 DEF Connection
    <2>4. Answers(b)
      <3>1. tx \in Buffer /\ tx.parts \in 0 .. MaxParts /\ (tx.parts > 0 => tx.of \in Commands)
        BY <1>3 DEF Answers, Buffer
      <3>2. 0 \in 0 .. MaxParts BY SmsAssumption
      <3>3. b \in Buffer /\ b.parts = tx.parts /\ b.idx = 0 /\ b.of = tx.of
        BY <3>1, <3>2 DEF Buffer
      <3> HIDE DEF b
      <3>4. 0 <= tx.parts BY <3>1
      <3> QED BY <3>1, <3>3, <3>4 DEF Answers
    <2>5. SendNext(c, b) BY <1>6
    <2> HIDE DEF b, c
    <2>6. /\ SendsOK' /\ current' \in Connection /\ current'.phone = current.phone
          /\ current'.connectionNo = current.connectionNo /\ current'.rx = current.rx
      BY <1>3, <2>3, <2>4, <2>5, SendNextFacts
    <2> QED BY <1>1, <1>3, <2>1, <2>2, <2>6, ModemStep
  <1> QED BY <1>1, <1>4, <1>5, <1>6 DEF FoundOK

\* The modem takes a message.
LEMMA PromptStep ==
    ASSUME IInv, Prompt
    PROVE  IInv'
  <1>1. /\ UNCHANGED <<known, rx, half, tx, responseSet, resendLastResponse, sent, lastRun>>
        /\ out' = NoSms /\ modem' = "busy" /\ out # NoSms
        /\ answered' = answered \cup {c \in {out.of} : out.end /\ c.phone = current.phone}
    BY DEF Prompt
  <1>2. \/ /\ current' \in {CountsSent(current), current}
           /\ sendingResponse' = FALSE /\ sendingResend' = FALSE
        \/ UNCHANGED <<current, sendingResponse, sendingResend>>
    BY DEF Prompt
  <1>3. current \in Connection /\ out \in Outgoing /\ answered \subseteq Commands
    BY <1>1 DEF IInv, CurrentOK, SendsOK, RunOK
  <1>4. /\ current' \in Connection /\ current'.phone = current.phone
        /\ current'.connectionNo = current.connectionNo /\ current'.rx = current.rx
    BY <1>2, <1>3 DEF CountsSent, Connection
  <1>5. answered' \subseteq Commands
    BY <1>1, <1>3 DEF Outgoing
  <1>6. Writable => Writable'
    BY <1>1, <1>2, <1>4 DEF Writable
  <1>7. FlagsOK'
    BY <1>1, <1>2 DEF IInv, FlagsOK
  <1>8. SendsOK'
    BY <1>1 DEF IInv, SendsOK
  <1> QED BY <1>1, <1>4, <1>5, <1>6, <1>7, <1>8, ModemStep

--------------------------------------------------------------------------------
\* The invariant holds at first.
LEMMA InitHolds == Init => IInv
  <1> SUFFICES ASSUME Init PROVE IInv
    OBVIOUS
  <1>1. CurrentOK
    BY SmsAssumption DEF Init, CurrentOK, Connection, Cleared
  <1>2. KnownOK
    BY SmsAssumption DEF Init, KnownOK, KnownEntry, NoKnown
  <1>3. HalfOK /\ FlagsOK /\ RunOK
    BY DEF Init, HalfOK, FlagsOK, RunOK
  <1>4. SendsOK
    BY NoTxAnswers DEF Init, SendsOK
  <1>5. SentOK /\ RxOK
    BY DEF Init, SentOK, RxOK
  <1>6. TopOK
    BY DEF Init, TopOK, OnceKnown, IsTop, NoKnown, Cleared
  <1>7. MidOK
    <2>1. current.rx = 0 BY DEF Init, Cleared
    <2>2. 0 % 3 = 0 OBVIOUS
    <2> QED BY <2>1, <2>2 DEF MidOK, Due
  <1> QED BY <1>1, <1>2, <1>3, <1>4, <1>5, <1>6, <1>7 DEF IInv

\* Every step keeps it.
LEMMA StepHolds == IInv /\ [Next]_vars => IInv'
  <1> SUFFICES ASSUME IInv, [Next]_vars PROVE IInv'
    OBVIOUS
  <1>1. ASSUME NEW p \in Phones, Open(p) \/ Ask(p) PROVE IInv'
    BY <1>1, PhoneStep
  <1>2. CASE Deliver
    <2>1. PICK m \in sent : \/ ReceiveNext(m) \/ ReceiveRepeat(m) \/ ReceiveLater(m)
                            \/ ReceiveOther(m) \/ ReceiveIgnored(m)
      BY <1>2 DEF Deliver
    <2> QED BY <2>1, NextStep, RepeatStep, LaterStep, OtherStep, IgnoredStep
  <1>3. CASE Reads
    BY <1>3, CloseStep, PartStep, CommandStep DEF Reads
  <1>4. CASE TimeOut \/ FoundOK \/ Prompt
    BY <1>4, TimeOutStep, OkStep, PromptStep
  <1>5. CASE UNCHANGED vars
    <2>1. /\ UNCHANGED <<current, known, rx, half, tx, responseSet, sendingResponse,
                         sendingResend, resendLastResponse, out, modem>>
          /\ UNCHANGED <<sent, answered, lastRun>>
      BY <1>5 DEF vars, deviceVars
    <2>2. CurrentOK' /\ KnownOK' /\ HalfOK' /\ FlagsOK' /\ RunOK' /\ SendsOK'
      BY <2>1 DEF IInv, CurrentOK, KnownOK, HalfOK, FlagsOK, RunOK, SendsOK
    <2>3. SentOK' /\ TopOK' /\ MidOK' /\ RxOK'
      BY <2>1 DEF IInv, SentOK, TopOK, MidOK, RxOK, Due, Writable
    <2> QED BY <2>2, <2>3 DEF IInv
  <1> QED BY <1>1, <1>2, <1>3, <1>4, <1>5 DEF Next

\* Every variable keeps its type: the connections, the buffers and what waits
\* to be sent are always ones the driver can be in.
THEOREM TypeCorrect == Spec => []TypeOK
  <1>1. IInv => TypeOK
    <2> SUFFICES ASSUME IInv PROVE TypeOK
      OBVIOUS
    <2>1. rx \in Seq(Messages \cup {Reset})
      <3>1. CASE rx = <<>> BY <3>1, EmptySeq
      <3>2. CASE rx # <<>>
        <4>1. PICK m \in sent : rx = <<m>> \/ rx = <<Reset, m>>
          BY <3>2 DEF IInv, RxOK
        <4>2. m \in Messages BY <4>1 DEF IInv, SentOK
        <4> DEFINE S == Messages \cup {Reset}
        <4>3. m \in S /\ Reset \in S BY <4>2
        <4> HIDE DEF S
        <4>4. <<m>> \in Seq(S) /\ <<Reset, m>> \in Seq(S) BY <4>3
        <4>5. rx \in Seq(S) BY <4>1, <4>4
        <4> QED BY <4>5 DEF S
      <3> QED BY <3>1, <3>2
    <2>2. tx \in Buffer /\ tx.idx <= tx.parts /\ out \in Outgoing \cup {NoSms}
      BY DEF IInv, SendsOK, Answers
    <2> QED
      BY <2>1, <2>2 DEF IInv, TypeOK, CurrentOK, KnownOK, HalfOK, FlagsOK, RunOK, SentOK,
                        Connection, KnownEntry, Buffer
  <1> QED BY <1>1, InitHolds, StepHolds, PTL DEF Spec

\* decodeSMS() finds the current phone at the top of the known ones, with the
\* number of its connection, and no phone twice, whatever has been received.
THEOREM CurrentIsKnown == Spec => []TopIsCurrent
  <1>1. IInv => TopIsCurrent
    <2> SUFFICES ASSUME IInv PROVE TopIsCurrent
      OBVIOUS
    <2>1. \A i, j \in 1 .. MaxKnown :
              known[i].phone = known[j].phone => i = j \/ known[i].phone = NoPhone
      BY DEF IInv, TopOK, OnceKnown
    <2>2. ASSUME current.phone # NoPhone
          PROVE  known[1] = [phone |-> current.phone, connectionNo |-> current.connectionNo]
      <3>1. known[1].phone = current.phone /\ known[1].connectionNo = current.connectionNo
        BY <2>2 DEF IInv, TopOK, IsTop
      <3>2. known[1] \in KnownEntry
        BY SmsAssumption DEF IInv, KnownOK
      <3> QED BY <3>1, <3>2 DEF KnownEntry
    <2> QED BY <2>1, <2>2 DEF TopIsCurrent
  <1> QED BY <1>1, InitHolds, StepHolds, PTL DEF Spec

\* However messages are repeated, delayed and lost, and whoever takes over:
\* when a command has been read, write() takes its response.
THEOREM ResponsesAreTaken == Spec => []ResponseIsTaken
  <1>1. IInv => ResponseIsTaken
    <2> SUFFICES ASSUME IInv, rx # <<>>, Head(rx) # Reset, ~Head(rx).close
                 PROVE  Writable
      BY DEF ResponseIsTaken
    <2>1. PICK m \in sent : (rx = <<m>> \/ rx = <<Reset, m>>) /\ (~m.close => Writable)
      BY DEF IInv, RxOK
    <2>2. Head(rx) = m
      BY <2>1, RxFacts
    <2> QED BY <2>1, <2>2
  <1> QED BY <1>1, InitHolds, StepHolds, PTL DEF Spec

--------------------------------------------------------------------------------
(* Commands run once and in order: what the driver knows of each phone.        *)

\* There is room for every phone among the known ones.
FewPhones == IsFiniteSet(Phones) /\ Cardinality(Phones) <= MaxKnown

\* No phone uses a number twice, and an old number of a careful one is never taken
\* for a new one: NewIsGreaterOldIsNot says for how many connections that is so.
OrderlyNumbers ==
    \A p \in Phones : \A i, j \in DOMAIN Numbers[p] : i < j =>
        /\ Numbers[p][i] # Numbers[p][j]
        /\ p \in Careful => ~newConnectionNumberGreater(Numbers[p][j], Numbers[p][i])

\* The command is one of the current connection.
Mine(c) == /\ c \in Commands /\ c.serial \in DOMAIN Numbers[c.phone]
           /\ c.phone = current.phone /\ Numbers[c.phone][c.serial] = current.connectionNo

\* Its phone, if it is a careful one, sent it after the last of its commands that was run.
New(c) == c.phone \in Careful => After(c, lastRun[c.phone])

\* no is the number of connection n of p, or of a later one.
AtLeast(p, n, no) == \E s \in DOMAIN Numbers[p] : Numbers[p][s] = no /\ n <= s

Unclosed  == current.rx # 0
Awaits(m) == rx \in {<<m>>, <<Reset, m>>}
Resets    == rx # <<>> /\ Head(rx) = Reset

\* The message that waits in rxBuffer.
Fits(m) == /\ current.rx = 3 * m.of.cmd + (IF m.last THEN 3 ELSE 1)
           /\ tx = NoTx
           /\ ~Resets /\ m.part = 0 => half = NoMsg
Waits(m) == Mine(m.of) /\ New(m.of) /\ (Unclosed => Fits(m))
Waiting  == \A m \in sent : Awaits(m) => Waits(m)

\* The half of a command that waits in the parser, unless a reset comes first.
HalfFits  == /\ Mine(half.of)
             /\ current.rx = 3 * half.of.cmd + (IF rx = <<>> THEN 1 ELSE 3)
HalfWaits == half # NoMsg /\ ~Resets =>
    /\ half.of \in Commands /\ half.of.phone = current.phone /\ New(half.of)
    /\ half.of.phone \in Careful => AtLeast(half.of.phone, half.of.serial, current.connectionNo)
    /\ Unclosed => HalfFits

\* What is sent answers the last command of the current connection.
TxFits == tx # NoTx /\ Unclosed => Mine(tx.of) /\ current.rx = 3 * tx.of.cmd + 3

\* What was run is counted by the current connection.
RunFits == \A p \in Careful :
    /\ lastRun[p] # NoCommand /\ current.phone = p /\ Unclosed
    /\ lastRun[p].serial \in DOMAIN Numbers[p]
    /\ Numbers[p][lastRun[p].serial] = current.connectionNo
    => 3 * lastRun[p].cmd + 3 <= current.rx

\* A careful phone of which a command was run is known, by the connection of that
\* command or by a later one.
Remembered(k) == \A p \in Careful :
    /\ lastRun[p] # NoCommand => \E i \in 1 .. MaxKnown : k[i].phone = p
    /\ \A i \in 1 .. MaxKnown :
          k[i].phone = p => AtLeast(p, lastRun[p].serial, k[i].connectionNo)

Ordered == Waiting /\ HalfWaits /\ TxFits /\ RunFits /\ Remembered(known)

--------------------------------------------------------------------------------

LEMMA CarefulPhones == \A p \in Careful : p \in Phones /\ \A i \in DOMAIN Numbers[p] : Numbers[p][i] # 0
  BY DEF Careful

LEMMA NumberTypes ==
    ASSUME NEW p \in Phones, NEW i \in DOMAIN Numbers[p]
    PROVE  i \in Nat /\ Numbers[p][i] \in 0 .. Modulus
  <1>1. Numbers[p] \in Seq(0 .. Modulus)
    BY SmsAssumption
  <1>2. DOMAIN Numbers[p] = 1 .. Len(Numbers[p]) /\ Len(Numbers[p]) \in Nat
    BY <1>1, LenProperties
  <1>3. Numbers[p][i] \in 0 .. Modulus
    BY <1>1, <1>2, ElementOfSeq
  <1>4. QED
    BY <1>2, <1>3

\* A number is that of one connection.
LEMMA OneSerial ==
    ASSUME OrderlyNumbers, NEW p \in Phones, NEW i \in DOMAIN Numbers[p], NEW j \in DOMAIN Numbers[p],
           Numbers[p][i] = Numbers[p][j]
    PROVE  i = j
  <1>1. i \in Nat /\ j \in Nat
    BY NumberTypes
  <1>2. ~(i < j) /\ ~(j < i)
    BY DEF OrderlyNumbers
  <1>3. QED
    BY <1>1, <1>2

\* A number that is greater is that of a later connection.
LEMMA GreaterIsLater ==
    ASSUME OrderlyNumbers, NEW p \in Careful, NEW i \in DOMAIN Numbers[p], NEW j \in DOMAIN Numbers[p],
           newConnectionNumberGreater(Numbers[p][i], Numbers[p][j])
    PROVE  i < j
  <1>1. p \in Phones
    BY CarefulPhones
  <1>2. i \in Nat /\ j \in Nat /\ Numbers[p][i] \in 0 .. Modulus /\ Modulus \in Nat
    BY <1>1, NumberTypes, SmsAssumption
  <1>3. ~(j < i)
    BY <1>1 DEF OrderlyNumbers
  <1>4. \A n \in 0 .. Modulus : ~newConnectionNumberGreater(n, n)
    BY <1>2 DEF newConnectionNumberGreater
  <1>5. i # j
    BY <1>2, <1>4
  <1>6. QED
    BY <1>2, <1>3, <1>5

LEMMA NextNumber ==
    ASSUME NEW k \in Nat, NEW part \in 0 .. 1, NEW last \in BOOLEAN, part # 0 => last
    PROVE  /\ NextExpected(3 * k + part, last) = 3 * k + (IF last THEN 3 ELSE 1)
           /\ NextExpected(3 * k + part, last) # 0
  <1>1. CASE last
    <2>1. (3 * k + part + 1) % 3 # 0 /\ (3 * k + part + 1) \div 3 = k
      OBVIOUS
    <2>2. NextExpected(3 * k + part, last) = (k + 1) * 3
      BY <1>1, <2>1 DEF NextExpected
    <2>3. (k + 1) * 3 = 3 * k + 3 /\ 3 * k + 3 # 0
      OBVIOUS
    <2>4. QED
      BY <1>1, <2>2, <2>3
  <1>2. CASE ~last
    <2>1. part = 0 /\ NextExpected(3 * k + part, last) = 3 * k + 1
      BY <1>2 DEF NextExpected
    <2>2. QED
      BY <1>2, <2>1
  <1>3. QED
    BY <1>1, <1>2

\* Only one message waits.
LEMMA OneAwaited ==
    ASSUME NEW s, NEW m, NEW n, s \in {<<m>>, <<Reset, m>>}, s \in {<<n>>, <<Reset, n>>}
    PROVE  m = n
  OBVIOUS

LEMMA ResetsFacts ==
    ASSUME NEW m, m # Reset
    PROVE  /\ rx = <<m>> => ~Resets /\ Awaits(m)
           /\ rx = <<Reset, m>> => Resets /\ Awaits(m)
           /\ rx = <<>> => ~Resets
           /\ Awaits(m) => rx # <<>>
  BY RxFacts DEF Resets, Awaits

LEMMA EmptyAwaits == \A m : rx = <<>> => ~Awaits(m) /\ ~Resets
  BY DEF Awaits, Resets

\* The fields of what phones send.
LEMMA CommandTypes ==
    ASSUME NEW c \in Commands
    PROVE  c.phone \in Phones /\ c.serial \in Nat \ {0} /\ c.cmd \in Nat
  BY DEF Commands

LEMMA MessageTypes ==
    ASSUME SentOK, NEW m \in sent
    PROVE  /\ m.part \in 0 .. 1 /\ m.last \in BOOLEAN /\ (m.part # 0 => m.last)
           /\ m.of.cmd \in Nat /\ MsgNo(m) = 3 * m.of.cmd + m.part /\ (m.close => m.last)
           /\ m.of \in Commands /\ m.of.phone \in Phones /\ m.of.serial \in DOMAIN Numbers[m.of.phone]
           /\ m # Reset
  <1>1. m \in Messages /\ WellFormed(m) /\ m.of \in Commands /\ m # Reset
    BY MessageFacts
  <1>2. QED
    BY <1>1, CommandTypes DEF Messages, WellFormed, MsgNo

\* Moving a phone to the top makes no other one forgotten when there is room for all.
LEMMA NoneEvicted ==
    ASSUME FewPhones, NEW k \in [1 .. MaxKnown -> KnownEntry], OnceKnown(k),
           NEW c \in Connection, c.phone # NoPhone,
           NEW i \in 1 .. MaxKnown, k[i].phone \notin {NoPhone, c.phone}
    PROVE  \E j \in 1 .. MaxKnown : MoveToTop(k, c)[j] = k[i]
  <1> USE SmsAssumption
  <1> DEFINE mine  == {h \in 1 .. MaxKnown : k[h].phone = c.phone}
             empty == {h \in 1 .. MaxKnown : k[h].phone = NoPhone}
             room  == IF mine # {} THEN mine ELSE empty
             Moves(h) == \A j \in 1 .. h : j \notin room
             t == MoveToTop(k, c)
  <1>1. \A h \in 2 .. MaxKnown : t[h] = IF Moves(h - 1) THEN k[h - 1] ELSE k[h]
    BY DEF MoveToTop
  <1>2. room # {}
    <2> SUFFICES ASSUME mine = {}, empty = {} PROVE FALSE
      OBVIOUS
    <2> DEFINE f == [h \in 1 .. MaxKnown |-> k[h].phone]
               T == Phones \ {c.phone}
    <2>1. \A h \in 1 .. MaxKnown : f[h] = k[h].phone /\ k[h].phone # NoPhone /\ f[h] \in T
      BY DEF KnownEntry
    <2>2. f \in [1 .. MaxKnown -> T]
      BY <2>1
    <2> HIDE DEF f
    <2>3. \A a, b \in 1 .. MaxKnown : f[a] = f[b] => a = b
      BY <2>1 DEF OnceKnown
    <2>4. f \in Injection(1 .. MaxKnown, T)
      BY <2>2, <2>3 DEF Injection, IsInjective
    <2>5. Cardinality(1 .. MaxKnown) = MaxKnown
      BY FS_Interval
    <2>6. c.phone \in Phones
      BY DEF Connection
    <2>7. IsFiniteSet(T) /\ Cardinality(T) = Cardinality(Phones) - 1
      BY <2>6, FS_RemoveElement DEF FewPhones
    <2>8. Cardinality(1 .. MaxKnown) <= Cardinality(T)
      BY <2>4, <2>7, FS_Injection
    <2>9. Cardinality(Phones) \in Nat
      BY FS_CardinalityType DEF FewPhones
    <2>10. QED
      BY <2>5, <2>7, <2>8, <2>9 DEF FewPhones
  <1>3. i \notin room
    OBVIOUS
  <1>4. PICK r \in 1 .. MaxKnown : r \in room
    BY <1>2
  <1> HIDE DEF room, t
  <1>5. CASE Moves(i)
    <2>1. i < r
      BY <1>4, <1>5
    <2>2. i + 1 \in 2 .. MaxKnown /\ (i + 1) - 1 = i
      BY <1>4, <2>1
    <2>3. t[i + 1] = k[i]
      BY <1>1, <1>5, <2>2
    <2>4. QED
      BY <2>2, <2>3 DEF t
  <1>6. CASE ~Moves(i)
    <2>1. PICK j \in 1 .. i : j \in room
      BY <1>6
    <2>2. j \in 1 .. i - 1 /\ i \in 2 .. MaxKnown
      BY <1>3, <2>1
    <2>3. t[i] = k[i]
      BY <1>1, <2>1, <2>2
    <2>4. QED
      BY <2>3 DEF t
  <1>7. QED
    BY <1>5, <1>6

\* It makes no entry of its own.
LEMMA MovedEntries ==
    ASSUME NEW k, NEW c, NEW i \in 1 .. MaxKnown
    PROVE  \/ i = 1 /\ MoveToTop(k, c)[i] = [phone |-> c.phone, connectionNo |-> c.connectionNo]
           \/ \E j \in 1 .. MaxKnown : MoveToTop(k, c)[i] = k[j]
  BY SmsAssumption DEF MoveToTop

--------------------------------------------------------------------------------
(* The steps that receive no message and read none. *)

LEMMA KeepsOrder ==
    ASSUME Ordered, UNCHANGED <<known, rx, half, sent, lastRun>>,
           current'.phone = current.phone, current'.connectionNo = current.connectionNo,
           current'.rx = current.rx,
           tx' = NoTx \/ (tx # NoTx /\ tx'.of = tx.of)
    PROVE  Ordered'
  <1>1. \A c : Mine(c)' <=> Mine(c)
    BY DEF Mine
  <1>2. (Unclosed' <=> Unclosed) /\ (Resets' <=> Resets) /\ (tx = NoTx => tx' = NoTx)
    BY DEF Unclosed, Resets
  <1>3. Waiting'
    BY <1>2 DEF Ordered, Waiting, Awaits, Waits, Fits, New, Mine
  <1>4. HalfWaits'
    BY <1>2 DEF Ordered, HalfWaits, HalfFits, New, Mine
  <1>5. TxFits'
    BY <1>2 DEF Ordered, TxFits, Mine
  <1>6. RunFits' /\ Remembered(known)'
    BY <1>2 DEF Ordered, RunFits, Remembered
  <1>7. QED
    BY <1>3, <1>4, <1>5, <1>6 DEF Ordered

\* What waits was sent before.
LEMMA SentMore ==
    ASSUME IInv, Ordered, UNCHANGED <<deviceVars, lastRun>>, sent \subseteq sent'
    PROVE  Ordered'
  <1>1. UNCHANGED <<current, known, rx, half, tx, lastRun>>
    BY DEF deviceVars
  <1>2. Waiting'
    <2> SUFFICES ASSUME NEW m \in sent', Awaits(m)' PROVE Waits(m)'
      BY DEF Waiting
    <2>1. Awaits(m)
      BY <1>1 DEF Awaits
    <2>2. PICK n \in sent : Awaits(n)
      <3>1. rx # <<>>
        BY <2>1, EmptyAwaits
      <3>2. QED
        BY <3>1 DEF IInv, RxOK, Awaits
    <2>3. m = n
      BY <2>1, <2>2, OneAwaited DEF Awaits
    <2>4. Waits(m)
      BY <2>2, <2>3 DEF Ordered, Waiting
    <2>5. QED
      BY <1>1, <2>4 DEF Waits, Fits, Mine, New, Unclosed, Resets
  <1>3. HalfWaits' /\ TxFits'
    BY <1>1 DEF Ordered, HalfWaits, HalfFits, TxFits, New, Mine, Unclosed, Resets
  <1>4. RunFits' /\ Remembered(known)'
    BY <1>1 DEF Ordered, RunFits, Remembered, Unclosed
  <1>5. QED
    BY <1>2, <1>3, <1>4 DEF Ordered

\* A careful phone is never forgotten on its own request.
LEMMA ForgottenRemembers ==
    ASSUME IInv, Remembered(known), NEW m \in sent
    PROVE  Remembered(Forgotten(m)) /\ (Phone(m) \in Careful => ~Erases(m))
  <1>1. Phone(m) \in Careful => ~Erases(m)
    <2>1. m.of.serial \in DOMAIN Numbers[m.of.phone]
      BY MessageTypes DEF IInv
    <2>2. QED
      BY <2>1, CarefulPhones DEF Erases, ConnectionNo, Phone
  <1>2. \A i \in 1 .. MaxKnown : known[i].phone \in Careful => Forgotten(m)[i] = known[i]
    BY <1>1 DEF Forgotten
  <1>3. \A i \in 1 .. MaxKnown : Forgotten(m)[i].phone \in Careful => Forgotten(m)[i] = known[i]
    <2>1. NoKnown.phone \notin Careful
      BY CarefulPhones, SmsAssumption DEF NoKnown
    <2>2. QED
      BY <2>1 DEF Forgotten
  <1>4. Remembered(Forgotten(m))
    <2> DEFINE k == Forgotten(m)
    <2> HIDE DEF k
    <2> SUFFICES ASSUME NEW p \in Careful
                 PROVE  /\ lastRun[p] # NoCommand => \E i \in 1 .. MaxKnown : k[i].phone = p
                        /\ \A i \in 1 .. MaxKnown :
                              k[i].phone = p => AtLeast(p, lastRun[p].serial, k[i].connectionNo)
      BY DEF Remembered, k
    <2>1. lastRun[p] # NoCommand => \E i \in 1 .. MaxKnown : k[i].phone = p
      BY <1>2 DEF Remembered, k
    <2>2. ASSUME NEW i \in 1 .. MaxKnown, k[i].phone = p
          PROVE  AtLeast(p, lastRun[p].serial, k[i].connectionNo)
      <3>1. k[i] = known[i]
        BY <1>3, <2>2 DEF k
      <3>2. known[i].phone = p
        BY <2>2, <3>1
      <3>3. AtLeast(p, lastRun[p].serial, known[i].connectionNo)
        BY <3>2 DEF Remembered
      <3>4. QED
        BY <3>1, <3>3
    <2>3. QED
      BY <2>1, <2>2
  <1>5. QED
    BY <1>1, <1>4

LEMMA IgnoredOrder ==
    ASSUME IInv, Ordered, NEW m \in sent, ReceiveIgnored(m)
    PROVE  Ordered'
  <1>1. /\ UNCHANGED <<current, rx, half, tx, lastRun, sent>> /\ known' = Forgotten(m)
    BY DEF ReceiveIgnored, Receive
  <1>2. Remembered(Forgotten(m))
    BY ForgottenRemembers DEF Ordered
  <1>3. Remembered(known)'
    BY <1>1, <1>2 DEF Remembered
  <1>4. Waiting'
    BY <1>1 DEF Ordered, Waiting, Awaits, Waits, Fits, New, Mine, Resets, Unclosed
  <1>5. HalfWaits' /\ TxFits' /\ RunFits'
    BY <1>1 DEF Ordered, HalfWaits, HalfFits, TxFits, RunFits, New, Mine, Resets, Unclosed
  <1>6. QED
    BY <1>3, <1>4, <1>5 DEF Ordered

--------------------------------------------------------------------------------
(* A message that is taken is newer than what its phone has had run. *)

LEMMA LastRunType ==
    ASSUME IInv, NEW p \in Phones
    PROVE  /\ lastRun[p] \in Commands \cup {NoCommand}
           /\ lastRun[p].serial \in Nat /\ lastRun[p].cmd \in Nat
           /\ lastRun[p] = NoCommand => lastRun[p].serial = 0
  BY CommandTypes DEF IInv, RunOK, NoCommand

\* The connection of the current phone is the one by which it is known.
LEMMA CurrentAtLeast ==
    ASSUME IInv, Ordered, NEW p \in Careful, current.phone = p
    PROVE  AtLeast(p, lastRun[p].serial, current.connectionNo)
  <1>1. p # NoPhone
    BY CarefulPhones, SmsAssumption
  <1>2. known[1].phone = p /\ known[1].connectionNo = current.connectionNo
    BY <1>1 DEF IInv, TopOK, IsTop
  <1>3. 1 \in 1 .. MaxKnown
    BY SmsAssumption
  <1>4. QED
    BY <1>2, <1>3 DEF Ordered, Remembered

LEMMA NextIsNew ==
    ASSUME IInv, Ordered, OrderlyNumbers, NEW m \in sent, IsNext(m)
    PROVE  Mine(m.of) /\ New(m.of) /\ Unclosed /\ current.rx = 3 * m.of.cmd + m.part
  <1>1. /\ m.of \in Commands /\ m.of.phone \in Phones /\ m.of.serial \in DOMAIN Numbers[m.of.phone]
        /\ m.of.cmd \in Nat /\ m.part \in 0 .. 1 /\ MsgNo(m) = 3 * m.of.cmd + m.part
    BY MessageTypes DEF IInv
  <1>2. /\ m.of.phone = current.phone /\ Numbers[m.of.phone][m.of.serial] = current.connectionNo
        /\ MsgNo(m) # 0 /\ MsgNo(m) = current.rx
    BY DEF IsNext, Continues, Same, Phone, ConnectionNo
  <1>3. Mine(m.of) /\ Unclosed
    BY <1>1, <1>2 DEF Mine, Unclosed
  <1>4. New(m.of)
    <2> DEFINE p == m.of.phone
    <2> SUFFICES ASSUME p \in Careful PROVE After(m.of, lastRun[p])
      BY DEF New
    <2> HIDE DEF p
    <2>1. p \in Phones /\ p = m.of.phone
      BY <1>1 DEF p
    <2>2. PICK s \in DOMAIN Numbers[p] : Numbers[p][s] = current.connectionNo /\ lastRun[p].serial <= s
      BY <1>2, <2>1, CurrentAtLeast DEF AtLeast
    <2>3. s = m.of.serial
      BY <1>1, <1>2, <2>1, <2>2, OneSerial
    <2>4. m.of.serial \in Nat \ {0}
      BY <1>1, CommandTypes
    <2>5. lastRun[p].serial \in Nat /\ lastRun[p].cmd \in Nat
          /\ (lastRun[p] = NoCommand => lastRun[p].serial = 0)
      BY <2>1, LastRunType
    <2>6. CASE lastRun[p].serial = m.of.serial
      <3>1. lastRun[p] # NoCommand
        BY <2>4, <2>5, <2>6
      <3>2. 3 * lastRun[p].cmd + 3 <= current.rx
        BY <1>2, <1>3, <2>1, <2>2, <2>3, <2>6, <3>1 DEF Ordered, RunFits
      <3>3. lastRun[p].cmd < m.of.cmd
        BY <1>1, <1>2, <2>5, <3>2
      <3>4. QED
        BY <2>6, <3>3, <2>5, <1>1 DEF After
    <2>7. CASE lastRun[p].serial # m.of.serial
      BY <2>2, <2>3, <2>4, <2>5, <2>7 DEF After
    <2>8. QED
      BY <2>6, <2>7
  <1>5. QED
    BY <1>1, <1>2, <1>3, <1>4

\* The first message of a connection that is later than those run before.
Opens(m) ==
    /\ MsgNo(m) = 0
    /\ m.of.phone \in Careful => lastRun[m.of.phone].serial < m.of.serial

LEMMA OpensNew ==
    ASSUME IInv, NEW m \in sent, Opens(m)
    PROVE  New(m.of) /\ m.of.cmd = 0 /\ m.part = 0
  <1>1. /\ m.of \in Commands /\ m.of.phone \in Phones
        /\ m.of.cmd \in Nat /\ m.part \in 0 .. 1 /\ MsgNo(m) = 3 * m.of.cmd + m.part
    BY MessageTypes DEF IInv
  <1>2. m.of.serial \in Nat /\ lastRun[m.of.phone].serial \in Nat
    BY <1>1, CommandTypes, LastRunType
  <1>3. New(m.of)
    BY <1>2 DEF Opens, New, After
  <1>4. QED
    BY <1>1, <1>3 DEF Opens

LEMMA LaterOpens ==
    ASSUME IInv, Ordered, OrderlyNumbers, NEW m \in sent, IsLater(m)
    PROVE  /\ Opens(m) /\ Phone(m) = current.phone
           /\ \A n \in Nat : Phone(m) \in Careful /\ AtLeast(Phone(m), n, current.connectionNo)
                                => n < m.of.serial
  <1>1. m.of.phone \in Phones /\ m.of.serial \in DOMAIN Numbers[m.of.phone]
    BY MessageTypes DEF IInv
  <1>2. /\ m.of.phone = current.phone /\ MsgNo(m) = 0
        /\ newConnectionNumberGreater(current.connectionNo, Numbers[m.of.phone][m.of.serial])
    BY DEF IsLater, Same, Phone, ConnectionNo
  <1>3. ASSUME NEW n \in Nat, m.of.phone \in Careful, AtLeast(m.of.phone, n, current.connectionNo)
        PROVE  n < m.of.serial
    <2>1. PICK s \in DOMAIN Numbers[m.of.phone] :
              Numbers[m.of.phone][s] = current.connectionNo /\ n <= s
      BY <1>3 DEF AtLeast
    <2>2. s < m.of.serial
      BY <1>1, <1>2, <1>3, <2>1, GreaterIsLater
    <2>3. s \in Nat /\ m.of.serial \in Nat
      BY <1>1, <2>1, NumberTypes
    <2>4. QED
      BY <2>1, <2>2, <2>3
  <1>4. ASSUME m.of.phone \in Careful PROVE lastRun[m.of.phone].serial < m.of.serial
    <2>1. AtLeast(m.of.phone, lastRun[m.of.phone].serial, current.connectionNo)
      BY <1>2, <1>4, CurrentAtLeast
    <2>2. lastRun[m.of.phone].serial \in Nat
      BY <1>1, LastRunType
    <2>3. QED
      BY <1>3, <1>4, <2>1, <2>2
  <1>5. QED
    BY <1>2, <1>3, <1>4 DEF Opens, Phone

LEMMA OtherOpens ==
    ASSUME IInv, Ordered, OrderlyNumbers, NEW m \in sent, IsOther(m)
    PROVE  Opens(m)
  <1>1. /\ m.of \in Commands /\ m.of.phone \in Phones /\ m.of.serial \in DOMAIN Numbers[m.of.phone]
    BY MessageTypes DEF IInv
  <1>2. m.of.serial \in Nat \ {0} /\ lastRun[m.of.phone].serial \in Nat
        /\ (lastRun[m.of.phone] = NoCommand => lastRun[m.of.phone].serial = 0)
    BY <1>1, CommandTypes, LastRunType
  <1>3. ASSUME m.of.phone \in Careful, lastRun[m.of.phone] # NoCommand
        PROVE  lastRun[m.of.phone].serial < m.of.serial
    <2> DEFINE p == m.of.phone
    <2>1. ~Erases(m)
      BY <1>3, ForgottenRemembers DEF Ordered, Phone
    <2>2. PICK i \in 1 .. MaxKnown : known[i].phone = p
      BY <1>3 DEF Ordered, Remembered
    <2>3. AtLeast(p, lastRun[p].serial, known[i].connectionNo)
      BY <1>3, <2>2 DEF Ordered, Remembered
    <2>4. newConnectionNumberGreater(known[i].connectionNo, Numbers[p][m.of.serial])
      BY <2>1, <2>2 DEF IsOther, KnownBy, Phone, ConnectionNo
    <2>5. PICK s \in DOMAIN Numbers[p] : Numbers[p][s] = known[i].connectionNo /\ lastRun[p].serial <= s
      BY <2>3 DEF AtLeast
    <2>6. s < m.of.serial
      BY <1>1, <1>3, <2>4, <2>5, GreaterIsLater
    <2>7. s \in Nat
      BY <1>1, <2>5, NumberTypes
    <2>8. QED
      BY <1>2, <2>5, <2>6, <2>7
  <1>4. m.of.phone \in Careful => lastRun[m.of.phone].serial < m.of.serial
    BY <1>2, <1>3
  <1>5. QED
    BY <1>4 DEF Opens, IsOther

--------------------------------------------------------------------------------
(* The steps that receive a message. *)

LEMMA NextOrder ==
    ASSUME IInv, Ordered, OrderlyNumbers, NEW m \in sent, ReceiveNext(m)
    PROVE  Ordered'
  <1>1. /\ Mine(m.of) /\ New(m.of) /\ Unclosed /\ current.rx = 3 * m.of.cmd + m.part
    BY NextIsNew DEF ReceiveNext
  <1>2. /\ m.part \in 0 .. 1 /\ m.last \in BOOLEAN /\ (m.part # 0 => m.last) /\ m.of.cmd \in Nat
        /\ (m.close => m.last) /\ m # Reset
    BY MessageTypes DEF IInv
  <1>3. /\ rx = <<>> /\ rx' = <<m>> /\ UNCHANGED <<known, half, sent, lastRun>>
    BY DEF ReceiveNext, Receive
  <1>4. ~Resets /\ ~Resets' /\ rx' # <<>>
    BY <1>2, <1>3, EmptyAwaits, RxFacts DEF Resets
  <1> DEFINE n == NextExpected(current.rx, m.last)
  <1>5. n = 3 * m.of.cmd + (IF m.last THEN 3 ELSE 1) /\ n # 0
    BY <1>1, <1>2, NextNumber
  <1>6. current \in Connection
    BY DEF IInv, CurrentOK
  <1>7. /\ current'.phone = current.phone /\ current'.connectionNo = current.connectionNo
        /\ m.part = 0 => tx' = NoTx
        /\ m.part # 0 => tx' = tx
        /\ IF m.part = 0 /\ m.close THEN current'.rx = 0 ELSE current'.rx = n
    <2> DEFINE c == [current EXCEPT !.rx = n]
    <2>1. c.phone = current.phone /\ c.connectionNo = current.connectionNo /\ c.rx = n
      BY <1>6 DEF Connection
    <2>2. \/ m.part = 0 /\ ~m.close /\ current' = [c EXCEPT !.timedOut = FALSE] /\ tx' = NoTx
          \/ m.part = 0 /\ m.close /\ current' = Closed(c) /\ tx' = NoTx
          \/ m.part # 0 /\ current' = c /\ tx' = tx
      BY DEF ReceiveNext
    <2>3. c = [phone |-> c.phone, connectionNo |-> c.connectionNo, rx |-> c.rx, tx |-> c.tx,
               newMsg |-> c.newMsg, resend |-> c.resend, timedOut |-> c.timedOut]
      BY <1>6 DEF Connection
    <2> HIDE DEF c, n
    <2>4. /\ Closed(c).phone = c.phone /\ Closed(c).connectionNo = c.connectionNo /\ Closed(c).rx = 0
      BY DEF Closed, Cleared
    <2>5. LET d == [c EXCEPT !.timedOut = FALSE]
          IN  d.phone = c.phone /\ d.connectionNo = c.connectionNo /\ d.rx = c.rx
      BY <2>3
    <2>6. QED
      BY <2>1, <2>2, <2>4, <2>5
  <1> HIDE DEF n
  <1>8. m.part = 0 => half = NoMsg
    <2> SUFFICES ASSUME m.part = 0, half # NoMsg PROVE FALSE
      OBVIOUS
    <2>1. half.of \in Commands /\ current.rx = 3 * half.of.cmd + 1
      BY <1>1, <1>3, <1>4 DEF Ordered, HalfWaits, HalfFits
    <2>2. half.of.cmd \in Nat
      BY <2>1, CommandTypes
    <2>3. QED
      BY <1>1, <1>2, <2>1, <2>2
  <1>9. m.part # 0 => tx = NoTx
    <2> SUFFICES ASSUME m.part # 0, tx # NoTx PROVE FALSE
      OBVIOUS
    <2>1. tx.of \in Commands /\ current.rx = 3 * tx.of.cmd + 3
      BY <1>1 DEF Ordered, TxFits, Mine
    <2>2. tx.of.cmd \in Nat /\ m.part = 1
      BY <1>2, <2>1, CommandTypes
    <2>3. QED
      BY <1>1, <1>2, <2>1, <2>2
  <1>10. tx' = NoTx
    BY <1>7, <1>9
  <1>11. \A c : (Mine(c)' <=> Mine(c)) /\ (New(c)' <=> New(c))
    BY <1>3, <1>7 DEF Mine, New
  <1>12. Unclosed' => current'.rx = n
    BY <1>7 DEF Unclosed
  <1>13. Waiting'
    <2> SUFFICES ASSUME NEW k \in sent', Awaits(k)' PROVE Waits(k)'
      BY DEF Waiting
    <2>1. k = m
      BY <1>3, OneAwaited DEF Awaits
    <2>2. Mine(m.of)' /\ New(m.of)'
      BY <1>1, <1>3, <1>7 DEF Mine, New
    <2>3. Unclosed' => Fits(m)'
      BY <1>3, <1>5, <1>8, <1>10, <1>12 DEF Fits
    <2>4. QED
      BY <2>1, <2>2, <2>3 DEF Waits
  <1>14. HalfWaits'
    <2> SUFFICES ASSUME half # NoMsg
                 PROVE  /\ half.of \in Commands /\ half.of.phone = current'.phone /\ New(half.of)'
                        /\ half.of.phone \in Careful
                              => AtLeast(half.of.phone, half.of.serial, current'.connectionNo)
                        /\ Unclosed' => HalfFits'
      BY <1>3 DEF HalfWaits
    <2>1. /\ half.of \in Commands /\ half.of.phone = current.phone /\ New(half.of)
          /\ half.of.phone \in Careful => AtLeast(half.of.phone, half.of.serial, current.connectionNo)
          /\ Mine(half.of) /\ current.rx = 3 * half.of.cmd + 1
      BY <1>1, <1>3, <1>4 DEF Ordered, HalfWaits, HalfFits
    <2>2. m.part = 1 /\ m.last /\ half.of.cmd \in Nat
      BY <1>2, <1>8, <2>1, CommandTypes
    <2>3. half.of.cmd = m.of.cmd
      <3>1. m.of.cmd \in Nat /\ half.of.cmd \in Nat /\ 3 * m.of.cmd + 1 = 3 * half.of.cmd + 1
        BY <1>1, <1>2, <2>1, <2>2
      <3>2. QED
        BY <3>1
    <2>4. n = 3 * half.of.cmd + 3
      BY <1>5, <2>2, <2>3
    <2>5. Mine(half.of)' /\ New(half.of)'
      BY <1>3, <1>7, <2>1 DEF Mine, New
    <2>6. Unclosed' => HalfFits'
      BY <1>3, <1>4, <1>12, <2>4, <2>5 DEF HalfFits
    <2>7. QED
      BY <1>7, <2>1, <2>5, <2>6
  <1>15. TxFits'
    BY <1>10 DEF TxFits
  <1>16. RunFits'
    <2> SUFFICES ASSUME NEW p \in Careful, lastRun[p] # NoCommand, current.phone = p, Unclosed',
                        lastRun[p].serial \in DOMAIN Numbers[p],
                        Numbers[p][lastRun[p].serial] = current.connectionNo
                 PROVE  3 * lastRun[p].cmd + 3 <= n
      BY <1>3, <1>7, <1>12 DEF RunFits
    <2>1. 3 * lastRun[p].cmd + 3 <= current.rx
      BY <1>1 DEF Ordered, RunFits
    <2>2. lastRun[p].cmd \in Nat
      BY CarefulPhones, LastRunType
    <2>3. QED
      BY <1>1, <1>2, <1>5, <2>1, <2>2
  <1>17. Remembered(known)'
    BY <1>3 DEF Ordered, Remembered
  <1>18. QED
    BY <1>13, <1>14, <1>15, <1>16, <1>17 DEF Ordered

\* A connection begins: nothing of it has been run.
LEMMA BeginsOrder ==
    ASSUME IInv, Ordered, OrderlyNumbers, NEW m \in sent, Opens(m),
           rx = <<>>, UNCHANGED <<half, sent, lastRun>>, tx' = NoTx,
           current'.phone = Phone(m), current'.connectionNo = ConnectionNo(m),
           m.close => current'.rx = 0,
           ~m.close => current'.rx = NextExpected(0, m.last),
           \/ rx' = <<Reset, m>>
           \/ /\ rx' = <<m>> /\ m.close /\ Phone(m) = current.phone
              /\ \A n \in Nat : Phone(m) \in Careful /\ AtLeast(Phone(m), n, current.connectionNo)
                                   => n < m.of.serial
    PROVE  Waiting' /\ HalfWaits' /\ TxFits' /\ RunFits'
  <1>1. /\ m.of \in Commands /\ m.of.phone \in Phones /\ m.of.serial \in DOMAIN Numbers[m.of.phone]
        /\ m.last \in BOOLEAN /\ (m.part # 0 => m.last) /\ m # Reset
    BY MessageTypes DEF IInv
  <1>2. New(m.of) /\ m.of.cmd = 0 /\ m.part = 0
    BY OpensNew
  <1>3. Mine(m.of)'
    BY <1>1 DEF Mine, Phone, ConnectionNo
  <1>4. NextExpected(0, m.last) = 3 * m.of.cmd + (IF m.last THEN 3 ELSE 1)
    <2>1. 0 \in Nat /\ 0 \in 0 .. 1 /\ 3 * 0 + 0 = 0
      OBVIOUS
    <2>2. NextExpected(3 * 0 + 0, m.last) = 3 * 0 + (IF m.last THEN 3 ELSE 1)
      BY <1>1, <2>1, NextNumber
    <2>3. QED
      BY <1>2, <2>1, <2>2
  <1>5. rx' # <<>> /\ (rx' = <<Reset, m>> => Resets') /\ ~Resets
    BY RxFacts, EmptyAwaits DEF Resets
  <1>6. Unclosed' => ~m.close
    BY DEF Unclosed
  <1>7. Waiting'
    <2> SUFFICES ASSUME NEW k \in sent', Awaits(k)' PROVE Waits(k)'
      BY DEF Waiting
    <2>1. k = m
      BY OneAwaited DEF Awaits
    <2>2. New(m.of)'
      BY <1>2 DEF New
    <2>3. Unclosed' => Fits(m)'
      BY <1>4, <1>5, <1>6 DEF Fits
    <2>4. QED
      BY <1>3, <2>1, <2>2, <2>3 DEF Waits
  <1>8. HalfWaits'
    <2> SUFFICES ASSUME half # NoMsg, ~Resets'
                 PROVE  /\ half.of \in Commands /\ half.of.phone = current'.phone /\ New(half.of)'
                        /\ half.of.phone \in Careful
                              => AtLeast(half.of.phone, half.of.serial, current'.connectionNo)
                        /\ Unclosed' => HalfFits'
      BY DEF HalfWaits
    <2>1. /\ m.close /\ Phone(m) = current.phone
          /\ \A n \in Nat : Phone(m) \in Careful /\ AtLeast(Phone(m), n, current.connectionNo)
                               => n < m.of.serial
      BY <1>5
    <2>2. /\ half.of \in Commands /\ half.of.phone = current.phone /\ New(half.of)
          /\ half.of.phone \in Careful => AtLeast(half.of.phone, half.of.serial, current.connectionNo)
      BY <1>5 DEF Ordered, HalfWaits
    <2>3. ASSUME half.of.phone \in Careful
          PROVE  AtLeast(half.of.phone, half.of.serial, current'.connectionNo)
      <3>1. half.of.serial \in Nat /\ m.of.serial \in Nat
        BY <1>1, <2>2, CommandTypes
      <3>2. half.of.serial < m.of.serial
        BY <2>1, <2>2, <2>3, <3>1
      <3>3. half.of.phone = m.of.phone
        BY <2>1, <2>2 DEF Phone
      <3>4. QED
        BY <1>1, <3>1, <3>2, <3>3 DEF AtLeast, ConnectionNo
    <2>4. New(half.of)'
      BY <2>2 DEF New
    <2>5. QED
      BY <1>6, <2>1, <2>2, <2>3, <2>4
  <1>9. TxFits'
    BY DEF TxFits
  <1>10. RunFits'
    <2> SUFFICES ASSUME NEW p \in Careful, m.of.phone = p,
                        lastRun[p].serial \in DOMAIN Numbers[p],
                        Numbers[p][lastRun[p].serial] = Numbers[p][m.of.serial]
                 PROVE  FALSE
      BY DEF RunFits, Phone, ConnectionNo
    <2>1. lastRun[p].serial = m.of.serial
      BY <1>1, OneSerial
    <2>2. lastRun[p].serial < m.of.serial
      BY DEF Opens
    <2>3. m.of.serial \in Nat
      BY <1>1, CommandTypes
    <2>4. QED
      BY <2>1, <2>2, <2>3
  <1>11. QED
    BY <1>7, <1>8, <1>9, <1>10

\* The fields of a connection that begins, or that begins with its end.
LEMMA BeginsConnection ==
    ASSUME IInv, NEW m \in sent,
           IF m.close THEN current' = Closed(Decoded(m))
                      ELSE current' = [Decoded(m) EXCEPT !.timedOut = FALSE]
    PROVE  /\ current'.phone = Phone(m) /\ current'.connectionNo = ConnectionNo(m)
           /\ m.close => current'.rx = 0
           /\ ~m.close => current'.rx = NextExpected(0, m.last)
  BY DEF Closed, Decoded, Cleared

LEMMA LaterOrder ==
    ASSUME IInv, Ordered, OrderlyNumbers, NEW m \in sent, ReceiveLater(m)
    PROVE  Ordered'
  <1>1. /\ Opens(m) /\ Phone(m) = current.phone
        /\ \A n \in Nat : Phone(m) \in Careful /\ AtLeast(Phone(m), n, current.connectionNo)
                             => n < m.of.serial
    BY LaterOpens DEF ReceiveLater
  <1>2. /\ rx = <<>> /\ UNCHANGED <<half, sent, lastRun>> /\ tx' = NoTx
        /\ known' = [known EXCEPT ![1].connectionNo = ConnectionNo(m)]
        /\ IF m.close THEN current' = Closed(Decoded(m)) /\ rx' = <<m>>
           ELSE current' = [Decoded(m) EXCEPT !.timedOut = FALSE] /\ rx' = <<Reset, m>>
    BY DEF ReceiveLater, Receive
  <1>3. /\ current'.phone = Phone(m) /\ current'.connectionNo = ConnectionNo(m)
        /\ m.close => current'.rx = 0
        /\ ~m.close => current'.rx = NextExpected(0, m.last)
    <2>1. m.close \in BOOLEAN
      BY MessageFacts DEF IInv
    <2>2. QED
      BY <1>2, <2>1, BeginsConnection
  <1>4. Waiting' /\ HalfWaits' /\ TxFits' /\ RunFits'
    <2>1. rx' = <<Reset, m>> \/ (rx' = <<m>> /\ m.close)
      BY <1>2
    <2>2. QED
      BY <1>1, <1>2, <1>3, <2>1, BeginsOrder
  <1>5. known \in [1 .. MaxKnown -> KnownEntry] /\ known[1].phone = Phone(m) /\ OnceKnown(known)
        /\ Phone(m) # NoPhone /\ 1 \in 1 .. MaxKnown
    BY <1>1, MessageFacts, SmsAssumption DEF IInv, KnownOK, TopOK, IsTop
  <1>6. /\ \A i \in 1 .. MaxKnown : known'[i].phone = known[i].phone
        /\ \A i \in 1 .. MaxKnown : i # 1 => known'[i] = known[i]
        /\ known'[1].connectionNo = ConnectionNo(m)
    <2>1. known[1] \in KnownEntry
      BY <1>5
    <2>2. LET e == [known[1] EXCEPT !.connectionNo = ConnectionNo(m)]
          IN  e.phone = known[1].phone /\ e.connectionNo = ConnectionNo(m)
      BY <2>1 DEF KnownEntry
    <2>3. known'[1] = [known[1] EXCEPT !.connectionNo = ConnectionNo(m)]
      BY <1>2, <1>5
    <2>4. \A i \in 1 .. MaxKnown : i # 1 => known'[i] = known[i]
      BY <1>2, <1>5
    <2>5. QED
      BY <2>2, <2>3, <2>4
  <1>7. m.of.serial \in DOMAIN Numbers[m.of.phone] /\ m.of.phone \in Phones
    BY MessageTypes DEF IInv
  <1>8. Remembered(known)'
    <2> SUFFICES ASSUME NEW p \in Careful
                 PROVE  /\ lastRun[p] # NoCommand => \E i \in 1 .. MaxKnown : known'[i].phone = p
                        /\ \A i \in 1 .. MaxKnown :
                              known'[i].phone = p => AtLeast(p, lastRun[p].serial, known'[i].connectionNo)
      BY <1>2 DEF Remembered
    <2>1. lastRun[p] # NoCommand => \E i \in 1 .. MaxKnown : known'[i].phone = p
      BY <1>6 DEF Ordered, Remembered
    <2>2. ASSUME NEW i \in 1 .. MaxKnown, known'[i].phone = p
          PROVE  AtLeast(p, lastRun[p].serial, known'[i].connectionNo)
      <3>1. CASE i # 1
        BY <1>6, <2>2, <3>1 DEF Ordered, Remembered
      <3>2. CASE i = 1
        <4>1. m.of.phone = p
          BY <1>5, <1>6, <2>2, <3>2 DEF Phone
        <4>2. lastRun[p].serial < m.of.serial
          BY <1>1, <4>1 DEF Opens
        <4>3. lastRun[p].serial \in Nat /\ m.of.serial \in Nat
          BY <1>7, <4>1, LastRunType, NumberTypes
        <4>4. Numbers[p][m.of.serial] = known'[1].connectionNo
          BY <1>6, <4>1 DEF ConnectionNo
        <4>5. QED
          BY <1>7, <3>2, <4>1, <4>2, <4>3, <4>4 DEF AtLeast
      <3>3. QED
        BY <3>1, <3>2
    <2>3. QED
      BY <2>1, <2>2
  <1>9. QED
    BY <1>4, <1>8 DEF Ordered

LEMMA OtherOrder ==
    ASSUME FewPhones, IInv, Ordered, OrderlyNumbers, NEW m \in sent, ReceiveOther(m)
    PROVE  Ordered'
  <1>1. Opens(m)
    BY OtherOpens DEF ReceiveOther
  <1>2. /\ rx = <<>> /\ UNCHANGED <<half, sent, lastRun>> /\ tx' = NoTx
        /\ known' = MoveToTop(Forgotten(m), Decoded(m)) /\ rx' = <<Reset, m>>
        /\ IF m.close THEN current' = Closed(Decoded(m))
           ELSE current' = [Decoded(m) EXCEPT !.timedOut = FALSE]
    BY DEF ReceiveOther, Receive
  <1>3. /\ current'.phone = Phone(m) /\ current'.connectionNo = ConnectionNo(m)
        /\ m.close => current'.rx = 0
        /\ ~m.close => current'.rx = NextExpected(0, m.last)
    BY <1>2, BeginsConnection
  <1>4. Waiting' /\ HalfWaits' /\ TxFits' /\ RunFits'
    BY <1>1, <1>2, <1>3, BeginsOrder
  <1> DEFINE k == Forgotten(m)
             c == Decoded(m)
  <1>5. /\ k \in [1 .. MaxKnown -> KnownEntry] /\ OnceKnown(k) /\ Remembered(k)
        /\ c \in Connection /\ c.phone = m.of.phone /\ c.connectionNo = Numbers[m.of.phone][m.of.serial]
        /\ c.phone # NoPhone
    BY ForgottenFacts, ForgottenRemembers, DecodedFacts, MessageFacts
    DEF IInv, TopOK, Ordered, Phone, ConnectionNo
  <1>6. m.of.serial \in DOMAIN Numbers[m.of.phone] /\ m.of.phone \in Phones
    BY MessageTypes DEF IInv
  <1> HIDE DEF k, c
  <1>7. known' = MoveToTop(k, c)
    BY <1>2 DEF k, c
  <1>8. 1 \in 1 .. MaxKnown
    BY SmsAssumption
  <1>9. Remembered(known)'
    <2> SUFFICES ASSUME NEW p \in Careful
                 PROVE  /\ lastRun[p] # NoCommand => \E i \in 1 .. MaxKnown : known'[i].phone = p
                        /\ \A i \in 1 .. MaxKnown :
                              known'[i].phone = p => AtLeast(p, lastRun[p].serial, known'[i].connectionNo)
      BY <1>2 DEF Remembered
    <2>1. p # NoPhone
      BY CarefulPhones, SmsAssumption
    <2>2. ASSUME lastRun[p] # NoCommand PROVE \E i \in 1 .. MaxKnown : known'[i].phone = p
      <3>1. CASE p = c.phone
        <4>1. IsTop(known', c)
          BY <1>5, <1>7, MoveToTopFacts
        <4>2. QED
          BY <1>5, <1>8, <3>1, <4>1 DEF IsTop
      <3>2. CASE p # c.phone
        <4>1. PICK i \in 1 .. MaxKnown : k[i].phone = p
          BY <1>5, <2>2 DEF Remembered
        <4>2. k[i].phone \notin {NoPhone, c.phone}
          BY <2>1, <3>2, <4>1
        <4>3. PICK j \in 1 .. MaxKnown : MoveToTop(k, c)[j] = k[i]
          BY <1>5, <4>2, NoneEvicted
        <4>4. QED
          BY <1>7, <4>1, <4>3
      <3>3. QED
        BY <3>1, <3>2
    <2>3. ASSUME NEW i \in 1 .. MaxKnown, known'[i].phone = p
          PROVE  AtLeast(p, lastRun[p].serial, known'[i].connectionNo)
      <3>1. CASE known'[i] = [phone |-> c.phone, connectionNo |-> c.connectionNo]
        <4>1. m.of.phone = p /\ known'[i].connectionNo = Numbers[p][m.of.serial]
          BY <1>5, <2>3, <3>1
        <4>2. lastRun[p].serial < m.of.serial
          BY <1>1, <4>1 DEF Opens
        <4>3. lastRun[p].serial \in Nat /\ m.of.serial \in Nat
          BY <1>6, <4>1, LastRunType, NumberTypes
        <4>4. QED
          BY <1>6, <4>1, <4>2, <4>3 DEF AtLeast
      <3>2. ASSUME NEW j \in 1 .. MaxKnown, known'[i] = k[j]
            PROVE  AtLeast(p, lastRun[p].serial, known'[i].connectionNo)
        <4>1. k[j].phone = p
          BY <2>3, <3>2
        <4>2. AtLeast(p, lastRun[p].serial, k[j].connectionNo)
          BY <1>5, <4>1 DEF Remembered
        <4>3. QED
          BY <3>2, <4>2
      <3>3. QED
        BY <1>7, <3>1, <3>2, MovedEntries
    <2>4. QED
      BY <2>2, <2>3
  <1>10. QED
    BY <1>4, <1>9 DEF Ordered

--------------------------------------------------------------------------------
(* The steps of the parser. *)

\* What the buffer holds, when it holds anything.
LEMMA FirstWaits ==
    ASSUME IInv, Ordered, rx # <<>>
    PROVE  \E m \in sent : /\ Awaits(m) /\ Waits(m) /\ m # Reset
                           /\ \/ rx = <<m>> /\ Head(rx) = m /\ Tail(rx) = <<>> /\ ~Resets
                              \/ rx = <<Reset, m>> /\ Head(rx) = Reset /\ Tail(rx) = <<m>> /\ Resets
  <1>1. PICK m \in sent : Awaits(m)
    BY DEF IInv, RxOK, Awaits
  <1>2. m # Reset
    BY MessageTypes DEF IInv
  <1>3. Waits(m)
    BY <1>1 DEF Ordered, Waiting
  <1>4. QED
    BY <1>1, <1>2, <1>3, RxFacts DEF Awaits, Resets

LEMMA CloseOrder ==
    ASSUME IInv, Ordered, ReadClose
    PROVE  Ordered'
  <1>1. /\ UNCHANGED <<known, tx, sent, lastRun>> /\ half' = NoMsg /\ rx' = Tail(rx) /\ rx # <<>>
        /\ current'.phone = current.phone /\ current'.connectionNo = current.connectionNo
        /\ current'.rx = current.rx
    BY TimedOutFacts DEF ReadClose, IInv, CurrentOK
  <1>2. Waiting'
    <2> SUFFICES ASSUME NEW k \in sent, Awaits(k)' PROVE Waits(k)'
      BY <1>1 DEF Waiting
    <2>1. PICK m \in sent : /\ Waits(m)
                            /\ Tail(rx) = <<>> \/ Tail(rx) = <<m>>
      BY <1>1, FirstWaits
    <2>2. rx' = <<m>>
      <3>1. \A n : <<n>> # <<>> /\ <<Reset, n>> # <<>>
        OBVIOUS
      <3>2. rx' # <<>>
        BY <3>1 DEF Awaits
      <3>3. QED
        BY <1>1, <2>1, <3>2
    <2>3. k = m
      BY <2>2, OneAwaited DEF Awaits
    <2>4. Mine(m.of)' /\ New(m.of)' /\ (Unclosed' => Fits(m)')
      BY <1>1, <2>1 DEF Waits, Mine, New, Unclosed, Fits
    <2>5. QED
      BY <2>3, <2>4 DEF Waits
  <1>3. HalfWaits'
    BY <1>1 DEF HalfWaits
  <1>4. TxFits' /\ RunFits' /\ Remembered(known)'
    BY <1>1 DEF Ordered, TxFits, RunFits, Remembered, Mine, Unclosed
  <1>5. QED
    BY <1>2, <1>3, <1>4 DEF Ordered

LEMMA PartOrder ==
    ASSUME IInv, Ordered, ReadPart
    PROVE  Ordered'
  <1>1. /\ UNCHANGED <<current, known, tx, sent, lastRun>>
        /\ half' = (IF half = NoMsg THEN Head(rx) ELSE half)
        /\ rx' = Tail(rx) /\ rx # <<>> /\ ~Head(rx).last
    BY DEF ReadPart, flagVars
  <1>2. Reset.last
    BY DEF Reset
  <1>3. PICK m \in sent : Awaits(m) /\ Waits(m) /\ Head(rx) = m /\ rx' = <<>> /\ ~Resets
    BY <1>1, <1>2, FirstWaits
  <1>4. m.of \in Commands /\ ~m.last /\ m.part = 0
    BY <1>1, <1>3, MessageTypes DEF IInv
  <1>5. Waiting' /\ ~Resets'
    BY <1>3, EmptyAwaits DEF Waiting, Awaits, Resets
  <1>6. \A c : (Mine(c)' <=> Mine(c)) /\ (New(c)' <=> New(c))
    BY <1>1 DEF Mine, New
  <1>7. HalfWaits'
    <2>1. CASE half = NoMsg
      <3>1. half' = m
        BY <1>1, <1>3, <2>1
      <3>2. Mine(m.of) /\ New(m.of) /\ (Unclosed => current.rx = 3 * m.of.cmd + 1)
        BY <1>3, <1>4 DEF Waits, Fits
      <3>3. m.of.phone \in Careful => AtLeast(m.of.phone, m.of.serial, current.connectionNo)
        <4>1. m.of.serial \in Nat /\ m.of.serial <= m.of.serial
          BY <1>4, CommandTypes
        <4>2. QED
          BY <3>2, <4>1 DEF AtLeast, Mine
      <3>4. Mine(m.of)' /\ New(m.of)'
        BY <1>1, <3>2 DEF Mine, New
      <3>5. QED
        BY <1>1, <1>3, <1>4, <3>1, <3>2, <3>3, <3>4 DEF HalfWaits, HalfFits, Unclosed, Mine
    <2>2. CASE half # NoMsg
      <3>1. ~Unclosed /\ ~Unclosed'
        BY <1>1, <1>3, <1>4, <2>2 DEF Waits, Fits, Unclosed
      <3>2. half' = half
        BY <1>1, <2>2
      <3>3. QED
        BY <1>1, <1>3, <2>2, <3>1, <3>2 DEF Ordered, HalfWaits, New
    <2>3. QED
      BY <2>1, <2>2
  <1>8. TxFits' /\ RunFits' /\ Remembered(known)'
    BY <1>1 DEF Ordered, TxFits, RunFits, Remembered, Mine, Unclosed
  <1>9. QED
    BY <1>5, <1>7, <1>8 DEF Ordered

LEMMA RunIsNew ==
    ASSUME IInv, Ordered, ReadCommand
    PROVE  /\ Run \in Commands /\ Run.phone = current.phone /\ New(Run) /\ rx' = <<>>
           /\ Run.phone \in Careful => AtLeast(Run.phone, Run.serial, current.connectionNo)
           /\ Unclosed => Mine(Run) /\ current.rx = 3 * Run.cmd + 3 /\ tx = NoTx
  <1>1. rx # <<>> /\ Head(rx) # Reset /\ Head(rx).last /\ rx' = Tail(rx)
    BY DEF ReadCommand
  <1>2. PICK m \in sent : Awaits(m) /\ Waits(m) /\ Head(rx) = m /\ rx' = <<>> /\ ~Resets
    BY <1>1, FirstWaits
  <1>3. m.of \in Commands /\ m.last
    BY <1>1, <1>2, MessageTypes DEF IInv
  <1>4. Unclosed => tx = NoTx /\ current.rx = 3 * m.of.cmd + 3
    BY <1>2, <1>3 DEF Waits, Fits
  <1>5. CASE half = NoMsg
    <2>1. Run = m.of
      BY <1>2, <1>5 DEF Run
    <2>2. Mine(m.of) /\ New(m.of)
      BY <1>2 DEF Waits
    <2>3. AtLeast(m.of.phone, m.of.serial, current.connectionNo)
      <3>1. m.of.serial \in Nat /\ m.of.serial <= m.of.serial
        BY <1>3, CommandTypes
      <3>2. QED
        BY <2>2, <3>1 DEF AtLeast, Mine
    <2>4. QED
      BY <1>2, <1>3, <1>4, <2>1, <2>2, <2>3 DEF Mine
  <1>6. CASE half # NoMsg
    <2>1. Run = half.of
      BY <1>6 DEF Run
    <2>2. QED
      BY <1>1, <1>2, <1>4, <1>6, <2>1 DEF Ordered, HalfWaits, HalfFits
  <1>7. QED
    BY <1>5, <1>6

\* sendNextSMS() and what its buffer answers.
LEMMA SendKeepsTx ==
    ASSUME NEW c, NEW b \in Buffer, SendNext(c, b)
    PROVE  tx'.of = b.of /\ (b = NoTx => tx' = NoTx)
  <1>1. CASE b.idx < b.parts
    <2>1. tx' = [b EXCEPT !.idx = @ + 1]
      BY <1>1 DEF SendNext
    <2>2. tx'.of = b.of
      BY <2>1 DEF Buffer
    <2>3. b # NoTx
      BY <1>1 DEF NoTx
    <2>4. QED
      BY <2>2, <2>3
  <1>2. CASE ~(b.idx < b.parts)
    BY <1>2 DEF SendNext
  <1>3. QED
    BY <1>1, <1>2

LEMMA CommandOrder ==
    ASSUME IInv, Ordered, ReadCommand
    PROVE  Ordered'
  <1> DEFINE c == Run
             r == [current EXCEPT !.tx = current.newMsg, !.resend = current.newMsg]
             b(n) == IF Writable THEN [of |-> c, parts |-> n, idx |-> 0]
                                 ELSE [tx EXCEPT !.parts = tx.idx, !.idx = 0]
  <1>1. /\ c \in Commands /\ c.phone = current.phone /\ New(c) /\ rx' = <<>>
        /\ c.phone \in Careful => AtLeast(c.phone, c.serial, current.connectionNo)
        /\ Unclosed => Mine(c) /\ current.rx = 3 * c.cmd + 3 /\ tx = NoTx
    BY RunIsNew
  <1>2. /\ half' = NoMsg /\ UNCHANGED <<known, sent>> /\ lastRun' = [lastRun EXCEPT ![c.phone] = c]
    BY DEF ReadCommand, Run
  <1>3. PICK n \in 1 .. MaxParts : SendNext(r, b(n))
    BY DEF ReadCommand, Run
  <1>4. /\ current'.phone = current.phone /\ current'.connectionNo = current.connectionNo
        /\ current'.rx = current.rx
    <2>1. current \in Connection /\ r \in Connection
      BY DEF IInv, CurrentOK, Connection
    <2>2. r.phone = current.phone /\ r.connectionNo = current.connectionNo /\ r.rx = current.rx
      BY <2>1 DEF Connection
    <2> HIDE DEF r, b
    <2>3. current' = r \/ current' = [r EXCEPT !.tx = @ + 1]
      BY <1>3 DEF SendNext
    <2>4. QED
      BY <2>1, <2>2, <2>3 DEF Connection
  <1> HIDE DEF r
  <1>5. c.phone \in Phones /\ c.cmd \in Nat
    BY <1>1, CommandTypes
  <1> HIDE DEF c
  <1>6. /\ lastRun'[c.phone] = c
        /\ \A p \in Careful : p # c.phone => lastRun'[p] = lastRun[p]
    BY <1>2, <1>5, CarefulPhones DEF IInv, RunOK
  <1>7. Waiting' /\ HalfWaits'
    BY <1>1, <1>2, EmptyAwaits DEF Waiting, Awaits, HalfWaits
  <1>8. TxFits'
    <2> SUFFICES ASSUME tx' # NoTx, Unclosed PROVE Mine(tx.of)' /\ current'.rx = 3 * tx'.of.cmd + 3
      BY <1>4 DEF TxFits, Unclosed
    <2>1. Writable
      <3> SUFFICES ASSUME ~Writable PROVE FALSE
        OBVIOUS
      <3>1. b(n) = [NoTx EXCEPT !.parts = NoTx.idx, !.idx = 0]
        BY <1>1
      <3>2. b(n) = NoTx
        BY <3>1 DEF NoTx
      <3>3. NoTx \in Buffer
        BY NoTxAnswers DEF Answers
      <3> HIDE DEF b
      <3>4. tx' = NoTx
        BY <1>3, <3>2, <3>3, SendKeepsTx
      <3>5. QED
        BY <3>4
    <2>2. b(n) = [of |-> c, parts |-> n, idx |-> 0]
      BY <2>1
    <2>3. b(n) \in Buffer /\ b(n).of = c
      <3>1. n \in 0 .. MaxParts /\ 0 \in 0 .. MaxParts
        BY SmsAssumption
      <3>2. [of |-> c, parts |-> n, idx |-> 0] \in Buffer
        BY <1>1, <3>1 DEF Buffer
      <3>3. QED
        BY <2>2, <3>2
    <2> HIDE DEF b
    <2>4. tx'.of = c
      BY <1>3, <2>3, SendKeepsTx
    <2>5. QED
      BY <1>1, <1>4, <2>4 DEF Mine
  <1>9. RunFits'
    <2> SUFFICES ASSUME NEW p \in Careful, current.phone = p, Unclosed
                 PROVE  3 * lastRun'[p].cmd + 3 <= current.rx
      BY <1>4 DEF RunFits, Unclosed
    <2>1. lastRun'[p] = c /\ current.rx = 3 * c.cmd + 3
      BY <1>1, <1>6
    <2>2. QED
      BY <1>5, <2>1
  <1>10. Remembered(known)'
    <2> SUFFICES ASSUME NEW p \in Careful
                 PROVE  /\ lastRun'[p] # NoCommand => \E i \in 1 .. MaxKnown : known[i].phone = p
                        /\ \A i \in 1 .. MaxKnown :
                              known[i].phone = p => AtLeast(p, lastRun'[p].serial, known[i].connectionNo)
      BY <1>2 DEF Remembered
    <2>1. CASE p # c.phone
      BY <1>6, <2>1 DEF Ordered, Remembered
    <2>2. CASE p = c.phone
      <3>1. current.phone = p /\ p # NoPhone /\ 1 \in 1 .. MaxKnown
        BY <1>1, <2>2, CarefulPhones, SmsAssumption
      <3>2. known[1].phone = p /\ known[1].connectionNo = current.connectionNo
        BY <3>1 DEF IInv, TopOK, IsTop
      <3>3. \A i \in 1 .. MaxKnown : known[i].phone = p => i = 1
        BY <3>1, <3>2 DEF IInv, TopOK, OnceKnown
      <3>4. AtLeast(p, lastRun'[p].serial, current.connectionNo)
        BY <1>1, <1>6, <2>2
      <3>5. QED
        BY <3>1, <3>2, <3>3, <3>4
    <2>3. QED
      BY <2>1, <2>2
  <1>11. QED
    BY <1>7, <1>8, <1>9, <1>10 DEF Ordered

--------------------------------------------------------------------------------

\* The dialogue with the modem keeps what the buffer answers.
LEMMA OkOrder ==
    ASSUME IInv, Ordered, FoundOK
    PROVE  Ordered'
  <1>1. UNCHANGED <<known, rx, half, sent, lastRun>>
    BY DEF FoundOK
  <1>2. tx \in Buffer /\ current \in Connection
    BY DEF IInv, SendsOK, Answers, CurrentOK
  <1>3. CASE UNCHANGED <<current, tx>>
    BY <1>1, <1>3, KeepsOrder
  <1>4. ASSUME NEW c \in Connection, NEW b \in Buffer, SendNext(c, b),
               c.phone = current.phone, c.connectionNo = current.connectionNo, c.rx = current.rx,
               b.of = tx.of, tx = NoTx => b = NoTx
        PROVE  Ordered'
    <2>1. tx'.of = tx.of /\ (tx = NoTx => tx' = NoTx)
      BY <1>4, SendKeepsTx
    <2>2. /\ current'.phone = c.phone /\ current'.connectionNo = c.connectionNo /\ current'.rx = c.rx
      <3>1. current' = c \/ current' = [c EXCEPT !.tx = @ + 1]
        BY <1>4 DEF SendNext
      <3>2. QED
        BY <1>4, <3>1 DEF Connection
    <2>3. QED
      BY <1>1, <1>4, <2>1, <2>2, KeepsOrder
  <1>5. CASE SendNext(current, tx)
    BY <1>2, <1>4, <1>5
  <1>6. CASE SendNext([current EXCEPT !.tx = current.resend], [tx EXCEPT !.idx = 0])
    <2> DEFINE c == [current EXCEPT !.tx = current.resend]
               b == [tx EXCEPT !.idx = 0]
    <2>1. c \in Connection /\ c.phone = current.phone /\ c.connectionNo = current.connectionNo
          /\ c.rx = current.rx
      BY <1>2 DEF Connection
    <2>2. 0 \in 0 .. MaxParts
      BY SmsAssumption
    <2>3. b \in Buffer /\ b.of = tx.of
      BY <1>2, <2>2 DEF Buffer
    <2>4. tx = NoTx => b = NoTx
      BY DEF NoTx
    <2> HIDE DEF c, b
    <2>5. SendNext(c, b)
      BY <1>6 DEF c, b
    <2>6. QED
      BY <1>4, <2>1, <2>3, <2>4, <2>5
  <1>7. QED
    BY <1>3, <1>5, <1>6 DEF FoundOK

LEMMA PromptOrder ==
    ASSUME IInv, Ordered, Prompt
    PROVE  Ordered'
  <1>1. UNCHANGED <<known, rx, half, sent, lastRun, tx>>
    BY DEF Prompt
  <1>2. current' = current \/ current' = CountsSent(current)
    BY DEF Prompt
  <1>3. /\ current'.phone = current.phone /\ current'.connectionNo = current.connectionNo
        /\ current'.rx = current.rx
    BY <1>2 DEF CountsSent, IInv, CurrentOK, Connection
  <1>4. QED
    BY <1>1, <1>3, KeepsOrder

LEMMA OrderedStep ==
    ASSUME FewPhones, OrderlyNumbers, IInv, Ordered, [Next]_vars
    PROVE  Ordered'
  <1>1. CASE \E p \in Phones : Open(p) \/ Ask(p)
    <2>1. UNCHANGED <<deviceVars, lastRun>> /\ sent \subseteq sent'
      BY <1>1 DEF Open, Ask
    <2>2. QED
      BY <2>1, SentMore
  <1>2. CASE Deliver
    <2>1. PICK m \in sent : ReceiveNext(m) \/ ReceiveRepeat(m) \/ ReceiveLater(m)
                            \/ ReceiveOther(m) \/ ReceiveIgnored(m)
      BY <1>2 DEF Deliver
    <2>2. CASE ReceiveRepeat(m)
      BY <2>2, KeepsOrder DEF ReceiveRepeat, Receive
    <2>3. QED
      BY <2>1, <2>2, NextOrder, LaterOrder, OtherOrder, IgnoredOrder
  <1>3. CASE TimeOut
    <2>1. /\ UNCHANGED <<known, rx, half, sent, lastRun, tx>>
          /\ current'.phone = current.phone /\ current'.connectionNo = current.connectionNo
          /\ current'.rx = current.rx
      BY <1>3, TimedOutFacts DEF TimeOut, IInv, CurrentOK
    <2>2. QED
      BY <2>1, KeepsOrder
  <1>4. CASE Reads
    BY <1>4, CloseOrder, PartOrder, CommandOrder DEF Reads
  <1>5. CASE FoundOK \/ Prompt
    BY <1>5, OkOrder, PromptOrder
  <1>6. CASE UNCHANGED vars
    BY <1>6, KeepsOrder DEF vars, deviceVars
  <1>7. QED
    BY <1>1, <1>2, <1>3, <1>4, <1>5, <1>6 DEF Next

LEMMA OrderedInit == Init => Ordered
  <1> SUFFICES ASSUME Init PROVE Ordered
    OBVIOUS
  <1>1. rx = <<>> /\ half = NoMsg /\ tx = NoTx /\ sent = {}
    BY DEF Init
  <1>2. Waiting /\ HalfWaits /\ TxFits
    BY <1>1 DEF Waiting, HalfWaits, TxFits
  <1>3. \A p \in Careful : lastRun[p] = NoCommand
    BY CarefulPhones DEF Init
  <1>4. RunFits
    BY <1>3 DEF RunFits
  <1>5. Remembered(known)
    <2>1. \A i \in 1 .. MaxKnown : known[i].phone = NoPhone
      BY DEF Init, NoKnown
    <2>2. NoPhone \notin Careful
      BY CarefulPhones, SmsAssumption
    <2>3. QED
      BY <1>3, <2>1, <2>2 DEF Remembered
  <1>6. QED
    BY <1>2, <1>4, <1>5 DEF Ordered

\* A repeated command is the one that the buffer answers.
LEMMA RepeatIsAnswered ==
    ASSUME IInv, Ordered, OrderlyNumbers, NEW m \in sent, ReceiveRepeat(m), tx # NoTx
    PROVE  tx.of = m.of
  <1>1. /\ m.of \in Commands /\ m.of.serial \in DOMAIN Numbers[m.of.phone] /\ m.of.phone \in Phones
        /\ m.of.cmd \in Nat /\ MsgNo(m) = 3 * m.of.cmd + m.part
    BY MessageTypes DEF IInv
  <1>2. /\ m.of.phone = current.phone /\ Numbers[m.of.phone][m.of.serial] = current.connectionNo
        /\ m.part = 0 /\ MsgNo(m) + 3 = current.rx
    BY DEF ReceiveRepeat, IsRepeat, Continues, Same, Phone, ConnectionNo
  <1>3. current.rx = 3 * m.of.cmd + 3 /\ Unclosed
    BY <1>1, <1>2 DEF Unclosed
  <1>4. Mine(tx.of) /\ current.rx = 3 * tx.of.cmd + 3
    BY <1>3 DEF Ordered, TxFits
  <1>5. tx.of \in Commands /\ tx.of.cmd \in Nat /\ tx.of.phone = m.of.phone
    BY <1>2, <1>4, CommandTypes DEF Mine
  <1>6. tx.of.cmd = m.of.cmd
    <2>1. 3 * m.of.cmd + 3 = 3 * tx.of.cmd + 3 /\ m.of.cmd \in Nat /\ tx.of.cmd \in Nat
      BY <1>1, <1>3, <1>4, <1>5
    <2>2. \A a, b \in Nat : 3 * a + 3 = 3 * b + 3 => a = b
      OBVIOUS
    <2>3. QED
      BY <2>1, <2>2
  <1>7. tx.of.serial = m.of.serial
    BY <1>1, <1>2, <1>4, <1>5, OneSerial DEF Mine
  <1>8. QED
    BY <1>1, <1>5, <1>6, <1>7 DEF Commands

\* With no more phones than the driver remembers, which number their connections in
\* order: whatever the network repeats, delays or loses, every command that is run was
\* sent after all that were run for its phone before, in one connection and from one to
\* the next, so that none runs again, and a repeated command is answered with the
\* response to that command.
THEOREM CommandsRunOnceInOrder ==
    ASSUME FewPhones, OrderlyNumbers
    PROVE  Spec => RunsOnceInOrder
  <1>1. IInv /\ Ordered /\ [Next]_vars => Ordered'
    BY OrderedStep
  <1>2. IInv /\ Ordered /\ [Next]_vars
          => [/\ ReadCommand /\ Run.phone \in Careful => After(Run, lastRun[Run.phone])
              /\ \A m \in sent : (ReceiveRepeat(m) /\ tx # NoTx) => tx.of = m.of]_vars
    BY RunIsNew, RepeatIsAnswered DEF New
  <1>3. QED
    BY <1>1, <1>2, InitHolds, StepHolds, OrderedInit, PTL DEF Spec, RunsOnceInOrder

--------------------------------------------------------------------------------
(* The numbers of a phone's connections, which go 1, 2, .. Modulus, 1, 2, ..  *)

Ahead(n, d) == IF n + d > Modulus THEN n + d - Modulus ELSE n + d

\* The window that newConnectionNumberGreater() leaves to the network: a number up
\* to Window connections ahead is new, over the wrap too, and one of the
\* Modulus - Window - 1 connections before the current one is old.  (For 4095 these
\* are 2046; the one 2047 connections back, which the comment above the function
\* counts among the ignored ones, is 2048 ahead over the wrap, and new.)
THEOREM NewIsGreaterOldIsNot ==
    ASSUME NEW n \in 1 .. Modulus, NEW d \in 1 .. Modulus - 1
    PROVE  /\ d <= Window => newConnectionNumberGreater(n, Ahead(n, d))
           /\ d < Modulus - Window => ~newConnectionNumberGreater(Ahead(n, d), n)
  <1> DEFINE w == Window
  <1>1. Modulus \in Nat \ {0} BY SmsAssumption
  <1>2. w \in Nat /\ w <= Modulus
    <2>1. (Modulus + 1) \div 2 \in Nat /\ (Modulus + 1) \div 2 <= Modulus BY <1>1, SMT
    <2> QED BY <2>1 DEF Window
  <1> HIDE DEF w
  <1> DEFINE m == Ahead(n, d)
  <1>3. CASE n + d > Modulus
    <2>1. m = n + d - Modulus BY <1>3 DEF Ahead
    <2> HIDE DEF m
    <2>2. m \in 1 .. Modulus /\ m < n /\ m + Modulus - n = d /\ n - m = Modulus - d BY <1>1, <1>3, <2>1
    <2>3. d <= w => newConnectionNumberGreater(n, m)
      BY <1>1, <1>2, <2>2 DEF newConnectionNumberGreater, w
    <2>4. d < Modulus - w => ~newConnectionNumberGreater(m, n)
      BY <1>1, <1>2, <2>2 DEF newConnectionNumberGreater, w
    <2> QED BY <2>3, <2>4 DEF m, w
  <1>4. CASE ~(n + d > Modulus)
    <2>1. m = n + d BY <1>4 DEF Ahead
    <2> HIDE DEF m
    <2>2. m \in 1 .. Modulus /\ n < m /\ m - n = d /\ n + Modulus - m = Modulus - d BY <1>1, <1>4, <2>1
    <2>3. d <= w => newConnectionNumberGreater(n, m)
      BY <1>1, <1>2, <2>2 DEF newConnectionNumberGreater, w
    <2>4. d < Modulus - w => ~newConnectionNumberGreater(m, n)
      BY <1>1, <1>2, <2>2 DEF newConnectionNumberGreater, w
    <2> QED BY <2>3, <2>4 DEF m, w
  <1> QED BY <1>3, <1>4

\* A phone that counts its connections up, over the wrap too, numbers them in order
\* for as many as the window leaves: what CommandsRunOnceInOrder assumes.
THEOREM CountingIsOrderly ==
    ASSUME \A p \in Phones : \E n \in 1 .. Modulus :
               /\ Len(Numbers[p]) <= Modulus - Window
               /\ \A i \in DOMAIN Numbers[p] : Numbers[p][i] = Ahead(n, i - 1)
    PROVE  OrderlyNumbers
  <1> SUFFICES ASSUME NEW p \in Phones, NEW i \in DOMAIN Numbers[p], NEW j \in DOMAIN Numbers[p], i < j
               PROVE  /\ Numbers[p][i] # Numbers[p][j]
                      /\ ~newConnectionNumberGreater(Numbers[p][j], Numbers[p][i])
    BY DEF OrderlyNumbers
  <1>1. PICK n \in 1 .. Modulus :
            /\ Len(Numbers[p]) <= Modulus - Window
            /\ \A h \in DOMAIN Numbers[p] : Numbers[p][h] = Ahead(n, h - 1)
    OBVIOUS
  <1>2. Modulus \in Nat \ {0} /\ Window \in Nat /\ Window >= 1
    <2>1. Modulus \in Nat \ {0}
      BY SmsAssumption
    <2>2. (Modulus + 1) \div 2 \in Nat /\ (Modulus + 1) \div 2 >= 1
      BY <2>1
    <2>3. QED
      BY <2>1, <2>2 DEF Window
  <1>3. i \in 1 .. Modulus - Window /\ j \in 1 .. Modulus - Window
    <2>1. Numbers[p] \in Seq(0 .. Modulus)
      BY SmsAssumption
    <2>2. i \in 1 .. Len(Numbers[p]) /\ j \in 1 .. Len(Numbers[p]) /\ Len(Numbers[p]) \in Nat
      BY <2>1, LenProperties
    <2>3. QED
      BY <1>1, <1>2, <2>2
  <1> DEFINE m == Ahead(n, i - 1)
             d == j - i
  <1>4. m \in 1 .. Modulus /\ d \in 1 .. Modulus - 1 /\ d < Modulus - Window
    BY <1>2, <1>3 DEF Ahead
  <1>5. Ahead(n, j - 1) = Ahead(m, d) /\ Ahead(m, d) # m
    BY <1>2, <1>3 DEF Ahead
  <1>6. Numbers[p][i] = m /\ Numbers[p][j] = Ahead(m, d)
    BY <1>1, <1>5
  <1> HIDE DEF m, d
  <1>7. ~newConnectionNumberGreater(Ahead(m, d), m)
    BY <1>4, NewIsGreaterOldIsNot
  <1>8. QED
    BY <1>5, <1>6, <1>7

--------------------------------------------------------------------------------
(* The coding of the messages: each has room for its part, what is read out *)
(* of it is that part, and a null ends the last one and no other.  First    *)
(* the characters and numbers.                                              *)

LEMMA Sixes ==
    \A x \in Nat : x = 64 * (x \div 64) + (x % 64) /\ x \div 64 \in Nat /\ x % 64 \in 0 .. 63
  BY SMT

LEMMA SixBitsComeBack ==
    ASSUME NEW c \in Nat
    PROVE  decodeSMSChar(encodeSMSChar(c)) = c % 64 /\ encodeSMSChar(c) \in Byte
  BY SMT, Sixes
     DEF decodeSMSChar, encodeSMSChar, Lower, Upper, Digits, Plus, Blank, Invalid, Byte

\* A number below 4096 is read as it was written, wherever it stands.
LEMMA NumberComesBack ==
    ASSUME NEW n \in Number, NEW chars, NEW idx \in Nat,
           chars[idx + 1] = encodeInt(n)[1], chars[idx + 2] = encodeInt(n)[2]
    PROVE  decodeInt(chars, idx) = n
  <1>1. n \in Nat /\ n \div 64 \in 0 .. 63 /\ n = 64 * (n \div 64) + (n % 64) /\ n % 64 \in 0 .. 63
    <2>1. n \in Nat /\ n < 4096
      BY DEF Number
    <2>2. /\ n = 64 * (n \div 64) + (n % 64)
          /\ n \div 64 \in Nat
          /\ n % 64 \in 0 .. 63
      BY <2>1, Sixes
    <2>3. \A q \in Nat, r \in 0 .. 63 : 64 * q + r < 4096 => q \in 0 .. 63
      OBVIOUS
    <2> QED
      BY <2>1, <2>2, <2>3
  <1>2. (n \div 64) % 64 = n \div 64
    <2>1. \A h \in 0 .. 63 : h % 64 = h BY SMT
    <2> QED BY <1>1, <2>1, Zenon
  <1>3. decodeSMSChar(chars[idx + 1]) = n \div 64
    BY <1>1, <1>2, SixBitsComeBack, SMT DEF encodeInt
  <1>4. decodeSMSChar(chars[idx + 2]) = n % 64
    BY <1>1, SixBitsComeBack, SMT DEF encodeInt
  <1> QED BY <1>1, <1>3, <1>4, SMT DEF decodeInt, Invalid

--------------------------------------------------------------------------------
(* Three bytes in four characters. *)

LEMMA ThreeBytesComeBack ==
    ASSUME NEW a \in Byte, NEW b \in Byte, NEW c \in Byte,
           NEW three, three = 65536 * a + 256 * b + c
    PROVE  /\ three \in Nat /\ three < 16777216
           /\ (three \div 65536) % 256 = a
           /\ (three \div 256) % 256 = b
           /\ (three \div 1) % 256 = c
  <1>1. three \in Nat /\ three < 16777216 BY SMT DEF Byte
  <1>2. three \div 65536 = a BY SMT DEF Byte
  <1>3. three \div 256 = 256 * a + b BY SMT DEF Byte
  <1>4. (256 * a + b) % 256 = b BY SMT DEF Byte
  <1>5. three % 256 = c /\ three \div 1 = three BY SMT DEF Byte
  <1>6. a % 256 = a BY SMT DEF Byte
  <1> QED BY <1>1, <1>2, <1>3, <1>4, <1>5, <1>6, SMT

LEMMA FourSlices ==
    ASSUME NEW three \in Nat, three < 16777216
    PROVE  /\ three = 262144 * ((three \div 262144) % 64) + 4096 * ((three \div 4096) % 64)
                        + 64 * ((three \div 64) % 64) + ((three \div 1) % 64)
           /\ three \div 262144 \in Nat /\ three \div 4096 \in Nat
           /\ three \div 64 \in Nat /\ three \div 1 \in Nat
  <1>1. /\ (three \div 64) \div 64 = three \div 4096
        /\ (three \div 4096) \div 64 = three \div 262144
        /\ three \div 1 = three
    BY SMT
  <1>2. three \div 64 \in Nat /\ three \div 4096 \in Nat /\ three \div 262144 \in Nat BY SMT
  <1>3. three \div 262144 < 64 BY SMT
  <1>4. (three \div 262144) % 64 = three \div 262144 BY <1>2, <1>3, SMT
  <1>5. three = 64 * (three \div 64) + (three % 64) BY Sixes
  <1>6. three \div 64 = 64 * (three \div 4096) + ((three \div 64) % 64) BY <1>1, <1>2, Sixes
  <1>7. three \div 4096 = 64 * (three \div 262144) + ((three \div 4096) % 64)
    BY <1>1, <1>2, Sixes
  <1>8. three % 64 \in Nat /\ (three \div 64) % 64 \in Nat /\ (three \div 4096) % 64 \in Nat
    BY <1>2, Sixes
  <1> QED BY <1>1, <1>2, <1>4, <1>5, <1>6, <1>7, <1>8, SMT

\* Where the characters are those of 24 bits, these are read.
LEMMA FourComesBack ==
    ASSUME NEW chars, NEW g \in Nat, NEW three \in Nat, three < 16777216,
           \A k \in 0 .. 3 : chars[4 + 4 * g + k + 1] = convertThree8Bytes(three, k)
    PROVE  Four(chars, g) = three /\ ~IsBad(chars, g)
  <1>1. /\ three = 262144 * ((three \div 262144) % 64) + 4096 * ((three \div 4096) % 64)
                     + 64 * ((three \div 64) % 64) + ((three \div 1) % 64)
        /\ three \div 262144 \in Nat /\ three \div 4096 \in Nat
        /\ three \div 64 \in Nat /\ three \div 1 \in Nat
    BY FourSlices
  <1>2. ASSUME NEW k \in 0 .. 3, three \div SixBits[k + 1] \in Nat
        PROVE  Six(chars, g, k) = (three \div SixBits[k + 1]) % 64
    <2>1. chars[4 + 4 * g + k + 1] = encodeSMSChar(three \div SixBits[k + 1])
      BY DEF convertThree8Bytes
    <2> QED BY <1>2, <2>1, SixBitsComeBack DEF Six
  <1>3. SixBits[1] = 262144 /\ SixBits[2] = 4096 /\ SixBits[3] = 64 /\ SixBits[4] = 1
    BY SMT DEF SixBits
  <1>4. Six(chars, g, 0) = (three \div 262144) % 64 BY <1>1, <1>2, <1>3, SMT
  <1>5. Six(chars, g, 1) = (three \div 4096) % 64 BY <1>1, <1>2, <1>3, SMT
  <1>6. Six(chars, g, 2) = (three \div 64) % 64 BY <1>1, <1>2, <1>3, SMT
  <1>7. Six(chars, g, 3) = (three \div 1) % 64 BY <1>1, <1>2, <1>3, SMT
  <1>8. /\ Six(chars, g, 0) \in 0 .. 63 /\ Six(chars, g, 1) \in 0 .. 63
        /\ Six(chars, g, 2) \in 0 .. 63 /\ Six(chars, g, 3) \in 0 .. 63
    BY <1>1, <1>4, <1>5, <1>6, <1>7, Sixes
  <1>9. /\ Six(chars, g, 0) % 64 = Six(chars, g, 0) /\ Six(chars, g, 1) % 64 = Six(chars, g, 1)
        /\ Six(chars, g, 2) % 64 = Six(chars, g, 2) /\ Six(chars, g, 3) % 64 = Six(chars, g, 3)
    BY <1>8, SMT
  <1>10. Four(chars, g) = three
    BY <1>1, <1>4, <1>5, <1>6, <1>7, <1>9, SMT DEF Four
  <1>11. ~IsBad(chars, g)
    BY <1>8, SMT DEF IsBad, Invalid
  <1> QED BY <1>10, <1>11

--------------------------------------------------------------------------------
(* One message. *)

\* A message takes something, has room for it, and is padded when it takes all.
LEMMA PartSize ==
    ASSUME NEW left \in Nat \ {0}
    PROVE  /\ Taken(left) \in 1 .. left /\ Size(left) \in 3 .. 117
           /\ Size(left) % 3 = 0 /\ Size(left) = 3 * (Size(left) \div 3)
           /\ Size(left) \div 3 \in 1 .. 39
           /\ Taken(left) = left => Taken(left) < Size(left)
           /\ Taken(left) # left => Taken(left) = Size(left)
           /\ Taken(left) <= Size(left)
  <1>1. CASE left > 117
    <2>1. Taken(left) = 117 /\ Size(left) = 117
      BY <1>1, SMT DEF Taken, Padding, Size, MAX_BYTES_TO_CONVERT
    <2> QED BY <1>1, <2>1, SMT
  <1>2. CASE left = 117
    <2>1. Taken(left) = 114 /\ Size(left) = 114
      BY <1>2, SMT DEF Taken, Padding, Size, MAX_BYTES_TO_CONVERT
    <2> QED BY <1>2, <2>1, SMT
  <1>3. CASE left < 117
    <2>1. Taken(left) = left /\ Size(left) = left + (3 - (left % 3))
      BY <1>3, SMT DEF Taken, Padding, Size, MAX_BYTES_TO_CONVERT
    <2>2. left = 3 * (left \div 3) + (left % 3) /\ left % 3 \in 0 .. 2 /\ left \div 3 \in 0 .. 38
      BY <1>3, SMT
    <2>3. Size(left) = 3 * ((left \div 3) + 1) BY <2>1, <2>2, SMT
    <2> QED BY <1>3, <2>1, <2>2, <2>3, SMT
  <1> QED BY <1>1, <1>2, <1>3, SMT

LEMMA BytesAreBytes ==
    ASSUME NEW text \in Seq(TextByte), NEW idx \in Nat, idx < Len(text), NEW i \in Nat \ {0}
    PROVE  /\ bytesToConvert(text, idx, i) \in Byte
           /\ bytesToConvert(text, idx, i) = 0 <=> i > Taken(Len(text) - idx)
           /\ i <= Taken(Len(text) - idx) => bytesToConvert(text, idx, i) = text[idx + i]
  <1>1. Len(text) \in Nat /\ Len(text) - idx \in Nat \ {0} BY LenProperties
  <1>2. Taken(Len(text) - idx) \in 1 .. Len(text) - idx BY <1>1, PartSize
  <1> DEFINE t == Taken(Len(text) - idx)
             b == bytesToConvert(text, idx, i)
  <1>3. b = IF i <= t THEN text[idx + i] ELSE 0 BY DEF bytesToConvert
  <1>4. t \in Nat BY <1>1, <1>2, SMT
  <1> HIDE DEF b
  <1>5. CASE i <= t
    <2>1. idx + i \in 1 .. Len(text) BY <1>1, <1>2, <1>5
    <2>2. text[idx + i] \in TextByte BY <2>1, ElementOfSeq
    <2>3. b = text[idx + i] BY <1>3, <1>5
    <2>4. b \in TextByte BY <2>2, <2>3, Zenon
    <2>5. b \in Byte /\ b # 0 BY <2>4 DEF Byte, TextByte
    <2>6. ~(i > t) BY <1>4, <1>5
    <2> QED BY <2>3, <2>5, <2>6 DEF b
  <1>6. CASE i > t
    <2>1. ~(i <= t) BY <1>4, <1>6
    <2>2. b = 0 BY <1>3, <2>1
    <2>3. b \in Byte BY <2>2 DEF Byte
    <2> QED BY <1>6, <2>1, <2>2, <2>3 DEF b
  <1> QED BY <1>4, <1>5, <1>6

LEMMA FunctionIsSeq ==
    ASSUME NEW S, NEW n \in Nat, NEW f \in [1 .. n -> S]
    PROVE  f \in Seq(S) /\ Len(f) = n
  <1>1. f \in Seq(S)
    <2>1. Seq(S) = UNION {[1 .. k -> S] : k \in Nat} BY SeqDef
    <2> QED BY <2>1
  <1>2. DOMAIN f = 1 .. n /\ DOMAIN f = 1 .. Len(f) /\ Len(f) \in Nat
    BY <1>1, LenProperties
  <1> QED BY <1>1, <1>2

LEMMA PairIsSeq ==
    ASSUME NEW S, NEW a \in S, NEW b \in S
    PROVE  <<a, b>> \in Seq(S) /\ Len(<<a, b>>) = 2
  OBVIOUS

LEMMA TwoPairs ==
    ASSUME NEW S, NEW a \in Seq(S), Len(a) = 2, NEW b \in Seq(S), Len(b) = 2
    PROVE  /\ a \o b \in Seq(S) /\ Len(a \o b) = 4
           /\ (a \o b)[1] = a[1] /\ (a \o b)[2] = a[2]
           /\ (a \o b)[3] = b[1] /\ (a \o b)[4] = b[2]
  <1>1. /\ a \o b \in Seq(S) /\ Len(a \o b) = Len(a) + Len(b)
        /\ \A j \in 1 .. Len(a) + Len(b) :
               (a \o b)[j] = IF j <= Len(a) THEN a[j] ELSE b[j - Len(a)]
    BY ConcatProperties
  <1> DEFINE c == a \o b
  <1> HIDE DEF c
  <1>2. \A j \in 1 .. 4 : c[j] = IF j <= 2 THEN a[j] ELSE b[j - 2] BY <1>1 DEF c
  <1>3. c[1] = a[1] /\ c[2] = a[2] /\ c[3] = b[1] /\ c[4] = b[2] BY <1>2
  <1> QED BY <1>1, <1>3 DEF c

\* The characters of a message: numbers in front, then four for every three bytes.
LEMMA Characters ==
    ASSUME NEW text \in Seq(TextByte), NEW idx \in Nat, idx < Len(text),
           NEW connectionNo \in Number, NEW msgNo \in Number
    PROVE  LET left == Len(text) - idx
               sms == encodeSMS(connectionNo, msgNo, text, idx).sms
           IN  /\ Len(sms) = 4 + 4 * (Size(left) \div 3)
               /\ sms[1] = encodeInt(msgNo)[1] /\ sms[2] = encodeInt(msgNo)[2]
               /\ sms[3] = encodeInt(connectionNo)[1] /\ sms[4] = encodeInt(connectionNo)[2]
               /\ \A j \in 1 .. 4 * (Size(left) \div 3) :
                      sms[4 + j] = convertThree8Bytes(three8Bytes(text, idx, (j - 1) \div 4),
                                                      (j - 1) % 4)
  <1> DEFINE left == Len(text) - idx
             n == 4 * (Size(left) \div 3)
             F(j) == convertThree8Bytes(three8Bytes(text, idx, (j - 1) \div 4), (j - 1) % 4)
             body == [j \in 1 .. n |-> F(j)]
             head == encodeInt(msgNo) \o encodeInt(connectionNo)
             sms == encodeSMS(connectionNo, msgNo, text, idx).sms
             S == {F(j) : j \in 1 .. n}
             H == {encodeInt(msgNo)[1], encodeInt(msgNo)[2],
                   encodeInt(connectionNo)[1], encodeInt(connectionNo)[2]}
  <1>1. Len(text) \in Nat /\ left \in Nat \ {0} BY LenProperties
  <1>2. n \in Nat
    <2> DEFINE q == Size(left) \div 3
    <2>1. q \in 1 .. 39 BY <1>1, PartSize
    <2> HIDE DEF q
    <2>2. 4 * q \in Nat BY <2>1
    <2> QED BY <2>2 DEF q
  <1>3. sms = head \o body
    <2>1. left # 0 BY <1>1
    <2>2. encodeSMS(connectionNo, msgNo, text, idx)
             = [sms |-> head \o body, next |-> idx + Taken(left)]
      BY <2>1, SMT DEF encodeSMS
    <2> HIDE DEF head, body
    <2> QED BY <2>2
  <1>4. /\ encodeInt(msgNo) \in Seq(H) /\ Len(encodeInt(msgNo)) = 2
        /\ encodeInt(connectionNo) \in Seq(H) /\ Len(encodeInt(connectionNo)) = 2
    BY PairIsSeq DEF encodeInt
  <1>5. head \in Seq(H) /\ Len(head) = 4
        /\ head[1] = encodeInt(msgNo)[1] /\ head[2] = encodeInt(msgNo)[2]
        /\ head[3] = encodeInt(connectionNo)[1] /\ head[4] = encodeInt(connectionNo)[2]
    <2> HIDE DEF H
    <2> QED BY <1>4, TwoPairs
  <1>6. \A j \in 1 .. n : body[j] = F(j) OBVIOUS
  <1>7. body \in [1 .. n -> S] OBVIOUS
  <1> HIDE DEF head, n, F, S, H, body, sms
  <1>8. body \in Seq(S) /\ Len(body) = n BY <1>2, <1>7, FunctionIsSeq
  <1>9. head \in Seq(H \cup S) /\ body \in Seq(H \cup S) BY <1>5, <1>8
  <1>10. /\ Len(sms) = Len(head) + Len(body)
         /\ \A j \in 1 .. Len(sms) : sms[j] = IF j <= Len(head) THEN head[j] ELSE body[j - Len(head)]
    BY <1>3, <1>9, ConcatProperties
  <1>11. Len(sms) = 4 + n /\ \A j \in 1 .. n : sms[4 + j] = F(j)
    BY <1>2, <1>5, <1>6, <1>8, <1>10
  <1>12. sms[1] = head[1] /\ sms[2] = head[2] /\ sms[3] = head[3] /\ sms[4] = head[4]
    BY <1>2, <1>5, <1>8, <1>10
  <1> QED BY <1>5, <1>11, <1>12 DEF n, F, sms

LEMMA ThirdOf ==
    ASSUME NEW i \in Nat \ {0}
    PROVE  \E g \in Nat, r \in 0 .. 2 : (i - 1) \div 3 = g /\ (i - 1) % 3 = r /\ i = 3 * g + r + 1
  <1> DEFINE j == i - 1
  <1>1. j \in Nat OBVIOUS
  <1> HIDE DEF j
  <1>2. j \div 3 \in Nat /\ j % 3 \in 0 .. 2 /\ j = 3 * (j \div 3) + (j % 3) BY <1>1, SMT
  <1>3. i = 3 * (j \div 3) + (j % 3) + 1 BY <1>2 DEF j
  <1> QED BY <1>2, <1>3 DEF j

LEMMA FourthOf ==
    ASSUME NEW g \in Nat, NEW k \in 0 .. 3, NEW j, j = 4 * g + k + 1
    PROVE  (j - 1) \div 4 = g /\ (j - 1) % 4 = k
  <1>1. j - 1 \in Nat /\ j - 1 = 4 * g + k OBVIOUS
  <1>2. (4 * g + k) \div 4 = g /\ (4 * g + k) % 4 = k BY SMT
  <1> QED BY <1>1, <1>2

\* Each byte of a message is read as it was put there.
LEMMA BytesComeBack ==
    ASSUME NEW text \in Seq(TextByte), NEW idx \in Nat, idx < Len(text),
           NEW connectionNo \in Number, NEW msgNo \in Number,
           NEW i \in 1 .. Size(Len(text) - idx)
    PROVE  LET sms == encodeSMS(connectionNo, msgNo, text, idx).sms
           IN  /\ ~IsBad(sms, (i - 1) \div 3)
               /\ ByteAt(sms, i) = bytesToConvert(text, idx, i)
  <1> DEFINE left == Len(text) - idx
             groups == Size(left) \div 3
             sms == encodeSMS(connectionNo, msgNo, text, idx).sms
  <1>1. left \in Nat \ {0} BY LenProperties
  <1>2. /\ Size(left) \in 3 .. 117 /\ Size(left) = 3 * groups /\ groups \in 1 .. 39
    BY <1>1, PartSize
  <1>3. i \in Nat \ {0} BY <1>2
  <1>4. PICK g \in Nat, r \in 0 .. 2 :
            (i - 1) \div 3 = g /\ (i - 1) % 3 = r /\ i = 3 * g + r + 1
    BY <1>3, ThirdOf, Zenon
  <1> DEFINE a == bytesToConvert(text, idx, 3 * g + 1)
             b == bytesToConvert(text, idx, 3 * g + 2)
             c == bytesToConvert(text, idx, 3 * g + 3)
             three == three8Bytes(text, idx, g)
  <1>5. g < groups
    <2> HIDE DEF groups
    <2> QED BY <1>2, <1>4
  <1>6. a \in Byte /\ b \in Byte /\ c \in Byte
    <2>1. 3 * g + 1 \in Nat \ {0} /\ 3 * g + 2 \in Nat \ {0} /\ 3 * g + 3 \in Nat \ {0}
      OBVIOUS
    <2> QED BY <2>1, BytesAreBytes
  <1>7. three = 65536 * a + 256 * b + c BY SMT DEF three8Bytes
  <1>8. /\ three \in Nat /\ three < 16777216 /\ (three \div 65536) % 256 = a
        /\ (three \div 256) % 256 = b /\ (three \div 1) % 256 = c
    <2> HIDE DEF a, b, c, three
    <2> QED BY <1>6, <1>7, ThreeBytesComeBack, SMT
  <1>9. ASSUME NEW k \in 0 .. 3
        PROVE  sms[4 + 4 * g + k + 1] = convertThree8Bytes(three, k)
    <2> DEFINE j == 4 * g + k + 1
    <2>1. j \in 1 .. 4 * groups
      <3> HIDE DEF groups
      <3> QED BY <1>2, <1>5
    <2>2. (j - 1) \div 4 = g /\ (j - 1) % 4 = k
      <3>1. j = 4 * g + k + 1 OBVIOUS
      <3> HIDE DEF j
      <3> QED BY <3>1, FourthOf, Zenon
    <2>3. sms[4 + j] = convertThree8Bytes(three8Bytes(text, idx, (j - 1) \div 4), (j - 1) % 4)
      <3> HIDE DEF j
      <3> QED BY <2>1, Characters, Zenon
    <2>4. 4 + j = 4 + 4 * g + k + 1 OBVIOUS
    <2> HIDE DEF sms
    <2> QED BY <2>2, <2>3, <2>4
  <1>10. Four(sms, g) = three /\ ~IsBad(sms, g)
    <2> HIDE DEF three, sms, groups
    <2>1. three \in Nat /\ three < 16777216 BY <1>8, SMT
    <2> QED BY <1>9, <2>1, FourComesBack, SMT
  <1>11. ByteAt(sms, i) = bytesToConvert(text, idx, i)
    <2>1. EightBits[1] = 65536 /\ EightBits[2] = 256 /\ EightBits[3] = 1 BY SMT DEF EightBits
    <2>2. ByteAt(sms, i) = (three \div EightBits[r + 1]) % 256
      <3> HIDE DEF sms, three
      <3> QED BY <1>4, <1>10, Zenon DEF ByteAt
    <2>3. CASE r = 0
      <3>1. 3 * g + 1 = i /\ r + 1 = 1 BY <1>4, <2>3
      <3>2. a = bytesToConvert(text, idx, i) BY <3>1
      <3> HIDE DEF a, sms, three
      <3>3. ByteAt(sms, i) = (three \div 65536) % 256 BY <2>1, <2>2, <3>1, SMT
      <3> QED BY <1>8, <3>2, <3>3, SMT
    <2>4. CASE r = 1
      <3>1. 3 * g + 2 = i /\ r + 1 = 2 BY <1>4, <2>4
      <3>2. b = bytesToConvert(text, idx, i) BY <3>1
      <3> HIDE DEF b, sms, three
      <3>3. ByteAt(sms, i) = (three \div 256) % 256 BY <2>1, <2>2, <3>1, SMT
      <3> QED BY <1>8, <3>2, <3>3, SMT
    <2>5. CASE r = 2
      <3>1. r + 1 = 3 BY <2>5
      <3>2. c = bytesToConvert(text, idx, i)
        <4>1. 3 * g + 3 = i BY <1>4, <2>5
        <4> QED BY <4>1
      <3> HIDE DEF c, sms, three
      <3>3. ByteAt(sms, i) = (three \div 1) % 256 BY <2>1, <2>2, <3>1, SMT
      <3> QED BY <1>8, <3>2, <3>3, SMT
    <2> QED BY <2>3, <2>4, <2>5
  <1> QED BY <1>4, <1>10, <1>11

LEMMA LengthOfMessage ==
    ASSUME NEW text \in Seq(TextByte), NEW idx \in Nat, idx < Len(text),
           NEW connectionNo \in Number, NEW msgNo \in Number
    PROVE  LET sms == encodeSMS(connectionNo, msgNo, text, idx).sms
           IN  validSMSmsgLen(sms) /\ BytesIn(sms) = Size(Len(text) - idx)
  <1> DEFINE left == Len(text) - idx
             q == Size(left) \div 3
             sms == encodeSMS(connectionNo, msgNo, text, idx).sms
  <1>1. left \in Nat \ {0} BY LenProperties
  <1>2. q \in 1 .. 39 /\ Size(left) = 3 * q BY <1>1, PartSize
  <1>3. Len(sms) = 4 + 4 * q BY Characters
  <1> HIDE DEF q, sms, left
  <1>4. Len(sms) # 0 /\ Len(sms) <= 160 /\ Len(sms) - 4 = 4 * q BY <1>2, <1>3
  <1>5. Len(sms) % 4 = 0 /\ (4 * q) \div 4 = q BY <1>2, <1>3, SMT
  <1>6. BytesIn(sms) = Size(left) BY <1>2, <1>4, <1>5 DEF BytesIn
  <1> QED BY <1>4, <1>5, <1>6 DEF validSMSmsgLen, sms, left

\* Reading stops behind the part that the message was made from.
LEMMA StopsBehindPart ==
    ASSUME NEW text \in Seq(TextByte), NEW idx \in Nat, idx < Len(text),
           NEW connectionNo \in Number, NEW msgNo \in Number, NEW length \in Nat,
           length + Taken(Len(text) - idx) < SMS_RX_BUFFER_SIZE
    PROVE  LET sms == encodeSMS(connectionNo, msgNo, text, idx).sms
           IN  Stop(sms, length) = Taken(Len(text) - idx) + 1
  <1> DEFINE left == Len(text) - idx
             size == Size(left)
             t == Taken(left)
             sms == encodeSMS(connectionNo, msgNo, text, idx).sms
  <1>1. left \in Nat \ {0} BY LenProperties
  <1>2. t \in 1 .. left /\ size \in 3 .. 117 /\ t <= size BY <1>1, PartSize
  <1>3. BytesIn(sms) = size BY LengthOfMessage
  <1>4. ASSUME NEW i \in 1 .. size
        PROVE  Ends(sms, length, i) <=> i > t
    <2>1. ~IsBad(sms, (i - 1) \div 3) /\ ByteAt(sms, i) = bytesToConvert(text, idx, i)
      BY BytesComeBack
    <2>2. i \in Nat \ {0} /\ (i <= t => ~(length + i >= SMS_RX_BUFFER_SIZE))
      <3>1. length + t < SMS_RX_BUFFER_SIZE /\ SMS_RX_BUFFER_SIZE \in Nat
        BY SMT DEF SMS_RX_BUFFER_SIZE
      <3> HIDE DEF size, t
      <3> QED BY <1>2, <3>1, SMT
    <2>3. bytesToConvert(text, idx, i) = 0 <=> i > t BY <2>2, BytesAreBytes
    <2>4. i <= t \/ i > t
      <3> HIDE DEF size, t
      <3> QED BY <1>2, <2>2
    <2> HIDE DEF sms, t
    <2> QED BY <2>1, <2>2, <2>3, <2>4 DEF Ends
  <1> DEFINE Is(i) == /\ i <= size => Ends(sms, length, i)
                      /\ \A j \in 1 .. i - 1 : ~Ends(sms, length, j)
  <1>5. Stop(sms, length) = CHOOSE i \in 1 .. size + 1 : Is(i)
    <2> HIDE DEF sms, size
    <2> QED BY <1>3 DEF Stop
  <1> HIDE DEF sms, size, t, left
  <1>6. t + 1 \in 1 .. size + 1 /\ Is(t + 1) BY <1>2, <1>4
  <1>7. ASSUME NEW i \in 1 .. size + 1, Is(i) PROVE i = t + 1
    <2>1. CASE i > t + 1
      <3>1. t + 1 \in 1 .. i - 1 /\ t + 1 \in 1 .. size BY <1>2, <2>1
      <3>2. Ends(sms, length, t + 1) BY <1>2, <1>4, <3>1
      <3> QED BY <1>7, <3>1, <3>2
    <2>2. CASE i <= t
      <3>1. i \in 1 .. size /\ ~(i > t) BY <1>2, <2>2
      <3>2. ~Ends(sms, length, i) BY <1>4, <3>1
      <3> QED BY <1>7, <3>1, <3>2
    <2> QED BY <1>2, <2>1, <2>2
  <1> HIDE DEF Is
  <1>8. (CHOOSE i \in 1 .. size + 1 : Is(i)) = t + 1 BY <1>6, <1>7
  <1> QED BY <1>5, <1>8 DEF sms, t, left

\* Whatever the text, however far it has been sent, and whatever the buffer holds that
\* it is read into, as long as there is room: a message has a valid length,
\* its numbers and its part of the text are read from it as encodeSMS() was given
\* them, "}" is found when it is there, and something of the text is taken.
THEOREM PartComesBack ==
    ASSUME NEW text \in Seq(TextByte), NEW idx \in Nat, idx < Len(text),
           NEW connectionNo \in Number, NEW msgNo \in Number, NEW length \in Nat,
           length + Taken(Len(text) - idx) < SMS_RX_BUFFER_SIZE
    PROVE  LET part == encodeSMS(connectionNo, msgNo, text, idx)
               read == decodeSMScmd(part.sms, length)
           IN  /\ validSMSmsgLen(part.sms)
               /\ decodeInt(part.sms, 0) = msgNo
               /\ decodeInt(part.sms, 2) = connectionNo
               /\ part.next \in idx + 1 .. Len(text)
               /\ read.text = SubSeq(text, idx + 1, part.next)
               /\ read.length = length + (part.next - idx)
               /\ read.found <=> \E i \in idx + 1 .. part.next : text[i] = 125
  <1> DEFINE left == Len(text) - idx
             t == Taken(left)
             part == encodeSMS(connectionNo, msgNo, text, idx)
             sms == part.sms
             read == decodeSMScmd(sms, length)
             body == [i \in 1 .. t |-> ByteAt(sms, i)]
  <1>1. Len(text) \in Nat /\ left \in Nat \ {0} BY LenProperties
  <1>2. t \in 1 .. left /\ t <= Size(left) /\ Size(left) \in 3 .. 117 BY <1>1, PartSize
  <1>3. validSMSmsgLen(sms) /\ BytesIn(sms) = Size(left) BY LengthOfMessage
  <1>4. Stop(sms, length) = t + 1 BY StopsBehindPart
  <1>5. part.next = idx + t
    <2>1. left # 0 BY <1>1
    <2>2. part.next = idx + Taken(left) BY <2>1, SMT DEF encodeSMS
    <2> QED BY <2>2
  <1>6. decodeInt(sms, 0) = msgNo /\ decodeInt(sms, 2) = connectionNo
    <2>1. /\ sms[0 + 1] = encodeInt(msgNo)[1] /\ sms[0 + 2] = encodeInt(msgNo)[2]
          /\ sms[2 + 1] = encodeInt(connectionNo)[1] /\ sms[2 + 2] = encodeInt(connectionNo)[2]
      <3>1. 0 + 1 = 1 /\ 0 + 2 = 2 /\ 2 + 1 = 3 /\ 2 + 2 = 4 OBVIOUS
      <3>2. /\ sms[1] = encodeInt(msgNo)[1] /\ sms[2] = encodeInt(msgNo)[2]
            /\ sms[3] = encodeInt(connectionNo)[1] /\ sms[4] = encodeInt(connectionNo)[2]
        BY Characters
      <3> HIDE DEF sms
      <3> QED BY <3>1, <3>2
    <2> HIDE DEF sms
    <2> QED BY <2>1, NumberComesBack
  <1>7. ASSUME NEW i \in 1 .. t
        PROVE  idx + i \in 1 .. Len(text) /\ ByteAt(sms, i) = text[idx + i]
    <2>1. i \in 1 .. Size(left) /\ i \in Nat \ {0} /\ i <= t /\ i <= left
      <3> DEFINE size == Size(left)
      <3>1. i \in 1 .. t /\ size \in 3 .. 117 /\ t <= size BY <1>2
      <3> HIDE DEF t, left, size
      <3>2. i \in 1 .. size BY <1>2, <3>1
      <3> QED BY <1>1, <1>2, <3>1, <3>2 DEF size
    <2>4. idx + i \in 1 .. Len(text) BY <1>1, <2>1
    <2>2. ByteAt(sms, i) = bytesToConvert(text, idx, i) BY <2>1, BytesComeBack
    <2>3. bytesToConvert(text, idx, i) = text[idx + i] BY <2>1, BytesAreBytes
    <2> QED BY <2>2, <2>3, <2>4
  <1> DEFINE stop == t + 1
  <1>8. stop - 1 = t /\ stop \in Nat \ {0} /\ stop > t /\ length + stop - 1 + 0 = length + t BY <1>2
  <1>9. stop <= Size(left) => ~IsBad(sms, (stop - 1) \div 3) /\ ByteAt(sms, stop) = 0
    <2> HIDE DEF t, stop
    <2> SUFFICES ASSUME stop <= Size(left)
                 PROVE  ~IsBad(sms, (stop - 1) \div 3) /\ ByteAt(sms, stop) = 0
      OBVIOUS
    <2>1. stop \in 1 .. Size(left) BY <1>2, <1>8
    <2>2. ~IsBad(sms, (stop - 1) \div 3) /\ ByteAt(sms, stop) = bytesToConvert(text, idx, stop)
      BY <2>1, BytesComeBack, Zenon
    <2>3. bytesToConvert(text, idx, stop) = 0 BY <1>8, BytesAreBytes DEF t
    <2> QED BY <2>2, <2>3
  <1>10. Stop(sms, length) = stop BY <1>4
  <1>11. read = [text |-> body, length |-> length + t, found |-> \E i \in DOMAIN body : body[i] = 125]
    <2> HIDE DEF sms, t, left, stop
    <2>1. ~(stop <= BytesIn(sms) /\ IsBad(sms, (stop - 1) \div 3))
      BY <1>3, <1>9, Zenon
    <2>2. ~(stop <= BytesIn(sms) /\ ByteAt(sms, stop) # 0)
      BY <1>3, <1>9, Zenon
    <2>3. read = [text   |-> [i \in 1 .. stop - 1 |-> ByteAt(sms, i)],
                  length |-> length + stop - 1 + 0,
                  found  |-> \E i \in DOMAIN [i \in 1 .. stop - 1 |-> ByteAt(sms, i)] :
                                 [j \in 1 .. stop - 1 |-> ByteAt(sms, j)][i] = 125]
      BY <1>3, <1>10, <2>1, <2>2, Zenon DEF decodeSMScmd
    <2> QED BY <1>8, <2>3, Zenon
  <1>12. /\ DOMAIN body = 1 .. t /\ body \in Seq(TextByte) /\ Len(body) = t
         /\ \A i \in 1 .. t : body[i] = text[idx + i]
    <2>1. \A i \in 1 .. t : text[idx + i] \in TextByte BY <1>7, ElementOfSeq
    <2> HIDE DEF t, sms
    <2>2. t \in Nat BY <1>2
    <2>3. body \in [1 .. t -> TextByte] /\ \A i \in 1 .. t : body[i] = text[idx + i]
      BY <1>7, <2>1
    <2> QED BY <2>2, <2>3, FunctionIsSeq
  <1> DEFINE next == idx + t
             sub == SubSeq(text, idx + 1, next)
  <1> HIDE DEF t, body, next
  <1>13. next \in idx + 1 .. Len(text) BY <1>1, <1>2 DEF next
  <1>14. body = sub
    <2>1. \A i \in idx + 1 .. next : text[i] \in TextByte BY <1>1, <1>13, ElementOfSeq
    <2>2. /\ sub \in Seq(TextByte) /\ Len(sub) = next - (idx + 1) + 1
          /\ \A i \in 1 .. next - (idx + 1) + 1 : sub[i] = text[idx + 1 + i - 1]
      BY <1>13, <2>1, SubSeqProperties
    <2>3. next - (idx + 1) + 1 = t /\ \A i \in 1 .. t : idx + 1 + i - 1 = idx + i
      BY <1>2 DEF next
    <2> HIDE DEF sub
    <2>4. Len(sub) = t /\ \A i \in 1 .. t : sub[i] = text[idx + i] BY <2>2, <2>3
    <2> QED BY <1>12, <2>2, <2>4, SeqEqual
  <1>15. (\E i \in 1 .. t : body[i] = 125) <=> \E i \in idx + 1 .. next : text[i] = 125
    <2>1. ASSUME NEW i \in idx + 1 .. next PROVE i - idx \in 1 .. t /\ idx + (i - idx) = i
      BY <1>2 DEF next
    <2>2. ASSUME NEW i \in 1 .. t PROVE idx + i \in idx + 1 .. next
      BY <1>2 DEF next
    <2> QED BY <1>12, <2>1, <2>2
  <1>16. read.text = body /\ read.length = length + t /\ (read.found <=> \E i \in 1 .. t : body[i] = 125)
    <2> HIDE DEF read
    <2> QED BY <1>11, <1>12
  <1>17. part.next = next /\ next - idx = t BY <1>2, <1>5 DEF next
  <1>18. read.length = length + (part.next - idx) BY <1>16, <1>17
  <1> HIDE DEF part, read
  <1> QED BY <1>3, <1>6, <1>13, <1>14, <1>15, <1>16, <1>17, <1>18 DEF part, read, sub

\* The message that takes the rest of a text has a null in it and no other has: by
\* it the receiver knows the end, also of a text that fills its last message.
THEOREM NullEndsTheLast ==
    ASSUME NEW text \in Seq(TextByte), NEW idx \in Nat, idx < Len(text),
           NEW connectionNo \in Number, NEW msgNo \in Number
    PROVE  LET part == encodeSMS(connectionNo, msgNo, text, idx)
           IN  (part.next = Len(text)) <=>
                   \E i \in 1 .. BytesIn(part.sms) : ByteAt(part.sms, i) = 0
  <1> DEFINE left == Len(text) - idx
             t == Taken(left)
             size == Size(left)
             part == encodeSMS(connectionNo, msgNo, text, idx)
             sms == part.sms
  <1>1. Len(text) \in Nat /\ left \in Nat \ {0} BY LenProperties
  <1>2. /\ t \in 1 .. left /\ size \in 3 .. 117 /\ t <= size
        /\ t = left => t < size
        /\ t # left => t = size
    BY <1>1, PartSize
  <1>3. BytesIn(sms) = size BY LengthOfMessage
  <1>4. part.next = Len(text) <=> t = left
    <2>1. left # 0 BY <1>1
    <2>2. part.next = idx + Taken(left) BY <2>1, SMT DEF encodeSMS
    <2> HIDE DEF part, t
    <2> QED BY <1>1, <1>2, <2>2 DEF t
  <1>5. ASSUME NEW i \in 1 .. size
        PROVE  ByteAt(sms, i) = 0 <=> i > t
    <2>1. ByteAt(sms, i) = bytesToConvert(text, idx, i) BY BytesComeBack
    <2>2. i \in Nat \ {0}
      <3> HIDE DEF size
      <3> QED BY <1>2
    <2>3. bytesToConvert(text, idx, i) = 0 <=> i > t BY <2>2, BytesAreBytes
    <2> QED BY <2>1, <2>3
  <1> HIDE DEF t, size, left, sms
  <1>6. (\E i \in 1 .. size : ByteAt(sms, i) = 0) <=> t < size
    <2>1. ASSUME t < size PROVE t + 1 \in 1 .. size /\ t + 1 > t BY <1>2, <2>1
    <2>2. ASSUME NEW i \in 1 .. size, i > t PROVE t < size BY <1>2, <2>2
    <2> QED BY <1>5, <2>1, <2>2
  <1>7. t = left <=> t < size BY <1>2
  <1> QED BY <1>3, <1>4, <1>6, <1>7 DEF sms

\* What Taken(left) may be.
Cut(left, t) ==
    \/ left > 117 /\ t = 117
    \/ left = 117 /\ t = 114
    \/ left < 117 /\ t = left

\* Three messages leave nothing of a text of fewer than 267 bytes.
LEMMA NotAFourth ==
    ASSUME NEW n \in Nat, n < 267, NEW i \in 0 .. n - 1, NEW j \in 0 .. n - 1,
           NEW x, NEW y, NEW z, Cut(n, x), Cut(n - i, y), Cut(n - j, z),
           i = x, j = i + y, j + z \in 0 .. n - 1
    PROVE  FALSE
  <1>1. i = 117
    BY DEF Cut
  <1>2. n - i < 150 /\ n - i > 0
    BY <1>1
  <1>3. y = 117 \/ y = 114 \/ y = n - i
    BY DEF Cut
  <1>4. j >= 231
    BY <1>1, <1>3
  <1>5. n - j < 117 /\ n - j \in Nat
    BY <1>4
  <1>6. z = n - j
    BY <1>5 DEF Cut
  <1> QED BY <1>6

\* A text that rxBuffer can hold goes out in at most three
\* messages; read one after the other into the buffer, they give the text back.
THEOREM TextComesBack ==
    ASSUME NEW text \in Seq(TextByte), Len(text) < SMS_RX_BUFFER_SIZE,
           NEW connectionNo \in Number, NEW m \in Nat, NEW msgNo \in [0 .. m -> Number],
           NEW idx, idx[0] = 0, idx[m] = Len(text),
           NEW rxBuffer, rxBuffer[0] = <<>>,
           \A k \in 0 .. m - 1 :
               LET part == encodeSMS(connectionNo, msgNo[k], text, idx[k])
               IN  /\ idx[k] < Len(text) /\ idx[k + 1] = part.next
                   /\ rxBuffer[k + 1] = rxBuffer[k] \o decodeSMScmd(part.sms, Len(rxBuffer[k])).text
    PROVE  m <= 3 /\ rxBuffer[m] = text
  <1> DEFINE n == Len(text)
             Read(k) == k <= m => idx[k] \in 0 .. n /\ rxBuffer[k] = SubSeq(text, 1, idx[k])
  <1>1. n \in Nat /\ n < 267
    BY LenProperties, SMT DEF SMS_RX_BUFFER_SIZE
  <1>2. ASSUME NEW k \in Nat, Read(k), k < m
        PROVE  Read(k + 1) /\ idx[k] \in 0 .. n - 1 /\ idx[k + 1] = idx[k] + Taken(n - idx[k])
    <2> DEFINE part == encodeSMS(connectionNo, msgNo[k], text, idx[k])
               read == decodeSMScmd(part.sms, Len(rxBuffer[k]))
    <2>1. k \in 0 .. m - 1 /\ k <= m /\ k \in 0 .. m
      BY <1>2
    <2>2. idx[k] < n /\ idx[k + 1] = part.next /\ rxBuffer[k + 1] = rxBuffer[k] \o read.text
      BY <2>1
    <2>3. idx[k] \in 0 .. n /\ rxBuffer[k] = SubSeq(text, 1, idx[k])
      BY <1>2, <2>1
    <2>4. idx[k] \in Nat /\ idx[k] \in 0 .. n - 1 /\ n - idx[k] \in Nat \ {0}
      BY <1>1, <2>2, <2>3
    <2>5. Len(rxBuffer[k]) = idx[k]
      BY <1>1, <2>3, <2>4, SubSeqProperties
    <2>6. Taken(n - idx[k]) \in 1 .. n - idx[k]
      <3> HIDE DEF n
      <3> QED BY <2>4, PartSize
    <2>7. Len(rxBuffer[k]) \in Nat /\ Len(rxBuffer[k]) + Taken(Len(text) - idx[k]) < SMS_RX_BUFFER_SIZE
      <3>1. idx[k] + Taken(n - idx[k]) <= n
        <4> HIDE DEF n
        <4> QED BY <1>1, <2>4, <2>6
      <3>2. idx[k] + Taken(n - idx[k]) \in Nat /\ n < SMS_RX_BUFFER_SIZE /\ SMS_RX_BUFFER_SIZE \in Nat
        BY <1>1, <2>4, <2>6, SMT DEF SMS_RX_BUFFER_SIZE
      <3> QED BY <1>1, <2>4, <2>5, <3>1, <3>2
    <2>8. msgNo[k] \in Number
      BY <2>1
    <2>9. part.next \in idx[k] + 1 .. n /\ read.text = SubSeq(text, idx[k] + 1, part.next)
      <3>1. \A i, length \in Nat, c \in Number :
                i < Len(text) /\ length + Taken(Len(text) - i) < SMS_RX_BUFFER_SIZE =>
                    LET message == encodeSMS(connectionNo, c, text, i)
                    IN  /\ message.next \in i + 1 .. Len(text)
                        /\ decodeSMScmd(message.sms, length).text = SubSeq(text, i + 1, message.next)
        BY PartComesBack
      <3>2. idx[k] < Len(text)
        BY <2>2
      <3> QED BY <2>4, <2>7, <2>8, <3>1, <3>2
    <2>10. part.next = idx[k] + Taken(n - idx[k])
      <3>1. ~(Len(text) - idx[k] = 0)
        BY <2>4
      <3> QED BY <3>1, SMT DEF encodeSMS
    <2> HIDE DEF part, read
    <2>11. rxBuffer[k + 1] = SubSeq(text, 1, part.next)
      <3> DEFINE i == idx[k]
                 next == part.next
      <3>1. i \in 0 .. n - 1 /\ next \in i + 1 .. n
        BY <2>4, <2>9
      <3> HIDE DEF i, next
      <3>2. 1 \in 1 .. n + 1 /\ i \in 1 - 1 .. n /\ next \in i .. n
        BY <1>1, <3>1
      <3>3. SubSeq(text, 1, i) \o SubSeq(text, i + 1, next) = SubSeq(text, 1, next)
        BY <3>2, ConcatAdjacentSubSeq
      <3> QED BY <2>2, <2>3, <2>9, <3>3 DEF i, next
    <2>12. idx[k + 1] \in 0 .. n
      <3> HIDE DEF n
      <3> QED BY <1>1, <2>2, <2>4, <2>9
    <2> QED BY <2>2, <2>4, <2>10, <2>11, <2>12
  <1>3. Read(0)
    <2>1. SubSeq(text, 1, 0) = <<>>
      BY SubSeqEmpty
    <2> QED BY <1>1, <2>1
  <1> HIDE DEF Read
  <1>4. m <= 3
    <2> SUFFICES ASSUME m > 3 PROVE FALSE
      OBVIOUS
    <2>1. 0 < m /\ 1 < m /\ 2 < m /\ 3 < m
      OBVIOUS
    <2>2. Read(1) /\ idx[1] = idx[0] + Taken(n - idx[0]) /\ idx[0] \in 0 .. n - 1
      BY <1>2, <1>3, <2>1
    <2>3. Read(2) /\ idx[2] = idx[1] + Taken(n - idx[1]) /\ idx[1] \in 0 .. n - 1
      BY <1>2, <2>1, <2>2
    <2>4. Read(3) /\ idx[3] = idx[2] + Taken(n - idx[2]) /\ idx[2] \in 0 .. n - 1
      BY <1>2, <2>1, <2>3
    <2>5. idx[3] \in 0 .. n - 1
      BY <1>2, <2>1, <2>4
    <2>6. ASSUME NEW left \in Nat
          PROVE  \/ left > 117 /\ Taken(left) = 117
                 \/ left = 117 /\ Taken(left) = 114
                 \/ left < 117 /\ Taken(left) = left
      <3>1. left > 117 => Taken(left) = 117
        BY SMT DEF Taken, MAX_BYTES_TO_CONVERT
      <3>2. left = 117 => Taken(left) = 114
        BY SMT DEF Taken, MAX_BYTES_TO_CONVERT
      <3>3. left < 117 => Taken(left) = left
        BY SMT DEF Taken, MAX_BYTES_TO_CONVERT
      <3> QED BY <3>1, <3>2, <3>3
    <2> DEFINE x == Taken(n - idx[0])
               y == Taken(n - idx[1])
               z == Taken(n - idx[2])
    <2>7. n - idx[0] \in Nat /\ n - idx[1] \in Nat /\ n - idx[2] \in Nat
      BY <1>1, <2>2, <2>3, <2>4
    <2>8. Cut(n - idx[0], x) /\ Cut(n - idx[1], y) /\ Cut(n - idx[2], z)
      BY <2>6, <2>7 DEF Cut
    <2>9. idx[0] = 0 /\ idx[1] = idx[0] + x /\ idx[2] = idx[1] + y /\ idx[3] = idx[2] + z
      BY <2>2, <2>3, <2>4
    <2> HIDE DEF x, y, z, n
    <2>10. n - idx[0] = n /\ x \in Int
      BY <1>1, <2>7, <2>8, <2>9 DEF Cut
    <2>11. Cut(n, x)
      BY <2>8, <2>10
    <2>12. idx[1] = x
      BY <2>9, <2>10
    <2>13. idx[1] \in 0 .. n - 1 /\ idx[2] \in 0 .. n - 1 /\ idx[2] + z \in 0 .. n - 1
      BY <2>3, <2>4, <2>5, <2>9
    <2> QED BY <1>1, <2>8, <2>9, <2>11, <2>12, <2>13, NotAFourth
  <1>5. Read(m)
    <2>1. m \in {0, 1, 2, 3}
      BY <1>4
    <2>2. 0 < m => Read(1)
      BY <1>2, <1>3
    <2>3. 1 < m => Read(2)
      <3> SUFFICES ASSUME 1 < m PROVE Read(2)
        OBVIOUS
      <3>1. 0 < m /\ 1 \in Nat /\ 1 + 1 = 2
        OBVIOUS
      <3> QED BY <1>2, <2>2, <3>1
    <2>4. 2 < m => Read(3)
      <3> SUFFICES ASSUME 2 < m PROVE Read(3)
        OBVIOUS
      <3>1. 1 < m /\ 2 \in Nat /\ 2 + 1 = 3
        OBVIOUS
      <3> QED BY <1>2, <2>3, <3>1
    <2> QED BY <1>3, <2>1, <2>2, <2>3, <2>4
  <1>6. SubSeq(text, 1, n) = text
    BY SubSeqFull
  <1> QED BY <1>4, <1>5, <1>6 DEF Read
================================================================================
