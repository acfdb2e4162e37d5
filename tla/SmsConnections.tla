----------------------------- MODULE SmsConnections -----------------------------
(***************************************************************************)
(* pfod over SMS: pfodSMS_SIM900.cpp between the modem and the parser.     *)
(* Commands and their responses are numbered SMS messages; a phone may be  *)
(* current, known from before, or new; another phone may connect when the  *)
(* current one is timed out.                                               *)
(*                                                                         *)
(* The network keeps what it was given: any message may arrive late, twice *)
(* or never.  A message stands for its bytes, and phones that match in the *)
(* last six digits are one phone.  The parser drains rxBuffer before the   *)
(* modem, which needs a dialogue of several lines for each, hands over the *)
(* next message.  Raw data and the lines of that dialogue are SmsModem's.  *)
(***************************************************************************)
EXTENDS Integers, Sequences

CONSTANTS
    Phones,
    NoPhone,        \* the empty returnPhNo
    MaxKnown,       \* MAX_KNOWN_CONNECTION
    Modulus,        \* 4095: connection numbers are compared modulo this
    Numbers,        \* the connection numbers each phone uses, in order
    MaxCommands,    \* bound: commands of a connection after the first
    MaxParts        \* SMS messages of a response

Window == (Modulus + 1) \div 2      \* 2048

ASSUME SmsAssumption ==
    /\ NoPhone \notin Phones /\ MaxKnown \in Nat \ {0} /\ Modulus \in Nat \ {0}
    /\ \A p \in Phones : Numbers[p] \in Seq(0 .. Modulus)
    /\ MaxCommands \in Nat /\ MaxParts \in Nat \ {0}

VARIABLES
    current,            \* *currentConnection
    known,              \* *knownArrayPtrs[0 .. MaxKnown - 1]
    rx,                 \* what is unread in rxBuffer
    half,               \* the first part of a command the parser is in, or NoMsg
    tx,                 \* txBuffer: the command it answers, its parts and txBufferIdx
    responseSet, sendingResponse, sendingResend, resendLastResponse,
    out,                \* responseSMSbuffer, or NoSms
    modem,              \* "free" (foundOK), "busy" (OK is awaited), "prompt" ("> " is)
    sent,               \* every message the phones have sent
    answered,           \* commands whose whole response has reached their phone
    lastRun             \* history: the last command run for each phone

bufferVars == <<rx, half>>
flagVars   == <<responseSet, sendingResponse, sendingResend, resendLastResponse>>
deviceVars == <<current, known, rx, half, tx, responseSet, sendingResponse,
                sendingResend, resendLastResponse, out, modem>>
vars == <<deviceVars, sent, answered, lastRun>>

--------------------------------------------------------------------------------
(* Messages. *)

Commands == [phone : Phones, serial : Nat \ {0}, cmd : Nat]
NoCommand == [phone |-> NoPhone, serial |-> 0, cmd |-> 0]

\* A message from a phone: part of a command, or "{!}" if it closes.
Messages ==
    [of : Commands, part : 0 .. 1, last : BOOLEAN, close : BOOLEAN]
NoMsg == [of |-> NoCommand, part |-> 0, last |-> FALSE, close |-> FALSE]
Reset == [of |-> NoCommand, part |-> 0, last |-> TRUE, close |-> TRUE]      \* 0xff

MsgNo(m) == 3 * m.of.cmd + m.part
Phone(m) == m.of.phone
ConnectionNo(m) == Numbers[m.of.phone][m.of.serial]

\* A message of the device.
Outgoing == [connectionNo : 0 .. Modulus, msgNo : Nat, of : Commands,
             part : 1 .. MaxParts, end : BOOLEAN]
NoSms == [connectionNo |-> 0, msgNo |-> 0, of |-> NoCommand, part |-> 0, end |-> FALSE]

\* Connections.  clearConnection() and closeConnection() are Cleared and Closed.
Cleared == [phone |-> NoPhone, connectionNo |-> 0, rx |-> 0, tx |-> 1,
            newMsg |-> 1, resend |-> 1, timedOut |-> TRUE]
Closed(c) == [Cleared EXCEPT !.phone = c.phone, !.connectionNo = c.connectionNo]

NoKnown == [phone |-> NoPhone, connectionNo |-> 0]

NoTx == [of |-> NoCommand, parts |-> 0, idx |-> 0]

TypeOK ==
    /\ current \in [phone : Phones \cup {NoPhone}, connectionNo : 0 .. Modulus,
                    rx : Nat, tx : Nat, newMsg : Nat, resend : Nat,
                    timedOut : BOOLEAN]
    /\ known \in [1 .. MaxKnown -> [phone : Phones \cup {NoPhone},
                                    connectionNo : 0 .. Modulus]]
    /\ rx \in Seq(Messages \cup {Reset}) /\ half \in Messages \cup {NoMsg}
    /\ tx \in [of : Commands \cup {NoCommand}, parts : 0 .. MaxParts, idx : 0 .. MaxParts]
    /\ tx.idx <= tx.parts
    /\ responseSet \in BOOLEAN /\ sendingResponse \in BOOLEAN
    /\ sendingResend \in BOOLEAN /\ resendLastResponse \in BOOLEAN
    /\ out \in Outgoing \cup {NoSms}
    /\ modem \in {"free", "busy", "prompt"}
    /\ sent \subseteq Messages /\ answered \subseteq Commands
    /\ lastRun \in [Phones -> Commands \cup {NoCommand}]

Init ==
    /\ current = Cleared /\ known = [i \in 1 .. MaxKnown |-> NoKnown]
    /\ rx = <<>> /\ half = NoMsg /\ tx = NoTx
    /\ responseSet = TRUE /\ sendingResponse = FALSE
    /\ sendingResend = FALSE /\ resendLastResponse = FALSE
    /\ out = NoSms /\ modem = "free"
    /\ sent = {} /\ answered = {} /\ lastRun = [p \in Phones |-> NoCommand]

--------------------------------------------------------------------------------
(* The phones. *)

\* What a phone sends for a command: one message, or two.
Whole(c, close) == {[of |-> c, part |-> 0, last |-> TRUE, close |-> close]}
Halves(c) == {[of |-> c, part |-> 0, last |-> FALSE, close |-> FALSE],
              [of |-> c, part |-> 1, last |-> TRUE, close |-> FALSE]}

\* The commands p has sent.
Asked(p)    == {c \in {m.of : m \in sent} : c.phone = p}
After(c, d) == c.serial > d.serial \/ (c.serial = d.serial /\ c.cmd > d.cmd)

\* p opens its next connection.
Open(p) ==
    /\ \E n \in DOMAIN Numbers[p], close \in BOOLEAN :
          /\ {c.serial : c \in Asked(p)} = 1 .. n - 1
          /\ sent' = sent \cup Whole([phone |-> p, serial |-> n, cmd |-> 0], close)
    /\ UNCHANGED <<deviceVars, answered, lastRun>>

\* p has seen the answer to its last command and sends the next, or it closes.
Ask(p) ==
    /\ \E c \in Asked(p) :
          /\ \A d \in Asked(p) \ {c} : After(c, d)
          /\ c.cmd < MaxCommands
          /\ \A m \in sent : m.of = c => ~m.close
          /\ LET next == [c EXCEPT !.cmd = @ + 1]
             IN  \/ c \in answered /\ sent' \in {sent \cup Whole(next, FALSE), sent \cup Halves(next)}
                \/ sent' = sent \cup Whole(next, TRUE)
    /\ UNCHANGED <<deviceVars, answered, lastRun>>

--------------------------------------------------------------------------------
(* decodeSMS(). *)

\* newConnectionNumberGreater()
EqualIsGreater(old, new) ==                                     \* mutant
    (IF new < old THEN new + Modulus ELSE new) - old <= Window
newConnectionNumberGreater(old, new) ==
    \/ new = 0 /\ old # 0
    \/ LET d == (IF new < old THEN new + Modulus ELSE new) - old
       IN  0 < d /\ d <= Window

\* setNextExpectedConnectionMsgNo()
NextExpected(n, last) ==
    IF last /\ (n + 1) % 3 # 0 THEN ((n + 1) \div 3 + 1) * 3 ELSE n + 1

\* findMatchingKnownPhoneNo(): the number by which a phone is known, if it is.
KnownBy(p) == {known[i].connectionNo : i \in {i \in 1 .. MaxKnown : known[i].phone = p}}

\* Message 0 of connection 0 makes the device forget its phone.
Erases(m) == ConnectionNo(m) = 0 /\ MsgNo(m) = 0 /\ KnownBy(Phone(m)) # {}
Forgotten(m) ==
    [i \in 1 .. MaxKnown |->
        IF Erases(m) /\ known[i].phone = Phone(m) THEN NoKnown ELSE known[i]]

Same(m) == Phone(m) = current.phone /\ ~Erases(m)
Continues(m) == Same(m) /\ ConnectionNo(m) = current.connectionNo

\* The message is the next one of the current connection, or a repetition of
\* the last command of it.
IsNext(m)   == Continues(m) /\ MsgNo(m) # 0 /\ MsgNo(m) = current.rx
IsRepeat(m) == Continues(m) /\ m.part = 0 /\ MsgNo(m) + 3 = current.rx

\* It opens a later connection of the current phone, or one of another phone:
\* one not known, or known by a lower number.
IsLater(m) ==
    /\ Same(m) /\ ~Continues(m) /\ MsgNo(m) = 0
    /\ newConnectionNumberGreater(current.connectionNo, ConnectionNo(m))
IsOther(m) ==
    /\ ~Same(m) /\ MsgNo(m) = 0
    /\ Erases(m) \/ \A n \in KnownBy(Phone(m)) :
                         newConnectionNumberGreater(n, ConnectionNo(m))
\* The current connection is timed out, or was cleared by this message.
MayReplace(m) == current.timedOut \/ (Erases(m) /\ Phone(m) = current.phone)

\* nextConnection, when the message has been decoded.
Decoded(m) == [Cleared EXCEPT !.phone = Phone(m), !.connectionNo = ConnectionNo(m),
                              !.rx = NextExpected(0, m.last)]

\* updateKnownConnectionNoAndMoveToTop(): the entry of the phone, else the first
\* empty one, else the last, makes room: what stands before it moves down.
EvictsNone(k, c) == k                                           \* mutant
MoveToTop(k, c) ==
    LET mine  == {i \in 1 .. MaxKnown : k[i].phone = c.phone}
        empty == {i \in 1 .. MaxKnown : k[i].phone = NoPhone}
        room  == IF mine # {} THEN mine ELSE empty
        Moves(i) == \A j \in 1 .. i : j \notin room
    IN  [i \in 1 .. MaxKnown |->
            IF i = 1 THEN [phone |-> c.phone, connectionNo |-> c.connectionNo]
            ELSE IF Moves(i - 1) THEN k[i - 1] ELSE k[i]]

--------------------------------------------------------------------------------
(* processGprsLine() on the line of a message. *)

\* A message is handed over; the modem is then told to delete it.
Receive(m) ==
    /\ m \in sent
    /\ modem \in {"free", "busy"} /\ rx = <<>>
    /\ modem' = "busy"
    /\ UNCHANGED <<out, half, sent, answered, lastRun>>

StopKeepsResend == sendingResponse' = FALSE /\ sendingResend' = FALSE    \* mutant
                   /\ UNCHANGED resendLastResponse
StopResponseSends ==
    /\ sendingResponse' = FALSE /\ sendingResend' = FALSE
    /\ resendLastResponse' = FALSE

\* The next message of a command, or its first, or the "{!}" of the connection.
ReceiveNext(m) ==
    /\ Receive(m) /\ IsNext(m)
    /\ LET c == [current EXCEPT !.rx = NextExpected(@, m.last)]
       IN  \/ /\ m.part = 0 /\ ~m.close           \* START_NEW_COMMAND
              /\ StopResponseSends /\ responseSet' = FALSE
              /\ current' = [c EXCEPT !.timedOut = FALSE]
              /\ tx' = NoTx
           \/ /\ m.part = 0 /\ m.close            \* CLOSE_CONNECTION
              /\ StopResponseSends /\ UNCHANGED responseSet
              /\ current' = Closed(c)
              /\ tx' = NoTx
           \/ /\ m.part # 0                       \* PROCESS_NEXT_PART_OF_COMMAND
              /\ current' = c
              /\ UNCHANGED <<flagVars, tx>>
    /\ rx' = <<m>>
    /\ UNCHANGED known

\* RESEND_LAST_RESPONSE
ReceiveRepeat(m) ==
    /\ Receive(m) /\ IsRepeat(m)
    /\ resendLastResponse' = TRUE
    /\ UNCHANGED <<current, known, rx, tx, responseSet, sendingResponse,
                   sendingResend>>

\* NEW_CONNECTION_SAME_PHONE_NO and CLOSE_CONNECTION_AND_UPDATE_CONNECTION; only
\* the first puts a reset before the message.
ReceiveLater(m) ==
    /\ Receive(m) /\ IsLater(m)
    /\ StopResponseSends /\ tx' = NoTx
    /\ known' = [known EXCEPT ![1].connectionNo = ConnectionNo(m)]
    /\ IF m.close
       THEN /\ current' = Closed(Decoded(m))
            /\ rx' = <<m>> /\ UNCHANGED responseSet
       ELSE /\ current' = [Decoded(m) EXCEPT !.timedOut = FALSE]
            /\ rx' = <<Reset, m>> /\ responseSet' = FALSE

\* START_NEW_CONNECTION and START_NEW_CONNECTION_AND_CLOSE
ReceiveOther(m) ==
    /\ Receive(m) /\ IsOther(m) /\ MayReplace(m)
    /\ StopResponseSends /\ tx' = NoTx
    /\ known' = MoveToTop(Forgotten(m), Decoded(m))
    /\ rx' = <<Reset, m>>
    /\ IF m.close
       THEN /\ current' = Closed(Decoded(m))
            /\ UNCHANGED responseSet
       ELSE /\ current' = [Decoded(m) EXCEPT !.timedOut = FALSE]
            /\ responseSet' = FALSE

\* IGNORE and IGNORE_CONNECTION: a phone may have been forgotten all the same.
ReceiveIgnored(m) ==
    /\ Receive(m)
    /\ ~IsNext(m) /\ ~IsRepeat(m) /\ ~IsLater(m) /\ ~(IsOther(m) /\ MayReplace(m))
    /\ known' = Forgotten(m)
    /\ UNCHANGED <<current, rx, tx, flagVars>>

\* pollSMSboard(): the idle time of the current connection is over.
TimeOut ==
    /\ ~current.timedOut
    /\ current' = [current EXCEPT !.timedOut = TRUE]
    /\ UNCHANGED <<known, rx, half, tx, flagVars, out, modem, sent, answered, lastRun>>

--------------------------------------------------------------------------------
(* The parser reads rxBuffer, and the program answers in the same iteration. *)

\* A reset or "{!}" closes the connection of the parser, which calls
\* _closeCurrentConnection().
ReadClose ==
    /\ rx # <<>> /\ Head(rx).close
    /\ half = NoMsg \/ Head(rx) = Reset
    /\ rx' = Tail(rx) /\ half' = NoMsg
    /\ current' = [current EXCEPT !.timedOut = TRUE]
    /\ UNCHANGED <<known, tx, flagVars, out, modem, sent, answered, lastRun>>

\* Part of a command stays in the parser.
ReadPart ==
    /\ rx # <<>> /\ ~Head(rx).last
    /\ rx' = Tail(rx)
    /\ half' = IF half = NoMsg THEN Head(rx) ELSE half
    /\ UNCHANGED <<current, known, tx, flagVars, out, modem, sent, answered, lastRun>>

SendsPast(c, b) ==                                              \* mutant
    /\ out' = NoSms /\ tx' = [b EXCEPT !.idx = @ + 1] /\ current' = [c EXCEPT !.tx = @ + 1]
\* sendNextSMS(): connection c encodes the next part of buffer b, if there is one.
SendNext(c, b) ==
    IF b.idx < b.parts
    THEN /\ out' = [connectionNo |-> c.connectionNo, msgNo |-> c.tx, of |-> b.of,
                    part |-> b.idx + 1, end |-> b.idx + 1 = b.parts]
         /\ tx' = [b EXCEPT !.idx = @ + 1]
         /\ current' = [c EXCEPT !.tx = @ + 1]
    ELSE tx' = b /\ current' = c /\ UNCHANGED out

\* write() takes the bytes of a response.
Writable ==
    /\ ~sendingResponse /\ ~sendingResend /\ ~resendLastResponse /\ ~responseSet
    /\ current.phone # NoPhone

\* The command whose end the parser reads, if its buffer holds one.
Run == IF half = NoMsg THEN Head(rx).of ELSE half.of

\* The end of a command: it is run, and its response is written and flushed.
ReadCommand ==
    /\ rx # <<>> /\ Head(rx) # Reset /\ Head(rx).last
    /\ half = NoMsg => ~Head(rx).close
    /\ rx' = Tail(rx) /\ half' = NoMsg
    /\ lastRun' = [lastRun EXCEPT ![Run.phone] = Run]
    /\ \E n \in 1 .. MaxParts :
          LET b == IF Writable THEN [of |-> Run, parts |-> n, idx |-> 0]
                               ELSE [tx EXCEPT !.parts = tx.idx, !.idx = 0]
          IN  SendNext([current EXCEPT !.tx = current.newMsg,
                                       !.resend = current.newMsg], b)
    /\ sendingResponse' = TRUE /\ sendingResend' = FALSE /\ responseSet' = TRUE
    /\ modem' \in IF modem = "free" /\ tx'.idx # 0 THEN {"prompt", "busy"} ELSE {modem}
    /\ UNCHANGED <<known, resendLastResponse, sent, answered>>

--------------------------------------------------------------------------------
(* processGprsLine() on the modem's other lines: sending. *)

\* After an OK, when no message waits to be read.
StartSMS == modem' = IF current.phone = NoPhone THEN "free" ELSE "prompt"

FoundOK ==
    /\ modem = "busy"
    /\ \/ /\ out # NoSms
          /\ StartSMS
          /\ UNCHANGED <<current, tx, out, sendingResponse, sendingResend,
                         resendLastResponse>>
       \/ /\ out = NoSms /\ (sendingResponse \/ sendingResend)
          /\ resendLastResponse' = FALSE
          /\ sendingResend' = (sendingResend /\ ~sendingResponse)
          /\ SendNext(current, tx)
          /\ IF out' = NoSms THEN modem' = "free" ELSE StartSMS
          /\ UNCHANGED sendingResponse
       \/ /\ out = NoSms /\ ~sendingResponse /\ ~sendingResend /\ resendLastResponse
          /\ resendLastResponse' = FALSE /\ sendingResend' = TRUE
          /\ SendNext([current EXCEPT !.tx = current.resend], [tx EXCEPT !.idx = 0])
          /\ IF out' = NoSms THEN modem' = "free" ELSE StartSMS
          /\ UNCHANGED sendingResponse
       \/ /\ out = NoSms /\ ~sendingResponse /\ ~sendingResend /\ ~resendLastResponse
          /\ modem' = "free"
          /\ UNCHANGED <<current, tx, out, sendingResponse, sendingResend,
                         resendLastResponse>>
    /\ UNCHANGED <<known, rx, half, responseSet, sent, answered, lastRun>>

\* The "> " of the modem: the message goes to the current phone.
CountsSent(c)  == [c EXCEPT !.newMsg = c.tx]

Prompt ==
    /\ modem = "prompt" /\ out # NoSms
    /\ answered' = answered \cup
                      {c \in {out.of} : out.end /\ c.phone = current.phone}
    /\ out' = NoSms
    /\ IF tx.idx >= tx.parts
       THEN /\ current' = IF sendingResponse THEN CountsSent(current) ELSE current
            /\ sendingResponse' = FALSE /\ sendingResend' = FALSE
       ELSE UNCHANGED <<current, sendingResponse, sendingResend>>
    /\ modem' = "busy"
    /\ UNCHANGED <<known, rx, half, tx, responseSet, resendLastResponse, sent, lastRun>>

Deliver ==
    \E m \in sent :
        \/ ReceiveNext(m) \/ ReceiveRepeat(m) \/ ReceiveLater(m)
        \/ ReceiveOther(m) \/ ReceiveIgnored(m)

Reads == ReadClose \/ ReadPart \/ ReadCommand

Next ==
    \/ \E p \in Phones : Open(p) \/ Ask(p)
    \/ Deliver \/ TimeOut \/ Reads \/ FoundOK \/ Prompt

Spec == Init /\ [][Next]_vars
--------------------------------------------------------------------------------
(* What must hold. *)

\* A phone that is current is at the top of the known ones, with the number of
\* its connection; no phone is known twice.  (decodeSMS() repairs the first if
\* it finds otherwise: it never does.)
TopIsCurrent ==
    /\ current.phone # NoPhone =>
          known[1] = [phone |-> current.phone, connectionNo |-> current.connectionNo]
    /\ \A i, j \in 1 .. MaxKnown :
          known[i].phone = known[j].phone => i = j \/ known[i].phone = NoPhone

\* A command that is run was sent after every command run for its phone before, so
\* none runs twice, at once or later, whatever the network repeats or delays, also
\* across connections whose numbers wrap; a command that comes again is answered
\* with the response to that very command.
Careful == {p \in Phones : \A i \in DOMAIN Numbers[p] : Numbers[p][i] # 0}
RunsOnceInOrder ==
    [][/\ ReadCommand /\ Run.phone \in Careful => After(Run, lastRun[Run.phone])
       /\ \A m \in sent : (ReceiveRepeat(m) /\ tx # NoTx) => tx.of = m.of]_vars

\* When a command has been read its response can be written: nothing that is
\* still being sent or resent makes write() drop it.
ResponseIsTaken ==
    (rx # <<>> /\ Head(rx) # Reset /\ ~Head(rx).close) => Writable
================================================================================
