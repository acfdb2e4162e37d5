-------------------------------- MODULE SmsModem --------------------------------
(***************************************************************************)
(* The dialogue of pfodSMS_SIM900.cpp with its modem, over a serial line.  *)
(* The modem announces messages (+CMTI) that it keeps on the SIM; the      *)
(* device asks for one at a time (AT+CMGR), deletes what it has read       *)
(* (AT+CMGDA) and sends its responses and raw data (AT+CMGS, "> ", text).  *)
(*                                                                         *)
(* The modem is modelled from what processGprsLine() expects of it.  What  *)
(* a message means is SmsConnections' part: here it is a command, a part   *)
(* of one, "{!}", a repetition, or ignored, in any order that module       *)
(* allows.  As there, the parser has drained rxBuffer before the next      *)
(* message.                                                                *)
(***************************************************************************)
EXTENDS Integers, Sequences

CONSTANTS
    Slots,          \* places for messages on the SIM
    MaxQueue,       \* MAX_INCOMING_MSG_NOS
    MaxArrivals,    \* bound: messages that arrive
    MaxParts        \* SMS messages of a response

ASSUME ModemAssumption ==
    MaxQueue \in Nat \ {0} /\ MaxArrivals \in Nat /\ MaxParts \in Nat \ {0}

VARIABLES
    foundOK,        \* the modem has finished what it was told
    requested,      \* haveRequestedIncomingMsg
    expecting,      \* expectingMessageLines
    deleteRead,     \* deleteReadSmsMsgs
    queue,          \* incomingMsgNos between tail and head
    endOfCommand,   \* msgNo_rx % 3 = 0
    connected,      \* currentConnection has a phone
    asked,          \* the parser holds a command not answered yet
    send,           \* the response: see Sends
    raw,            \* rawdataSMSbuffer is not empty
    toModem, lines, \* the serial line, each way
    slots, read,    \* messages on the SIM, and those read
    texting,        \* the modem takes what it gets as the text of a message
    arrivals,
    overflowed,     \* history: a message was announced while the queue was full
    quiet           \* rigid: messages arrive only while the serial line is idle

lineVars  == <<requested, expecting, deleteRead, queue>>
cmdVars   == <<endOfCommand, connected, asked>>
modemVars == <<slots, read, texting, arrivals, quiet>>
simVars   == <<modemVars, overflowed>>
vars == <<foundOK, lineVars, cmdVars, send, raw, toModem, lines, simVars>>

\* The response in txBuffer (parts, the next to encode), responseSMSbuffer (out)
\* and the flags sendingResponse, sendingResend and resendLastResponse.
Sends == {s \in [parts : 0 .. MaxParts, idx : 0 .. MaxParts, out : BOOLEAN,
                 response : BOOLEAN, resend : BOOLEAN, again : BOOLEAN] :
              s.idx <= s.parts}
NoSend == [parts |-> 0, idx |-> 0, out |-> FALSE,
           response |-> FALSE, resend |-> FALSE, again |-> FALSE]

\* What goes over the line: AT commands and texts, and the lines of the modem.
Item(t, n) == [type |-> t, slot |-> n]
ToModem  == [type : {"CMGR", "CMGD"}, slot : Slots]
                \cup {Item(t, 0) : t \in {"DEL ALL", "DEL READ", "CMGS", "text", "nothing"}}
Lines    == [type : {"+CMTI"}, slot : Slots]
                \cup {Item(t, 0) : t \in {"+CMGR", "message", "> ", "OK", "ERROR"}}

TypeOK ==
    /\ foundOK \in BOOLEAN /\ requested \in BOOLEAN /\ expecting \in BOOLEAN
    /\ deleteRead \in BOOLEAN /\ raw \in BOOLEAN /\ texting \in BOOLEAN
    /\ endOfCommand \in BOOLEAN /\ connected \in BOOLEAN /\ asked \in BOOLEAN
    /\ queue \in Seq(Slots) /\ Len(queue) <= MaxQueue
    /\ send \in Sends
    /\ toModem \in Seq(ToModem) /\ lines \in Seq(Lines)
    /\ slots \subseteq Slots /\ read \subseteq slots
    /\ arrivals \in 0 .. MaxArrivals /\ overflowed \in BOOLEAN /\ quiet \in BOOLEAN

Init ==
    /\ foundOK = TRUE /\ requested = FALSE /\ expecting = FALSE /\ deleteRead = FALSE
    /\ queue = <<>> /\ endOfCommand = TRUE /\ connected = FALSE /\ asked = FALSE
    /\ send = NoSend /\ raw = FALSE
    /\ toModem = <<>> /\ lines = <<>>
    /\ slots = {} /\ read = {} /\ texting = FALSE
    /\ arrivals = 0 /\ overflowed = FALSE /\ quiet \in BOOLEAN

--------------------------------------------------------------------------------
(* What the device says.  gprsPrint() clears foundOK. *)

Say(t, n) == toModem' = Append(toModem, Item(t, n)) /\ foundOK' = FALSE
Silent    == UNCHANGED <<toModem, foundOK>>

requestIncomingSmsMsg ==
    /\ Say("CMGR", Head(queue))
    /\ queue' = Tail(queue) /\ requested' = TRUE

ClearKeepsQueue == Say("DEL ALL", 0) /\ UNCHANGED queue           \* mutant
clearAllSmsMsgs == Say("DEL ALL", 0) /\ queue' = <<>>

\* stopResponseSends()
Stopped(s) == [NoSend EXCEPT !.out = s.out]

\* sendNextSMS() encodes the next part, if there is one.
EncodedShort(s) ==                                              \* mutant
    IF s.idx + 1 < s.parts THEN [s EXCEPT !.out = TRUE, !.idx = @ + 1] ELSE s
Encoded(s) == IF s.idx < s.parts THEN [s EXCEPT !.out = TRUE, !.idx = @ + 1] ELSE s

\* The response, the resend or the new resend goes on.
Continued(s) ==
    IF s.response THEN Encoded([s EXCEPT !.again = FALSE, !.resend = FALSE])
    ELSE IF s.resend THEN Encoded([s EXCEPT !.again = FALSE])
    ELSE IF s.again
    THEN Encoded([s EXCEPT !.again = FALSE, !.resend = TRUE, !.idx = 0])
    ELSE s

--------------------------------------------------------------------------------
(* processGprsLine(). *)

\* An OK, read or forced: with nothing to delete, to wait for or to read, what
\* waits in s or in r is sent.
SendSomething(s, r) ==
    /\ send' = IF s.out THEN s ELSE Continued(s)
    /\ IF send'.out \/ (r /\ ~s.response /\ ~s.resend /\ ~s.again)
       THEN Say("CMGS", 0)
       ELSE toModem' = toModem /\ foundOK' = TRUE
    /\ UNCHANGED lineVars

OK(s, r) ==
    \/ /\ deleteRead /\ deleteRead' = FALSE
       /\ IF endOfCommand THEN clearAllSmsMsgs
          ELSE Say("DEL READ", 0) /\ UNCHANGED queue
       /\ send' = s /\ UNCHANGED <<requested, expecting>>
    \/ /\ ~deleteRead /\ requested
       /\ foundOK' = TRUE /\ send' = s
       /\ UNCHANGED <<toModem, lineVars>>
    \/ /\ ~deleteRead /\ ~requested /\ queue # <<>>
       /\ requestIncomingSmsMsg
       /\ send' = s /\ UNCHANGED <<expecting, deleteRead>>
    \/ /\ ~deleteRead /\ ~requested /\ queue = <<>>
       /\ SendSomething(s, r)

\* pollSMSboard() asks for a message before it takes a line.
RequestsAtOnce == ~requested /\ queue # <<>>                    \* mutant
MustRequest == foundOK /\ ~requested /\ queue # <<>>
Request ==
    /\ MustRequest /\ requestIncomingSmsMsg
    /\ UNCHANGED <<expecting, deleteRead, cmdVars, send, raw, lines, simVars>>

NextLine(t) == ~MustRequest /\ lines # <<>> /\ Head(lines).type = t
Take == lines' = Tail(lines)

\* After "+CMGR:" any line is the message.
TakeMessage ==
    /\ expecting /\ ~MustRequest /\ lines # <<>> /\ ~asked /\ Take
    /\ expecting' = FALSE /\ requested' = FALSE /\ deleteRead' = TRUE
    /\ \/ /\ send' = Stopped(send) /\ connected' = TRUE         \* a command or "{!}"
          /\ endOfCommand' = TRUE /\ asked' \in BOOLEAN
       \/ /\ send' = Stopped(send) /\ connected' = TRUE         \* a part of a command
          /\ endOfCommand' = FALSE /\ UNCHANGED asked
       \/ /\ endOfCommand /\ send.parts > 0     \* a repetition of an answered command
          /\ send' = [send EXCEPT !.again = TRUE] /\ UNCHANGED cmdVars
       \/ UNCHANGED <<send, cmdVars>>                           \* ignored
    /\ Silent /\ UNCHANGED <<queue, raw, simVars>>

\* After the last part of a response or of its resend the flags are cleared.
Handed(s) ==
    [s EXCEPT !.out = FALSE, !.response = @ /\ s.idx < s.parts,
              !.resend = @ /\ s.idx < s.parts]

TakePrompt ==
    /\ ~expecting /\ NextLine("> ") /\ Take
    /\ IF send.out
       THEN send' = Handed(send) /\ Say("text", 0) /\ UNCHANGED raw
       ELSE /\ raw' = FALSE /\ UNCHANGED send
            /\ IF raw THEN Say("text", 0) ELSE Say("nothing", 0)
    /\ UNCHANGED <<lineVars, cmdVars, simVars>>

\* addIncomingMsgNo(), or deleteIncomingMsg() when the queue is full.
AddAlways(n) == queue' = Append(queue, n) /\ Silent             \* mutant
AddIncoming(n) ==
    IF Len(queue) < MaxQueue
    THEN queue' = Append(queue, n) /\ Silent
    ELSE Say("CMGD", n) /\ UNCHANGED queue
TakeArrival ==
    /\ ~expecting /\ NextLine("+CMTI") /\ Take
    /\ AddIncoming(Head(lines).slot)
    /\ overflowed' = (overflowed \/ Len(queue) = MaxQueue)
    /\ UNCHANGED <<requested, expecting, deleteRead, cmdVars, send, raw, modemVars>>

TakeHeader ==
    /\ ~expecting /\ NextLine("+CMGR") /\ Take
    /\ expecting' = TRUE
    /\ Silent /\ UNCHANGED <<requested, deleteRead, queue, cmdVars, send, raw, simVars>>

TakeError ==
    /\ ~expecting /\ NextLine("ERROR") /\ Take
    /\ clearAllSmsMsgs
    /\ UNCHANGED <<requested, expecting, deleteRead, cmdVars, send, raw, simVars>>

TakeOK ==
    /\ ~expecting /\ NextLine("OK") /\ Take
    /\ OK(send, raw)
    /\ UNCHANGED <<cmdVars, raw, simVars>>

ReadLine ==
    TakeMessage \/ TakePrompt \/ TakeArrival \/ TakeHeader \/ TakeError \/ TakeOK

--------------------------------------------------------------------------------
(* The program: it answers a command, and writes raw data. *)

\* flush()
Reply ==
    /\ asked /\ asked' = FALSE
    /\ \E n \in 1 .. MaxParts :
          LET s == Encoded([parts |-> n, idx |-> 0, out |-> send.out,
                            response |-> TRUE, resend |-> FALSE, again |-> send.again])
          IN  IF foundOK THEN OK(s, raw)
              ELSE send' = s /\ UNCHANGED <<toModem, foundOK, lineVars>>
    /\ UNCHANGED <<endOfCommand, connected, raw, lines, simVars>>

\* isSendingResponse() keeps raw data back.
IsSendingResponse ==
    send.response \/ send.resend \/ send.again \/ send.out \/ requested
WriteRawData ==
    /\ connected /\ ~raw /\ ~IsSendingResponse
    /\ raw' = TRUE
    /\ IF foundOK THEN OK(send, TRUE)
       ELSE UNCHANGED <<toModem, foundOK, lineVars, send>>
    /\ UNCHANGED <<cmdVars, lines, simVars>>

--------------------------------------------------------------------------------
(* The modem. *)

Hears(t) == toModem # <<>> /\ Head(toModem).type = t /\ toModem' = Tail(toModem)
Says(seq) == lines' = lines \o [i \in DOMAIN seq |-> Item(seq[i], 0)]
Answers == \E t \in {"OK", "ERROR"} : Says(<<t>>)

Arrive ==
    /\ arrivals < MaxArrivals
    /\ quiet => toModem = <<>> /\ lines = <<>> /\ foundOK /\ ~texting
    /\ \E n \in Slots \ slots :
          slots' = slots \cup {n} /\ lines' = Append(lines, Item("+CMTI", n))
    /\ arrivals' = arrivals + 1
    /\ UNCHANGED <<read, toModem, texting, quiet>>

Text ==
    \/ /\ texting /\ (Hears("text") \/ Hears("nothing"))
       /\ texting' = FALSE /\ Answers
       /\ UNCHANGED <<slots, read, arrivals, quiet>>
    \/ /\ texting /\ \E t \in {"CMGR", "CMGD", "DEL ALL", "DEL READ", "CMGS"} : Hears(t)
       /\ UNCHANGED <<lines, modemVars>>
    \/ /\ ~texting /\ (Hears("text") \/ Hears("nothing"))
       /\ UNCHANGED <<lines, modemVars>>

Delete ==
    /\ ~texting
    /\ \/ Hears("DEL ALL") /\ slots' = {}
       \/ Hears("DEL READ") /\ slots' = slots \ read
       \/ Hears("CMGD") /\ slots' = slots \ {Head(toModem).slot}
    /\ read' = read \cap slots' /\ Says(<<"OK">>)
    /\ UNCHANGED <<texting, arrivals, quiet>>

\* Without the message the modem answers with OK, or with an error.
ReadOut ==
    /\ ~texting /\ Hears("CMGR")
    /\ \/ /\ Head(toModem).slot \in slots
          /\ Says(<<"+CMGR", "message", "OK">>)
          /\ read' = read \cup {Head(toModem).slot}
       \/ Head(toModem).slot \notin slots /\ Answers /\ UNCHANGED read
    /\ UNCHANGED <<slots, texting, arrivals, quiet>>

Prompt ==
    /\ ~texting /\ Hears("CMGS")
    /\ Says(<<"> ">>) /\ texting' = TRUE
    /\ UNCHANGED <<slots, read, arrivals, quiet>>

Modem ==
    /\ Arrive \/ Text \/ Delete \/ ReadOut \/ Prompt
    /\ UNCHANGED <<foundOK, lineVars, cmdVars, send, raw, overflowed>>

Listens == Modem /\ arrivals' = arrivals

Device == Request \/ ReadLine \/ Reply
Next == Device \/ WriteRawData \/ Modem

Spec == Init /\ [][Next]_vars
\* The loop of the program polls the modem for ever, and the modem answers.
FairSpec == Spec /\ WF_vars(Device) /\ WF_vars(Listens)
--------------------------------------------------------------------------------
(* What must hold. *)

OnTheWay(t) == \/ \E i \in DOMAIN toModem : toModem[i].type = t
               \/ \E i \in DOMAIN lines : lines[i].type = t

\* The device and the modem stay in step.  When the device believes that the
\* modem has finished, nothing that would be answered is on the way; the modem
\* takes no command for the text of an SMS.  (A full queue breaks both: the
\* AT+CMGD for the message that does not fit is sent whatever the modem is
\* doing.)  And there is something to send when the modem prompts for it: the
\* code says of the other case that it "should not happen".
InStep ==
    /\ foundOK /\ ~overflowed =>
          toModem = <<>> /\ ~texting /\ \A t \in {"> ", "OK", "ERROR"} : ~OnTheWay(t)
    /\ texting /\ toModem # <<>> /\ ~overflowed => Head(toModem).type = "text"
    /\ lines # <<>> /\ ~expecting /\ Head(lines).type = "> " => send.out \/ raw

\* While messages only arrive on an idle line, every message asked for is on its
\* way, so haveRequestedIncomingMsg cannot keep the device waiting.
RequestIsAnswered ==
    quiet /\ requested =>
        OnTheWay("CMGR") \/ OnTheWay("+CMGR") \/ OnTheWay("message")

\* Responses and raw data leave the device in the end, under the same condition.
\* (A response is also given up when a new command arrives.)
DataLeaves ==
    /\ quiet => (send.response ~> ~send.response)
    /\ quiet => (raw ~> ~raw)

--------------------------------------------------------------------------------
(* What comments of the code say, and the code does not do. *)

\* "takes txBuffer and encodes upto 117 bytes and sends msg, continues until all
\* of txBuffer sent".
AllOfResponseSent == send.response ~> ~send.response
================================================================================
