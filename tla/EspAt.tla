--------------------------------- MODULE EspAt ---------------------------------
(***************************************************************************)
(* pfodESP8266_AT.cpp: the driver that reaches a pfodApp through an        *)
(* ESP8266 with the AT firmware, over a serial line.  The chip sends its   *)
(* answers and, at any time, the data of its links (+IPD); the driver uses *)
(* link 0 alone, sends responses and raw data in parts (AT+CIPSEND, "> ",  *)
(* the part, SEND OK) and shares one path of flags between the two.        *)
(*                                                                         *)
(* The chip and its clients are modelled from what processEspLine() and    *)
(* ESP8266_setup() expect of them: a firmware that announces "Unlink",     *)
(* follows +IPD with an OK, and answers "no change" to a mode it is in.    *)
(* A part is at most MAX_TX_MSG_LEN bytes; a command fills one line of     *)
(* the driver or two; a response fits in txBuffer.                         *)
(***************************************************************************)
EXTENDS Integers, Sequences

CONSTANTS
    Clients,        \* pfodApps
    None, Raw,      \* no client; the owner of raw data
    Other,          \* a client of another link
    MaxParts,       \* parts of a response or of a line of raw data
    Sizes,          \* the numbers of parts they have
    MaxLines,       \* bound: lines from the chip that wait to be read
    MaxFaults,      \* bound: failures of the chip
    Patient         \* a client waits for the response before its next command

ASSUME EspAssumption ==
    /\ MaxParts \in Nat \ {0} /\ Sizes \subseteq 1 .. MaxParts /\ MaxLines \in Nat \ {0} /\ MaxFaults \in Nat
    /\ Patient \in BOOLEAN
    /\ {None, Raw, Other} \cap Clients = {} /\ None # Raw /\ None # Other

VARIABLES
    ready,          \* espStreamReady
    stage,          \* the command of ESP8266_setup() that waits for its answer, or 0
    linkConnected,
    closing,        \* disconnectId is set
    rx,             \* rxBuffer from rxBufferIdx
    more,           \* dataSizeRemaining > 0: "copied" (ipdIdZero), "dropped" or "no"
    tx, raw,        \* txBuffer and rawdataTxBuffer: see Units
    flags,          \* see Flags
    text,           \* espTxMsg, until it is sent or given up
    newline,        \* foundRawDataNewline
    lines,          \* from the chip, not read yet
    chip,           \* what the chip does, and with which part
    station,        \* the chip is in the mode the driver wants
    up,             \* the client of link 0
    asked,          \* that client waits for a response
    faults,
    cut,            \* history: since the last reset, a link was given up while a part was being sent
    garbled,        \* history: the chip took something else for the part it waited for
    fresh,          \* history: the link of up began with nothing left of an earlier one
    last,           \* history: the last part that up received
    torn            \* history: parts of a response or of raw data missed or mixed

linkVars == <<linkConnected, closing, rx, more>>
sendVars == <<tx, raw, flags, text, newline>>
peerVars == <<up, asked, fresh>>
history  == <<cut, garbled, last, torn>>
vars == <<ready, stage, linkVars, sendVars, lines, chip, station, peerVars, faults, history>>

--------------------------------------------------------------------------------
(* Data.  A unit is what is sent to its end once begun: a response, or a     *)
(* line of raw data.  Its parts are sent from idx on, up to len.             *)

Unit(c, n) == [of |-> c, n |-> n, idx |-> 0, len |-> n]
NoUnit == Unit(None, 0)
Units  == [of : Clients \cup {None, Raw}, n : 0 .. MaxParts, idx : 0 .. MaxParts, len : 0 .. MaxParts]
PartOf(u) == [of |-> u.of, i |-> u.idx + 1, n |-> u.n]
NoPart == [of |-> None, i |-> 0, n |-> 0]
Parts  == [of : Clients \cup {None, Raw}, i : 0 .. MaxParts + 1, n : 0 .. MaxParts]

Flags == [responseSet : BOOLEAN, sendingResponse : BOOLEAN, waitingToSend : BOOLEAN,
          rawDataSet : BOOLEAN, sendingRawData : BOOLEAN]
NoFlags == [responseSet |-> FALSE, sendingResponse |-> FALSE, waitingToSend |-> FALSE,
            rawDataSet |-> FALSE, sendingRawData |-> FALSE]

\* What a +IPD or its continuation holds: the first part of a command, a whole
\* command (or the rest of one), or {!}.  "reset" is the 0xff of clearParser().
Pieces == {"part", "command", "close"}
Line(t) == [type |-> t, of |-> None, piece |-> "part"]
Data(t, c, p) == [type |-> t, of |-> c, piece |-> p]
Lines == [type : {"+IPD", "data", "> ", "OK", "SEND OK", "ERROR", "busy", "Unlink"},
          of : Clients \cup {None, Other}, piece : Pieces]
Rx    == [of : Clients, piece : Pieces] \cup {[of |-> None, piece |-> "reset"]}
Chip  == [does : {"nothing", "AT", "CIPCLOSE", "CIPSEND", "prompt", "sending", "failing"},
          part : Parts]
Idle  == [does |-> "nothing", part |-> NoPart]

SetupCommands == <<"CIPCLOSE", "CWQAP", "GMR", "CWMODE", "CIPMUX", "CIPSERVER",
                   "CIPSTO", "CWJAP", "CIFSR", "ATE0">>

TypeOK ==
    /\ ready \in BOOLEAN /\ stage \in 0 .. Len(SetupCommands) /\ station \in BOOLEAN
    /\ linkConnected \in BOOLEAN /\ closing \in BOOLEAN
    /\ rx \in Seq(Rx) /\ Len(rx) <= 1 /\ more \in {"no", "copied", "dropped"}
    /\ tx \in Units /\ raw \in Units /\ flags \in Flags /\ text \in Parts
    /\ newline \in BOOLEAN
    /\ lines \in Seq(Lines) /\ chip \in Chip
    /\ up \in Clients \cup {None} /\ asked \in BOOLEAN /\ fresh \in BOOLEAN
    /\ faults \in 0 .. MaxFaults
    /\ cut \in BOOLEAN /\ garbled \in BOOLEAN /\ torn \in BOOLEAN /\ last \in Parts

\* init(args) has called init(): ESP8266_setup() waits for its first answer.
Init ==
    /\ ready = FALSE /\ stage = 1 /\ station \in BOOLEAN
    /\ linkConnected = FALSE /\ closing = FALSE
    /\ rx = <<>> /\ more = "no"
    /\ tx = NoUnit /\ raw = NoUnit /\ flags = NoFlags /\ text = NoPart /\ newline = TRUE
    /\ lines = <<>> /\ chip = Idle
    /\ up = None /\ asked = FALSE /\ fresh = FALSE
    /\ faults = 0
    /\ cut = FALSE /\ garbled = FALSE /\ last = NoPart /\ torn = FALSE

--------------------------------------------------------------------------------
(* What the driver says, after it has read a line: rest is what is left of   *)
(* them.  A chip at its prompt takes anything for text, and one that is      *)
(* still doing something answers "busy".                                     *)

Say(c, p, rest) ==
    \/ /\ chip.does = "nothing"
       /\ chip' = [does |-> c, part |-> p] /\ lines' = rest /\ UNCHANGED garbled
    \/ /\ chip.does = "prompt"
       /\ chip' \in {chip, [does |-> "failing", part |-> NoPart]}
       /\ lines' = rest /\ garbled' = (garbled \/ ~cut)
    \/ /\ chip.does \notin {"nothing", "prompt"}
       /\ lines' = Append(rest, Line("busy")) /\ UNCHANGED <<chip, garbled>>

\* The text for a prompt, or the "\r\n" (NoPart) that stands for it.
SayText(p, rest) ==
    \/ /\ chip.does = "prompt" /\ p = chip.part
       /\ chip' = [does |-> "sending", part |-> p] /\ lines' = rest /\ UNCHANGED garbled
    \/ /\ p # chip.part \/ chip.does # "prompt"
       /\ Say("failing", NoPart, rest)

SayNothing(rest) == lines' = rest /\ UNCHANGED <<chip, garbled>>

--------------------------------------------------------------------------------
(* handleOK(). *)

\* The next part of unit u: it is announced, and sent when the chip prompts.
Next1(u) == [u EXCEPT !.idx = @ + 1]

SendResponse(f, rest) ==
    IF linkConnected /\ tx.idx < tx.len
    THEN /\ text' = PartOf(tx) /\ tx' = Next1(tx)
         /\ flags' = [f EXCEPT !.sendingResponse = TRUE, !.waitingToSend = TRUE]
         /\ Say("CIPSEND", text', rest)
         /\ UNCHANGED raw
    ELSE /\ tx' = NoUnit /\ flags' = [f EXCEPT !.responseSet = FALSE]
         /\ SayNothing(rest) /\ UNCHANGED <<raw, text>>

SendRaw(f, rest) ==
    IF linkConnected /\ raw.idx < raw.len
    THEN /\ text' = PartOf(raw) /\ raw' = Next1(raw)
         /\ flags' = [f EXCEPT !.sendingRawData = TRUE, !.waitingToSend = TRUE]
         /\ Say("CIPSEND", text', rest)
         /\ UNCHANGED tx
    ELSE /\ raw' = NoUnit /\ flags' = [f EXCEPT !.rawDataSet = FALSE]
         /\ SayNothing(rest) /\ UNCHANGED <<tx, text>>

RespondsAtOnce(f) == f.responseSet /\ ~f.sendingRawData            \* mutant
InterruptsRawData(f) == f.responseSet /\ ~f.waitingToSend          \* mutant
MayRespond(f) == f.responseSet /\ ~f.sendingRawData /\ ~f.waitingToSend

handleOK(f, rest) ==
    /\ \/ /\ closing
          /\ closing' = FALSE /\ Say("CIPCLOSE", NoPart, rest)
          /\ flags' = f /\ UNCHANGED <<tx, raw, text>>
       \/ /\ ~closing /\ MayRespond(f)
          /\ SendResponse(f, rest) /\ UNCHANGED closing
       \/ /\ ~closing /\ ~MayRespond(f) /\ f.rawDataSet /\ ~f.waitingToSend
          /\ SendRaw(f, rest) /\ UNCHANGED closing
       \/ /\ ~closing /\ ~MayRespond(f) /\ (f.rawDataSet => f.waitingToSend)
          /\ SayNothing(rest) /\ flags' = f /\ UNCHANGED <<closing, tx, raw, text>>
    /\ UNCHANGED <<linkConnected, rx, more, newline>>

--------------------------------------------------------------------------------
(* Giving up a link. *)

disconnect ==
    /\ tx' = NoUnit /\ raw' = NoUnit /\ flags' = NoFlags
    /\ cut' = (cut \/ flags.waitingToSend)
    /\ text' = NoPart /\ UNCHANGED newline

CloseLater ==                                                     \* mutant
    IF linkConnected
    THEN closing' = TRUE /\ UNCHANGED <<linkConnected, sendVars, cut>>
    ELSE UNCHANGED <<closing, linkConnected, sendVars, cut>>

CloseCurrentConnection ==
    IF linkConnected
    THEN closing' = TRUE /\ linkConnected' = FALSE /\ disconnect
    ELSE UNCHANGED <<closing, linkConnected, sendVars, cut>>

--------------------------------------------------------------------------------
(* processEspLine(), one action per kind of line.  A line is read only when  *)
(* rxBuffer has been drained.                                                *)

Running == ready /\ stage = 0
Polls == Running /\ rx = <<>> /\ lines # <<>>
rest  == Tail(lines)

\* copyDataToRxBuffer() writes from rxBufferIdx, which is 0 when a line is read:
\* over the 0xff that clearParser() may have put there.
CopyAppends(buffer, piece) == Append(buffer, piece)               \* mutant
copyDataToRxBuffer(buffer, piece) == <<piece>>
clearParser == <<[of |-> None, piece |-> "reset"]>>
PieceOf(l) == [of |-> l.of, piece |-> l.piece]

TakeData ==
    /\ Polls /\ more # "no" /\ Head(lines).type = "data"
    /\ rx' = IF more = "copied" THEN copyDataToRxBuffer(rx, PieceOf(Head(lines))) ELSE rx
    /\ more' = "no" /\ SayNothing(rest)
    /\ UNCHANGED <<ready, stage, linkConnected, closing, sendVars, station,
                   peerVars, faults, cut, last, torn>>

\* getDataSize(): the first data of link 0 begin a connection.
TakeIPD ==
    /\ Polls /\ more = "no" /\ Head(lines).type = "+IPD"
    /\ LET idZero == Head(lines).of # Other
       IN  /\ more' = IF Head(lines).piece # "part" THEN "no"
                      ELSE IF idZero THEN "copied" ELSE "dropped"
           /\ IF idZero /\ ~linkConnected
              THEN linkConnected' = TRUE /\ disconnect
              ELSE UNCHANGED <<linkConnected, sendVars, cut>>
           /\ rx' = IF idZero
                    THEN copyDataToRxBuffer(IF linkConnected THEN rx ELSE clearParser,
                                            PieceOf(Head(lines)))
                    ELSE rx
    /\ SayNothing(rest)
    /\ UNCHANGED <<ready, stage, closing, station, peerVars, faults, last, torn>>

\* "> ": what was announced is sent, a response first; without one "\r\n".
TakePrompt ==
    /\ Polls /\ more = "no" /\ Head(lines).type = "> "
    /\ \/ /\ flags.sendingResponse
          /\ SayText(text, rest) /\ text' = NoPart /\ UNCHANGED raw
          /\ IF tx.idx >= tx.len
             THEN tx' = NoUnit /\ flags' = [flags EXCEPT !.responseSet = FALSE, !.sendingResponse = FALSE]
             ELSE UNCHANGED <<tx, flags>>
       \/ /\ ~flags.sendingResponse /\ flags.sendingRawData
          /\ SayText(text, rest) /\ text' = NoPart /\ UNCHANGED tx
          /\ IF raw.idx >= raw.len
             THEN raw' = NoUnit /\ flags' = [flags EXCEPT !.rawDataSet = FALSE, !.sendingRawData = FALSE]
             ELSE UNCHANGED <<raw, flags>>
       \/ /\ ~flags.sendingResponse /\ ~flags.sendingRawData
          /\ SayText(NoPart, rest)
          /\ flags' = [flags EXCEPT !.waitingToSend = FALSE] /\ UNCHANGED <<tx, raw, text>>
    /\ UNCHANGED <<ready, stage, linkVars, newline, station, peerVars, faults,
                   cut, last, torn>>

\* "busy" or "ERROR": the next call of available() sets up the chip again.
TakeError ==
    /\ Polls /\ more = "no" /\ Head(lines).type \in {"busy", "ERROR"}
    /\ ready' = FALSE /\ SayNothing(rest)
    /\ UNCHANGED <<stage, linkVars, sendVars, station, peerVars, faults, cut, last, torn>>

TakeOK ==
    /\ Polls /\ more = "no"
    /\ \/ Head(lines).type = "OK" /\ handleOK(flags, rest)
       \/ Head(lines).type = "SEND OK" /\ handleOK([flags EXCEPT !.waitingToSend = FALSE], rest)
    /\ UNCHANGED <<ready, stage, station, peerVars, faults, cut, last, torn>>

\* "Link" and "Unlink" do nothing, as does what no branch knows.
TakeOther ==
    /\ Polls /\ more = "no" /\ Head(lines).type \in {"Unlink", "data"}
    /\ SayNothing(rest)
    /\ UNCHANGED <<ready, stage, linkVars, sendVars, station, peerVars, faults, cut, last, torn>>

processEspLine == TakeData \/ TakeIPD \/ TakePrompt \/ TakeError \/ TakeOK \/ TakeOther

--------------------------------------------------------------------------------
(* The parser above, and the program.                                        *)

deviceUnchanged == UNCHANGED <<ready, stage, lines, chip, station, peerVars, faults, garbled, last, torn>>

ReadPart ==
    /\ Running /\ rx # <<>> /\ Head(rx).piece = "part"
    /\ rx' = <<>>
    /\ UNCHANGED <<linkConnected, closing, more, sendVars, cut>> /\ deviceUnchanged

\* The parser returns "!" for {!}, as it would for 0xff.
ReadClose ==
    /\ Running /\ rx # <<>> /\ Head(rx).piece \in {"close", "reset"}
    /\ rx' = <<>> /\ CloseCurrentConnection
    /\ UNCHANGED more /\ deviceUnchanged

\* write() drops a response that comes while one is set, or without a link;
\* flush() ends it all the same.
Flushed(u) == [u EXCEPT !.len = u.idx, !.idx = 0]

ReadCommand(n) ==
    /\ Running /\ rx # <<>> /\ Head(rx).piece = "command"
    /\ rx' = <<>>
    /\ tx' = IF flags.responseSet \/ ~linkConnected THEN Flushed(tx) ELSE Unit(Head(rx).of, n)
    /\ flags' = [flags EXCEPT !.responseSet = TRUE]
    /\ UNCHANGED <<linkConnected, closing, more, raw, text, newline, cut>> /\ deviceUnchanged

\* A line of raw data is taken whole, or dropped: then the next one is too, as
\* it is read up to its end.
WriteRawData(n) ==
    /\ Running
    /\ \/ /\ ~linkConnected \/ raw.len # 0 \/ flags.rawDataSet \/ flags.responseSet
          /\ newline' = FALSE /\ UNCHANGED <<raw, flags>>
       \/ /\ linkConnected /\ raw.len = 0 /\ ~flags.rawDataSet /\ ~flags.responseSet
          /\ newline' = TRUE
          /\ IF newline
             THEN raw' = Unit(Raw, n) /\ flags' = [flags EXCEPT !.rawDataSet = TRUE]
             ELSE UNCHANGED <<raw, flags>>
    /\ UNCHANGED <<linkVars, tx, text, cut>> /\ deviceUnchanged

Program == ReadPart \/ ReadClose \/ \E n \in Sizes : ReadCommand(n) \/ WriteRawData(n)

--------------------------------------------------------------------------------
(* Time-outs. *)

\* pfodTimeoutTimer: it was restarted by the last response or raw data.  With a
\* line read in part, that part is lost (clearEspLine() in disconnect()).
IdleExpires ==
    /\ Running /\ linkConnected
    /\ CloseCurrentConnection
    /\ \/ lines' = lines
       \/ lines # <<>> /\ more = "no" /\ lines' = rest
    /\ UNCHANGED <<ready, stage, rx, more, chip, station, peerVars, faults,
                   garbled, last, torn>>

\* atTimer: nothing came for AT_TIME.
AtExpires ==
    /\ Running /\ rx = <<>> /\ lines = <<>>
    /\ Say("AT", NoPart, <<>>)
    /\ UNCHANGED <<ready, stage, linkVars, sendVars, station, peerVars, faults, cut, last, torn>>

\* okTimer: no OK for OK_TIME.  The chip waits for the rest of a text that does
\* not come, or (a fault) takes too long.
OkExpires ==
    /\ Running /\ rx = <<>> /\ lines = <<>>
    /\ \/ chip.does = "prompt" /\ UNCHANGED faults
       \/ chip.does \notin {"nothing", "prompt"} /\ faults < MaxFaults /\ faults' = faults + 1
    /\ ready' = FALSE
    /\ UNCHANGED <<stage, linkVars, sendVars, lines, chip, station, peerVars, cut, garbled, last, torn>>

--------------------------------------------------------------------------------
(* init() and ESP8266_setup(), which block until the chip is set up.  In     *)
(* this time what clients send is read and lost by waitFor().                *)

\* reset(): a chip at its prompt may take AT+RST for text, and keep its links.
ResetChip ==
    /\ chip' = Idle /\ lines' = <<>>
    /\ IF chip.does = "prompt" THEN up' \in {up, None} ELSE up' = None
    /\ asked' = (asked /\ up' # None) /\ fresh' = FALSE

init ==
    /\ ~ready /\ stage = 0
    /\ stage' = 1 /\ ResetChip
    /\ closing' = FALSE /\ linkConnected' = FALSE
    /\ rx' = <<>> /\ more' = "no"
    /\ tx' = NoUnit /\ raw' = NoUnit /\ flags' = NoFlags
    /\ newline' = TRUE /\ text' = NoPart
    /\ cut' = FALSE
    /\ UNCHANGED <<ready, station, faults, garbled, last, torn>>

\* waitFor("OK", "no change") returns 0 for OK, which counts as a failure here,
\* and -1 when neither comes, which does not.
Accepts(command, answer) ==
    CASE command = "CIPCLOSE" -> answer \in {"OK", "MUX=0"}
      [] command = "CWMODE"   -> answer \in {"no change", "none"}
      [] OTHER                -> answer = "OK"

SetupGoesOn ==
    /\ stage' = IF stage = Len(SetupCommands) THEN 0 ELSE stage + 1
    /\ ready' = (stage = Len(SetupCommands))
    /\ up' = IF stage = 1 THEN None ELSE up
    /\ asked' = (asked /\ up' # None) /\ UNCHANGED <<lines, chip, station, fresh>>

ModeIsSet == SetupCommands[stage] = "CWMODE" /\ ~station

ESP8266_setup ==
    /\ stage > 0
    /\ \E answer \in {"OK", "MUX=0", "no change", "none"} :
          \/ /\ Accepts(SetupCommands[stage], answer)
             /\ answer = "none" => faults < MaxFaults
             /\ ~ModeIsSet \/ answer = "none"
             /\ SetupGoesOn
             /\ faults' = IF answer = "none" THEN faults + 1 ELSE faults
          \/ /\ ~Accepts(SetupCommands[stage], answer)
             /\ \/ answer = "OK" /\ ModeIsSet /\ station' = TRUE /\ UNCHANGED faults
                \/ answer = "none" /\ faults < MaxFaults /\ faults' = faults + 1 /\ UNCHANGED station
             /\ stage' = 1 /\ ResetChip /\ UNCHANGED ready
    /\ UNCHANGED <<linkVars, sendVars, history>>

--------------------------------------------------------------------------------
(* The chip (external). *)

chipUnchanged == UNCHANGED <<ready, stage, linkVars, sendVars, station, cut, garbled>>

Answers(ls) == chip' = Idle /\ lines' = lines \o ls
Room(n) == Len(lines) + n <= MaxLines

\* up gets part p: the next of what it has begun to get, or the first of its
\* response or of raw data.
Follows(p) ==
    /\ p.of \in {up, Raw}
    /\ IF last.i < last.n THEN p = [last EXCEPT !.i = @ + 1] ELSE p.i = 1

ChipAnswers ==
    /\ Room(2)
    /\ \/ chip.does = "AT" /\ Answers(<<Line("OK")>>) /\ UNCHANGED <<peerVars, faults, last, torn>>
       \/ /\ chip.does = "CIPCLOSE"
          /\ \/ up # None /\ Answers(<<Line("Unlink"), Line("OK")>>)
             \/ up = None /\ \E a \in {"OK", "ERROR"} : Answers(<<Line(a)>>)
          /\ up' = None /\ asked' = FALSE /\ UNCHANGED <<fresh, faults, last, torn>>
       \/ /\ chip.does = "CIPSEND" /\ up # None
          /\ chip' = [chip EXCEPT !.does = "prompt"]
          /\ \/ lines' = lines \o <<Line("> ")>>
             \/ lines' = lines \o <<Line("OK"), Line("> ")>>
          /\ UNCHANGED <<peerVars, faults, last, torn>>
       \/ /\ (chip.does = "CIPSEND" /\ up = None) \/ chip.does = "failing"
          /\ Answers(<<Line("ERROR")>>) /\ UNCHANGED <<peerVars, faults, last, torn>>
       \/ /\ chip.does = "sending" /\ up # None
          /\ Answers(<<Line("SEND OK")>>)
          /\ last' = (IF fresh /\ ~cut THEN chip.part ELSE NoPart) /\ torn' = (torn \/ (fresh /\ ~cut /\ ~Follows(chip.part)))
          /\ asked' = (asked /\ ~(chip.part.of = up /\ chip.part.i = chip.part.n))
          /\ UNCHANGED <<up, fresh, faults>>
       \/ /\ chip.does \in {"sending", "CIPSEND"} /\ faults < MaxFaults
          /\ Answers(<<Line("ERROR")>>) /\ faults' = faults + 1
          /\ UNCHANGED <<peerVars, last, torn>>
    /\ chipUnchanged

--------------------------------------------------------------------------------
(* The clients (external).  A link that is idle for longer than AT+CIPSTO is *)
(* closed by the chip, like one that the client closes.                      *)

peerUnchanged == UNCHANGED <<ready, stage, linkVars, sendVars, station, faults, cut, garbled>>

\* During set-up, bytes from the chip are lost.
Sends(ls) == Room(Len(ls)) /\ lines' = IF stage = 0 THEN lines \o ls ELSE lines

NothingIsLeft ==
    /\ ~flags.responseSet /\ ~flags.rawDataSet /\ rx = <<>> /\ more = "no" /\ ~closing
    /\ chip.does \in {"nothing", "AT"} /\ \A i \in DOMAIN lines : lines[i].type \notin {"+IPD", "data"}

Connect(c) ==
    /\ up = None /\ stage \notin 1 .. 6
    /\ up' = c /\ asked' = FALSE /\ fresh' = NothingIsLeft /\ last' = NoPart
    /\ UNCHANGED <<lines, chip, torn>> /\ peerUnchanged

SendCommand ==
    /\ up # None /\ (Patient => ~asked)
    /\ \/ Sends(<<Data("+IPD", up, "command"), Line("OK")>>) /\ asked' = TRUE
       \/ Sends(<<Data("+IPD", up, "part"), Data("data", up, "command"), Line("OK")>>) /\ asked' = TRUE
       \/ Sends(<<Data("+IPD", up, "close"), Line("OK")>>) /\ UNCHANGED asked
    /\ UNCHANGED <<up, fresh, chip, last, torn>> /\ peerUnchanged

OtherLink ==
    /\ Sends(<<Data("+IPD", Other, "part"), Data("data", Other, "command"), Line("OK")>>)
    /\ stage = 0
    /\ UNCHANGED <<peerVars, chip, last, torn>> /\ peerUnchanged

CloseLink ==
    /\ up # None /\ up' = None /\ asked' = FALSE
    /\ Sends(<<Line("Unlink")>>)
    /\ chip' = IF chip.does = "sending" THEN [chip EXCEPT !.does = "failing"] ELSE chip
    /\ UNCHANGED <<fresh, last, torn>> /\ peerUnchanged

--------------------------------------------------------------------------------
(* Everything together. *)

Driver == processEspLine \/ Program \/ AtExpires \/ OkExpires \/ init \/ ESP8266_setup
Peers  == (\E c \in Clients : Connect(c)) \/ SendCommand \/ OtherLink \/ CloseLink

Next == Driver \/ IdleExpires \/ ChipAnswers \/ Peers
Spec == Init /\ [][Next]_vars

\* The program calls parse() for ever, and the time-outs are looked at in every
\* call; the chip answers.
Loop ==
    \/ processEspLine \/ ReadPart \/ ReadClose \/ \E n \in Sizes : ReadCommand(n)
    \/ OkExpires \/ init \/ ESP8266_setup

\* The idle timer of a link that is gone runs out, unless commands that are answered
\* or raw data go on restarting it.
Restarts == \E n \in Sizes : ReadCommand(n) \/ (WriteRawData(n) /\ raw' # raw)
RunsOut ==
    \/ []<>~(Running /\ linkConnected /\ up = None)
    \/ []<><<IdleExpires>>_vars
    \/ []<><<Restarts>>_vars

FairSpec == Spec /\ WF_vars(Loop) /\ SF_vars(ChipAnswers) /\ RunsOut

--------------------------------------------------------------------------------
(* Properties. *)

\* A chip that prompts for the text of a part gets that text: no command of the
\* driver, and no text of another part, is taken for it.  The link must not have
\* been given up while a part was on its way (cut).
TextAtPrompt == ~garbled

\* The parts that a client receives are those of one response to it, or of one
\* line of raw data, from the first to the last and in order, before any other:
\* responses and raw data share the flags and espTxMsg.  For a link that began
\* when nothing was left of an earlier one; see cut too.
PartsInOrder == ~torn

\* "Unlink" is ignored, but the idle timer, or a new set-up, ends a link whose
\* client is gone, unless another client has taken it over.
GoneClientIsForgotten == (linkConnected /\ up = None) ~> (~linkConnected \/ up # None)

\* What the comment of flush() says of responseSet: "prevent another response
\* until this one written".
ResponseIsKept == [][flags.responseSet /\ flags'.responseSet => tx'.len = tx.len]_vars

================================================================================
