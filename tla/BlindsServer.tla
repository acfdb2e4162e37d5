------------------------------ MODULE BlindsServer ------------------------------
(***************************************************************************)
(* The normal processing of the blinds sketch, ESP8266Connection.ino of    *)
(* 4_29_2017: loop() once WiFi is joined, with what it calls of the pfod   *)
(* parser (no password is set in the sketch) and of the buffered client.   *)
(*                                                                         *)
(* Bytes are tokens: a letter stands for "{" and the first byte of a       *)
(* command with all that follows, End for the closing "}".  Time is        *)
(* counted in ticks; IdleTimeOut and RunTime keep the order of the 15 s    *)
(* idle time-out and the 5 s motor run.  One iteration of loop() takes at  *)
(* most one token: several tokens at hand are as if they arrived later.    *)
(* Replies, which no step depends on, and the buffer in which they wait to *)
(* be sent are left out.                                                   *)
(***************************************************************************)
EXTENDS Integers, Sequences

CONSTANTS
    Clients,        \* the peers that may open a TCP connection
    NoClient,       \* the WiFiClient handle that is not a client
    Letters,        \* first bytes of the commands that are sent
    IdleTimeOut,    \* pfodSecurity::idleTimeOut, in ticks
    RunTime,        \* the Duration of writeMotor, in ticks
    MaxInbox        \* bound: tokens a peer may have unread

None == "none"      \* no letter
End  == "}"
Off  == -1          \* the idle timer when it is not running
Motors == {"P", "T"}
Low == <<0, 0, 0>>

ASSUME ServerAssumption ==
    /\ NoClient \notin Clients
    /\ None \notin Letters /\ End \notin Letters
    /\ {"$", "!"} \subseteq Letters
    /\ RunTime \in Nat \ {0} /\ IdleTimeOut \in Nat /\ RunTime < IdleTimeOut
    /\ MaxInbox \in Nat \ {0}

VARIABLES
    wifiConnected,    \* the server is listening
    conn,             \* each peer's connection: "none", "open" or "closed" by it
    queue,            \* connections not yet handed out by server.available()
    inbox,            \* tokens of each connection not yet read
    client,           \* the handle loop() serves
    alreadyConnected,
    half,             \* the letter of the message the parser is in, or None
    rawOn,            \* pfodSecurity::raw_io is set
    timer,            \* what is left of pfodSecurity::connectionTimer; Off if 0 there
    attached,         \* pfodESP8266BufferedClient::client is not NULL
    cmd,              \* what parse() last returned to loop(), other than 0
    waitingForOK,
    stored,           \* MotorControl[1]
    motor,            \* the motor writeMotor is driving, or None
    left,             \* what is left of its delay
    pins              \* the levels of cmd_A_pin, cmd_B_pin, cmd_C_pin

peerVars   == <<conn, queue, inbox>>
parserVars == <<half, rawOn, timer>>
motorVars  == <<motor, left, pins>>
vars == <<wifiConnected, conn, queue, inbox, client, alreadyConnected, half,
          rawOn, timer, attached, cmd, waitingForOK, stored, motor,
          left, pins>>

TypeOK ==
    /\ wifiConnected \in BOOLEAN
    /\ conn \in [Clients -> {"none", "open", "closed"}]
    /\ queue \in Seq(Clients)
    /\ inbox \in [Clients -> Seq(Letters \cup {End})]
    /\ client \in Clients \cup {NoClient}
    /\ alreadyConnected \in BOOLEAN
    /\ half \in Letters \cup {None}
    /\ rawOn \in BOOLEAN
    /\ timer \in Off .. IdleTimeOut
    /\ attached \in BOOLEAN
    /\ waitingForOK \in BOOLEAN
    /\ {cmd, stored} \subseteq Letters \cup {None}
    /\ motor \in Motors \cup {None}
    /\ left \in 0 .. RunTime
    /\ pins \in {0, 1} \X {0, 1} \X {0, 1}

Init ==
    /\ wifiConnected = FALSE
    /\ conn = [c \in Clients |-> "none"]
    /\ queue = <<>>
    /\ inbox = [c \in Clients |-> <<>>]
    /\ client = NoClient /\ alreadyConnected = FALSE
    /\ half = None /\ rawOn = FALSE /\ timer = Off
    /\ attached = FALSE
    /\ cmd = None /\ waitingForOK = FALSE /\ stored = None
    /\ motor = None /\ left = 0 /\ pins = Low

--------------------------------------------------------------------------------
(* The peers and the network. *)

PeerConnect(c) ==
    /\ wifiConnected /\ conn[c] = "none"
    /\ conn' = [conn EXCEPT ![c] = "open"]
    /\ queue' = Append(queue, c)
    /\ UNCHANGED <<wifiConnected, inbox, client, alreadyConnected, parserVars,
                   attached, cmd, waitingForOK, stored, motorVars>>

PeerSend(c, t) ==
    /\ conn[c] = "open" /\ Len(inbox[c]) < MaxInbox
    /\ inbox' = [inbox EXCEPT ![c] = Append(@, t)]
    /\ UNCHANGED <<wifiConnected, conn, queue, client, alreadyConnected,
                   parserVars, attached, cmd, waitingForOK, stored, motorVars>>

\* The peer goes away; what it sent and was not read may be lost with it.
PeerClose(c) ==
    /\ conn[c] = "open"
    /\ conn' = [conn EXCEPT ![c] = "closed"]
    /\ \E kept \in {inbox[c], <<>>} : inbox' = [inbox EXCEPT ![c] = kept]
    /\ UNCHANGED <<wifiConnected, queue, client, alreadyConnected, parserVars,
                   attached, cmd, waitingForOK, stored, motorVars>>

\* WiFiClient::connected(): the connection is up or holds unread data.
Connected(c) ==
    /\ c \in Clients
    /\ conn[c] = "open" \/ inbox[c] # <<>>

--------------------------------------------------------------------------------
(* What a call to server.available() assigns to client; the connection that
   was held is released, so that its peer may connect again. *)

TakeNext ==
    /\ client' = IF queue = <<>> THEN NoClient ELSE Head(queue)
    /\ queue' = IF queue = <<>> THEN <<>> ELSE Tail(queue)
    /\ conn' = [c \in Clients |-> IF c = client THEN "none" ELSE conn[c]]
    /\ inbox' = [c \in Clients |-> IF c = client THEN <<>> ELSE inbox[c]]

\* checkConnected() finds WL_CONNECTED and starts the server.
CheckConnected ==
    /\ ~wifiConnected
    /\ wifiConnected' = TRUE
    /\ TakeNext
    /\ UNCHANGED <<alreadyConnected, parserVars, attached, cmd, waitingForOK, stored,
                   motorVars>>

InLoop == wifiConnected /\ motor = None

\* The handle evaluates to false: its connection has gone, whether or not it
\* had been served.
HandleIsNull  == client = NoClient   \* mutant: only a handle without a client does
HandleIsFalse == ~Connected(client)

\* if (!client) client = server.available()
AcceptClient ==
    /\ InLoop
    /\ HandleIsFalse
    /\ TakeNext
    /\ UNCHANGED <<wifiConnected, alreadyConnected, parserVars, attached,
                   cmd, waitingForOK, stored, motorVars>>

\* bufferedClient.connect() and bufferedClient.stop()
Attach == attached' = TRUE
Detach == attached' = FALSE

\* parser.closeConnection()
ResetKeepsPart  == UNCHANGED half /\ rawOn' = FALSE /\ timer' = Off      \* mutant
ResetParser     == half' = None /\ rawOn' = FALSE /\ timer' = Off

\* The connection goes between the test of the handle and client.connected():
\* closeConnection() resets the parser and detaches the buffered client.
CloseConnection ==
    /\ InLoop
    /\ client # NoClient /\ ~Connected(client) /\ alreadyConnected
    /\ ResetParser
    /\ Detach
    /\ alreadyConnected' = FALSE
    /\ TakeNext
    /\ UNCHANGED <<wifiConnected, cmd, waitingForOK, stored, motorVars>>

--------------------------------------------------------------------------------
(* A connected client.  Its first iteration connects the parser, which starts
   the idle timer, and the buffered client. *)
Half0  == IF alreadyConnected THEN half ELSE None
Timer0 == IF alreadyConnected THEN timer ELSE IdleTimeOut
Raw0   == alreadyConnected /\ rawOn

ServeClient ==
    /\ InLoop
    /\ Connected(client)
    /\ alreadyConnected' = TRUE
    /\ Attach

\* The idle time is over when parse() looks.
NeverExpires == FALSE       \* mutant
Expired      == Timer0 = 0

\* The idle timer after the command x.
TimerGoesOn(x) == IF x = "!" THEN Off ELSE Timer0        \* mutant
TimerAfter(x)  == IF x = "!" THEN Off ELSE IdleTimeOut

\* The next token is t and parse() gets to read it.
Reads(t) ==
    /\ ~Expired
    /\ inbox[client] # <<>> /\ t = Head(inbox[client])

Consume == inbox' = [inbox EXCEPT ![client] = Tail(@)]

\* parse() finds nothing to read.
ParseNothing ==
    /\ ServeClient
    /\ ~Expired /\ inbox[client] = <<>>
    /\ half' = Half0 /\ rawOn' = Raw0 /\ timer' = Timer0
    /\ UNCHANGED <<wifiConnected, peerVars, client, cmd, waitingForOK, stored,
                   motorVars>>

\* parse() reads part of a message: a letter counts only at its start.
ParsePart ==
    /\ ServeClient
    /\ \E t \in Letters \cup {End} :
          /\ Reads(t)
          /\ t = End => Half0 = None
          /\ half' = IF Half0 = None /\ t # End THEN t ELSE Half0
    /\ Consume
    /\ rawOn' = Raw0 /\ timer' = Timer0
    /\ UNCHANGED <<wifiConnected, conn, queue, client, cmd, waitingForOK, stored,
                   motorVars>>

\* "{_}" without a password is answered inside parse(), which returns 0.
ParsePing ==
    /\ ServeClient
    /\ Reads(End) /\ Half0 = "_"
    /\ Consume
    /\ half' = None /\ rawOn' = Raw0 /\ timer' = Timer0
    /\ UNCHANGED <<wifiConnected, conn, queue, client, cmd, waitingForOK, stored,
                   motorVars>>

\* parse() returns x: a whole message has been read, or the idle time is over
\* and x is "!".  A "!" resets the parser and leaves raw output disabled;
\* any other command restarts the idle timer.
ParseReturns(x) ==
    /\ ServeClient
    /\ \/ Expired /\ x = "!" /\ UNCHANGED inbox
       \/ Reads(End) /\ Half0 = x /\ x \in Letters \ {"_"} /\ Consume
    /\ cmd' = x /\ half' = None
    /\ rawOn' = (x # "!")
    /\ timer' = TimerAfter(x)
    /\ UNCHANGED <<wifiConnected, conn, queue, client>>

\* Not waiting for a confirmation: the command is copied to MotorControl.
StoreCommand ==
    \E x \in Letters :
        /\ ParseReturns(x)
        /\ ~waitingForOK
        /\ waitingForOK' = TRUE /\ stored' = x
        /\ UNCHANGED motorVars

\* The pins writeMotor sets for a motor and a direction.
PinsFor(m, dir) ==
    IF m = "P" THEN (IF dir = "F" THEN <<1, 1, 0>> ELSE <<1, 0, 1>>)
               ELSE (IF dir = "F" THEN <<0, 1, 0>> ELSE <<0, 0, 1>>)

\* The answer that a command on hold waits for.
AnyConfirms(x) == TRUE           \* mutant
Confirms(x)    == x = "$"

\* "$" while waiting: sendMotorCommand() starts the stored motor and loop()
\* is blocked in its delay; another stored command does nothing.
ConfirmCommand ==
    /\ \E x \in Letters : Confirms(x) /\ ParseReturns(x)
    /\ waitingForOK
    /\ UNCHANGED stored
    /\ \/ /\ stored \in Motors
          /\ motor' = stored /\ left' = RunTime /\ pins' = PinsFor(stored, "F")
          /\ UNCHANGED waitingForOK
       \/ /\ stored \notin Motors
          /\ waitingForOK' = FALSE
          /\ UNCHANGED motorVars

\* Anything else while waiting is answered "!", which is raw output.
RejectCommand ==
    \E x \in Letters :
        /\ ~Confirms(x) /\ ParseReturns(x)
        /\ waitingForOK
        /\ waitingForOK' = FALSE
        /\ UNCHANGED <<stored, motorVars>>

\* The end of writeMotor and of the iteration that called it.
StopLeavesPins   == UNCHANGED pins /\ motor' = None /\ waitingForOK' = FALSE  \* mutant
StopKeepsWaiting == pins' = Low /\ motor' = None /\ UNCHANGED waitingForOK    \* mutant
StopMotor        == pins' = Low /\ motor' = None /\ waitingForOK' = FALSE

\* The delay of writeMotor is over: all pins low, and loop() goes on.
MotorDone ==
    /\ motor # None /\ left = 0
    /\ StopMotor
    /\ UNCHANGED <<wifiConnected, peerVars, client, alreadyConnected, parserVars,
                   attached, cmd, stored, left>>

--------------------------------------------------------------------------------
(* Time and power. *)

\* What is left of a count of ticks after one more.
ElapsePastZero(n) == n - 1        \* mutant
Elapse(n)         == IF n > 0 THEN n - 1 ELSE n

\* A tick passes; the delay of a motor ends on time.
Tick ==
    /\ motor # None => left > 0
    /\ timer' = Elapse(timer)
    /\ left' = Elapse(left)
    /\ UNCHANGED <<wifiConnected, peerVars, client, alreadyConnected, half, rawOn,
                   attached, cmd, waitingForOK, stored, motor, pins>>

\* Power is cut and comes back: setup() runs again, every connection is lost.
PowerCycle ==
    /\ wifiConnected' = FALSE
    /\ conn' = [c \in Clients |-> "none"]
    /\ queue' = <<>>
    /\ inbox' = [c \in Clients |-> <<>>]
    /\ client' = NoClient /\ alreadyConnected' = FALSE
    /\ half' = None /\ rawOn' = FALSE /\ timer' = Off
    /\ Detach
    /\ cmd' = None /\ waitingForOK' = FALSE /\ stored' = None
    /\ motor' = None /\ left' = 0 /\ pins' = Low

Loop ==
    \/ CheckConnected \/ AcceptClient \/ CloseConnection
    \/ ParseNothing \/ ParsePart \/ ParsePing
    \/ StoreCommand \/ ConfirmCommand \/ RejectCommand
    \/ MotorDone

Peer ==
    \E c \in Clients :
        \/ PeerConnect(c)
        \/ \E t \in Letters \cup {End} : PeerSend(c, t)
        \/ PeerClose(c)

Next == Loop \/ Peer \/ Tick \/ PowerCycle

Spec == Init /\ [][Next]_vars

\* loop() is called for ever and time passes; peers and power owe nothing.
FairSpec == Spec /\ WF_vars(Loop) /\ WF_vars(Tick)
--------------------------------------------------------------------------------
(* What must hold. *)

Energised == pins # Low

\* The pins drive a motor only while writeMotor runs the command that is on
\* hold, and the last thing that a client said is the "$" that confirms it:
\* never after another answer, from a stale command, after a run, or in the
\* reverse direction.
EnergisedByHeldCommand ==
    Energised => /\ waitingForOK /\ motor = stored
                 /\ cmd = "$"
                 /\ pins = PinsFor(motor, "F")

\* A motor command on hold on a served connection has the idle timer running
\* against it, however the connection was taken over: it cannot stay armed
\* while a client is silent.
ArmedIsTimed ==
    (waitingForOK /\ stored # "!" /\ alreadyConnected) => timer # Off

\* The five seconds in which writeMotor blocks loop() do not use up the idle
\* time of the client that asked for the run.
RunKeepsClient ==
    motor # None => timer = left + IdleTimeOut - RunTime

\* The parser, the buffered client and the sketch forget a connection together.
\* After closeConnection() nothing of it is left in the parser: no part of a
\* message, no raw output and no idle timer.  And the write loops of
\* writeToPfodApp, which repeat until a byte is taken, end: raw output is never
\* enabled, nor a connection served, on a buffered client that takes nothing.
ParserForgets ==
    /\ ~alreadyConnected => half = None /\ ~rawOn /\ timer = Off
    /\ rawOn \/ alreadyConnected => attached

Abstract == INSTANCE TwoPhaseCommand WITH
    Commands <- Letters,
    Motors   <- Motors \cap Letters,
    Confirm  <- "$",
    held     <- IF waitingForOK THEN stored ELSE None,
    running  <- motor,
    said     <- cmd

\* The sketch carries out the two-phase command of TwoPhaseCommand.
ImplementsTwoPhaseCommand == Abstract!Spec

\* A motor that runs is stopped, and a command on hold on a served connection
\* is settled, if only by the idle time-out, unless the connection goes first.
HeldIsSettled ==
    ((waitingForOK /\ stored # "!" /\ alreadyConnected) \/ motor # None)
        ~> (motor = None /\ (~waitingForOK \/ ~Connected(client)))

\* Once the served peer has closed, the next peer in the queue is served.
NextIsServed ==
    \A c \in Clients :
        (queue # <<>> /\ Head(queue) = c /\ ~Connected(client))
            ~> (client = c \/ conn[c] = "none")

================================================================================
