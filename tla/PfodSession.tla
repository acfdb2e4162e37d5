------------------------------ MODULE PfodSession ------------------------------
(***************************************************************************)
(* A pfod session with a password: pfodSecurity.cpp and pfodMAC.cpp on the *)
(* device, the program that calls them, and a pfodApp at the other end of  *)
(* a serial or TCP link.                                                   *)
(*                                                                         *)
(* Bytes are grouped into tokens: a whole message, or the eight hex digits *)
(* of the hash that follows a message.  A hash is the record of what is    *)
(* hashed: equal hashes have equal inputs.  The EEPROM is the AVR one, in  *)
(* which a written byte stays; it holds the power cycles in two bytes.     *)
(***************************************************************************)
EXTENDS Integers, Sequences, FiniteSets

CONSTANTS
    Commands,     \* the commands of the app
    ByteSize,     \* how many values a byte of the EEPROM has
    CounterSize,  \* connectionCounter wraps at this value
    AuthTimeOut,  \* _authorizationTimeout, in ticks
    IdleTimeOut,  \* idleTimeOut, in ticks; 0 if there is none
    MaxCommands,  \* bound: commands the app sends in a session
    MaxOutput,    \* bound: messages of a session before which the program may
                  \*   write one that answers no command
    MaxTokens     \* bound: tokens on their way in each direction

None == "none"
Bang == "!"
AuthorizingCmd == "_"
Off == -1                               \* connectionTimer is not running
MaxCycles == ByteSize * ByteSize - 1    \* what setSecretKey() stores

ASSUME SessionAssumption ==
    /\ {None, Bang, AuthorizingCmd, "reply"} \cap Commands = {}
    /\ ByteSize \in Nat \ {0, 1} /\ CounterSize \in Nat \ {0, 1}
    /\ AuthTimeOut \in Nat \ {0} /\ IdleTimeOut \in Nat
    /\ MaxCommands \in Nat /\ MaxOutput \in Nat /\ MaxTokens \in Nat \ {0, 1}

NOT_AUTHORIZING            == 0
AUTHORIZING_START          == 1
AUTHORIZING_SENT_CHALLENGE == 2
AUTHORIZING_SUCCESS        == 3

VARIABLES
    \* pfodMAC
    keyStored,      \* the EEPROM holds the key of the program
    eeprom,         \* the power cycles in the EEPROM
    powerCycles,    \* the power cycles read from it
    counter,        \* connectionCounter
    hash,           \* what the result of sipHash is the hash of
    \* pfodSecurity
    linked,         \* connect() was called and the link is up
    authorizing, timer, failedHash, challenge, inMsgCount, outMsgCount,
    collecting,     \* msgHashCount: "no" is -1; "spoiled" if another byte is in
    msg,            \* the message whose hash is being collected
    returned,       \* what parse() returned and the program has not handled
    lastConnectionClosed,
    \* the link and the app
    toDevice, toApp, app, appChallenge, appOut, appIn,
    reliable,       \* nothing is lost, and the app is not restarted
    \* history
    lastIssued,     \* the last challenge sent
    lastAnswered,   \* the challenge of the last session that was authorized
    lastAccepted    \* the hash of the last command parse() has returned

macVars  == <<keyStored, eeprom, powerCycles, counter>>
appVars  == <<app, appChallenge, appOut, appIn>>
sessionVars ==
    <<keyStored, eeprom, powerCycles, counter, hash, linked, authorizing, timer,
      failedHash, challenge, inMsgCount, outMsgCount, collecting, msg, returned,
      lastConnectionClosed, toDevice, toApp, app, appChallenge, appOut, appIn,
      lastIssued, lastAnswered, lastAccepted>>
vars == <<sessionVars, reliable>>

NoChallenge == [cycles |-> 0, n |-> 0, failed |-> FALSE]
FirstChallenge == [cycles |-> MaxCycles, n |-> 0, failed |-> FALSE]   \* before any
Challenges  == [cycles : 0 .. MaxCycles, n : 0 .. CounterSize - 1, failed : BOOLEAN]

\* What is hashed: a challenge, or a message with its count and its challenge.
MsgHash(c, n, ch) == [msg |-> c, count |-> n, of |-> ch]
ChallengeHash(ch) == MsgHash(None, 0, ch)
Hashes == [msg : Commands \cup {None, AuthorizingCmd, "reply"}, count : Nat,
           of : Challenges]

\* The tokens.
Tokens     == [kind : {"ask", "close", "ok", "answer", "challenge", "digits"}, hash : Hashes]
              \cup [kind : {"body"}, hash : [msg : Commands, count : {0}, of : {NoChallenge}]]
Ask        == [kind |-> "ask", hash |-> ChallengeHash(NoChallenge)]      \* {_}
Close      == [kind |-> "close", hash |-> ChallengeHash(NoChallenge)]    \* {!}
Ok         == [kind |-> "ok", hash |-> ChallengeHash(NoChallenge)]       \* {_}
Answer(h)  == [kind |-> "answer", hash |-> h]                            \* {_|h}
Say(ch)    == [kind |-> "challenge", hash |-> ChallengeHash(ch)]         \* {_ch}
Body(c)    == [kind |-> "body", hash |-> MsgHash(c, 0, NoChallenge)]     \* {c}
Digits(h)  == [kind |-> "digits", hash |-> h]                            \* h

Stray      == Digits(ChallengeHash(NoChallenge))                 \* no message

Running(t) == IF t = 0 THEN Off ELSE t      \* connectionTimer = t

TypeOK ==
    /\ keyStored \in BOOLEAN
    /\ eeprom \in 0 .. MaxCycles /\ powerCycles \in 0 .. MaxCycles
    /\ counter \in 0 .. CounterSize - 1
    /\ hash \in Hashes
    /\ linked \in BOOLEAN
    /\ authorizing \in 0 .. 3
    /\ timer \in Off .. AuthTimeOut \cup Off .. IdleTimeOut
    /\ failedHash \in BOOLEAN
    /\ challenge \in Challenges
    /\ inMsgCount \in Nat /\ outMsgCount \in Nat
    /\ collecting \in {"no", "clean", "spoiled"}
    /\ msg \in Commands \cup {None, AuthorizingCmd}
    /\ returned \in Commands \cup {None, Bang}
    /\ lastConnectionClosed \in BOOLEAN
    /\ toDevice \in Seq(Tokens) /\ toApp \in Seq(Tokens)
    /\ app \in {"off", "asked", "answered", "ready"}
    /\ appChallenge \in Challenges
    /\ appOut \in Nat /\ appIn \in Nat /\ reliable \in BOOLEAN
    /\ lastIssued \in Challenges /\ lastAnswered \in Challenges
    /\ lastAccepted \in Hashes

Init ==
    /\ keyStored \in BOOLEAN
    /\ eeprom \in {MaxCycles} \cup (IF keyStored THEN {} ELSE {0})
    /\ powerCycles = 0 /\ counter = 0
    /\ hash = ChallengeHash(NoChallenge)
    /\ linked = FALSE
    /\ authorizing = NOT_AUTHORIZING /\ timer = Off /\ failedHash = FALSE
    /\ challenge = NoChallenge
    /\ inMsgCount = 0 /\ outMsgCount = 0
    /\ collecting = "no" /\ msg = None /\ returned = None
    /\ lastConnectionClosed = TRUE
    /\ toDevice = <<>> /\ toApp = <<>>
    /\ app = "off" /\ appChallenge = NoChallenge /\ appOut = 0 /\ appIn = 0
    /\ reliable \in BOOLEAN
    /\ lastIssued = FirstChallenge /\ lastAnswered = FirstChallenge
    /\ lastAccepted = ChallengeHash(FirstChallenge)

--------------------------------------------------------------------------------
(* pfodMAC. *)

\* readPowerCycles(): the value read is used, one less is written back.
SpendNothing(cycles)  == cycles                       \* mutant
SpendOneMore(cycles)  == cycles - 1                   \* mutant
Spend(cycles) == IF cycles = 0 THEN 0 ELSE cycles - 1

\* The power cycles that connect() finds in the EEPROM, after setSecretKey().
Stored == IF keyStored THEN eeprom ELSE MaxCycles

\* buildChallenge(), with pc power cycles read and ee left in the EEPROM: when
\* connectionCounter wraps, another power cycle is spent.  A challenge is not
\* built without power cycles, and the old one is sent.
BuildForgetsCount(pc, ee, failed) ==                  \* mutant
    /\ counter' = counter /\ powerCycles' = pc /\ eeprom' = ee
    /\ challenge' = [cycles |-> pc, n |-> counter, failed |-> failed]
    /\ hash' = ChallengeHash(challenge')

BuildChallenge(pc, ee, failed) ==
    LET n     == (counter + 1) % CounterSize
        now   == IF n = 0 THEN ee ELSE pc
    IN  /\ counter' = n
        /\ powerCycles' = now
        /\ eeprom' = IF n = 0 THEN Spend(ee) ELSE ee
        /\ IF now = 0
           THEN UNCHANGED <<challenge, hash>>
           ELSE /\ challenge' = [cycles |-> now, n |-> n, failed |-> failed]
                /\ hash' = ChallengeHash(challenge')

--------------------------------------------------------------------------------
(* What connect() and closeConnection() leave of a session. *)

NewSessionKeepsCount ==                               \* mutant
    /\ UNCHANGED inMsgCount /\ outMsgCount' = 0
    /\ collecting' = "no" /\ msg' = None

NewSession ==
    /\ inMsgCount' = 0 /\ outMsgCount' = 0
    /\ collecting' = "no" /\ msg' = None

\* pfodSecurity::closeConnection()
CloseSession ==
    /\ NewSession
    /\ authorizing' = NOT_AUTHORIZING /\ timer' = Off
    /\ lastConnectionClosed' = TRUE

\* parse() returns "!" and has closed the connection; bad if that is because
\* failedHash is set.
Disconnect(bad) ==
    /\ CloseSession
    /\ returned' = Bang
    /\ failedHash' = (failedHash \/ bad)
    /\ UNCHANGED <<linked, challenge, hash, appVars,
                   lastIssued, lastAnswered, lastAccepted>>

\* A new link: the program calls connect().
Connect ==
    /\ ~linked
    /\ linked' = TRUE
    /\ NewSession
    /\ authorizing' = AUTHORIZING_START /\ timer' = AuthTimeOut
    /\ failedHash' = FALSE
    /\ keyStored' = TRUE
    /\ powerCycles' = Stored /\ eeprom' = Spend(Stored)
    /\ returned' = None
    /\ UNCHANGED <<counter, hash, challenge, lastConnectionClosed, toDevice,
                   toApp, appVars, lastIssued, lastAnswered, lastAccepted>>

--------------------------------------------------------------------------------
(* parse(), which is called once the program has handled what it returned. *)

InParse == linked /\ returned = None

\* No power cycles are left: the input is drained.
ParseInvalid ==
    /\ InParse
    /\ powerCycles = 0
    /\ toDevice' = <<>>
    /\ Disconnect(FALSE)
    /\ UNCHANGED <<macVars, toApp>>

\* connectionTimer is over.
NeverExpired == FALSE                                 \* mutant
TimerExpired == timer = 0
ParseTimeOut ==
    /\ InParse
    /\ powerCycles > 0 /\ TimerExpired
    /\ Disconnect(FALSE)
    /\ UNCHANGED <<macVars, toDevice, toApp>>

\* The next token, if there is one, and reading it.
Incoming == {toDevice[i] : i \in DOMAIN toDevice \cap {1}}
Sees(t) ==
    /\ InParse
    /\ powerCycles > 0 /\ ~TimerExpired
    /\ t \in Incoming
Reads(t) == Sees(t) /\ toDevice' = Tail(toDevice)

\* The first byte while not authorized starts the timer and the authorization.
StartsNoTimer == timer' = timer                       \* mutant
StartsTimer   == timer' = IF timer = Off THEN AuthTimeOut ELSE timer

IsMessage(t) == t.kind \in {"ask", "answer", "body", "close"}

\* Bytes outside a message are dropped.
ParseStray ==
    /\ \E t \in Incoming : Reads(t) /\ ~IsMessage(t)
    /\ collecting = "no"
    /\ IF authorizing = AUTHORIZING_SUCCESS
       THEN UNCHANGED <<authorizing, timer>>
       ELSE /\ StartsTimer
            /\ authorizing' = IF authorizing = NOT_AUTHORIZING
                              THEN AUTHORIZING_START ELSE authorizing
    /\ UNCHANGED <<macVars, hash, linked, failedHash, challenge, inMsgCount,
                   outMsgCount, collecting, msg, returned, lastConnectionClosed,
                   toApp, appVars, lastIssued, lastAnswered, lastAccepted>>

\* "{!}" is acted on without a hash.
ParseClose ==
    /\ Reads(Close)
    /\ collecting = "no"
    /\ Disconnect(FALSE)
    /\ UNCHANGED <<macVars, toApp>>

\* "{_}" before a challenge was sent, or in an authorized session, which is
\* closed and connected again: a challenge is sent.
ParseAsk ==
    /\ Reads(Ask)
    /\ collecting = "no"
    /\ Len(toApp) < MaxTokens
    /\ authorizing # AUTHORIZING_SENT_CHALLENGE
    /\ IF authorizing = AUTHORIZING_SUCCESS
       THEN /\ BuildChallenge(Stored, Spend(Stored), FALSE)
            /\ NewSession
            /\ lastConnectionClosed' = TRUE
       ELSE /\ BuildChallenge(powerCycles, eeprom, failedHash)
            /\ UNCHANGED <<inMsgCount, outMsgCount, collecting, msg,
                           lastConnectionClosed>>
    /\ authorizing' = AUTHORIZING_SENT_CHALLENGE /\ timer' = AuthTimeOut
    /\ failedHash' = FALSE
    /\ toApp' = Append(toApp, Say(challenge'))
    /\ lastIssued' = challenge'
    /\ UNCHANGED <<keyStored, linked, returned, appVars, lastAnswered, lastAccepted>>

\* The answer to the challenge.
ParseAnswer ==
    /\ \E t \in Incoming :
          Reads(t) /\ t.kind = "answer" /\ t.hash = hash
    /\ collecting = "no"
    /\ authorizing = AUTHORIZING_SENT_CHALLENGE
    /\ Len(toApp) < MaxTokens
    /\ authorizing' = AUTHORIZING_SUCCESS /\ timer' = Running(IdleTimeOut)
    /\ toApp' = Append(toApp, Ok)
    /\ lastAnswered' = challenge
    /\ UNCHANGED <<macVars, hash, linked, failedHash, challenge, inMsgCount,
                   outMsgCount, collecting, msg, returned, lastConnectionClosed,
                   appVars, lastIssued, lastAccepted>>

\* A message that is not the one expected while authorizing.  After the
\* challenge only a wrong answer counts as a failed hash.
ParseUnexpected ==
    \E t \in Incoming :
        /\ Reads(t)
        /\ collecting = "no"
        /\ \/ /\ authorizing \in {NOT_AUTHORIZING, AUTHORIZING_START}
              /\ t.kind \in {"answer", "body"}
              /\ Disconnect(TRUE)
           \/ /\ authorizing = AUTHORIZING_SENT_CHALLENGE
              /\ t.kind = "answer" /\ t.hash # hash
              /\ Disconnect(TRUE)
           \/ /\ authorizing = AUTHORIZING_SENT_CHALLENGE
              /\ t.kind \in {"ask", "body"}
              /\ Disconnect(FALSE)
        /\ UNCHANGED <<macVars, toApp>>

\* The end of a message in an authorized session: its hash is to be collected.
ParseBody ==
    \E t \in Incoming :
        /\ Reads(t)
        /\ collecting = "no" /\ authorizing = AUTHORIZING_SUCCESS
        /\ t.kind \in {"body", "answer"}
        /\ msg' = IF t.kind = "body" THEN t.hash.msg ELSE AuthorizingCmd
        /\ hash' = MsgHash(msg', inMsgCount, challenge)
        /\ collecting' = "clean"
        /\ UNCHANGED <<macVars, linked, authorizing, timer, failedHash, challenge,
                       inMsgCount, outMsgCount, returned, lastConnectionClosed,
                       toApp, appVars, lastIssued, lastAnswered, lastAccepted>>

\* The hash matches: parse() returns the command.
CountsNothing == UNCHANGED inMsgCount                 \* mutant
CountsMessage == inMsgCount' = inMsgCount + 1

ParseHash ==
    /\ \E t \in Incoming :
          Reads(t) /\ t.kind = "digits" /\ t.hash = hash
    /\ collecting = "clean" /\ msg # AuthorizingCmd
    /\ CountsMessage
    /\ returned' = msg
    /\ collecting' = "no" /\ timer' = Running(IdleTimeOut)
    /\ lastAccepted' = hash
    /\ UNCHANGED <<macVars, hash, linked, authorizing, failedHash, challenge,
                   outMsgCount, msg, lastConnectionClosed, toApp, appVars,
                   lastIssued, lastAnswered>>

\* Other bytes are taken for the hash.  A short message is less than the eight
\* digits, and more bytes are awaited; else the digits do not match, and the
\* rest of the token is left, if eight bytes are not all of it.
ParseWrongHash ==
    \E t \in Incoming :
        /\ Sees(t)
        /\ collecting # "no"
        /\ ~(collecting = "clean" /\ msg # AuthorizingCmd /\ t = Digits(hash))
        /\ \/ /\ \/ toDevice' = Tail(toDevice)
                 \/ /\ collecting = "spoiled" \/ t.kind # "digits"
                    /\ toDevice' = <<Stray>> \o Tail(toDevice)
              /\ Disconnect(TRUE)
           \/ /\ collecting = "clean" /\ IsMessage(t)
              /\ toDevice' = Tail(toDevice)
              /\ collecting' = "spoiled"
              /\ UNCHANGED <<hash, linked, authorizing, timer, failedHash,
                             challenge, inMsgCount, outMsgCount, msg, returned,
                             lastConnectionClosed, appVars,
                             lastIssued, lastAnswered, lastAccepted>>
        /\ UNCHANGED <<macVars, toApp>>

--------------------------------------------------------------------------------
(* The program handles what parse() returned. *)

\* writeToPfodApp() hashes a message with the SipHash that parse() uses too.
writeToPfodApp ==
    /\ linked /\ authorizing = AUTHORIZING_SUCCESS
    /\ Len(toApp) < MaxTokens
    /\ hash' = MsgHash("reply", outMsgCount, challenge)
    /\ outMsgCount' = outMsgCount + 1
    /\ toApp' = Append(toApp, Digits(hash'))
    /\ UNCHANGED <<macVars, linked, authorizing, timer, failedHash, challenge,
                   inMsgCount, collecting, msg, lastConnectionClosed, toDevice,
                   appVars, lastIssued, lastAnswered, lastAccepted>>

\* It answers a command.
Respond == returned \in Commands /\ returned' = None /\ writeToPfodApp

\* It writes a message of its own between two calls of parse(): the first may
\* have read a message, and the second its hash.
Write ==
    /\ returned = None /\ outMsgCount < MaxOutput
    /\ writeToPfodApp /\ UNCHANGED returned

\* It does not answer, or it stays connected in spite of "!".
Ignore ==
    /\ linked /\ returned # None
    /\ returned' = None
    /\ UNCHANGED <<macVars, hash, linked, authorizing, timer, failedHash,
                   challenge, inMsgCount, outMsgCount, collecting, msg,
                   lastConnectionClosed, toDevice, toApp, appVars, lastIssued,
                   lastAnswered, lastAccepted>>

\* The app has no session, and forgets what it knew of one.
AppForgets ==
    /\ app' = "off" /\ appChallenge' = NoChallenge
    /\ appOut' = 0 /\ appIn' = 0

\* The link goes down, by the program after "!" or from outside: the program
\* calls closeConnection(), and what was on its way is lost.
LinkDown ==
    /\ linked
    /\ linked' = FALSE
    /\ CloseSession
    /\ returned' = None
    /\ toDevice' = <<>> /\ toApp' = <<>>
    /\ AppForgets
    /\ UNCHANGED <<macVars, hash, failedHash, challenge, lastIssued, lastAnswered,
                   lastAccepted>>

--------------------------------------------------------------------------------
(* The app. *)

deviceVars == <<keyStored, eeprom, powerCycles, counter, hash, linked,
                authorizing, timer, failedHash, challenge, inMsgCount,
                outMsgCount, collecting, msg, returned, lastConnectionClosed>>

AppAsk ==
    /\ linked /\ app = "off"
    /\ Len(toDevice) < MaxTokens
    /\ app' = "asked" /\ toDevice' = Append(toDevice, Ask)
    /\ UNCHANGED <<deviceVars, toApp, appChallenge, appOut, appIn, lastIssued,
                   lastAnswered, lastAccepted>>

AppCommand(c) ==
    /\ app = "ready" /\ appOut < MaxCommands
    /\ Len(toDevice) + 2 <= MaxTokens
    /\ toDevice' = toDevice \o <<Body(c), Digits(MsgHash(c, appOut, appChallenge))>>
    /\ appOut' = appOut + 1
    /\ UNCHANGED <<deviceVars, toApp, app, appChallenge, appIn,
                   lastIssued, lastAnswered, lastAccepted>>

AppClose ==
    /\ app = "ready"
    /\ Len(toDevice) < MaxTokens
    /\ AppForgets /\ toDevice' = Append(toDevice, Close)
    /\ UNCHANGED <<deviceVars, toApp, lastIssued, lastAnswered, lastAccepted>>

\* The app reads a token: the next step of the handshake, a reply with the
\* right hash, or one it cannot use.
AppReads ==
    /\ toApp # <<>>
    /\ toApp' = Tail(toApp)
    /\ LET t == Head(toApp) IN
        \/ /\ app = "asked" /\ t.kind = "challenge"
           /\ Len(toDevice) < MaxTokens
           /\ app' = "answered" /\ appChallenge' = t.hash.of
           /\ toDevice' = Append(toDevice, Answer(t.hash))
           /\ UNCHANGED <<appOut, appIn>>
        \/ /\ app = "answered" /\ t.kind = "ok"
           /\ app' = "ready" /\ appOut' = 0 /\ appIn' = 0
           /\ UNCHANGED <<appChallenge, toDevice>>
        \/ /\ app = "ready" /\ t.kind = "digits"
           /\ t.hash = MsgHash("reply", appIn, appChallenge)
           /\ appIn' = appIn + 1
           /\ UNCHANGED <<app, appChallenge, appOut, toDevice>>
        \/ /\ app = "ready"
           /\ t # Digits(MsgHash("reply", appIn, appChallenge))
           /\ AppForgets
           /\ UNCHANGED toDevice
        \/ /\ \/ app = "off"
              \/ app = "asked" /\ t.kind # "challenge"
              \/ app = "answered" /\ t.kind # "ok"
           /\ UNCHANGED <<appVars, toDevice>>
    /\ UNCHANGED <<deviceVars, lastIssued, lastAnswered, lastAccepted>>

\* The app is restarted, or gives up, and the link stays.
AppRestart ==
    /\ ~reliable /\ app # "off"
    /\ AppForgets
    /\ UNCHANGED <<deviceVars, toDevice, toApp, lastIssued, lastAnswered, lastAccepted>>

\* s without its i-th element
Without(s, i) == SubSeq(s, 1, i - 1) \o SubSeq(s, i + 1, Len(s))

Lose ==
    /\ ~reliable
    /\ \/ /\ \E i \in DOMAIN toDevice : toDevice' = Without(toDevice, i)
          /\ UNCHANGED toApp
       \/ /\ \E i \in DOMAIN toApp : toApp' = Without(toApp, i)
          /\ UNCHANGED toDevice
    /\ UNCHANGED <<deviceVars, appVars, lastIssued, lastAnswered, lastAccepted>>

--------------------------------------------------------------------------------
(* Time and power. *)

Tick ==
    /\ linked /\ timer > 0
    /\ timer' = timer - 1
    /\ UNCHANGED <<macVars, hash, linked, authorizing, failedHash, challenge,
                   inMsgCount, outMsgCount, collecting, msg, returned,
                   lastConnectionClosed, toDevice, toApp, appVars, lastIssued,
                   lastAnswered, lastAccepted>>

\* Everything but the EEPROM is lost.
LosePower ==
    /\ powerCycles' = 0 /\ counter' = 0
    /\ hash' = ChallengeHash(NoChallenge) /\ challenge' = NoChallenge
    /\ linked' = FALSE
    /\ CloseSession
    /\ failedHash' = FALSE /\ returned' = None
    /\ toDevice' = <<>> /\ toApp' = <<>>
    /\ AppForgets
    /\ UNCHANGED <<lastIssued, lastAnswered, lastAccepted>>

PowerCycle == LosePower /\ UNCHANGED <<keyStored, eeprom>>

Parse ==
    \/ ParseInvalid \/ ParseTimeOut \/ ParseStray \/ ParseClose \/ ParseAsk
    \/ ParseAnswer \/ ParseUnexpected \/ ParseBody \/ ParseHash \/ ParseWrongHash

Program == Parse \/ Connect \/ Respond \/ Write \/ Ignore \/ LinkDown

App ==
    \/ AppAsk \/ AppClose \/ AppReads \/ AppRestart
    \/ \E c \in Commands : AppCommand(c)

Next == (Program \/ App \/ Lose \/ Tick \/ PowerCycle) /\ UNCHANGED reliable

Spec == Init /\ [][Next]_vars

\* The program calls parse() for ever, and handles what it returns; time passes
\* and the app reads what it is sent.  Links, losses and power owe nothing.
FairSpec ==
    /\ Spec
    /\ WF_sessionVars(Parse) /\ WF_sessionVars(Respond \/ Ignore)
    /\ WF_sessionVars(Tick) /\ WF_sessionVars(AppReads)

--------------------------------------------------------------------------------
(* What must hold. *)

\* a comes after b: fewer power cycles are left, or connectionCounter is larger.
Later(a, b) == a.cycles < b.cycles \/ (a.cycles = b.cycles /\ a.n > b.n)

\* Each challenge comes after all that were sent before, also after a power
\* cycle, and when connectionCounter wraps.  When no power cycles are left
\* buildChallenge() fails, which is not looked at, and the last challenge is
\* sent again; but no session is authorized on a challenge that is not later
\* than those of all the sessions before.
ChallengeIsFresh ==
    [][/\ ParseAsk => IF powerCycles' > 0 THEN Later(challenge', lastIssued)
                                         ELSE challenge' = lastIssued
       /\ ParseAnswer => Later(challenge, lastAnswered)]_vars

\* Commands are run once and in the order of the app, and none is skipped: the
\* first of a session belongs to a later challenge than any that was run, and
\* the others follow the one before.
CommandsRunInOrder ==
    [][ParseHash =>
          IF hash.count = 0
          THEN Later(hash.of, lastAccepted.of)
          ELSE lastAccepted.count = hash.count - 1 /\ lastAccepted.of = hash.of]_vars

\* Whoever began to authorize, or holds a session, has a time-out running
\* against it, also after a session that ended on the same link.
SessionIsTimed ==
    /\ authorizing \in {AUTHORIZING_START, AUTHORIZING_SENT_CHALLENGE} => timer # Off
    /\ authorizing = AUTHORIZING_SUCCESS /\ IdleTimeOut > 0 => timer # Off

\* What one session leaves to the next on the same link: no count, and no hash
\* half collected that would swallow its first bytes.
NothingCarriedOver ==
    authorizing # AUTHORIZING_SUCCESS =>
        inMsgCount = 0 /\ outMsgCount = 0 /\ collecting = "no"

\* On a link that loses nothing, with an app that is not restarted, what follows
\* a message is the hash of that message, of its place in the session and of its
\* challenge.  It is what parse() waits for, unless the program has meanwhile
\* written a message of its own, whose hash has replaced it.
HonestHashMatches ==
    (reliable /\ collecting # "no" /\ toDevice # <<>>) =>
        /\ Head(toDevice) = Digits(MsgHash(msg, inMsgCount, challenge))
        /\ \/ hash = MsgHash(msg, inMsgCount, challenge)
           \/ outMsgCount > 0 /\ hash = MsgHash("reply", outMsgCount - 1, challenge)

\* Authorization ends, with a session or without, and a hash that never comes
\* does not hold the parser for ever.
Authorizing == authorizing \in {AUTHORIZING_START, AUTHORIZING_SENT_CHALLENGE}
WaitingEnds ==
    Authorizing \/ collecting # "no" ~> ~Authorizing /\ collecting = "no"
================================================================================
