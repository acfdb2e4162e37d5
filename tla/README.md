# Smart mini blinds: a TLA+ model of the firmware, its libraries and its apps

This directory specifies the program of this repository: motorised window
blinds driven by an ESP8266 over WiFi, commanded from Android apps, with the
libraries that carry the commands.  The modules are translated from the source
under `src/`; `PROJECT.json` maps each definition to the lines it stands for.

## 1. The system

| Component | Source | State it keeps | Operations | Hard behaviour |
|---|---|---|---|---|
| Blinds sketch, normal processing | `Arduino/CooperLaone/4_29_2017/ESP8266Connection/ESP8266Connection.ino` (`loop`, `closeConnection`, `sendMotorCommand`, `writeMotor`) | the client handle, `alreadyConnected`, `waitingForOK`, `MotorControl`, three motor pins | accept, serve and close a client; store, confirm or reject a command; drive a motor for five seconds inside `loop()` | clients come, go and are silent at any point; a closed handle is noticed in two different ways; the motor blocks everything else; the power is cut |
| Blinds sketch, set-up | same file (`setupAP`, `handleConfig`, `closeAP`, `startConnectingToWiFi`, `readStorage`, `writeStorage`) | AP and WiFi phase, configuration in RAM and in EEPROM, the ten-minute timer | serve the configuration page, store a configuration, close the AP, join the network | time-out against a late form; partial forms; a power cut around the EEPROM commit; joining may never succeed |
| pfod parser | `pfodParser/pfodParser.cpp` | parser state, argument buffer and indices, version split | byte-by-byte parse, iteration over arguments | full buffer, separators in any place, restart in the middle of a message |
| pfod security and MAC | `pfodParser/pfodSecurity.cpp`, `pfodMAC.cpp`, `SipHash_2_4.cpp` | authorisation state, message counters, idle and authorisation timers, hash collection, challenge counters in RAM and EEPROM | connect, close, parse, write a response with its hash | handshake order, a lost or damaged message, a reconnection in the middle of a session, counter wrap, a power cycle |
| Buffered client | `pfodESP8266BufferedClient/src/pfodESP8266BufferedClient.cpp` | send buffer, its timer, pointer to the WiFi client | write, delayed send, stop | replies still in the buffer when the client changes (contents not modelled, see Observations) |
| SMS driver | `pfodParser/pfodSMS_SIM900.cpp` | known connections, message numbers, response and raw-data buffers, modem dialogue | decode, acknowledge, resend, drop; modem line handling | lost, repeated and reordered messages, number wrap, ten-connection table |
| ESP-AT driver | `pfodParser/pfodESP8266_AT.cpp`, `pfodWaitForUtils.cpp` | link, response and raw buffers, AT dialogue, set-up stage | poll, send, reset, close | notices inside the AT dialogue, links that close in the middle of a part, time-outs, a chip that fails |
| Light sketch | `Pfod_Wifi_Test/Pfod_Wifi_Test.ino` | the light (`cmd_A_var`), set-up phase, connection | a wall switch and a pfodApp operate one light | iterations that block while the switch bounces or pulses |
| Debounced switch | `DebouncedSwitch/DebouncedSwitch.cpp` | debounced state, two timers | update | bounce shorter than the debounce time, AC sensing |
| Controller app, version 2 | `AndroidApp/ControllerV2/Home.java` | shared socket, address and port, colour of a label | connect in a task, send a command | taps while tasks run; results that come later than the next tap; no confirmation is ever sent |
| Controller app, version 1 | `AndroidApp/Controller/*.java` | socket, saved blinds | connect, send and wait for an echo and "okay" | waits for answers the sketch does not give |
| Web configuration | `pfodESP8266WiFi/src/pfodESP8266WebConfig.cpp`, `pfodESP8266WebServer.cpp`, `Parsing.cpp` | stored settings | pages, store, join | like the sketch's set-up |
| Test controller | `AndroidApp/TestController/*.java` | counters, socket | buttons | connects in a thread of its own |

How they interact.  An app opens a TCP connection and writes `{..}` messages.
`loop()` of the sketch takes the connection from the WiFi server, hands it to
the buffered client and the parser (`parser.connect(bufferedClient.connect(..))`)
and calls `parser.parse()` in every iteration.  `pfodSecurity::parse` reads the
stream, keeps the authorisation and idle timers, and passes bytes to
`pfodParser::parse`; it returns the first byte of a command, or `!` when the
connection should be dropped.  The sketch keeps the first command as held,
acts on a following `$` and answers anything else with `!`; answers go back
through `pfodSecurity::writeToPfodApp` and the send buffer.  With a password
the security layer adds a challenge and a hash to every message.  The SMS and
the ESP-AT drivers are alternative streams below the same security layer: they
report the end of a connection with the byte 0xff and are told of it with
`_closeCurrentConnection`.  The light sketch is built like the blinds sketch,
with `DebouncedSwitch::update` at the top of every iteration.  The apps meet
the blinds only through the order in which their sockets are served and their
messages are read.  Nothing in the firmware is preempted: the hard part is the
order in which peers, modem, network, wall switch and power interleave with
`loop()`; in version 2 of the app, a background task interleaves with the UI.

What makes each part correct, in one line each:

- normal processing: a motor turns only for a held command and after its
  confirmation, and it stops; a connection that was closed leaves nothing in
  parser and buffered client, and one that is gone does not keep the next
  waiting (a held command does outlive its client, and a client that is
  connected and silent does keep others out: see Observations);
- set-up: the device joins what its page promised, and always leaves set-up;
- parser: what is read back is what was sent, and it finds the next message;
- security: commands run once and in order, no session is authorized on a
  challenge that is not later than those of all before, every session is timed;
- SMS connections: the same over a network that delays and repeats;
- modem dialogue: device and modem agree on who speaks, and all that is
  written leaves;
- ESP-AT driver: the chip gets the text it prompts for, a client gets the parts
  of a response in order, and a client that is gone is forgotten;
- light: one move of the switch is one change, however it bounces, and soon;
- apps: the last tap wins, and each of the blinds obeys the two-phase protocol
  whichever app its messages come from.

## 2. Plan

| Order | Module | Composes or uses | Status |
|---|---|---|---|
| 1 | `TwoPhaseCommand` | abstract specification of normal processing | done |
| 2 | `BlindsServer`, `BlindsServerProofs` | sketch, parser without password, buffered client; implements `TwoPhaseCommand` | done, proved |
| 3 | `AccessPoint`, `AccessPointProofs` | set-up, up to where `BlindsServer` begins | done, proved |
| 4 | `PfodParser` (proofs in `BlindsServerProofs`) | the parser, byte by byte | done, proved |
| 5 | `PfodSession`, `PfodSessionProofs` | security and MAC against an app over a lossy link | done, proved |
| 6 | `SmsConnections`, `SmsConnectionsProofs` | SMS driver: connections, commands, responses | done, proved |
| 7 | `SmsModem`, `SmsModemProofs` | SMS driver: the dialogue with the modem | done, proved |
| 8 | `EspAt`, `EspAtProofs` | AT dialogue, link, response and raw data, set-up, failing chip | done, proved |
| 9 | `ControllerApps`, `ControllerAppsProofs` | both apps and a pfodApp against several blinds; implements `TwoPhaseCommand` for each | done, proved |
| 10 | `DebouncedSwitch`, `LightSwitch`, `LightSwitchProofs` | the library as operators; the sketch that uses it | done, proved |
| 11 | `SmsCoding` (proofs in `SmsConnectionsProofs`), `Conversions`, `SipHash` | conversions that keep no state, as operators; checked by the MC modules of the components that use them | done, `SmsCoding` proved, of `Conversions` form fields and hexadecimal texts |

Left: theorems about the other operators of `Conversions` (numbers, addresses and
keys), which fold over their texts.  No module declares a
`RECURSIVE` operator.

## 3. The modules

### BlindsServer (normal processing)

| Model | Code |
|---|---|
| `client`, `alreadyConnected`, `waitingForOK`, `stored`, `pins` | the globals of the sketch; `stored` is `MotorControl[1]` |
| `half`, `rawOn`, `timer` | a message half read by the parser, `raw_io # NULL`, `connectionTimer` |
| `attached` | the buffered client has a `WiFiClient` (`Attach`, `Detach`: its `connect` and `stop`) |
| `cmd` | what `parse()` last returned to `loop()`; `Confirms` is the test for `$` |
| `conn`, `queue`, `inbox` | external: peers, the backlog of `WiFiServer`, bytes received |
| `AcceptClient`, `CloseConnection` | the first two branches of `loop()` |
| `ParseNothing`, `ParsePart`, `ParsePing` | iterations in which `parse()` returns 0 |
| `StoreCommand`, `ConfirmCommand`, `RejectCommand` | iterations in which it returns a command |
| `MotorDone` | the end of `writeMotor` and of the iteration around it; `loop()` is blocked until then |
| `CheckConnected`, `PowerCycle` | the start of normal processing, and `setup()` |

`WiFiClient` is external: its conversion to `bool` and `connected()` are both
"up, or unread data left", so a closed connection is normally noticed at `if
(!client)`; that it closes between the two tests is `CloseConnection`.  A letter
stands for `{` and the first byte of a command, with what follows up to the
brace; an iteration takes at most one such token.  Replies and the buffer they
wait in are left out: no step depends on them.  The write loops of
`writeToPfodApp` repeat until a byte is taken: the model has no step for them,
and `ParserForgets` says that they always end.

### TwoPhaseCommand (abstract)

`held`, `running` and `said`, the last command of any client, and five actions.
`BlindsServer` implements it with `held` read from `waitingForOK` and `stored`,
`running` from `motor` and `said` from `cmd`; `ControllerApps` implements it
once for each of the blinds, with the `said` of that one.  It fixes what may
happen to a held command: a motor command runs only when what is said is the
confirmation, once and to the end; or it is given up; it is never replaced;
whichever client, timer or reset is the cause.

### AccessPoint (set-up)

`storage` and `eeprom` are the settings in RAM and in the EEPROM; `mode` the WiFi
mode; `page` what the configuration page last showed.  `handleConfig` is the
whole handler for a request with parameters: fields that it has are laid over
RAM, all is written (also when it has none of the known fields), the page is
sent, and the access point is closed in the same iteration.
`handleConfigWithoutArgs` is the handler for a request without parameters,
which stores nothing.
`LoopTimeOut`, `startConnectingToWiFi` and `checkConnected` are the other
branches of `loop()`.  The port is cut to `PortSize`.  `EEPROM.commit()` is
atomic.

### PfodParser

One action per return of `parse(in)`; `args` up to `argsIdx`, `cmdStart`,
`versioned` and `refresh` as in the code.  `getFirstArg`, `getNextArg` and the
end of a string are operators on `args`.  `raw` records the message as received.

### PfodSession (security with a password)

The device's variables are those of `pfodSecurity` and `pfodMAC`.  `Connect`,
the ten `Parse..` actions, `Respond` and `Ignore` are the device; `App..`
actions the app, modelled from what the device expects of it (external);
`Lose` the link; `PowerCycle` forgets everything but the EEPROM.  A hash is the
record of what is hashed, and the one result of `SipHash` that incoming and
outgoing messages share is the variable `hash`.  The app may send a command
before it has the answer to the last.  The program answers what `parse()` has
returned (`Respond`), and between two calls of `parse()` it may write a message
of its own (`Write`), also when one call has read a message and the next will
read its hash: `writeToPfodApp` then puts its own result into `hash`.
`lastIssued` and `lastAnswered` are the last challenge sent and that of the last
session that was authorized.  The two bytes of the
power cycles are written in one step.  `connectionCounter` is cut to
`CounterSize`.  Streams with a `pfod_Base` (drivers) are not in this module.

### SmsConnections

`current` and `known` are `currentConnection` and the known connections, `rx`
what is in `rxBuffer`, `tx` the response in `txBuffer` with its parts, `out` the
encoded message in `responseSMSbuffer`, and the four flags have the names of the
code.  `decodeSMS` is the predicates `IsNext`, `IsRepeat`, `IsLater`, `IsOther`;
one `Receive..` action per result of it contains what `processGprsLine` then
does.  `ReadClose`, `ReadPart` and `ReadCommand` are the parser above and the
program that answers, `Run` the command that is run then; `FoundOK` and `Prompt`
the modem's progress.  The network is the set `sent`, from which any message may
be delivered at any time, again and again.  The parser has drained `rxBuffer`
before the next message: each takes a dialogue of several lines and as many
iterations.  A response fits in `txBuffer`.

### SmsModem

The same driver seen from the serial line: `foundOK`, `requested`
(`haveRequestedIncomingMsg`), `expecting`, `deleteRead`, the `queue` of message
numbers, and `send` with the flags of the response.  One `Take..` action per
kind of line; `OK` is the chain of branches that `processGprsLine` enters on OK
and that flush and raw data force.  The modem (external) answers each command in
turn, may answer with an error, keeps messages on its SIM, and announces new
ones at any time.  `quiet` is drawn once: in those behaviours messages arrive
only while the line is idle.  `overflowed` records that the queue was ever full
when a message came.

### EspAt

The driver for an ESP8266 with the AT firmware.  A *unit* is what is sent to
its end once begun: a response or a line of raw data, in parts (`CIPSEND`, the
prompt, the part, `SEND OK`); `tx` and `raw` are the two units, `text` is
`espTxMsg`, and `flags` are the five flags of the two, with the names of the
code.  `TakeData`, `TakeIPD`, `TakePrompt`, `TakeError`, `TakeOK` and
`TakeOther` are `processEspLine` by kind of line, and contain `handleOK` or the
copying of data.  `Program` is the parser and the program above it; the three
`..Expires` actions are the timers; `init` and `ESP8266_setup` the set-up, which
walks through `SetupCommands` and starts over when an answer is not the one
waited for.  `Say` and `SayText` put in one place what a chip makes of what it
is told in each of its states: a chip at its prompt takes anything for text.
The chip, which may fail `MaxFaults` times, and the clients are external.
History variables say what the properties are about: `garbled` (a prompt got
something else), `torn` (a client got a part out of order), and the two
conditions under which the code does not promise that, `cut` (a link was given
up while a part was on its way) and `fresh` (a link that began with nothing
left of an earlier one).

### ControllerApps

Version 2 of the app (`Home.java`), version 1 (`Controller.java`) and, external,
a pfodApp, with several blinds.  A tap assigns the address and then the port
and starts an `AsyncTask` (`TapFirst`, `TapThen`); a task reads the address and
then the port and then opens a socket (`TaskLooksUp`, `TaskReadsPort`, `TaskEnds`),
and its result is handed to the UI later (`onPostExecute`); tasks run one after
the other, and a tap may fall between any two of these steps.
`PressV1` sends a line without braces and waits in `readLine` for ever.  The
blinds are the sketch again, one connection at a time, with its timers left
out: the idle time-out may come whenever nothing has been read.  `said` is what
`parse()` last returned on each of them.

### DebouncedSwitch and LightSwitch

`DebouncedSwitch` is `update()` and the constructor as operators on a record,
with the missing-pulse and the debounce timer counted from when they were
started.  `LightSwitch` is the sketch around it.  A unit of time is half an AC
cycle and one iteration; the iterations that block (a web page, closing the
access point) take one of `Blocked`.  `calm` counts the units since the switch
was moved or the loop blocked; `moved` and `late` record that a move is not yet
settled and that the loop has blocked.

### SmsCoding, Conversions and SipHash

Operators, without state.  `SmsCoding` has both directions of the coding of texts
in SMS messages, with `Taken` and `Padding` as the choice of how much a message
takes and `Stop` as the end of the loop of `decodeSMScmd`.  `Conversions` has the
decoding of form fields, numbers and addresses (`pfodESP8266Utils`), hexadecimal
texts (`HexConversionUtils`) and the key of a password (`connect` of
`pfodSecurity`).  `SipHash` works on bytes as the code does.  Their checks are
named assumptions of MC modules, which TLC evaluates before the run:

| Assumption | Module | What it checks |
|---|---|---|
| `TextsComeBack`, `InvalidUndoes` | `MCSmsConnections` | texts around one and two full messages, in parts; a wrong character at every place |
| `FieldsComeBack`, `NumbersComeBack`, `AddressesComeBack` | `MCAccessPoint` | a decoded field is never longer than the field (it is decoded in place), and it, numbers and addresses come back from their written form |
| `ReferenceHashes` | `MCPfodSession` | the vectors of the SipHash reference for messages of 0, 7, 8 and 15 bytes |
| `HashesComeBack`, `PasswordsHaveKeys`, `BlanksAndCapitals` | `MCPfodSession` | hexadecimal hashes come back; passwords have the same key only if they differ in `a` at the end; blanks around them do not count |

### MC modules

`MCBlindsServer`, `MCAccessPoint`, `MCPfodParser`, `MCPfodSession`,
`MCSmsConnections`, `MCSmsModem`, `MCEspAt`, `MCControllerApps` and
`MCLightSwitch` extend these modules with the constants of their runs: model
values, the parser's version, and the phones' connection numbers.

## 4. The runs

| Run | Configuration | Checks |
|---|---|---|
| `server` | `MCBlindsServer.cfg` | `TypeOK`, `EnergisedByHeldCommand`, `ArmedIsTimed`, `RunKeepsClient`, `ParserForgets`, `ImplementsTwoPhaseCommand`, `HeldIsSettled`, `NextIsServed` |
| `ap_safety` | `MCAccessPoint.cfg` | `TypeOK`, `JoinsAsPromised`, `OneForm`, `TriesToJoin` |
| `parser_safety` | `MCPfodParser.cfg` | `ParserTypeOK`, `RoundTrip`, `ResyncsAtEnd` |
| `session` | `MCPfodSession.cfg` | `TypeOK`, `SessionIsTimed`, `NothingCarriedOver`, `HonestHashMatches`, `CommandsRunInOrder`, `ChallengeIsFresh`, `WaitingEnds` |
| `sms_connections` | `MCSmsConnections.cfg` | `TypeOK`, `TopIsCurrent`, `ResponseIsTaken`, `RunsOnceInOrder` |
| `sms_modem` | `MCSmsModem.cfg` | `TypeOK`, `InStep`, `RequestIsAnswered`, `DataLeaves` |
| `sms_stuck` (violated) | `MCSmsModemStuck.cfg` | `AllOfResponseSent` |
| `esp_at` | `MCEspAt.cfg` | `TypeOK`, `TextAtPrompt`, `PartsInOrder`, `GoneClientIsForgotten` |
| `esp_flush` (violated) | `MCEspAtFlush.cfg` | `ResponseIsKept` |
| `apps` | `MCControllerApps.cfg` | `TypeOK`, `LastTapWins`, `ImplementsTwoPhaseCommand` |
| `light_switch` | `MCLightSwitch.cfg` | `TypeOK`, `SettlesInTime`, `OneChangeForEachMove` |
| `light_stuck` (violated) | `MCLightSwitchStuck.cfg` | `IsNoticed` |

What the passing runs show, beyond the types:

- `server`: a motor turns only for the command on hold, when the last thing said
  is the `$` that confirms it, and in the right direction; a command on hold is
  always settled, and timed while a connection is served; a run does not cost its
  client the connection; a closed connection leaves nothing in parser and
  buffered client; when a client is gone the next peer in the queue is served.
- `ap_safety`: the device joins the network that its page and its EEPROM name,
  after its page is gone; settings never mix two forms; it always tries.
- `parser_safety`: the walk over the arguments gives back the message, up to the
  limit of the buffer, and the parser finds the next message.
- `session`: under loss, restarts, power cuts and reconnections commands run
  once and in order, a challenge is later than all before it, and on a perfect
  link what follows a message is its hash: it is refused only if the program has
  written in between.  When the power cycles are used up the last challenge is
  sent again, but no session is authorized on it.  Time-outs end every wait, for a
  hash or for an answer of the app.
- `sms_connections`: with a network that delays and repeats everything, a
  command of a phone that avoids connection number 0 runs only if it was sent
  after all that were run for that phone, so none runs twice, not even at once;
  one that is repeated gets its own answer, and no response is dropped.
- `sms_modem`: until the queue overflows no command is sent while the modem is
  busy, and none into a text; and while messages only arrive on an idle line,
  every message that is asked for comes and all data leaves.
- `esp_at`: the chip gets the text it prompts for; parts arrive in order and
  unmixed; a driver whose client is gone gives the link up.
- `apps`: however taps, tasks and results interleave, the socket that commands
  go to belongs to the blinds tapped last, when the label is green and nothing
  is under way.
- `light_switch`: bounces and AC pulses of any phase make one change for one
  move, within `Limit`.

The violated runs, whose findings are in `PROJECT.json`:

- `sms_stuck`: the driver says that it goes on until all of `txBuffer` is sent;
  a message announced just before all are deleted is asked for in vain, and the
  device then waits for it for ever.
- `esp_flush`: `flush()` says that `responseSet` keeps another response out
  until this one is written; `write()` drops the other, but `flush()` then sets
  length and index of the one that is being sent, so its rest is lost.
- `light_stuck`: the header says that an AC switch is off after five missing
  pulses; one that goes off before its first pulse after it was debounced to on
  starts no timer and stays on.

### Bounds

- `BlindsServer`: two clients show a served one and a queued one; a released
  client may come back, so sequences of connections are not bounded.  `MaxInbox`
  1 is one token at a time, each refilled at once.  Letters: a motor (`P`), `$`,
  `!` and `_`; others behave like a rejected command, and the second motor only
  differs in its pins, which the theorem covers.  `IdleTimeOut` 2 and `RunTime`
  1 keep the order of 15 s and 5 s.
- `AccessPoint`: one text besides empty, blank and erased; ports below, at and
  above the wrap (0, 1, 5 with `PortSize` 4).
- `PfodParser`: two plain bytes, one of them the version, and a buffer of seven
  bytes: all messages up to the limit and beyond it, with two arguments, a
  version and empty arguments.
- `PfodSession`: bytes of two values and a counter of two, so that both wrap and
  the power cycles run out: the state space is finite because every session
  costs a challenge.  Two commands in a session and two tokens on the way let a
  hash be lost, two messages meet, and a body be taken for a hash.  `MaxOutput` 1
  lets the program write a message of its own at the start of a session, which
  then shifts the counts of all its answers.
- `SmsConnections`: two phones, a table of two, `Modulus` 5 with numbers 5 and 1
  in one phone (a wrap) and 0 in the other, a command per connection, two
  messages per command and per response.  The table has room for both phones: a
  full one, from which a phone is evicted, is covered by the theorem
  `CurrentIsKnown` only.
- `SmsModem`: a SIM of three places, a queue of two (so it overflows), four
  arrivals, responses of two parts.
- `EspAt`: one client that comes and goes (a second client is a new link
  as well), units of two parts, three lines on the way, one failure of the chip.
  The client of `esp_at` waits for a response before its next command; the one
  of `esp_flush` does not.
- `ControllerApps`: two blinds, one letter, two sockets, one message each on the
  way, two tasks.  The blinds share one port number, so that a task that reads
  the address of one tap and the port of another still connects.
- `LightSwitch`: debounce times of 3 and 5 half-cycles and a missing-pulse time
  of 2, a bounce of 2, blocks of 12 and of 13 units (even and odd, as they shift
  the phase of the pulses); `Limit` 12 is longer than all waits in a row.

Deadlock is not checked in the runs of the SMS modules only: the phones have
finitely many messages to send, and a driver with nothing to do waits for one.

### Fairness

Every program here is a `loop()` that the board calls for ever: weak fairness
of the loop's steps (`Loop`, `Parse`, `Device`).  Time passes (`Tick`).  The
program of `PfodSession` handles what `parse()` returns, and its app reads what
it is sent; the modem answers.  In `EspAt` the chip answers whenever there is
room on the line again and again (strong fairness, as other lines may take the
room).  The idle timer of a link whose client is gone runs out, unless commands
that are answered or raw data go on restarting it (`RunsOut`; `flush()` at ESP
979 and `writeRawData()` at ESP 1027 do so while `linkConnected`): then what they
wrote is announced to the chip, which answers `ERROR`, and that gives the link
up.  Peers, links, arriving messages, taps and
power cuts owe nothing.  `TriesToJoin` is for behaviours in which the power
stays on in the end.  Joining the network is not assumed to succeed.

## 5. The proofs

Eight modules hold the theorems.  Those about a state machine are each
`Spec => ..`, for every value of the constants that the named assumption of the
component's module allows.  A `TypeOK` comes first in each, action by action; the
invariant after it is the property with what it lacks to be inductive.

| Module | Theorems | Assumption | What makes it inductive |
|---|---|---|---|
| `BlindsServerProofs` | `TypeCorrect`, `MotorRunsHeldCommand`, `ArmedCommandIsTimed`, `RunLeavesIdleTime`, `ClosedParserIsClean`, `SketchImplementsTwoPhaseCommand` | `ServerAssumption`: a run is shorter than the idle time, `$` and `!` are letters | `MotorAndPins`, `HeldIsCommand` |
| the same, about `PfodParser` | `ParserTypeCorrect`, `EndCloses`, `MessageComesBack` | `ParserAssumption` | `RoomForEnd`, `MessageInv` |
| the same, about `Conversions` | `FieldComesBack`, `FieldIsDecodedInPlace` | none | (operators only) |
| `AccessPointProofs` | `TypeCorrect`, `JoinsWithThePromisedSettings`, `SettingsAreOfOneForm` | the one of `AccessPoint` | `NothingYet`, `FromEEPROM` |
| `PfodSessionProofs` | `TypeCorrect`, `SessionsAreTimed`, `SessionsStartAfresh`, `ChallengesAreFresh`, `CommandsInOrder`, `HonestHashesMatch`, `HashComesBack` | `SessionAssumption` | `ReturnedInSession`, `Fresh`, `Issued`, `InOrder`, `Honest` |
| `SmsConnectionsProofs` | `TypeCorrect`, `CurrentIsKnown`, `ResponsesAreTaken`, `CommandsRunOnceInOrder`, `CountingIsOrderly`, `NewIsGreaterOldIsNot` | `SmsAssumption`; `FewPhones` and `OrderlyNumbers` for the order of commands | `SentOK`, `TopOK`, `MidOK`, `RxOK`, `Ordered` |
| `SmsModemProofs` | `TypeCorrect`, `StaysInStep`, `RequestsAreAnswered` | `ModemAssumption` | `Chunks`, `Prompts`, `InOrder`, `Kept` |
| the same, about `SmsCoding` | `PartComesBack`, `TextComesBack`, `NullEndsTheLast` | none | (operators only) |
| `ControllerAppsProofs` | `TypeCorrect`, `TheLastTapWins`, `BlindsAreTwoPhase` | `AppsAssumption` | `LastTask`, `LastSocket` |
| `EspAtProofs` | `TypeCorrect`, `PromptGetsItsText`, `PartsComeInOrder` | `EspAssumption`; `Patient` for the order of parts | `Stream`, `SetUp`, `UnitsFit`, `Exchange`, `OneCommand`, `Order` |
| `LightSwitchProofs` | `TypeCorrect`, `Settled`, `OneMoveOneChange` | `DebounceAssumption`, `LightAssumption`, `TimingAssumption` | `Sane`, `Settles`, `Keeps` |

- `BlindsServer`: `EnergisedByHeldCommand` alone allows raised pins with `motor`
  equal to `None`, a state in which `loop()` is not blocked and a rejection would
  clear `waitingForOK` under raised pins.  `MotorAndPins` excludes it: without a
  motor the pins are low, with one they are its own, its command is held, and
  `cmd` is the confirmation.
  `HeldIsCommand` says that what is held is a letter and not `None`, which the
  refinement needs.  The refinement maps each action to one of `TwoPhaseCommand`
  or to a stutter.
- `AccessPoint`: while the access point is up nothing has been read or joined
  (`NothingYet`), and afterwards page, RAM and EEPROM agree (`FromEEPROM`).
- `PfodParser`: while a message is open, the two nulls that end it still fit
  (`RoomForEnd`); without it the closing brace could write behind the buffer.
  `MessageComesBack` says that the walk over the arguments gives back the
  message as it was received, for any buffer.  Its invariant, `MessageInv`,
  relates the buffer to the text read so far: the buffer holds what was
  received, with a null for each bar and for the colon behind the version
  (`Stored`), the command starts behind that colon or at the front (`Starts`),
  and the arguments are as many as the bars (`Bars`).  The walk and the text it
  is compared with are recursive functions over places in the buffer, so that
  this is an induction over data.  The library's induction theorems have an
  operator as parameter, which no installed prover can instantiate;
  `SetInduction` says the same of a set of naturals that holds 0 and the
  successor of each of its elements, and comes from the library's fact that the
  order of the naturals is well-founded.
- `Conversions`: what `urldecode2()` makes of a field from some place on depends on
  the places behind it alone (`LooksAhead`), so the recursive function exists
  (`Decoding`), and induction from the end of the field gives both theorems: every
  way in which a browser may write a text decodes to it, and whatever is received,
  the result fits over the field.
- `PfodSession`: `Fresh` relates the three copies of the counters: every
  challenge that can still be made, in RAM or after any number of power cuts, is
  later than the last one, or there are none left.  `Issued` relates this to the
  sessions: the challenge that the device holds is the last one sent, and what
  an answer is waited for is later than that of every session before, as long as
  power cycles are left; without any an answer is not accepted.  `InOrder` adds
  what was accepted: a session goes on from its own last command, or is later
  than all that were run; and the hash waited for is that of the message with
  the count and challenge of the session.  `HonestHashesMatch` is about
  behaviours in which the link has lost nothing since the connection was made
  (`reliable`): then device and app hold the same challenge and counts, what is
  under way from the app is numbered without a gap from the device's count on,
  and what follows a message half read is its hash; the hash waited for is this
  one, or that of the last message which the program wrote (`Honest`).
  `HashComesBack` adds that the hexadecimal text of a hash is read as the hash,
  for any length.
- `SmsConnections`: `ResponseIsTaken` needs what the phones promise: they number
  their messages properly (`SentOK`), so that between the messages of one
  command the driver has stopped sending (`MidOK`), and what waits in `rxBuffer`
  is the last message of a command that found it so (`RxOK`).
  `CommandsRunOnceInOrder` follows from `Ordered`: a message of an earlier
  connection or an earlier command of its phone is one the driver will not take,
  because what it remembers of the phone is at least as late as all that has
  run; and half a command is the first half of the next one to run.  It is about
  every step that runs a command, so a repetition that follows at once is
  excluded as well.  It needs two assumptions.  `FewPhones`: the table of known
  connections has a place for every phone (the code has ten); TLC shows a
  command run twice when one phone too many makes the driver forget another.
  `OrderlyNumbers`: no phone uses a number twice, and none of a careful phone's
  is greater, by the driver's own test, than that of a later connection;
  `CountingIsOrderly` shows that a phone which counts up has such numbers, over
  any wrap, for up to `Window` connections.  `NewIsGreaterOldIsNot` is about
  `newConnectionNumberGreater` alone: over any wrap a number up to `Window`
  ahead counts as new, and one up to `Modulus - Window - 1` behind as old.
- `SmsModem`: a message that is read out comes as three lines in one piece, so a
  line that the device takes for a message is one (`Chunks`).  There is one prompt
  and one text at a time, a prompt on the line means that the modem waits for a
  text, and whoever ordered it still has something to send (`Prompts`).  Until the
  queue overflows one thing is under way at a time: a command, its answer or a
  prompt (`InOrder`); this gives `InStep`.  For `RequestIsAnswered`, `Kept` holds
  while messages arrive on an idle line only: an announcement is the first and only
  one on the line, the slots announced, queued and asked for are different and
  unread on the SIM, and what was asked for is on its way.
- `SmsCoding`: six bits come back from a character and three bytes from four
  (linear arithmetic with quotients and remainders), every byte of a message is
  therefore read as it was put there, and reading stops behind the part, because
  the text has no null and only the last message is padded.  Both ends are the
  code of the driver (`TextComesBack` puts the parts together in the buffer that
  holds a command: there are at most three); that the phone's app codes in the
  same way is not checked.
- `ControllerApps`: the task of the last tap is the last in the queue and has
  looked up what was tapped, or has yet to (`LastTask`); when it has ended, the
  socket is its own and its result is the last to be shown (`LastSocket`).
- `EspAt`: what is on the line is framed: lines of data stand behind the notice
  that announces them (`Stream`), and nothing is there while the chip is set up
  (`SetUp`).  The two units share the flags, and one that was begun has them to
  itself (`UnitsFit`).  `Exchange` is the dialogue about one part: from the
  announcement to the prompt the chip has the part that the driver has in its
  text, and from there to `SEND OK` neither has another; this gives
  `TextAtPrompt`, for as long as no link was given up in between.
  `PartsInOrder` is promised to a client that waits for a response before its
  next command (`Patient`; without it `ResponseIsKept` is violated and parts are
  lost).  Such a client has one command somewhere, on the line, in the buffer or
  answered (`OneCommand`), and the part under way is the next of the unit that
  was begun (`Order`).
- `LightSwitch`: the two timers of the switch are within their times or stopped, and
  run only in the states that wait for them (`Sane`).  `Settles` bounds what is
  still to come by the units since the switch was left alone: the time of the timer
  that runs, and of the one it starts.  `Keeps` says that a switch that was neither
  moved nor missed by a blocked loop is where it was, and no timer can change it.
  `TimingAssumption` is that `Limit` is longer than these times in a row.

With these every invariant and every action property of the passing runs is a
theorem.  Only model-checked are the liveness properties (`HeldIsSettled`,
`NextIsServed`, `TriesToJoin`, `WaitingEnds`, `DataLeaves`,
`GoneClientIsForgotten`), as liveness under fairness and `ENABLED` are beyond
the proof system; the other operators of `Conversions`, which the named
assumptions of the MC modules check on examples; and `SipHash`, whose operators
on bits the provers do not know.

## 6. What is not modelled

- In the state machines a hash, a key, a field of a form and a coded text are the
  record of what went in.  What makes them is modelled apart, in `Conversions`,
  `SipHash` and `SmsCoding`; the utf-8 helpers of the parser, `trim()`, which
  nothing calls, and the `Print` forms of numbers are not modelled.
- The web-configuration library (`pfodESP8266WebConfig`), which no sketch here
  calls: a library form of the set-up that `AccessPoint` models from the sketch.
- Older sketches (`3_4_2017`, `ESP8266Connection`, `Arduino/ESP`): earlier
  versions of the newest.  `MotorTest1.ino` drives one pin and has no state.
- The test controller app, and in the other apps the screens and dialogues
  around the connection.
- lwip headers, the ESP8266 web server and the examples of the libraries:
  third-party.  They are more than half of the lines under `src/`, which is why
  the mapped share of the whole is small although the program's own files are
  mapped for the most part.

Inside modelled parts: the wording of pages and answers, debug output,
`init()` of the SMS driver (its modem set-up blocks until it succeeds, before
any state of the model exists), the steps between the pins of one motor; the
text of the replies of the blinds sketch and the buffer they are sent from.  The
`read()` of the ESP-AT driver polls the board after it has taken the last byte
(ESP 942), so a line may be processed between a command and the response to it:
in `EspAt` the program reads a command and responds in one step.

## 7. Observations

Behaviour seen while modelling that no run reports, because no text of the
repository says otherwise or because the model leaves that data out.  Paths are
under `src/Arduino/CooperLaone/`; SK is
`4_29_2017/ESP8266Connection/ESP8266Connection.ino`, SEC `pfodSecurity.cpp`,
PAR `pfodParser.cpp`, MAC `pfodMAC.cpp`, SMS `pfodSMS_SIM900.cpp` and ESP
`pfodESP8266_AT.cpp` in `pfodParser/`.

Blinds sketch and security layer:

- SK 442-449 and 192: a held command survives its client; the next client's `$`
  runs it.  SK 180-182: a reply in the send buffer may go to a new client that
  was taken without `closeConnection`.
- SK 6: the header says that an idle client is disconnected; the check is
  commented out (292-295), and after the parser's own idle time-out the sketch
  keeps the connection.  SK 225 with `pfodSecurity.h:100`: `!` from the parser
  does not drop the connection but is stored, or rejects, like a command.  SEC
  203 says that bytes after `!` are dropped; they are parsed.
- SK 513 and 568: a request with parameters but none of the fields writes the
  storage as well; on the first page after power-up that empties the settings.
- SK 612 against 59: opening the configuration page without a form also stops
  the access point.  SK 372 against 29: a device that was never configured
  listens on the erased port, not the default.
- MAC 398 against 359: `readPowerCycles` says that it decrements; a power cut
  between the two bytes it writes can leave a larger count (on the AVR's EEPROM,
  where a written byte stays).
- SEC 413 with `pfodSecurity.h:156`: `lastConnectionClosed` is never cleared.
  SEC 263 with `pfodMAC.h:40`: `connect` clears the mark of a failed attempt.
  SEC 734: output that is not an answer, written while a hash is collected,
  replaces that hash, and the message is refused (`HonestHashMatches` has both
  cases).  SEC 1099-1109 with MAC 440-441: at zero power cycles
  `buildChallenge()` fails, which is not looked at, and the last challenge is
  sent again; nobody is authorized on it.
- PAR 294: a colon in an argument, when there is no version, makes what precedes
  the version.

- The comment of `isAllHex` says "if all chars are hex"; it also takes `G` to `Z`
  (`HexConversionUtils.c` 22), so a password of capitals and digits becomes a key
  by `asciiToHex`, and `G0` has the key of `00`.  With the other form, `a` at the
  end of a password does not count.  `trim()` of `pfodESP8266Utils` (125-129) would
  also end the text at a blank inside it; nothing calls it.
- SK 554 passes `sizeof(tempStr)` to `strncpy_safe`, which writes its null at that
  index, one behind the buffer.

SMS driver:

- SMS 1023: "any messages from the previous 2047 connections will be ignored"; by
  the formula above it these are 2046: the one 2047 connections back is 2048 ahead
  over the wrap, and counts as new (`NewIsGreaterOldIsNot` has the exact bounds).
- SMS 547-550: the 0xff with which a connection that takes over begins makes the
  parser call `_closeCurrentConnection`, which times out the connection that was
  just opened: a third phone may take over at once, although `IGNORE_CONNECTION`
  is meant to turn it away.
- SMS 391-397: an encoded part of a response stays when another phone takes
  over, and is sent to that phone.  SMS 1190-1204: message 0 of connection 0,
  also an old one, makes the device forget its phone, whose old messages then
  count as new; so does eviction from the table (226-237).  SMS 506: closing and
  updating in one message does not reset the parser, so half a command and `{!}`
  make a shortened command.  SMS 626-629: with a full queue `AT+CMGD` is sent at
  any time, and can become part of an SMS text.  SMS 1715 and 1840: a full
  `txBuffer` starts the response again.

ESP-AT driver:

- `clearParser()` puts 0xff at the start of `rxBuffer`, and the data of the line
  that made it do so are then copied over it: the parser never sees it (and
  comparing it with a `char` would fail where that is signed).
- "Unlink" is not acted on: the link stays connected until its idle time-out.  A
  connection that replaces another on link 0 is taken for its continuation, and
  a close that was wanted for the old one closes the new.
- ESP 178 and 187: the comments say that clearing a buffer also clears
  `sendingResponse`, but it does not (184, 193).  Two responses that are written
  while one is being sent leave that flag set; raw data then leave
  `sendingRawData` set, and no response is sent until the link is given up.  A
  failed part is not sent again, and `SEND FAIL` is not known.
- A line of raw data that is dropped takes the next with it.  "Link" inside
  received data is read as a notice.  The part of a line read so far is lost
  when the link is given up.
- In the set-up the answer "OK" to `AT+CWMODE` counts as a failure, so the chip
  is reset once more, and silence counts as success.

Light sketch:

- A blocked `loop()` does not see pulses, and an AC switch may change without
  having been moved (`late`).  The header says that the light flashes in access
  point mode; the code leaves it on.  `{A}` sets `cmd_A_var` to any number.

Apps:

- Version 2 never sends `$`, so its commands are never confirmed by itself; the
  `$` of another client runs them (SK 193).  The label stays green when the
  socket has gone, `PrintWriter` reports no error, and sockets are closed only
  with the app.  A task that starts between the assignments of a tap connects to
  the address of one and the port of another (`Home.java`).
- Version 1 sends without braces and waits in `readLine` for a line that the
  blinds do not send (`Controller.java:159`); a closed socket gives a null
  response that is not tested, and all of it runs in the UI thread.
