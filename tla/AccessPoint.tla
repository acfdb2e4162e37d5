------------------------------- MODULE AccessPoint -------------------------------
(***************************************************************************)
(* The blinds sketch before normal processing: setup() opens an access     *)
(* point with a configuration page, loop() serves it until it is closed,   *)
(* joins the WiFi network that the EEPROM names and starts the server.     *)
(* BlindsServer goes on where checkConnected() ends here.                  *)
(*                                                                         *)
(* What a form field holds is a value: Empty and Blank are the strings of  *)
(* no characters and of blanks.  The HTTP server and the WiFi stack are    *)
(* those of the ESP8266 board package.                                     *)
(***************************************************************************)
EXTENDS Integers

CONSTANTS
    Texts,          \* what may be typed as SSID, password or static IP
    Ports,          \* what may be typed as port, as parseLong() reads it
    PortSize,       \* uint16_t has PortSize values
    AccessPointTime \* ACCESS_POINT_TIME, in ticks

Empty  == ""
Blank  == " "
Erased == "erased"      \* a field of EEPROM bytes that were never written
Absent == "absent"      \* a field that a form does not have
NoPort == -1

ASSUME AccessPointAssumption ==
    /\ Texts \cap {Empty, Blank, Erased, Absent} = {}
    /\ Ports \subseteq Nat /\ PortSize \in Nat \ {0}
    /\ AccessPointTime \in Nat \ {0}

VARIABLES
    storage,                \* the settings in RAM
    eeprom,                 \* the settings in the EEPROM
    configWebserverStarted,
    stopAP,
    pfodStartConnection,
    wifiConnected,
    left,                   \* what is left of the access point time
    mode,                   \* the WiFi mode: "AP", "OFF" or "STA"
    joining,                \* the settings given to WiFi.begin(), or Nothing
    port,                   \* the port of the server, or NoPort
    page                    \* history: the settings the last page promised, or Nothing

vars == <<storage, eeprom, configWebserverStarted, stopAP, pfodStartConnection,
          wifiConnected, left, mode, joining, port, page>>

Settings == [ssid : Texts \cup {Empty, Blank, Erased},
             password : Texts \cup {Empty, Erased},
             staticIP : Texts \cup {Empty, Erased},
             portNo : 0 .. PortSize - 1]
Zero   == [ssid |-> Empty, password |-> Empty, staticIP |-> Empty, portNo |-> 0]
Virgin == [ssid |-> Erased, password |-> Erased, staticIP |-> Erased,
           portNo |-> PortSize - 1]
Nothing == [ssid |-> Absent, password |-> Absent, staticIP |-> Absent, portNo |-> NoPort]

TypeOK ==
    /\ storage \in Settings /\ eeprom \in Settings
    /\ configWebserverStarted \in BOOLEAN /\ stopAP \in BOOLEAN
    /\ pfodStartConnection \in BOOLEAN /\ wifiConnected \in BOOLEAN
    /\ left \in 0 .. AccessPointTime
    /\ mode \in {"AP", "OFF", "STA"}
    /\ joining \in Settings \cup {Nothing}
    /\ port \in NoPort .. PortSize - 1
    /\ page \in Settings \cup {Nothing}

\* Power on: setup() opens the access point; all but the EEPROM is zero.
SetupReads == storage' = eeprom                        \* mutant
SetupZero  == storage' = Zero

Init ==
    /\ storage = Zero /\ eeprom = Virgin
    /\ configWebserverStarted = TRUE /\ stopAP = FALSE
    /\ pfodStartConnection = FALSE /\ wifiConnected = FALSE
    /\ left = AccessPointTime /\ mode = "AP"
    /\ joining = Nothing /\ port = NoPort /\ page = Nothing

PowerCycle ==
    /\ SetupZero
    /\ configWebserverStarted' = TRUE /\ stopAP' = FALSE
    /\ pfodStartConnection' = FALSE /\ wifiConnected' = FALSE
    /\ left' = AccessPointTime /\ mode' = "AP"
    /\ joining' = Nothing /\ port' = NoPort /\ page' = Nothing
    /\ UNCHANGED eeprom

--------------------------------------------------------------------------------
(* The configuration page. *)

\* A submitted form: any of the fields with their values, or none of them (and a
\* parameter that handleConfig() does not know).
Forms == [ssid : Texts \cup {Empty, Blank, Absent},
          password : Texts \cup {Empty, Blank, Absent},
          staticIP : Texts \cup {Empty, Blank, Absent},
          portNo : Ports \cup {NoPort}]

\* What a field holds after the value v was submitted for it.
Text(old, v)  == IF v = Absent THEN old ELSE v
NoBlank(old, v) == IF v = Blank THEN Empty ELSE Text(old, v)

Fits(n)     == n                \* mutant
Uint16(n)   == n % PortSize

Overlay(old, form) ==
    [ssid     |-> Text(old.ssid, form.ssid),
     password |-> NoBlank(old.password, form.password),
     staticIP |-> NoBlank(old.staticIP, form.staticIP),
     portNo   |-> IF form.portNo = NoPort THEN old.portNo ELSE Uint16(form.portNo)]

\* closeAP() and the end of the iteration.
CloseAP        == configWebserverStarted' = FALSE /\ mode' = "OFF"

\* handleConfig() ends with the page of what is stored, and the access point is
\* closed in the same iteration.
SendPage ==
    /\ page' = eeprom'
    /\ stopAP' = TRUE
    /\ CloseAP
    /\ UNCHANGED <<pfodStartConnection, wifiConnected, left, joining, port>>

\* A request with parameters is stored and written, one without is not.
handleConfig(form) ==
    /\ configWebserverStarted
    /\ storage' = Overlay(storage, form) /\ eeprom' = storage'
    /\ SendPage

handleConfigWithoutArgs ==
    /\ configWebserverStarted
    /\ UNCHANGED <<storage, eeprom>>
    /\ SendPage

\* The access point time is over.
LoopTimeOut ==
    /\ configWebserverStarted
    /\ left = 0
    /\ stopAP' = TRUE
    /\ CloseAP
    /\ UNCHANGED <<storage, eeprom, pfodStartConnection, wifiConnected, left,
                   joining, port, page>>

--------------------------------------------------------------------------------
(* Joining the network. *)

JoinsStorage == joining' = storage /\ UNCHANGED storage         \* mutant
JoinsStored  == joining' = eeprom /\ storage' = eeprom

startConnectingToWiFi ==
    /\ ~configWebserverStarted /\ ~pfodStartConnection
    /\ JoinsStored
    /\ mode' = "STA"
    /\ wifiConnected' = FALSE /\ pfodStartConnection' = TRUE
    /\ UNCHANGED <<eeprom, configWebserverStarted, stopAP, left, port, page>>

\* WiFi.status() is WL_CONNECTED, if the network is there and lets us in.
checkConnected ==
    /\ ~configWebserverStarted /\ pfodStartConnection /\ ~wifiConnected
    /\ port' = storage.portNo
    /\ wifiConnected' = TRUE
    /\ UNCHANGED <<storage, eeprom, configWebserverStarted, stopAP,
                   pfodStartConnection, left, mode, joining, page>>

StandsStill(n) == n                                             \* mutant
Elapse(n) == n - 1

Tick ==
    /\ configWebserverStarted /\ left > 0
    /\ left' = Elapse(left)
    /\ UNCHANGED <<storage, eeprom, configWebserverStarted, stopAP,
                   pfodStartConnection, wifiConnected, mode, joining, port, page>>

Loop == LoopTimeOut \/ startConnectingToWiFi

Next ==
    \/ Loop \/ checkConnected \/ Tick \/ PowerCycle
    \/ handleConfigWithoutArgs
    \/ \E form \in Forms : handleConfig(form)

Spec == Init /\ [][Next]_vars

\* loop() is called for ever and time passes; browser, network and power owe
\* nothing.
FairSpec == Spec /\ WF_vars(Loop) /\ WF_vars(Tick)

--------------------------------------------------------------------------------
(* What must hold. *)

\* The access point is up, or the device is off the air, or it is a station: it
\* never joins a network while its page can still be submitted.
OneRole ==
    /\ configWebserverStarted <=> mode = "AP"
    /\ joining # Nothing <=> mode = "STA"
    /\ wifiConnected => mode = "STA"

\* The device joins the network that the page promised, with the settings that
\* a power cycle would find, and listens on the port that the page named; it
\* does so when its page can no longer be submitted.
JoinsAsPromised ==
    /\ OneRole
    /\ joining # Nothing => joining = eeprom
    /\ joining # Nothing /\ page # Nothing => joining = page
    /\ port # NoPort => port = eeprom.portNo

\* Settings are those of one form: a field that was not submitted does not
\* keep a value of a form from before the power cycle.
OneForm ==
    [][\A form \in Forms : handleConfig(form) => eeprom' = Overlay(Zero, form)]_vars

\* The device leaves the access point and tries to join, configured or not,
\* if power stays on.
TriesToJoin ==
    <>[][~PowerCycle]_vars => (configWebserverStarted ~> joining # Nothing)
================================================================================
