--------------------------- MODULE AccessPointProofs ---------------------------
(***************************************************************************)
(* Theorems about AccessPoint, for any texts and ports a form may hold,    *)
(* any width of a port and any access point time.                          *)
(***************************************************************************)
EXTENDS AccessPoint, TLAPS

\* While the page is served nothing has been read, joined or promised.
NothingYet ==
    configWebserverStarted =>
        storage = Zero /\ joining = Nothing /\ port = NoPort /\ page = Nothing
        /\ ~pfodStartConnection /\ ~wifiConnected

\* A page shows the EEPROM, and joining is done with what the EEPROM holds,
\* which nothing changes any more.
FromEEPROM ==
    /\ page # Nothing => page = eeprom
    /\ pfodStartConnection <=> joining # Nothing
    /\ joining # Nothing => joining = eeprom /\ storage = eeprom
    /\ port # NoPort => port = eeprom.portNo

IInv == TypeOK /\ OneRole /\ NothingYet /\ FromEEPROM

LEMMA SettingsAreNotNothing == Zero \in Settings /\ Virgin \in Settings /\ Nothing \notin Settings
  BY AccessPointAssumption DEF Settings, Zero, Virgin, Nothing, NoPort, Absent

LEMMA OverlayType ==
    ASSUME NEW old \in Settings, NEW form \in Forms
    PROVE  Overlay(old, form) \in Settings
  <1>1. Text(old.ssid, form.ssid) \in Texts \cup {Empty, Blank, Erased}
    BY DEF Text, Settings, Forms
  <1>2. NoBlank(old.password, form.password) \in Texts \cup {Empty, Erased}
    BY DEF NoBlank, Text, Settings, Forms
  <1>3. NoBlank(old.staticIP, form.staticIP) \in Texts \cup {Empty, Erased}
    BY DEF NoBlank, Text, Settings, Forms
  <1>4. (IF form.portNo = NoPort THEN old.portNo ELSE Uint16(form.portNo)) \in 0 .. PortSize - 1
    <2>1. CASE form.portNo = NoPort
      BY <2>1 DEF Settings
    <2>2. CASE form.portNo # NoPort
      <3>1. form.portNo \in Nat
        BY <2>2, AccessPointAssumption DEF Forms
      <3>2. form.portNo % PortSize \in 0 .. PortSize - 1
        BY <3>1, AccessPointAssumption
      <3>3. QED
        BY <2>2, <3>2 DEF Uint16
    <2>3. QED
      BY <2>1, <2>2
  <1>5. QED
    BY <1>1, <1>2, <1>3, <1>4 DEF Overlay, Settings

LEMMA PowerOnValues == AccessPointTime \in 0 .. AccessPointTime /\ NoPort \in NoPort .. PortSize - 1
  BY AccessPointAssumption DEF NoPort

LEMMA InitInvariant == Init => IInv
  <1> SUFFICES ASSUME Init PROVE IInv
    OBVIOUS
  <1>1. TypeOK
    BY SettingsAreNotNothing, PowerOnValues DEF Init, TypeOK
  <1>2. OneRole /\ NothingYet /\ FromEEPROM
    BY DEF Init, OneRole, NothingYet, FromEEPROM
  <1>3. QED
    BY <1>1, <1>2 DEF IInv

LEMMA StepInvariant == IInv /\ [Next]_vars => IInv'
  <1> SUFFICES ASSUME IInv, [Next]_vars PROVE IInv'
    OBVIOUS
  <1> USE SettingsAreNotNothing, AccessPointAssumption
      DEF IInv, TypeOK, OneRole, NothingYet, FromEEPROM, NoPort
  <1>1. CASE LoopTimeOut
    BY <1>1 DEF LoopTimeOut, CloseAP
  <1>2. CASE startConnectingToWiFi
    BY <1>2 DEF startConnectingToWiFi, JoinsStored
  <1>3. CASE checkConnected
    <2>1. storage.portNo \in 0 .. PortSize - 1
      BY DEF Settings
    <2>2. QED
      BY <1>3, <2>1 DEF checkConnected
  <1>4. CASE Tick
    BY <1>4 DEF Tick, Elapse
  <1>5. CASE PowerCycle
    BY <1>5, PowerOnValues DEF PowerCycle, SetupZero
  <1>6. ASSUME NEW form \in Forms, handleConfig(form) PROVE IInv'
    <2>1. storage' \in Settings /\ eeprom' \in Settings
      BY <1>6, OverlayType DEF handleConfig
    <2>2. QED
      BY <1>6, <2>1 DEF handleConfig, SendPage, CloseAP
  <1>7. CASE handleConfigWithoutArgs
    BY <1>7 DEF handleConfigWithoutArgs, SendPage, CloseAP
  <1>8. CASE UNCHANGED vars
    BY <1>8 DEF vars
  <1>9. QED
    BY <1>1, <1>2, <1>3, <1>4, <1>5, <1>6, <1>7, <1>8 DEF Next, Loop

THEOREM Invariance == Spec => []IInv
  BY InitInvariant, StepInvariant, PTL DEF Spec

\* Every state of the set-up is type correct: what a form leaves in the EEPROM
\* (handleConfig) is of the form that readStorage and the server expect.
THEOREM TypeCorrect == Spec => []TypeOK
  <1>1. IInv => TypeOK
    BY DEF IInv
  <1>2. QED
    BY <1>1, Invariance, PTL

\* The device joins with what the last page promised and a power cycle would
\* find, and only when its page can no longer be submitted (handleConfig,
\* closeAP, startConnectingToWiFi and checkConnected).
THEOREM JoinsWithThePromisedSettings == Spec => []JoinsAsPromised
  <1>1. IInv => JoinsAsPromised
    BY DEF IInv, FromEEPROM, JoinsAsPromised
  <1>2. QED
    BY <1>1, Invariance, PTL

\* A form is laid over empty settings, never over those of an earlier form:
\* handleConfig() runs once for each time that setup() does.
THEOREM SettingsAreOfOneForm == Spec => OneForm
  <1>1. IInv /\ [Next]_vars
          => [\A form \in Forms : handleConfig(form) => eeprom' = Overlay(Zero, form)]_vars
    BY DEF IInv, NothingYet, handleConfig
  <1>2. QED
    BY <1>1, Invariance, PTL DEF Spec, OneForm
================================================================================
