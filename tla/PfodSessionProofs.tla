--------------------------- MODULE PfodSessionProofs ---------------------------
(***************************************************************************)
(* Theorems about PfodSession, for any commands, widths of the counters,   *)
(* time-outs and numbers of commands and tokens.                           *)
(***************************************************************************)
EXTENDS PfodSession, SequenceTheorems, TLAPS

--------------------------------------------------------------------------------
(* Types of the data. *)

LEMMA Constants ==
    /\ MaxCycles \in Nat /\ MaxCycles > 0
    /\ CounterSize \in Nat /\ CounterSize > 1
    /\ 0 \in 0 .. MaxCycles /\ MaxCycles \in 0 .. MaxCycles /\ 0 \in 0 .. CounterSize - 1
  <1>1. ByteSize \in Nat /\ ByteSize > 1
    BY SessionAssumption
  <1>2. ByteSize * ByteSize \in Nat /\ ByteSize * ByteSize > 1
    BY <1>1
  <1>3. QED
    BY <1>2, SessionAssumption DEF MaxCycles

LEMMA TimerTypes ==
    /\ AuthTimeOut \in Off .. AuthTimeOut \cup Off .. IdleTimeOut
    /\ Running(IdleTimeOut) \in Off .. AuthTimeOut \cup Off .. IdleTimeOut
    /\ Off \in Off .. AuthTimeOut \cup Off .. IdleTimeOut
    /\ AuthTimeOut # Off /\ (IdleTimeOut > 0 => Running(IdleTimeOut) # Off)
  BY SessionAssumption DEF Running, Off

LEMMA ChallengeTypes ==
    /\ NoChallenge \in Challenges /\ FirstChallenge \in Challenges
    /\ \A c \in 0 .. MaxCycles, n \in 0 .. CounterSize - 1, f \in BOOLEAN :
          [cycles |-> c, n |-> n, failed |-> f] \in Challenges
  BY Constants DEF NoChallenge, FirstChallenge, Challenges

LEMMA HashTypes ==
    /\ \A c \in Commands \cup {None, AuthorizingCmd, "reply"}, n \in Nat, ch \in Challenges :
          MsgHash(c, n, ch) \in Hashes
    /\ \A ch \in Challenges : ChallengeHash(ch) \in Hashes
  BY DEF MsgHash, ChallengeHash, Hashes

LEMMA TokenTypes ==
    /\ Ask \in Tokens /\ Close \in Tokens /\ Ok \in Tokens /\ Stray \in Tokens
    /\ \A h \in Hashes : Answer(h) \in Tokens /\ Digits(h) \in Tokens
    /\ \A ch \in Challenges : Say(ch) \in Tokens
    /\ \A c \in Commands : Body(c) \in Tokens
    /\ \A t \in Tokens : t.hash \in Hashes /\ t.hash.of \in Challenges
  <1>1. \A c \in Commands : Body(c) \in Tokens
    BY DEF Body, MsgHash, Tokens
  <1>2. \A t \in Tokens : t.hash \in Hashes
    BY ChallengeTypes DEF Tokens, Hashes
  <1>3. \A h \in Hashes : h.of \in Challenges
    BY DEF Hashes
  <1>4. QED
    BY <1>1, <1>2, <1>3, HashTypes, ChallengeTypes
    DEF Ask, Close, Ok, Stray, Answer, Digits, Say, Tokens

LEMMA SeqTypes ==
    /\ <<>> \in Seq(Tokens)
    /\ \A s \in Seq(Tokens), t \in Tokens : Append(s, t) \in Seq(Tokens)
    /\ \A s \in Seq(Tokens) : s # <<>> => Tail(s) \in Seq(Tokens) /\ Head(s) \in Tokens
    /\ \A s \in Seq(Tokens), t, u \in Tokens : s \o <<t, u>> \in Seq(Tokens)
    /\ \A s \in Seq(Tokens), t \in Tokens : <<t>> \o s \in Seq(Tokens)
  BY EmptySeq, AppendProperties, HeadTailProperties

LEMMA WithoutType ==
    ASSUME NEW S, NEW s \in Seq(S), NEW i \in DOMAIN s
    PROVE  Without(s, i) \in Seq(S)
  <1>1. i \in 1 .. Len(s) /\ Len(s) \in Nat
    OBVIOUS
  <1>2. SubSeq(s, 1, i - 1) \in Seq(S) /\ SubSeq(s, i + 1, Len(s)) \in Seq(S)
    BY <1>1, SubSeqProperties
  <1>3. QED
    BY <1>2, ConcatProperties DEF Without

\* A token that parse() looks at.
LEMMA SeenToken ==
    ASSUME TypeOK, NEW t \in Incoming
    PROVE  t \in Tokens /\ toDevice # <<>> /\ Tail(toDevice) \in Seq(Tokens)
  BY SeqTypes DEF TypeOK, Incoming

LEMMA SpendType == \A c \in 0 .. MaxCycles : Spend(c) \in 0 .. MaxCycles
  BY Constants DEF Spend

LEMMA StoredType == TypeOK => Stored \in 0 .. MaxCycles
  BY Constants DEF TypeOK, Stored

LEMMA BuildChallengeType ==
    ASSUME TypeOK, NEW pc \in 0 .. MaxCycles, NEW ee \in 0 .. MaxCycles,
           NEW failed \in BOOLEAN, BuildChallenge(pc, ee, failed)
    PROVE  /\ counter' \in 0 .. CounterSize - 1
           /\ powerCycles' \in 0 .. MaxCycles /\ eeprom' \in 0 .. MaxCycles
           /\ challenge' \in Challenges /\ hash' \in Hashes
  <1> DEFINE n   == (counter + 1) % CounterSize
             now == IF n = 0 THEN ee ELSE pc
  <1>1. n \in 0 .. CounterSize - 1
    <2>1. counter + 1 \in Nat
      BY Constants DEF TypeOK
    <2>2. QED
      BY <2>1, Constants
  <1>2. /\ counter' = n /\ powerCycles' = now
        /\ eeprom' = IF n = 0 THEN Spend(ee) ELSE ee
        /\ IF now = 0
           THEN UNCHANGED <<challenge, hash>>
           ELSE /\ challenge' = [cycles |-> now, n |-> n, failed |-> failed]
                /\ hash' = ChallengeHash(challenge')
    BY DEF BuildChallenge
  <1>3. now \in 0 .. MaxCycles
    OBVIOUS
  <1>4. challenge' \in Challenges /\ hash' \in Hashes
    <2>1. [cycles |-> now, n |-> n, failed |-> failed] \in Challenges
      BY <1>1, <1>3, ChallengeTypes
    <2>2. CASE now = 0
      BY <1>2, <2>2 DEF TypeOK
    <2>3. CASE now # 0
      BY <1>2, <2>1, <2>3, HashTypes
    <2>4. QED
      BY <2>2, <2>3
  <1>5. eeprom' \in 0 .. MaxCycles
    BY <1>2, SpendType
  <1>6. QED
    BY <1>1, <1>2, <1>3, <1>4, <1>5

\* What closeConnection() and a disconnection leave.
LEMMA CloseSessionType ==
    ASSUME CloseSession
    PROVE  /\ authorizing' \in 0 .. 3
           /\ timer' \in Off .. AuthTimeOut \cup Off .. IdleTimeOut
           /\ inMsgCount' \in Nat /\ outMsgCount' \in Nat
           /\ collecting' \in {"no", "clean", "spoiled"}
           /\ msg' \in Commands \cup {None, AuthorizingCmd}
           /\ lastConnectionClosed' \in BOOLEAN
  BY TimerTypes DEF CloseSession, NewSession, NOT_AUTHORIZING

LEMMA DisconnectType ==
    ASSUME TypeOK, toDevice' \in Seq(Tokens), NEW bad \in BOOLEAN, Disconnect(bad),
           UNCHANGED <<macVars, toApp, reliable>>
    PROVE  TypeOK'
  <1>1. /\ CloseSession /\ returned' = Bang /\ failedHash' \in BOOLEAN
        /\ UNCHANGED <<linked, challenge, hash, appVars, lastIssued, lastAnswered, lastAccepted>>
    BY DEF Disconnect, TypeOK
  <1>2. QED
    BY <1>1, CloseSessionType DEF TypeOK, macVars, appVars

--------------------------------------------------------------------------------
(* Types of the states. *)

LEMMA InitType == Init => TypeOK
  <1> SUFFICES ASSUME Init PROVE TypeOK
    OBVIOUS
  <1>1. /\ hash \in Hashes /\ challenge \in Challenges /\ appChallenge \in Challenges
        /\ lastIssued \in Challenges /\ lastAnswered \in Challenges /\ lastAccepted \in Hashes
    BY ChallengeTypes, HashTypes DEF Init
  <1>2. /\ keyStored \in BOOLEAN /\ eeprom \in 0 .. MaxCycles /\ powerCycles \in 0 .. MaxCycles
        /\ counter \in 0 .. CounterSize - 1
    BY Constants DEF Init
  <1>3. toDevice \in Seq(Tokens) /\ toApp \in Seq(Tokens)
    BY SeqTypes DEF Init
  <1>4. authorizing \in 0 .. 3 /\ timer \in Off .. AuthTimeOut \cup Off .. IdleTimeOut
    BY TimerTypes DEF Init, NOT_AUTHORIZING
  <1>5. QED
    BY <1>1, <1>2, <1>3, <1>4 DEF Init, TypeOK

LEMMA ParseType ==
    ASSUME TypeOK, Parse, UNCHANGED reliable
    PROVE  TypeOK'
  <1>1. CASE ParseInvalid
    BY <1>1, SeqTypes, DisconnectType DEF ParseInvalid
  <1>2. CASE ParseTimeOut
    BY <1>2, DisconnectType DEF ParseTimeOut, TypeOK
  <1>3. CASE ParseStray
    <2>1. toDevice' \in Seq(Tokens)
      BY <1>3, SeenToken DEF ParseStray, Reads, Sees
    <2>2. /\ authorizing' \in 0 .. 3
          /\ timer' \in Off .. AuthTimeOut \cup Off .. IdleTimeOut
      BY <1>3, TimerTypes DEF ParseStray, StartsTimer, TypeOK, AUTHORIZING_START
    <2>3. QED
      BY <1>3, <2>1, <2>2 DEF ParseStray, TypeOK, macVars, appVars
  <1>4. CASE ParseClose
    <2>1. toDevice' \in Seq(Tokens)
      BY <1>4, SeenToken DEF ParseClose, Reads, Sees
    <2>2. QED
      BY <1>4, <2>1, DisconnectType DEF ParseClose
  <1>5. CASE ParseAsk
    <2>1. toDevice' \in Seq(Tokens)
      BY <1>5, SeenToken DEF ParseAsk, Reads, Sees
    <2>2. /\ counter' \in 0 .. CounterSize - 1
          /\ powerCycles' \in 0 .. MaxCycles /\ eeprom' \in 0 .. MaxCycles
          /\ challenge' \in Challenges /\ hash' \in Hashes
      <3>1. CASE BuildChallenge(Stored, Spend(Stored), FALSE)
        BY <3>1, StoredType, SpendType, BuildChallengeType
      <3>2. CASE BuildChallenge(powerCycles, eeprom, failedHash)
        <4>1. powerCycles \in 0 .. MaxCycles /\ eeprom \in 0 .. MaxCycles /\ failedHash \in BOOLEAN
          BY DEF TypeOK
        <4>2. QED
          BY <3>2, <4>1, BuildChallengeType
      <3>3. QED
        BY <1>5, <3>1, <3>2 DEF ParseAsk
    <2>3. toApp' \in Seq(Tokens)
      <3>1. toApp' = Append(toApp, Say(challenge')) /\ toApp \in Seq(Tokens)
        BY <1>5 DEF ParseAsk, TypeOK
      <3>2. QED
        BY <2>2, <3>1, TokenTypes, SeqTypes
    <2>4. /\ inMsgCount' \in Nat /\ outMsgCount' \in Nat
          /\ collecting' \in {"no", "clean", "spoiled"}
          /\ msg' \in Commands \cup {None, AuthorizingCmd}
          /\ lastConnectionClosed' \in BOOLEAN
      <3>1. \/ NewSession /\ lastConnectionClosed' = TRUE
            \/ UNCHANGED <<inMsgCount, outMsgCount, collecting, msg, lastConnectionClosed>>
        BY <1>5 DEF ParseAsk
      <3>2. CASE NewSession /\ lastConnectionClosed' = TRUE
        BY <3>2 DEF NewSession
      <3>3. CASE UNCHANGED <<inMsgCount, outMsgCount, collecting, msg, lastConnectionClosed>>
        BY <3>3 DEF TypeOK
      <3>4. QED
        BY <3>1, <3>2, <3>3
    <2>5. /\ authorizing' \in 0 .. 3 /\ failedHash' \in BOOLEAN
          /\ timer' \in Off .. AuthTimeOut \cup Off .. IdleTimeOut
      <3>1. authorizing' = AUTHORIZING_SENT_CHALLENGE /\ timer' = AuthTimeOut /\ failedHash' = FALSE
        BY <1>5 DEF ParseAsk
      <3>2. authorizing' \in 0 .. 3
        BY <3>1 DEF AUTHORIZING_SENT_CHALLENGE
      <3>3. failedHash' \in BOOLEAN
        BY <3>1
      <3>4. QED
        BY <3>1, <3>2, <3>3, TimerTypes
    <2>6. QED
      BY <1>5, <2>1, <2>2, <2>3, <2>4, <2>5 DEF ParseAsk, TypeOK, appVars
  <1>6. CASE ParseAnswer
    <2>1. toDevice' \in Seq(Tokens)
      BY <1>6, SeenToken DEF ParseAnswer, Reads, Sees
    <2>2. toApp' \in Seq(Tokens)
      BY <1>6, TokenTypes, SeqTypes DEF ParseAnswer, TypeOK
    <2>3. /\ authorizing' \in 0 .. 3
          /\ timer' \in Off .. AuthTimeOut \cup Off .. IdleTimeOut
      BY <1>6, TimerTypes DEF ParseAnswer, AUTHORIZING_SUCCESS
    <2>4. QED
      BY <1>6, <2>1, <2>2, <2>3 DEF ParseAnswer, TypeOK, macVars, appVars
  <1>7. CASE ParseUnexpected
    <2>1. PICK t \in Incoming : Reads(t) /\ (Disconnect(TRUE) \/ Disconnect(FALSE))
                                /\ UNCHANGED <<macVars, toApp>>
      BY <1>7 DEF ParseUnexpected
    <2>2. toDevice' \in Seq(Tokens)
      BY <2>1, SeenToken DEF Reads, Sees
    <2>3. QED
      BY <2>1, <2>2, DisconnectType
  <1>8. CASE ParseBody
    <2>1. PICK t \in Incoming :
            /\ Reads(t) /\ t.kind \in {"body", "answer"}
            /\ msg' = IF t.kind = "body" THEN t.hash.msg ELSE AuthorizingCmd
            /\ hash' = MsgHash(msg', inMsgCount, challenge)
            /\ collecting' = "clean"
            /\ UNCHANGED <<macVars, linked, authorizing, timer, failedHash, challenge,
                           inMsgCount, outMsgCount, returned, lastConnectionClosed,
                           toApp, appVars, lastIssued, lastAnswered, lastAccepted>>
      BY <1>8 DEF ParseBody
    <2>2. toDevice' \in Seq(Tokens) /\ t \in Tokens
      BY <2>1, SeenToken DEF Reads, Sees
    <2>3. msg' \in Commands \cup {None, AuthorizingCmd}
      <3>1. t.kind = "body" => t.hash.msg \in Commands
        BY <2>2 DEF Tokens
      <3>2. QED
        BY <2>1, <3>1
    <2>4. hash' \in Hashes
      BY <2>1, <2>3, HashTypes DEF TypeOK
    <2>5. QED
      BY <2>1, <2>2, <2>3, <2>4 DEF TypeOK, macVars, appVars
  <1>9. CASE ParseHash
    <2>1. toDevice' \in Seq(Tokens)
      BY <1>9, SeenToken DEF ParseHash, Reads, Sees
    <2>2. returned' \in Commands \cup {None, Bang}
      BY <1>9 DEF ParseHash, TypeOK
    <2>3. /\ inMsgCount' \in Nat
          /\ timer' \in Off .. AuthTimeOut \cup Off .. IdleTimeOut
      BY <1>9, TimerTypes DEF ParseHash, CountsMessage, TypeOK
    <2>4. QED
      BY <1>9, <2>1, <2>2, <2>3 DEF ParseHash, TypeOK, macVars, appVars
  <1>10. CASE ParseWrongHash
    <2>1. PICK t \in Incoming :
            /\ Sees(t)
            /\ \/ /\ toDevice' \in {Tail(toDevice), <<Stray>> \o Tail(toDevice)}
                  /\ Disconnect(TRUE)
               \/ /\ collecting = "clean" /\ IsMessage(t)
                  /\ toDevice' = Tail(toDevice)
                  /\ collecting' = "spoiled"
                  /\ UNCHANGED <<hash, linked, authorizing, timer, failedHash,
                                 challenge, inMsgCount, outMsgCount, msg, returned,
                                 lastConnectionClosed, appVars, lastIssued, lastAnswered, lastAccepted>>
            /\ UNCHANGED <<macVars, toApp>>
      BY <1>10 DEF ParseWrongHash
    <2>2. toDevice' \in Seq(Tokens)
      BY <2>1, SeenToken, SeqTypes, TokenTypes DEF Sees
    <2>3. CASE Disconnect(TRUE)
      BY <2>1, <2>2, <2>3, DisconnectType
    <2>4. CASE /\ collecting' = "spoiled"
               /\ UNCHANGED <<hash, linked, authorizing, timer, failedHash,
                              challenge, inMsgCount, outMsgCount, msg, returned,
                              lastConnectionClosed, appVars, lastIssued, lastAnswered, lastAccepted>>
      BY <2>1, <2>2, <2>4 DEF TypeOK, macVars, appVars
    <2>5. QED
      BY <2>1, <2>3, <2>4
  <1>11. QED
    BY <1>1, <1>2, <1>3, <1>4, <1>5, <1>6, <1>7, <1>8, <1>9, <1>10 DEF Parse

LEMMA OtherType ==
    ASSUME TypeOK, (Next /\ ~Parse) \/ UNCHANGED vars
    PROVE  TypeOK'
  <1> USE DEF macVars, appVars, deviceVars
  <1>1. CASE Connect /\ UNCHANGED reliable
    <2>1. powerCycles' \in 0 .. MaxCycles /\ eeprom' \in 0 .. MaxCycles
      BY <1>1, StoredType, SpendType DEF Connect
    <2>2. /\ authorizing' \in 0 .. 3
          /\ timer' \in Off .. AuthTimeOut \cup Off .. IdleTimeOut
      BY <1>1, TimerTypes DEF Connect, AUTHORIZING_START
    <2>3. QED
      BY <1>1, <2>1, <2>2 DEF Connect, NewSession, TypeOK
  <1>2. CASE (Respond \/ Write) /\ UNCHANGED reliable
    <2>0. writeToPfodApp /\ returned' = None /\ UNCHANGED reliable
      BY <1>2 DEF Respond, Write
    <2>1. hash' \in Hashes
      BY <2>0, HashTypes DEF writeToPfodApp, TypeOK
    <2>2. toApp' \in Seq(Tokens)
      <3>1. toApp' = Append(toApp, Digits(hash')) /\ toApp \in Seq(Tokens)
        BY <2>0 DEF writeToPfodApp, TypeOK
      <3>2. QED
        BY <2>1, <3>1, TokenTypes, SeqTypes
    <2>3. QED
      BY <2>0, <2>1, <2>2 DEF writeToPfodApp, TypeOK
  <1>3. CASE Ignore /\ UNCHANGED reliable
    BY <1>3 DEF Ignore, TypeOK
  <1>4. CASE LinkDown /\ UNCHANGED reliable
    <2>1. CloseSession /\ toDevice' = <<>> /\ toApp' = <<>>
      BY <1>4 DEF LinkDown
    <2>2. QED
      BY <1>4, <2>1, CloseSessionType, SeqTypes, ChallengeTypes DEF LinkDown, AppForgets, TypeOK
  <1>5. CASE AppAsk /\ UNCHANGED reliable
    BY <1>5, TokenTypes, SeqTypes DEF AppAsk, TypeOK
  <1>6. ASSUME NEW c \in Commands, AppCommand(c), UNCHANGED reliable
        PROVE  TypeOK'
    <2>1. toDevice' \in Seq(Tokens)
      <3>1. MsgHash(c, appOut, appChallenge) \in Hashes
        BY HashTypes DEF TypeOK
      <3>2. Body(c) \in Tokens /\ Digits(MsgHash(c, appOut, appChallenge)) \in Tokens
        BY <3>1, TokenTypes
      <3>3. QED
        BY <1>6, <3>2, SeqTypes DEF AppCommand, TypeOK
    <2>2. QED
      BY <1>6, <2>1 DEF AppCommand, TypeOK
  <1>7. CASE AppClose /\ UNCHANGED reliable
    BY <1>7, TokenTypes, SeqTypes, ChallengeTypes DEF AppClose, AppForgets, TypeOK
  <1>8. CASE AppReads /\ UNCHANGED reliable
    <2>1. toApp' \in Seq(Tokens) /\ Head(toApp) \in Tokens
      BY <1>8, SeqTypes DEF AppReads, TypeOK
    <2>2. Head(toApp).hash \in Hashes /\ Head(toApp).hash.of \in Challenges
      BY <2>1, TokenTypes
    <2>3. Answer(Head(toApp).hash) \in Tokens
      BY <2>2, TokenTypes
    <2>4. toDevice' \in Seq(Tokens)
      BY <1>8, <2>3, SeqTypes DEF AppReads, TypeOK
    <2>5. app' \in {"off", "asked", "answered", "ready"} /\ appChallenge' \in Challenges
      BY <1>8, <2>2, ChallengeTypes DEF AppReads, AppForgets, TypeOK
    <2>6. appOut' \in Nat /\ appIn' \in Nat
      BY <1>8 DEF AppReads, AppForgets, TypeOK
    <2>7. QED
      BY <1>8, <2>1, <2>4, <2>5, <2>6 DEF AppReads, TypeOK
  <1>9. CASE AppRestart /\ UNCHANGED reliable
    BY <1>9, ChallengeTypes DEF AppRestart, AppForgets, TypeOK
  <1>10. CASE Lose /\ UNCHANGED reliable
    <2>1. toDevice' \in Seq(Tokens) /\ toApp' \in Seq(Tokens)
      BY <1>10, WithoutType DEF Lose, TypeOK
    <2>2. QED
      BY <1>10, <2>1 DEF Lose, TypeOK
  <1>11. CASE Tick /\ UNCHANGED reliable
    <2>1. timer' \in Off .. AuthTimeOut \cup Off .. IdleTimeOut
      BY <1>11, SessionAssumption DEF Tick, TypeOK, Off
    <2>2. QED
      BY <1>11, <2>1 DEF Tick, TypeOK
  <1>12. CASE PowerCycle /\ UNCHANGED reliable
    <2>1. CloseSession /\ toDevice' = <<>> /\ toApp' = <<>>
      BY <1>12 DEF PowerCycle, LosePower
    <2>2. QED
      BY <1>12, <2>1, CloseSessionType, SeqTypes, Constants, ChallengeTypes, HashTypes
      DEF PowerCycle, LosePower, AppForgets, TypeOK
  <1>13. CASE UNCHANGED vars
    BY <1>13 DEF vars, sessionVars, TypeOK
  <1>14. QED
    BY <1>1, <1>2, <1>3, <1>4, <1>5, <1>6, <1>7, <1>8, <1>9, <1>10, <1>11, <1>12, <1>13
    DEF Next, Program, App

\* Every state of device, link and app is type correct.
THEOREM TypeCorrect == Spec => []TypeOK
  <1>1. TypeOK /\ [Next]_vars => TypeOK'
    <2> SUFFICES ASSUME TypeOK, [Next]_vars PROVE TypeOK'
      OBVIOUS
    <2>1. CASE Parse /\ UNCHANGED reliable
      BY <2>1, ParseType
    <2>2. CASE (Next /\ ~Parse) \/ UNCHANGED vars
      BY <2>2, OtherType
    <2>3. QED
      BY <2>1, <2>2 DEF Next
  <1>2. QED
    BY InitType, <1>1, PTL DEF Spec

--------------------------------------------------------------------------------
(* What a session holds, and what one leaves to the next. *)

\* A command is returned in a session only, when no hash is collected: so the
\* answer to it counts in that session.
ReturnedInSession ==
    /\ returned # None => collecting = "no"
    /\ returned \in Commands => authorizing = AUTHORIZING_SUCCESS

Session == SessionIsTimed /\ NothingCarriedOver /\ ReturnedInSession

LEMMA SessionStep ==
    ASSUME TypeOK, Session, [Next]_vars
    PROVE  Session'
  <1> USE SessionAssumption, TimerTypes
      DEF Session, SessionIsTimed, NothingCarriedOver, ReturnedInSession, macVars, appVars, deviceVars,
          NOT_AUTHORIZING, AUTHORIZING_START, AUTHORIZING_SENT_CHALLENGE, AUTHORIZING_SUCCESS
  <1>1. CASE CloseSession /\ returned' \in {None, Bang}
    BY <1>1 DEF CloseSession, NewSession
  <1>2. CASE ParseStray
    BY <1>2 DEF ParseStray, StartsTimer, Reads, Sees, InParse, TypeOK
  <1>3. CASE ParseAsk
    <2>1. /\ authorizing' = AUTHORIZING_SENT_CHALLENGE /\ timer' = AuthTimeOut
          /\ returned' = None
      BY <1>3 DEF ParseAsk, Reads, Sees, InParse
    <2>2. inMsgCount' = 0 /\ outMsgCount' = 0 /\ collecting' = "no"
      BY <1>3 DEF ParseAsk, NewSession, TypeOK
    <2>3. QED
      BY <2>1, <2>2
  <1>4. CASE ParseAnswer
    BY <1>4 DEF ParseAnswer, Reads, Sees, InParse
  <1>5. CASE ParseBody
    BY <1>5 DEF ParseBody, Reads, Sees, InParse
  <1>6. CASE ParseHash
    BY <1>6 DEF ParseHash
  <1>7. CASE ParseWrongHash /\ ~CloseSession
    BY <1>7 DEF ParseWrongHash, Disconnect, Sees, InParse
  <1>8. CASE Connect
    BY <1>8 DEF Connect, NewSession
  <1>9. CASE Respond \/ Write
    <2>1. authorizing = AUTHORIZING_SUCCESS /\ returned' = None
          /\ UNCHANGED <<authorizing, timer, inMsgCount, collecting>>
      BY <1>9 DEF Respond, Write, writeToPfodApp
    <2>2. QED
      BY <2>1
  <1>10. CASE Tick
    BY <1>10 DEF Tick, TypeOK, Off
  <1>11. CASE Ignore \/ App \/ Lose \/ UNCHANGED vars
    BY <1>11 DEF Ignore, App, AppAsk, AppCommand, AppClose, AppReads, AppRestart, Lose,
       vars, sessionVars
  <1>12. QED
    BY <1>1, <1>2, <1>3, <1>4, <1>5, <1>6, <1>7, <1>8, <1>9, <1>10, <1>11
    DEF Next, Program, Parse, ParseInvalid, ParseTimeOut, ParseClose, ParseUnexpected,
        ParseWrongHash, Disconnect, LinkDown, PowerCycle, LosePower

LEMMA SessionHolds == Spec => []Session
  <1>1. Init => Session
    BY SessionAssumption
    DEF Init, Session, SessionIsTimed, NothingCarriedOver, ReturnedInSession,
        NOT_AUTHORIZING, AUTHORIZING_START, AUTHORIZING_SENT_CHALLENGE, AUTHORIZING_SUCCESS
  <1>2. TypeOK /\ Session /\ [Next]_vars => Session'
    BY SessionStep
  <1>3. QED
    BY <1>1, <1>2, TypeCorrect, PTL DEF Spec

\* Whoever began to authorize or holds a session has the timer of parse()
\* against it.
THEOREM SessionsAreTimed == Spec => []SessionIsTimed
  <1>1. Session => SessionIsTimed
    BY DEF Session
  <1>2. QED
    BY <1>1, SessionHolds, PTL

\* connect() and closeConnection() leave no count and no half-collected hash.
THEOREM SessionsStartAfresh == Spec => []NothingCarriedOver
  <1>1. Session => NothingCarriedOver
    BY DEF Session
  <1>2. QED
    BY <1>1, SessionHolds, PTL

--------------------------------------------------------------------------------
(* Challenges are fresh.  Between power cycles the counter of connections      *)
(* orders them, and the power cycles left in the EEPROM do so beyond that:     *)
(* the next challenge will come after the last one issued.                     *)

Accepted == lastAccepted.of

KeyIsOld ==
    /\ linked \/ powerCycles > 0 => keyStored
    /\ ~keyStored => counter = 0 /\ lastIssued = FirstChallenge /\ Accepted = FirstChallenge

NextIsLater ==
    /\ powerCycles > 0 =>
          /\ eeprom = powerCycles - 1
          /\ \/ powerCycles < lastIssued.cycles
             \/ powerCycles = lastIssued.cycles /\ counter >= lastIssued.n
    /\ keyStored /\ eeprom > 0 =>
          \/ eeprom < lastIssued.cycles
          \/ eeprom = lastIssued.cycles /\ lastIssued.n = 0

Fresh == KeyIsOld /\ NextIsLater

\* What ParseAsk does to the counters and the challenge, in numbers.
LEMMA AskIssues ==
    ASSUME TypeOK, Fresh, ParseAsk
    PROVE  /\ lastIssued' = challenge'
           /\ powerCycles' \in Nat /\ counter' \in Nat
           /\ powerCycles' > 0 =>
                 /\ eeprom' = powerCycles' - 1
                 /\ challenge'.cycles = powerCycles' /\ challenge'.n = counter'
                 /\ Later(challenge', lastIssued)
           /\ powerCycles' = 0 => eeprom' = 0
           /\ UNCHANGED keyStored /\ keyStored /\ UNCHANGED linked /\ UNCHANGED lastAccepted
  <1> DEFINE n == (counter + 1) % CounterSize
  <1>1. powerCycles > 0 /\ keyStored /\ powerCycles \in Nat /\ eeprom = powerCycles - 1
    BY Constants DEF ParseAsk, Reads, Sees, Fresh, KeyIsOld, NextIsLater, TypeOK
  <1>2. n \in Nat /\ (n = 0 \/ n = counter + 1)
    BY Constants DEF TypeOK
  <1>3. PICK pc, ee, failed :
          /\ BuildChallenge(pc, ee, failed)
          /\ \/ pc = powerCycles /\ ee = eeprom
             \/ pc = eeprom /\ ee = Spend(eeprom)
    BY <1>1 DEF ParseAsk, Stored
  <1>4. /\ pc \in Nat /\ ee \in Nat /\ ee = Spend(pc)
        /\ pc = powerCycles \/ pc < powerCycles
    BY <1>1, <1>3 DEF Spend
  <1> DEFINE now == IF n = 0 THEN ee ELSE pc
  <1>5. /\ counter' = n /\ powerCycles' = now /\ eeprom' = Spend(now)
        /\ now # 0 => challenge' = [cycles |-> now, n |-> n, failed |-> failed]
    BY <1>3, <1>4 DEF BuildChallenge
  <1>6. now \in Nat /\ (now = 0 \/ now < powerCycles \/ (now = powerCycles /\ n = counter + 1))
    BY <1>1, <1>2, <1>4 DEF Spend
  <1>7. now > 0 => Later(challenge', lastIssued)
    <2>1. lastIssued.cycles \in Nat /\ lastIssued.n \in Nat /\ counter \in Nat
      BY Constants DEF TypeOK, Challenges
    <2>2. powerCycles < lastIssued.cycles \/ (powerCycles = lastIssued.cycles /\ counter >= lastIssued.n)
      BY <1>1 DEF Fresh, NextIsLater
    <2>3. now > 0 => challenge'.cycles = now /\ challenge'.n = n
      BY <1>5
    <2>4. QED
      BY <1>1, <1>2, <1>6, <2>1, <2>2, <2>3 DEF Later
  <1>8. now > 0 => eeprom' = now - 1
    BY <1>5, <1>6 DEF Spend
  <1>9. now = 0 => eeprom' = 0
    BY <1>5 DEF Spend
  <1>10. QED
    BY <1>1, <1>2, <1>5, <1>6, <1>7, <1>8, <1>9 DEF ParseAsk

LEMMA FreshStep ==
    ASSUME TypeOK, Fresh, [Next]_vars
    PROVE  Fresh'
  <1> USE DEF Fresh, KeyIsOld, NextIsLater, Accepted, macVars, appVars, deviceVars
  <1>1. CASE ParseAsk
    BY <1>1, AskIssues DEF Later
  <1>2. CASE Connect
    <2>1. /\ keyStored' = TRUE
          /\ powerCycles' = Stored /\ eeprom' = Spend(Stored)
          /\ UNCHANGED <<counter, lastIssued, lastAnswered, lastAccepted>>
      BY <1>2 DEF Connect
    <2>2. Stored \in Nat /\ counter \in Nat /\ lastIssued.n \in Nat /\ lastIssued.cycles \in Nat
      BY StoredType, Constants DEF TypeOK, Challenges
    <2>3. Stored > 0 => \/ Stored < lastIssued.cycles
                        \/ Stored = lastIssued.cycles /\ lastIssued.n = 0
      BY DEF Stored, FirstChallenge
    <2>4. QED
      BY <2>1, <2>2, <2>3 DEF Spend
  <1>3. CASE PowerCycle
    BY <1>3 DEF PowerCycle, LosePower
  <1>4. CASE ParseHash
    BY <1>4 DEF ParseHash, Reads, Sees, InParse
  <1>5. CASE UNCHANGED <<keyStored, eeprom, powerCycles, counter, linked, lastIssued, lastAnswered, lastAccepted>>
    BY <1>5
  <1>6. CASE LinkDown
    BY <1>6 DEF LinkDown
  <1>7. CASE Parse /\ ~ParseAsk /\ ~ParseHash
    BY <1>5, <1>7 DEF Parse, ParseInvalid, ParseTimeOut, ParseStray, ParseClose, ParseAnswer,
       ParseUnexpected, ParseBody, ParseWrongHash, Disconnect
  <1>8. CASE Respond \/ Write \/ Ignore \/ Lose \/ Tick \/ UNCHANGED vars
    BY <1>5, <1>8 DEF Respond, Write, writeToPfodApp, Ignore, Lose, Tick, vars, sessionVars
  <1>9. CASE App
    BY <1>5, <1>9 DEF App, AppAsk, AppCommand, AppClose, AppReads, AppRestart
  <1>10. QED
    BY <1>1, <1>2, <1>3, <1>4, <1>6, <1>7, <1>8, <1>9 DEF Next, Program

LEMMA FreshHolds == Spec => []Fresh
  <1>1. Init => Fresh
    BY Constants DEF Init, Fresh, KeyIsOld, NextIsLater, Accepted, FirstChallenge, ChallengeHash, MsgHash
  <1>2. TypeOK /\ Fresh /\ [Next]_vars => Fresh'
    BY FreshStep
  <1>3. QED
    BY <1>1, <1>2, TypeCorrect, PTL DEF Spec

\* Challenge a is b or comes after it.
NotBefore(a, b) == Later(a, b) \/ (a.cycles = b.cycles /\ a.n = b.n)

LEMMA LaterIsTransitive ==
    ASSUME NEW a \in Challenges, NEW b \in Challenges, NEW c \in Challenges,
           Later(a, b), NotBefore(b, c)
    PROVE  Later(a, c)
  <1>1. /\ a.cycles \in Nat /\ b.cycles \in Nat /\ c.cycles \in Nat
        /\ a.n \in Nat /\ b.n \in Nat /\ c.n \in Nat
    BY Constants DEF Challenges
  <1>2. QED
    BY <1>1 DEF Later, NotBefore

\* The last challenge sent is the one the device has, unless none was sent since the
\* power came back.
IssuedIsHeld == \/ challenge = lastIssued
                \/ counter = 0 /\ authorizing \in {NOT_AUTHORIZING, AUTHORIZING_START}

\* No session was authorized on a later one than the last, and an answer that is
\* waited for is to a later one.
AnsweredBefore ==
    \/ NotBefore(lastIssued, lastAnswered)
    \/ keyStored /\ powerCycles = 0 /\ eeprom = 0
AnswerIsLater ==
    authorizing = AUTHORIZING_SENT_CHALLENGE /\ powerCycles > 0 => Later(challenge, lastAnswered)

Issued == IssuedIsHeld /\ AnsweredBefore /\ AnswerIsLater

\* A challenge that is not built is the last one.
LEMMA NothingBuilt ==
    ASSUME TypeOK, Fresh, Issued, ParseAsk, powerCycles' = 0
    PROVE  challenge' = lastIssued
  <1>1. powerCycles > 0
    BY DEF ParseAsk, Reads, Sees
  <1>2. CASE authorizing = AUTHORIZING_SUCCESS
    <2>1. challenge = lastIssued
      BY <1>2 DEF Issued, IssuedIsHeld, NOT_AUTHORIZING, AUTHORIZING_START, AUTHORIZING_SUCCESS
    <2>2. challenge' = challenge
      BY <1>2 DEF ParseAsk, BuildChallenge
    <2>3. QED
      BY <2>1, <2>2
  <1>3. CASE authorizing # AUTHORIZING_SUCCESS
    <2>1. BuildChallenge(powerCycles, eeprom, failedHash)
      BY <1>3 DEF ParseAsk
    <2>2. (counter + 1) % CounterSize = 0 /\ challenge' = challenge
      BY <1>1, <2>1 DEF BuildChallenge
    <2>3. counter \in Nat /\ CounterSize \in Nat /\ CounterSize > 1
      BY Constants DEF TypeOK
    <2>4. 1 % CounterSize = 1
      BY <2>3
    <2>5. counter # 0
      BY <2>2, <2>3, <2>4
    <2>6. QED
      BY <2>2, <2>5 DEF Issued, IssuedIsHeld
  <1>4. QED
    BY <1>2, <1>3

LEMMA IssuedStep ==
    ASSUME TypeOK, TypeOK', Fresh, Issued, [Next]_vars
    PROVE  Issued'
  <1> USE DEF macVars, appVars, deviceVars,
          NOT_AUTHORIZING, AUTHORIZING_START, AUTHORIZING_SENT_CHALLENGE, AUTHORIZING_SUCCESS
  <1>1. CASE ParseAsk
    <2>1. /\ lastIssued' = challenge' /\ powerCycles > 0 /\ keyStored'
          /\ authorizing' = AUTHORIZING_SENT_CHALLENGE /\ UNCHANGED lastAnswered
          /\ powerCycles' \in Nat /\ (powerCycles' = 0 => eeprom' = 0)
      BY <1>1, AskIssues DEF ParseAsk, Reads, Sees
    <2>2. powerCycles' > 0 => Later(lastIssued', lastAnswered)
      <3>1. NotBefore(lastIssued, lastAnswered)
        BY <2>1 DEF Issued, AnsweredBefore
      <3>2. powerCycles' > 0 => Later(lastIssued', lastIssued)
        BY <1>1, <2>1, AskIssues
      <3>3. lastIssued' \in Challenges /\ lastIssued \in Challenges /\ lastAnswered \in Challenges
        BY DEF TypeOK
      <3>4. QED
        BY <3>1, <3>2, <3>3, LaterIsTransitive
    <2>3. QED
      BY <2>1, <2>2 DEF Issued, IssuedIsHeld, AnsweredBefore, AnswerIsLater, NotBefore
  <1>2. CASE ParseAnswer
    <2>1. /\ authorizing = AUTHORIZING_SENT_CHALLENGE /\ authorizing' = AUTHORIZING_SUCCESS
          /\ lastAnswered' = challenge /\ UNCHANGED <<challenge, lastIssued>>
      BY <1>2 DEF ParseAnswer
    <2>2. challenge = lastIssued
      BY <2>1 DEF Issued, IssuedIsHeld
    <2>3. QED
      BY <2>1, <2>2 DEF Issued, IssuedIsHeld, AnsweredBefore, AnswerIsLater, NotBefore
  <1>3. CASE Connect
    BY <1>3 DEF Connect, Stored, Spend, Issued, IssuedIsHeld, AnsweredBefore, AnswerIsLater
  <1>4. CASE PowerCycle
    BY <1>4 DEF PowerCycle, LosePower, CloseSession, Issued, IssuedIsHeld, AnsweredBefore,
       AnswerIsLater
  <1>5. CASE /\ UNCHANGED <<keyStored, eeprom, powerCycles, counter, challenge, lastIssued, lastAnswered>>
             /\ \/ UNCHANGED authorizing
                \/ authorizing' \in {NOT_AUTHORIZING, AUTHORIZING_START}
    BY <1>5 DEF Issued, IssuedIsHeld, AnsweredBefore, AnswerIsLater
  <1>6. CASE ParseInvalid \/ ParseTimeOut \/ ParseClose \/ ParseUnexpected \/ LinkDown
    BY <1>5, <1>6 DEF ParseInvalid, ParseTimeOut, ParseClose, ParseUnexpected, LinkDown,
       Disconnect, CloseSession
  <1>7. CASE ParseStray
    BY <1>5, <1>7 DEF ParseStray
  <1>8. CASE ParseBody \/ ParseHash \/ ParseWrongHash
    BY <1>5, <1>8 DEF ParseBody, ParseHash, ParseWrongHash, Disconnect, CloseSession
  <1>9. CASE Respond \/ Write \/ Ignore \/ Lose \/ Tick \/ UNCHANGED vars
    BY <1>5, <1>9 DEF Respond, Write, writeToPfodApp, Ignore, Lose, Tick, vars, sessionVars
  <1>10. CASE App
    BY <1>5, <1>10 DEF App, AppAsk, AppCommand, AppClose, AppReads, AppRestart
  <1>11. QED
    BY <1>1, <1>2, <1>3, <1>4, <1>6, <1>7, <1>8, <1>9, <1>10 DEF Next, Program, Parse

LEMMA IssuedHolds == Spec => []Issued
  <1>1. Init => Issued
    BY DEF Init, Issued, IssuedIsHeld, AnsweredBefore, AnswerIsLater, NotBefore,
       NOT_AUTHORIZING, AUTHORIZING_SENT_CHALLENGE
  <1>2. TypeOK /\ TypeOK' /\ Fresh /\ Issued /\ [Next]_vars => Issued'
    BY IssuedStep
  <1>3. QED
    BY <1>1, <1>2, TypeCorrect, FreshHolds, PTL DEF Spec

\* buildChallenge() and readPowerCycles() count so that each challenge comes after
\* all before it, over any power cycles.  Only when these have run out is the last
\* challenge sent again, and no session is authorized on it: each session has a
\* challenge that is later than those of all the sessions before.
THEOREM ChallengesAreFresh == Spec => ChallengeIsFresh
  <1>1. ASSUME TypeOK, Fresh, Issued, ParseAsk
        PROVE  IF powerCycles' > 0 THEN Later(challenge', lastIssued)
                                   ELSE challenge' = lastIssued
    BY <1>1, AskIssues, NothingBuilt
  <1>2. ASSUME Issued, ParseAnswer
        PROVE  Later(challenge, lastAnswered)
    BY <1>2 DEF Issued, AnswerIsLater, ParseAnswer, Reads, Sees
  <1>3. TypeOK /\ Fresh /\ Issued /\ [Next]_vars
          => [/\ ParseAsk => IF powerCycles' > 0 THEN Later(challenge', lastIssued)
                                                 ELSE challenge' = lastIssued
              /\ ParseAnswer => Later(challenge, lastAnswered)]_vars
    BY <1>1, <1>2
  <1>4. QED
    BY <1>3, TypeCorrect, FreshHolds, IssuedHolds, PTL DEF Spec, ChallengeIsFresh

--------------------------------------------------------------------------------
(* Commands run once and in order.                                           *)

AcceptedBefore ==
    \/ NotBefore(lastIssued, Accepted)
    \/ keyStored /\ powerCycles = 0 /\ eeprom = 0

\* A session goes on from its own last command, or follows all that were run.
Challenged == powerCycles > 0 /\ authorizing \in {AUTHORIZING_SENT_CHALLENGE, AUTHORIZING_SUCCESS}
Follows ==
    IF authorizing = AUTHORIZING_SENT_CHALLENGE \/ inMsgCount = 0
    THEN Later(challenge, Accepted)
    ELSE lastAccepted.count = inMsgCount - 1 /\ Accepted = challenge
SessionFollows == Challenged => challenge = lastIssued /\ Follows

\* What parse() compares a hash with is that of the message, or of the last message
\* the program has written; and the hash of such a message never comes in.
HashIsOfMessage ==
    collecting = "clean" => \/ hash = MsgHash(msg, inMsgCount, challenge)
                            \/ outMsgCount > 0 /\ hash = MsgHash("reply", outMsgCount - 1, challenge)
Sent == {t \in Tokens : t.kind = "digits" => t.hash.msg # "reply"}
NoReplies == toDevice \in Seq(Sent)

InOrder == AcceptedBefore /\ SessionFollows /\ HashIsOfMessage

LEMMA SentTypes ==
    /\ <<>> \in Seq(Sent)
    /\ \A s \in Seq(Sent), t \in Sent : Append(s, t) \in Seq(Sent) /\ <<t>> \o s \in Seq(Sent)
    /\ \A s \in Seq(Sent) : s # <<>> => Tail(s) \in Seq(Sent)
    /\ \A s \in Seq(Sent), t, u \in Sent : s \o <<t, u>> \in Seq(Sent)
  BY EmptySeq, AppendProperties, HeadTailProperties

LEMMA SentTokens ==
    /\ Ask \in Sent /\ Close \in Sent /\ Stray \in Sent
    /\ \A h \in Hashes : Answer(h) \in Sent
    /\ \A c \in Commands : Body(c) \in Sent
    /\ \A h \in Hashes : h.msg # "reply" => Digits(h) \in Sent
  <1>1. Ask.kind # "digits" /\ Close.kind # "digits" /\ Stray.hash.msg # "reply"
    BY DEF Ask, Close, Stray, Digits, ChallengeHash, MsgHash, None
  <1>2. /\ \A h : Answer(h).kind # "digits" /\ Digits(h).hash = h
        /\ \A c : Body(c).kind # "digits"
    BY DEF Answer, Digits, Body
  <1>3. QED
    BY <1>1, <1>2, TokenTypes DEF Sent

LEMMA NoRepliesStep ==
    ASSUME TypeOK, NoReplies, [Next]_vars
    PROVE  NoReplies'
  <1> USE DEF NoReplies, macVars, appVars, deviceVars
  <1>1. CASE toDevice' \in {toDevice, <<>>}
    BY <1>1, SentTypes
  <1>2. ASSUME NEW t \in Incoming, toDevice' \in {Tail(toDevice), <<Stray>> \o Tail(toDevice)}
        PROVE  NoReplies'
    BY <1>2, SeenToken, SentTypes, SentTokens
  <1>3. CASE ParseStray \/ ParseAnswer \/ ParseUnexpected \/ ParseBody \/ ParseHash
    BY <1>2, <1>3 DEF ParseStray, ParseAnswer, ParseUnexpected, ParseBody, ParseHash, Reads, Sees
  <1>4. CASE ParseClose \/ ParseAsk
    BY <1>2, <1>4 DEF ParseClose, ParseAsk, Reads, Sees
  <1>5. CASE ParseWrongHash
    BY <1>2, <1>5 DEF ParseWrongHash, Sees
  <1>6. CASE ParseInvalid \/ ParseTimeOut \/ Connect \/ Respond \/ Write \/ Ignore \/ LinkDown
             \/ Tick \/ PowerCycle \/ AppRestart \/ UNCHANGED vars
    BY <1>1, <1>6 DEF ParseInvalid, ParseTimeOut, Connect, Respond, Write, writeToPfodApp, Ignore,
       LinkDown, Tick, PowerCycle, LosePower, AppRestart, vars, sessionVars
  <1>7. CASE AppAsk \/ AppClose
    BY <1>7, SentTypes, SentTokens DEF AppAsk, AppClose
  <1>8. ASSUME NEW c \in Commands, AppCommand(c)
        PROVE  NoReplies'
    <2> DEFINE h == MsgHash(c, appOut, appChallenge)
    <2>1. h \in Hashes /\ h.msg = c
      BY HashTypes DEF TypeOK, MsgHash
    <2> HIDE DEF h
    <2>2. Digits(h) \in Sent /\ Body(c) \in Sent
      BY <2>1, SessionAssumption, SentTokens
    <2>3. toDevice' = toDevice \o <<Body(c), Digits(h)>>
      BY <1>8 DEF AppCommand, h
    <2>4. QED
      BY <2>2, <2>3, SentTypes
  <1>9. CASE AppReads
    <2>1. toApp # <<>> => Head(toApp) \in Tokens
      BY SeqTypes DEF TypeOK
    <2>2. Answer(Head(toApp).hash) \in Sent
      BY <1>9, <2>1, TokenTypes, SentTokens DEF AppReads
    <2>3. QED
      BY <1>9, <2>2, SentTypes DEF AppReads
  <1>10. CASE Lose
    BY <1>10, WithoutType DEF Lose
  <1>11. QED
    BY <1>3, <1>4, <1>5, <1>6, <1>7, <1>8, <1>9, <1>10 DEF Next, Program, Parse, App

LEMMA NoRepliesHold == Spec => []NoReplies
  <1>1. Init => NoReplies
    BY SentTypes DEF Init, NoReplies
  <1>2. TypeOK /\ NoReplies /\ [Next]_vars => NoReplies'
    BY NoRepliesStep
  <1>3. QED
    BY <1>1, <1>2, TypeCorrect, PTL DEF Spec

\* What ParseHash accepts.
LEMMA HashAccepted ==
    ASSUME TypeOK, Session, InOrder, NoReplies, ParseHash
    PROVE  /\ authorizing = AUTHORIZING_SUCCESS /\ powerCycles > 0
           /\ hash = MsgHash(msg, inMsgCount, challenge)
           /\ challenge = lastIssued /\ Follows
           /\ lastAccepted' = hash /\ inMsgCount' = inMsgCount + 1 /\ collecting' = "no"
           /\ UNCHANGED <<macVars, authorizing, challenge, lastIssued>>
  <1>1. /\ collecting = "clean" /\ powerCycles > 0
        /\ lastAccepted' = hash /\ inMsgCount' = inMsgCount + 1 /\ collecting' = "no"
        /\ UNCHANGED <<macVars, authorizing, challenge, lastIssued>>
    BY DEF ParseHash, CountsMessage, Reads, Sees
  <1>2. authorizing = AUTHORIZING_SUCCESS
    BY <1>1 DEF Session, NothingCarriedOver
  <1>3. hash.msg # "reply"
    <2>1. PICK t \in Incoming : t.kind = "digits" /\ t.hash = hash
      BY DEF ParseHash
    <2>2. t \in Sent
      BY <2>1 DEF NoReplies, Incoming
    <2>3. QED
      BY <2>1, <2>2 DEF Sent
  <1>4. hash = MsgHash(msg, inMsgCount, challenge)
    BY <1>1, <1>3 DEF InOrder, HashIsOfMessage, MsgHash
  <1>5. QED
    BY <1>1, <1>2, <1>4 DEF InOrder, SessionFollows, Challenged

LEMMA InOrderStep ==
    ASSUME TypeOK, TypeOK', Session, Fresh, InOrder, NoReplies, [Next]_vars
    PROVE  InOrder'
  <1> USE DEF macVars, appVars, deviceVars,
          NOT_AUTHORIZING, AUTHORIZING_START, AUTHORIZING_SENT_CHALLENGE, AUTHORIZING_SUCCESS
  <1>1. CASE ParseAsk
    <2>1. /\ lastIssued' = challenge' /\ powerCycles > 0 /\ keyStored'
          /\ authorizing' = AUTHORIZING_SENT_CHALLENGE /\ UNCHANGED lastAccepted
          /\ powerCycles' \in Nat /\ (powerCycles' = 0 => eeprom' = 0)
      BY <1>1, AskIssues DEF ParseAsk, Reads, Sees
    <2>2. powerCycles' > 0 => Later(lastIssued', Accepted')
      <3>1. NotBefore(lastIssued, Accepted)
        BY <2>1 DEF InOrder, AcceptedBefore
      <3>2. powerCycles' > 0 => Later(lastIssued', lastIssued)
        BY <1>1, <2>1, AskIssues
      <3>3. lastIssued' \in Challenges /\ lastIssued \in Challenges /\ Accepted \in Challenges
        BY DEF TypeOK, Accepted, Hashes
      <3>4. Accepted' = Accepted
        BY <2>1 DEF Accepted
      <3>5. QED
        BY <3>1, <3>2, <3>3, <3>4, LaterIsTransitive
    <2>3. collecting' = "no"
      BY <1>1 DEF ParseAsk, NewSession
    <2>4. QED
      BY <2>1, <2>2, <2>3
      DEF InOrder, AcceptedBefore, NotBefore, SessionFollows, Challenged, Follows, HashIsOfMessage
  <1>2. CASE ParseAnswer
    <2>1. inMsgCount = 0 /\ collecting = "no"
      BY <1>2 DEF ParseAnswer, Session, NothingCarriedOver
    <2>2. QED
      BY <1>2, <2>1 DEF ParseAnswer, InOrder, AcceptedBefore, SessionFollows, Challenged,
         Follows, HashIsOfMessage, Accepted
  <1>3. CASE ParseHash
    <2>1. Accepted' = challenge /\ lastAccepted'.count = inMsgCount' - 1 /\ inMsgCount' # 0
      <3>1. /\ lastAccepted' = [msg |-> msg, count |-> inMsgCount, of |-> challenge]
            /\ inMsgCount' = inMsgCount + 1
        BY <1>3, HashAccepted DEF MsgHash
      <3>2. inMsgCount \in Nat
        BY DEF TypeOK
      <3>3. QED
        BY <3>1, <3>2 DEF Accepted
    <2>2. QED
      BY <1>3, <2>1, HashAccepted DEF InOrder, AcceptedBefore, NotBefore, SessionFollows,
         Follows, HashIsOfMessage
  <1>4. CASE ParseBody
    BY <1>4 DEF ParseBody, InOrder, AcceptedBefore, SessionFollows, Challenged, Follows,
       HashIsOfMessage, Accepted
  <1>5. CASE CloseSession /\ UNCHANGED <<macVars, lastIssued, lastAnswered, lastAccepted>>
    BY <1>5 DEF CloseSession, NewSession, InOrder, AcceptedBefore, SessionFollows, Challenged,
       HashIsOfMessage, Accepted
  <1>6. CASE Connect
    <2>1. /\ keyStored' = TRUE /\ authorizing' = AUTHORIZING_START /\ collecting' = "no"
          /\ powerCycles' = Stored /\ eeprom' = Spend(Stored)
          /\ UNCHANGED <<lastIssued, lastAnswered, lastAccepted>>
      BY <1>6 DEF Connect, NewSession
    <2>2. AcceptedBefore'
      <3>1. CASE NotBefore(lastIssued, Accepted)
        BY <2>1, <3>1 DEF AcceptedBefore, Accepted
      <3>2. CASE keyStored /\ powerCycles = 0 /\ eeprom = 0
        BY <2>1, <3>2 DEF AcceptedBefore, Stored, Spend
      <3>3. QED
        BY <3>1, <3>2 DEF InOrder, AcceptedBefore
    <2>3. QED
      BY <2>1, <2>2 DEF InOrder, SessionFollows, Challenged, HashIsOfMessage
  <1>7. CASE PowerCycle
    BY <1>7 DEF PowerCycle, LosePower, CloseSession, NewSession, InOrder, AcceptedBefore,
       SessionFollows, Challenged, HashIsOfMessage, Accepted
  <1>8. CASE Respond \/ Write
    <2>1. /\ hash' = MsgHash("reply", outMsgCount, challenge) /\ outMsgCount' = outMsgCount + 1
          /\ UNCHANGED <<keyStored, eeprom, powerCycles, authorizing, challenge, inMsgCount,
                         lastIssued, lastAccepted>>
      BY <1>8 DEF Respond, Write, writeToPfodApp
    <2>2. outMsgCount' > 0 /\ outMsgCount' - 1 = outMsgCount
      BY <2>1 DEF TypeOK
    <2>3. QED
      BY <2>1, <2>2 DEF InOrder, AcceptedBefore, SessionFollows, Challenged, Follows,
         HashIsOfMessage, Accepted
  <1>9. CASE UNCHANGED <<keyStored, eeprom, powerCycles, hash, challenge, inMsgCount, outMsgCount,
                         msg, lastIssued, lastAccepted>>
             /\ (collecting' = "clean" => collecting = "clean")
             /\ (authorizing' = authorizing \/ authorizing' = AUTHORIZING_START)
    BY <1>9 DEF InOrder, AcceptedBefore, SessionFollows, Challenged, Follows,
       HashIsOfMessage, Accepted
  <1>10. CASE ParseInvalid \/ ParseTimeOut \/ ParseClose \/ ParseUnexpected \/ LinkDown
    BY <1>5, <1>10
    DEF ParseInvalid, ParseTimeOut, ParseClose, ParseUnexpected, LinkDown, Disconnect
  <1>11. CASE ParseStray
    BY <1>9, <1>11 DEF ParseStray
  <1>12. CASE ParseWrongHash
    BY <1>5, <1>9, <1>12 DEF ParseWrongHash, Disconnect
  <1>13. CASE Ignore \/ Lose \/ Tick \/ UNCHANGED vars
    BY <1>9, <1>13 DEF Ignore, Lose, Tick, vars, sessionVars
  <1>14. CASE App
    BY <1>9, <1>14 DEF App, AppAsk, AppCommand, AppClose, AppReads, AppRestart
  <1>15. QED
    BY <1>1, <1>2, <1>3, <1>4, <1>6, <1>7, <1>8, <1>10, <1>11, <1>12, <1>13, <1>14
    DEF Next, Program, Parse

LEMMA InOrderHolds == Spec => []InOrder
  <1>1. Init => InOrder
    BY DEF Init, InOrder, AcceptedBefore, NotBefore, SessionFollows, Challenged,
       HashIsOfMessage, Accepted, ChallengeHash, MsgHash
  <1>2. TypeOK /\ TypeOK' /\ Session /\ Fresh /\ NoReplies /\ InOrder /\ [Next]_vars => InOrder'
    BY InOrderStep
  <1>3. QED
    BY <1>1, <1>2, TypeCorrect, SessionHolds, FreshHolds, NoRepliesHold, PTL DEF Spec

\* parse() returns each command once and in the order of the app: a lost, a
\* repeated or an old message has no hash that is accepted, in its session or
\* in any later one.
THEOREM CommandsInOrder == Spec => CommandsRunInOrder
  <1>1. TypeOK /\ Session /\ NoReplies /\ InOrder /\ [Next]_vars
          => [ParseHash =>
                IF hash.count = 0
                THEN Later(hash.of, lastAccepted.of)
                ELSE lastAccepted.count = hash.count - 1 /\ lastAccepted.of = hash.of]_vars
    <2> SUFFICES ASSUME TypeOK, Session, NoReplies, InOrder, ParseHash
                 PROVE  IF hash.count = 0
                        THEN Later(hash.of, lastAccepted.of)
                        ELSE lastAccepted.count = hash.count - 1 /\ lastAccepted.of = hash.of
      OBVIOUS
    <2>1. hash.count = inMsgCount /\ hash.of = challenge
      BY HashAccepted DEF MsgHash
    <2>2. authorizing = AUTHORIZING_SUCCESS /\ Follows
      BY HashAccepted
    <2>3. QED
      BY <2>1, <2>2
      DEF Follows, Accepted, AUTHORIZING_SENT_CHALLENGE, AUTHORIZING_SUCCESS
  <1>2. QED
    BY <1>1, TypeCorrect, SessionHolds, FreshHolds, NoRepliesHold, InOrderHolds, PTL
    DEF Spec, CommandsRunInOrder

--------------------------------------------------------------------------------
(* On a link that loses nothing, with an app that is not restarted: what is on *)
(* its way, and how app and device agree on the count of messages.             *)

InSession == authorizing = AUTHORIZING_SUCCESS
Holding   == IF collecting = "no" THEN 0 ELSE 1

Kinds == \A i \in DOMAIN toDevice :
            toDevice[i].kind \in {"ask", "close", "answer", "body", "digits"}

\* The app waits after {_} and after its answer, and what it answered is what it got.
AskIsLast == \A i \in DOMAIN toDevice :
    toDevice[i].kind = "ask" => i = Len(toDevice) /\ app = "asked"
AnswerFits == \A i \in DOMAIN toDevice :
    toDevice[i].kind = "answer" =>
        app = "answered" /\ toDevice[i].hash = ChallengeHash(appChallenge) /\ ~InSession
AnsweredIsSilent ==
    app = "answered" => \/ toDevice = <<>>
                        \/ Len(toDevice) = 1 /\ toDevice[1].kind = "answer"

\* A message is followed by its hash.
BodyHasHash == \A i \in DOMAIN toDevice :
    toDevice[i].kind = "body" =>
        /\ i < Len(toDevice) /\ toDevice[i + 1].kind = "digits"
        /\ toDevice[i + 1].hash.msg = toDevice[i].hash.msg

Queue == Kinds /\ AskIsLast /\ AnswerFits /\ AnsweredIsSilent /\ BodyHasHash

\* The device is silent after a challenge, and accepts one answer.
ChallengeIsLast == \A i \in DOMAIN toApp :
    toApp[i].kind = "challenge" =>
        /\ i = Len(toApp) /\ app = "asked" /\ toDevice = <<>> /\ ~InSession
        /\ toApp[i].hash = ChallengeHash(toApp[i].hash.of)
OkIsSingle ==
    /\ \A i \in DOMAIN toApp : toApp[i].kind = "ok" =>
          /\ app = "answered" /\ toDevice = <<>>
          /\ InSession => appChallenge = challenge /\ inMsgCount = 0 /\ collecting = "no"
    /\ \A i, j \in DOMAIN toApp : toApp[i].kind = "ok" /\ toApp[j].kind = "ok" => i = j

\* In a session the counts of the messages that are on their way run from the one that
\* the device expects to the one that the app will send.
Numbered == InSession =>
    /\ \A i \in DOMAIN toDevice : toDevice[i].kind = "digits" =>
          /\ toDevice[i].hash.of = challenge
          /\ 2 * (toDevice[i].hash.count - inMsgCount) = i + Holding - 2
    /\ app = "ready" => /\ appChallenge = challenge
                        /\ 2 * (appOut - inMsgCount) = Len(toDevice) + Holding

HashHeld ==
    collecting # "no" => /\ collecting = "clean" /\ msg \in Commands
                         /\ toDevice # <<>>
                         /\ Head(toDevice) = Digits(MsgHash(msg, inMsgCount, challenge))
ChallengeHashed ==
    authorizing = AUTHORIZING_SENT_CHALLENGE /\ powerCycles > 0 => hash = ChallengeHash(challenge)

Agreed == Queue /\ ChallengeIsLast /\ OkIsSingle /\ Numbered /\ HashHeld /\ ChallengeHashed
Honest == reliable => Agreed

LEMMA TokenFields ==
    /\ Ask.kind = "ask" /\ Close.kind = "close" /\ Ok.kind = "ok"
    /\ \A h : Answer(h).kind = "answer" /\ Answer(h).hash = h
    /\ \A h : Digits(h).kind = "digits" /\ Digits(h).hash = h
    /\ \A ch : Say(ch).kind = "challenge" /\ Say(ch).hash = ChallengeHash(ch)
    /\ \A c : Body(c).kind = "body" /\ Body(c).hash.msg = c
    /\ \A c, n, ch : /\ MsgHash(c, n, ch).msg = c /\ MsgHash(c, n, ch).count = n
                     /\ MsgHash(c, n, ch).of = ch
    /\ \A ch : ChallengeHash(ch).of = ch
  BY DEF Ask, Close, Ok, Answer, Digits, Say, Body, MsgHash, ChallengeHash

\* A hash is its fields, and a hash on its way is the digits of it.
LEMMA DigitsOf ==
    ASSUME NEW t \in Tokens, t.kind = "digits"
    PROVE  /\ t = Digits(t.hash) /\ t.hash.count \in Nat
           /\ t.hash = MsgHash(t.hash.msg, t.hash.count, t.hash.of)
  <1>1. t = [kind |-> "digits", hash |-> t.hash] /\ t.hash \in Hashes
    BY TokenTypes DEF Tokens
  <1>2. \A h \in Hashes : h = [msg |-> h.msg, count |-> h.count, of |-> h.of] /\ h.count \in Nat
    BY DEF Hashes
  <1>3. QED
    BY <1>1, <1>2 DEF Digits, MsgHash

LEMMA BodyOf == ASSUME NEW t \in Tokens, t.kind = "body" PROVE t.hash.msg \in Commands
  BY DEF Tokens

\* The first of a queue, and what is behind it.
LEMMA Behind ==
    ASSUME NEW s \in Seq(Tokens), s # <<>>, NEW r, r = Tail(s)
    PROVE  /\ 1 \in DOMAIN s /\ Head(s) = s[1] /\ s[1] \in Tokens /\ Len(s) \in Nat /\ Len(s) >= 1
           /\ r \in Seq(Tokens) /\ Len(r) = Len(s) - 1
           /\ \A i \in DOMAIN r : i \in Nat /\ i >= 1 /\ i + 1 \in DOMAIN s /\ r[i] = s[i + 1]
           /\ \A i \in DOMAIN s : i \in Nat /\ (i > 1 => i - 1 \in DOMAIN r)
           /\ Len(s) = 1 => r = <<>>
  <1>1. /\ Len(s) \in Nat /\ Len(s) >= 1 /\ DOMAIN s = 1 .. Len(s)
        /\ Head(s) = s[1] /\ s[1] \in Tokens
    BY EmptySeq, LenProperties, HeadTailProperties
  <1>2. /\ r \in Seq(Tokens) /\ Len(r) = Len(s) - 1 /\ DOMAIN r = 1 .. Len(s) - 1
        /\ \A i \in 1 .. Len(s) - 1 : r[i] = s[i + 1]
    BY <1>1, HeadTailProperties, LenProperties
  <1>3. QED
    BY <1>1, <1>2, EmptySeq

LEMMA Appended ==
    ASSUME NEW s \in Seq(Tokens), NEW t \in Tokens, NEW r, r = Append(s, t)
    PROVE  /\ r \in Seq(Tokens) /\ Len(s) \in Nat /\ Len(r) = Len(s) + 1 /\ r # <<>>
           /\ \A i \in DOMAIN s : i \in 1 .. Len(s) /\ i \in DOMAIN r /\ r[i] = s[i]
           /\ \A i \in DOMAIN r : i \in DOMAIN s \/ i = Len(s) + 1
           /\ Len(s) + 1 \in DOMAIN r /\ r[Len(s) + 1] = t /\ Len(s) + 1 \notin DOMAIN s
  BY AppendProperties, LenProperties, EmptySeq

\* What parse() sees is the first.
LEMMA SeenIsFirst ==
    ASSUME TypeOK, NEW t \in Incoming
    PROVE  /\ toDevice \in Seq(Tokens) /\ toDevice # <<>> /\ 1 \in DOMAIN toDevice
           /\ t = toDevice[1] /\ t \in Tokens /\ Head(toDevice) = t
  <1>1. toDevice \in Seq(Tokens) /\ 1 \in DOMAIN toDevice /\ t = toDevice[1]
    BY DEF Incoming, TypeOK
  <1>2. toDevice # <<>>
    BY <1>1
  <1>3. QED
    BY <1>1, <1>2, Behind

--------------------------------------------------------------------------------

\* Tokens are read, or lost with their link.
Shorter ==
    /\ toDevice' \in {toDevice, <<>>} \/ (toDevice # <<>> /\ toDevice' = Tail(toDevice))
    /\ app' = app /\ appChallenge' = appChallenge
LEMMA QueueShorter ==
    ASSUME TypeOK, Queue, Shorter, InSession' => InSession
    PROVE  Queue' /\ (toDevice = <<>> => toDevice' = <<>>)
  <1>1. CASE toDevice' = toDevice
    BY <1>1 DEF Shorter, Queue, Kinds, AskIsLast, AnswerFits, AnsweredIsSilent, BodyHasHash
  <1>2. CASE toDevice' = <<>>
    <2>1. DOMAIN toDevice' = {}
      BY <1>2
    <2>2. QED
      BY <1>2, <2>1 DEF Shorter, Queue, Kinds, AskIsLast, AnswerFits, AnsweredIsSilent, BodyHasHash
  <1>3. CASE toDevice # <<>> /\ toDevice' = Tail(toDevice)
    <2>1. toDevice \in Seq(Tokens)
      BY DEF TypeOK
    <2>2. /\ Len(toDevice) \in Nat /\ Len(toDevice) >= 1 /\ Len(toDevice') = Len(toDevice) - 1
          /\ \A i \in DOMAIN toDevice' : /\ i \in Nat /\ i >= 1 /\ i + 1 \in DOMAIN toDevice
                                         /\ toDevice'[i] = toDevice[i + 1]
          /\ Len(toDevice) = 1 => toDevice' = <<>>
          /\ \A i \in DOMAIN toDevice : i \in Nat /\ (i > 1 => i - 1 \in DOMAIN toDevice')
      BY <1>3, <2>1, Behind
    <2>3. Kinds' /\ AskIsLast' /\ AnswerFits'
      BY <2>2 DEF Shorter, Queue, Kinds, AskIsLast, AnswerFits
    <2>4. AnsweredIsSilent'
      BY <1>3, <2>2 DEF Shorter, Queue, AnsweredIsSilent
    <2>5. BodyHasHash'
      <3> SUFFICES ASSUME NEW i \in DOMAIN toDevice', toDevice'[i].kind = "body"
                   PROVE  /\ i < Len(toDevice') /\ toDevice'[i + 1].kind = "digits"
                          /\ toDevice'[i + 1].hash.msg = toDevice'[i].hash.msg
        BY DEF BodyHasHash
      <3>1. i + 1 \in DOMAIN toDevice /\ toDevice'[i] = toDevice[i + 1] /\ i \in Nat
        BY <2>2
      <3>2. /\ i + 1 < Len(toDevice) /\ toDevice[i + 2].kind = "digits"
            /\ toDevice[i + 2].hash.msg = toDevice[i + 1].hash.msg
        <4>1. (i + 1) + 1 = i + 2
          BY <3>1
        <4>2. /\ i + 1 < Len(toDevice) /\ toDevice[(i + 1) + 1].kind = "digits"
              /\ toDevice[(i + 1) + 1].hash.msg = toDevice[i + 1].hash.msg
          BY <3>1 DEF Queue, BodyHasHash
        <4>3. QED
          BY <4>1, <4>2
      <3>3. i + 1 \in DOMAIN toDevice'
        <4>1. i + 2 \in DOMAIN toDevice
          BY <2>1, <2>2, <3>1, <3>2, LenProperties
        <4>2. i + 2 > 1 /\ (i + 2) - 1 = i + 1
          BY <3>1
        <4>3. QED
          BY <2>2, <4>1, <4>2
      <3>4. toDevice'[i + 1] = toDevice[i + 2]
        BY <2>2, <3>1, <3>3
      <3>5. QED
        BY <2>2, <3>1, <3>2, <3>4
    <2>6. QED
      BY <1>3, <2>3, <2>4, <2>5 DEF Queue
  <1>4. QED
    BY <1>1, <1>2, <1>3 DEF Shorter

\* Outside a session the counts do not matter.
LEMMA Outside ==
    ASSUME TypeOK, Agreed, Shorter, ~InSession', collecting' = "no",
           toApp' = toApp, ChallengeHashed'
    PROVE  Agreed'
  <1>1. Queue' /\ (toDevice = <<>> => toDevice' = <<>>)
    BY QueueShorter DEF Agreed
  <1>2. app' = app /\ appChallenge' = appChallenge
    BY DEF Shorter
  <1>3. ChallengeIsLast' /\ OkIsSingle'
    BY <1>1, <1>2 DEF Agreed, ChallengeIsLast, OkIsSingle
  <1>4. Numbered' /\ HashHeld'
    BY DEF Numbered, HashHeld
  <1>5. QED
    BY <1>1, <1>3, <1>4 DEF Agreed

\* With nothing on its way, and an app that has not begun, nothing has to agree.
LEMMA NothingOnItsWay ==
    ASSUME toDevice' = <<>>, toApp' = <<>>, app' = "off", ~InSession', collecting' = "no",
           ChallengeHashed'
    PROVE  Agreed'
  <1>1. DOMAIN toDevice' = {} /\ DOMAIN toApp' = {}
    OBVIOUS
  <1>2. QED
    BY <1>1 DEF Agreed, Queue, Kinds, AskIsLast, AnswerFits, AnsweredIsSilent, BodyHasHash,
                ChallengeIsLast, OkIsSingle, Numbered, HashHeld

--------------------------------------------------------------------------------

LEMMA StayAgreed ==
    ASSUME Agreed,
           UNCHANGED <<authorizing, powerCycles, hash, challenge, inMsgCount, collecting, msg,
                       toDevice, toApp, app, appChallenge, appOut>>
    PROVE  Agreed'
  BY DEF Agreed, Queue, Kinds, AskIsLast, AnswerFits, AnsweredIsSilent, BodyHasHash,
         ChallengeIsLast, OkIsSingle, Numbered, HashHeld, ChallengeHashed, InSession, Holding

\* What is on its way to an app that neither asks nor has answered.
LEMMA AppIsQuiet ==
    ASSUME Agreed, app \notin {"asked", "answered"}
    PROVE  /\ \A i \in DOMAIN toDevice : toDevice[i].kind \in {"close", "body", "digits"}
           /\ \A i \in DOMAIN toApp : toApp[i].kind \notin {"challenge", "ok"}
  BY DEF Agreed, Queue, Kinds, AskIsLast, AnswerFits, ChallengeIsLast, OkIsSingle

\* What is on its way to the app while something is on its way to a device.
LEMMA DeviceIsQuiet ==
    ASSUME Agreed, toDevice # <<>>
    PROVE  \A i \in DOMAIN toApp : toApp[i].kind \notin {"challenge", "ok"}
  BY DEF Agreed, ChallengeIsLast, OkIsSingle

\* Nothing of the handshake is on its way to the app.
LEMMA NoHandshake ==
    ASSUME \A i \in DOMAIN toApp' : toApp'[i].kind \notin {"challenge", "ok"}
    PROVE  ChallengeIsLast' /\ OkIsSingle'
  BY DEF ChallengeIsLast, OkIsSingle

\* An empty queue.
LEMMA QueueEmpty == ASSUME toDevice' = <<>> PROVE Queue'
  <1>1. DOMAIN toDevice' = {}
    OBVIOUS
  <1>2. QED
    BY <1>1 DEF Queue, Kinds, AskIsLast, AnswerFits, AnsweredIsSilent, BodyHasHash

LEMMA AskAgreed ==
    ASSUME TypeOK, TypeOK', Agreed, ParseAsk
    PROVE  Agreed'
  <1>1. /\ Ask \in Incoming /\ toDevice' = Tail(toDevice)
        /\ toApp' = Append(toApp, Say(challenge')) /\ UNCHANGED appVars
        /\ authorizing' = AUTHORIZING_SENT_CHALLENGE /\ collecting' = "no"
    BY DEF ParseAsk, Reads, Sees, NewSession
  <1>2. toDevice \in Seq(Tokens) /\ toDevice # <<>> /\ 1 \in DOMAIN toDevice /\ toDevice[1].kind = "ask"
    BY <1>1, SeenIsFirst, TokenFields
  <1>3. Len(toDevice) = 1 /\ app = "asked"
    BY <1>2 DEF Agreed, Queue, AskIsLast
  <1>4. toDevice' = <<>>
    BY <1>1, <1>2, <1>3, Behind
  <1>5. \A i \in DOMAIN toApp : toApp[i].kind \notin {"challenge", "ok"}
    BY <1>2, DeviceIsQuiet
  <1>6. ~InSession' /\ app' = "asked"
    BY <1>1, <1>3 DEF InSession, AUTHORIZING_SENT_CHALLENGE, AUTHORIZING_SUCCESS, appVars
  <1>7. toApp \in Seq(Tokens) /\ challenge' \in Challenges
    BY DEF TypeOK
  <1>8. Say(challenge') \in Tokens /\ Say(challenge').kind = "challenge"
        /\ Say(challenge').hash = ChallengeHash(challenge') /\ ChallengeHash(challenge').of = challenge'
    BY <1>7, TokenTypes, TokenFields
  <1>9. /\ Len(toApp') = Len(toApp) + 1
        /\ \A i \in DOMAIN toApp : i \in DOMAIN toApp' /\ toApp'[i] = toApp[i]
        /\ \A i \in DOMAIN toApp' : i \in DOMAIN toApp \/ i = Len(toApp) + 1
        /\ toApp'[Len(toApp) + 1] = Say(challenge')
    BY <1>1, <1>7, <1>8, Appended
  <1>10. ChallengeIsLast'
    <2> SUFFICES ASSUME NEW i \in DOMAIN toApp', toApp'[i].kind = "challenge"
                 PROVE  /\ i = Len(toApp') /\ app' = "asked" /\ toDevice' = <<>> /\ ~InSession'
                        /\ toApp'[i].hash = ChallengeHash(toApp'[i].hash.of)
      BY DEF ChallengeIsLast
    <2>1. i = Len(toApp) + 1
      BY <1>5, <1>9
    <2>2. toApp'[i] = Say(challenge')
      BY <1>9, <2>1
    <2>3. QED
      BY <1>4, <1>6, <1>8, <1>9, <2>1, <2>2
  <1>11. OkIsSingle'
    <2>1. \A i \in DOMAIN toApp' : toApp'[i].kind # "ok"
      BY <1>5, <1>8, <1>9
    <2>2. QED
      BY <2>1 DEF OkIsSingle
  <1>12. ChallengeHashed'
    <2>1. PICK pc, ee, failed : BuildChallenge(pc, ee, failed)
      BY DEF ParseAsk
    <2>2. powerCycles' # 0 => hash' = ChallengeHash(challenge')
      BY <2>1 DEF BuildChallenge
    <2>3. powerCycles' > 0 => powerCycles' # 0
      OBVIOUS
    <2>4. QED
      BY <2>2, <2>3 DEF ChallengeHashed
  <1>13. QED
    BY <1>1, <1>4, <1>6, <1>10, <1>11, <1>12, QueueEmpty DEF Agreed, Numbered, HashHeld

LEMMA AnswerAgreed ==
    ASSUME TypeOK, Session, Agreed, ParseAnswer
    PROVE  Agreed'
  <1>1. PICK t \in Incoming : /\ t.kind = "answer" /\ t.hash = hash /\ powerCycles > 0
                              /\ toDevice' = Tail(toDevice)
    BY DEF ParseAnswer, Reads, Sees
  <1>2. /\ authorizing = AUTHORIZING_SENT_CHALLENGE /\ collecting = "no"
        /\ authorizing' = AUTHORIZING_SUCCESS /\ toApp' = Append(toApp, Ok)
        /\ UNCHANGED <<collecting, inMsgCount, challenge, app, appChallenge>>
    BY DEF ParseAnswer, appVars
  <1>3. toDevice \in Seq(Tokens) /\ toDevice # <<>> /\ 1 \in DOMAIN toDevice /\ toDevice[1] = t
    BY SeenIsFirst
  <1>4. app = "answered" /\ hash = ChallengeHash(appChallenge)
    BY <1>1, <1>3 DEF Agreed, Queue, AnswerFits
  <1>5. Len(toDevice) = 1
    BY <1>3, <1>4 DEF Agreed, Queue, AnsweredIsSilent
  <1>6. toDevice' = <<>>
    BY <1>1, <1>3, <1>5, Behind
  <1>7. appChallenge = challenge
    <2>1. hash = ChallengeHash(challenge)
      BY <1>1, <1>2 DEF Agreed, ChallengeHashed
    <2>2. QED
      BY <1>4, <2>1 DEF ChallengeHash, MsgHash
  <1>8. inMsgCount = 0
    BY <1>2 DEF Session, NothingCarriedOver, AUTHORIZING_SENT_CHALLENGE, AUTHORIZING_SUCCESS
  <1>9. \A i \in DOMAIN toApp : toApp[i].kind \notin {"challenge", "ok"}
    BY <1>3, DeviceIsQuiet
  <1>10. /\ \A i \in DOMAIN toApp : i \in DOMAIN toApp' /\ toApp'[i] = toApp[i]
         /\ \A i \in DOMAIN toApp' : i \in DOMAIN toApp \/ i = Len(toApp) + 1
         /\ toApp'[Len(toApp) + 1] = Ok
    <2>1. toApp \in Seq(Tokens) /\ Ok \in Tokens
      BY TokenTypes DEF TypeOK
    <2>2. QED
      BY <1>2, <2>1, Appended
  <1>11. ChallengeIsLast'
    <2>1. \A i \in DOMAIN toApp' : toApp'[i].kind # "challenge"
      BY <1>9, <1>10, TokenFields
    <2>2. QED
      BY <2>1 DEF ChallengeIsLast
  <1>12. OkIsSingle'
    <2>1. \A i \in DOMAIN toApp' : toApp'[i].kind = "ok" => i = Len(toApp) + 1
      BY <1>9, <1>10
    <2>2. app' = "answered" /\ toDevice' = <<>> /\ appChallenge' = challenge' /\ inMsgCount' = 0
          /\ collecting' = "no"
      BY <1>2, <1>4, <1>6, <1>7, <1>8
    <2>3. QED
      BY <2>1, <2>2 DEF OkIsSingle
  <1>13. Numbered'
    <2>1. DOMAIN toDevice' = {}
      BY <1>6
    <2>2. app' # "ready"
      BY <1>2, <1>4
    <2>3. QED
      BY <2>1, <2>2 DEF Numbered
  <1>14. QED
    BY <1>2, <1>6, <1>11, <1>12, <1>13, QueueEmpty
    DEF Agreed, HashHeld, ChallengeHashed, AUTHORIZING_SENT_CHALLENGE, AUTHORIZING_SUCCESS

\* A stray digit would be one whose count is half a message off.
LEMMA StrayAgreed ==
    ASSUME TypeOK, Session, Agreed, ParseStray
    PROVE  Agreed'
  <1>1. PICK t \in Incoming : ~IsMessage(t) /\ toDevice' = Tail(toDevice)
    BY DEF ParseStray, Reads
  <1>2. toDevice \in Seq(Tokens) /\ toDevice # <<>> /\ 1 \in DOMAIN toDevice /\ toDevice[1] = t /\ t \in Tokens
    BY SeenIsFirst
  <1>3. /\ collecting = "no"
        /\ UNCHANGED <<hash, powerCycles, challenge, inMsgCount, collecting, msg, toApp, app,
                       appChallenge, appOut>>
    BY DEF ParseStray, appVars, macVars
  <1>4. ~InSession
    <2> SUFFICES ASSUME InSession PROVE FALSE
      OBVIOUS
    <2>1. t.kind = "digits"
      BY <1>1, <1>2 DEF Agreed, Queue, Kinds, IsMessage
    <2>2. 2 * (t.hash.count - inMsgCount) = 1 + Holding - 2
      BY <1>2, <2>1 DEF Agreed, Numbered
    <2>3. Holding = 0
      BY <1>3 DEF Holding
    <2>4. t.hash.count \in Nat /\ inMsgCount \in Nat
      BY <1>2, <2>1, DigitsOf DEF TypeOK
    <2>5. QED
      BY <2>2, <2>3, <2>4
  <1>5. /\ ~InSession'
        /\ authorizing' = AUTHORIZING_SENT_CHALLENGE => authorizing = AUTHORIZING_SENT_CHALLENGE
    BY <1>4 DEF ParseStray, InSession, AUTHORIZING_SENT_CHALLENGE, AUTHORIZING_SUCCESS,
       AUTHORIZING_START, NOT_AUTHORIZING
  <1>6. ChallengeHashed'
    BY <1>3, <1>5 DEF Agreed, ChallengeHashed
  <1>7. QED
    BY <1>1, <1>2, <1>3, <1>5, <1>6, Outside DEF Shorter

\* The first of the queue is read in a session, which collects one hash after the other.
LEMMA MessageAgreed ==
    ASSUME TypeOK, Session, Agreed, ParseBody
    PROVE  Agreed'
  <1>1. PICK t \in Incoming : /\ t.kind \in {"body", "answer"} /\ toDevice' = Tail(toDevice)
                              /\ msg' = (IF t.kind = "body" THEN t.hash.msg ELSE AuthorizingCmd)
                              /\ hash' = MsgHash(msg', inMsgCount, challenge)
                              /\ collecting' = "clean"
    BY DEF ParseBody, Reads
  <1>2. /\ InSession /\ InSession' /\ Holding = 0 /\ Holding' = 1
        /\ UNCHANGED <<authorizing, challenge, inMsgCount, toApp, app, appChallenge, appOut>>
    BY DEF ParseBody, appVars, InSession, Holding
  <1>3. /\ toDevice \in Seq(Tokens) /\ toDevice # <<>> /\ 1 \in DOMAIN toDevice
        /\ toDevice[1] = t /\ t \in Tokens
    BY SeenIsFirst
  <1>4. /\ Len(toDevice) \in Nat /\ Len(toDevice') = Len(toDevice) - 1 /\ toDevice' \in Seq(Tokens)
        /\ \A i \in DOMAIN toDevice' : i \in Nat /\ i + 1 \in DOMAIN toDevice /\ toDevice'[i] = toDevice[i + 1]
        /\ \A i \in DOMAIN toDevice : i > 1 => i - 1 \in DOMAIN toDevice'
    BY <1>1, <1>3, Behind
  <1>5. t.kind = "body"
    BY <1>1, <1>2, <1>3 DEF Agreed, Queue, AnswerFits
  <1>6. 1 < Len(toDevice) /\ toDevice[2].kind = "digits" /\ toDevice[2].hash.msg = t.hash.msg
    <2>1. 1 + 1 = 2
      OBVIOUS
    <2>2. QED
      BY <1>3, <1>5, <2>1 DEF Agreed, Queue, BodyHasHash
  <1>7. 2 \in DOMAIN toDevice /\ toDevice[2] \in Tokens
    BY <1>3, <1>6, LenProperties
  <1>8. toDevice[2] = Digits(hash')
    <2>1. toDevice[2].hash.of = challenge
      BY <1>2, <1>6, <1>7 DEF Agreed, Numbered
    <2>2. toDevice[2].hash.count = inMsgCount
      <3>1. 2 * (toDevice[2].hash.count - inMsgCount) = 2 + Holding - 2
        BY <1>2, <1>6, <1>7 DEF Agreed, Numbered
      <3>2. toDevice[2].hash.count \in Nat /\ inMsgCount \in Nat
        BY <1>6, <1>7, DigitsOf DEF TypeOK
      <3>3. QED
        BY <1>2, <3>1, <3>2
    <2>3. msg' = t.hash.msg
      BY <1>1, <1>5
    <2>4. toDevice[2].hash = MsgHash(toDevice[2].hash.msg, toDevice[2].hash.count, toDevice[2].hash.of)
          /\ toDevice[2] = Digits(toDevice[2].hash)
      BY <1>6, <1>7, DigitsOf
    <2>5. QED
      BY <1>1, <1>6, <2>1, <2>2, <2>3, <2>4
  <1>9. toDevice' # <<>> /\ Head(toDevice') = Digits(hash')
    <2>1. 2 - 1 = 1 /\ 1 + 1 = 2
      OBVIOUS
    <2>2. 1 \in DOMAIN toDevice' /\ toDevice'[1] = toDevice[2]
      BY <1>4, <1>7, <2>1
    <2>3. toDevice' # <<>>
      BY <2>2
    <2>4. QED
      BY <1>4, <1>8, <2>2, <2>3, Behind
  <1>10. msg' \in Commands
    BY <1>1, <1>3, <1>5, BodyOf
  <1>11. Queue'
    BY <1>1, <1>2, <1>3, QueueShorter DEF Agreed, Shorter
  <1>12. ChallengeIsLast' /\ OkIsSingle'
    BY <1>2, <1>3, DeviceIsQuiet, NoHandshake
  <1>13. Numbered'
    <2>1. ASSUME NEW i \in DOMAIN toDevice', toDevice'[i].kind = "digits"
          PROVE  /\ toDevice'[i].hash.of = challenge'
                 /\ 2 * (toDevice'[i].hash.count - inMsgCount') = i + Holding' - 2
      <3>1. i + 1 \in DOMAIN toDevice /\ toDevice'[i] = toDevice[i + 1] /\ i \in Nat
        BY <1>4
      <3>2. /\ toDevice[i + 1].hash.of = challenge
            /\ 2 * (toDevice[i + 1].hash.count - inMsgCount) = (i + 1) + Holding - 2
        BY <1>2, <2>1, <3>1 DEF Agreed, Numbered
      <3>3. (i + 1) + 0 - 2 = i + 1 - 2
        BY <3>1
      <3>4. QED
        BY <1>2, <3>1, <3>2, <3>3
    <2>2. app = "ready" => appChallenge = challenge /\ 2 * (appOut - inMsgCount) = Len(toDevice) + 0
      BY <1>2 DEF Agreed, Numbered
    <2>3. Len(toDevice) + 0 = Len(toDevice') + 1
      BY <1>4
    <2>4. QED
      BY <1>2, <2>1, <2>2, <2>3 DEF Numbered
  <1>14. HashHeld'
    BY <1>1, <1>2, <1>9, <1>10 DEF HashHeld
  <1>15. ChallengeHashed'
    BY <1>2 DEF InSession, ChallengeHashed, AUTHORIZING_SENT_CHALLENGE, AUTHORIZING_SUCCESS
  <1>16. QED
    BY <1>11, <1>12, <1>13, <1>14, <1>15 DEF Agreed

LEMMA HashAgreed ==
    ASSUME TypeOK, Session, Agreed, ParseHash
    PROVE  Agreed'
  <1>1. /\ toDevice \in Seq(Tokens) /\ toDevice # <<>> /\ toDevice' = Tail(toDevice)
        /\ collecting = "clean" /\ collecting' = "no" /\ inMsgCount' = inMsgCount + 1
        /\ UNCHANGED <<authorizing, challenge, toApp, app, appChallenge, appOut>>
    BY SeenIsFirst DEF ParseHash, Reads, Sees, CountsMessage, appVars
  <1>2. InSession /\ InSession' /\ Holding = 1 /\ Holding' = 0
    BY <1>1 DEF Session, NothingCarriedOver, InSession, Holding
  <1>3. /\ Len(toDevice) \in Nat /\ Len(toDevice') = Len(toDevice) - 1
        /\ \A i \in DOMAIN toDevice' : /\ i \in Nat /\ i + 1 \in DOMAIN toDevice
                                       /\ toDevice'[i] = toDevice[i + 1] /\ toDevice'[i] \in Tokens
    BY <1>1, Behind, LenProperties
  <1>4. Queue'
    BY <1>1, <1>2, QueueShorter DEF Agreed, Shorter
  <1>5. ChallengeIsLast' /\ OkIsSingle'
    BY <1>1, DeviceIsQuiet, NoHandshake
  <1>6. inMsgCount \in Nat /\ appOut \in Nat
    BY DEF TypeOK
  <1>7. Numbered'
    <2>1. ASSUME NEW i \in DOMAIN toDevice', toDevice'[i].kind = "digits"
          PROVE  /\ toDevice'[i].hash.of = challenge'
                 /\ 2 * (toDevice'[i].hash.count - inMsgCount') = i + Holding' - 2
      <3>1. i + 1 \in DOMAIN toDevice /\ toDevice'[i] = toDevice[i + 1] /\ i \in Nat
        BY <1>3
      <3>2. /\ toDevice[i + 1].hash.of = challenge
            /\ 2 * (toDevice[i + 1].hash.count - inMsgCount) = (i + 1) + Holding - 2
        BY <1>2, <2>1, <3>1 DEF Agreed, Numbered
      <3>3. toDevice'[i].hash.count \in Nat
        BY <1>3, <2>1, DigitsOf
      <3>4. \A n \in Nat : 2 * (n - inMsgCount) = (i + 1) + 1 - 2 => 2 * (n - (inMsgCount + 1)) = i + 0 - 2
        BY <1>6, <3>1
      <3>5. QED
        BY <1>1, <1>2, <3>1, <3>2, <3>3, <3>4
    <2>2. app = "ready" => appChallenge = challenge /\ 2 * (appOut - inMsgCount) = Len(toDevice) + 1
      BY <1>2 DEF Agreed, Numbered
    <2>3. 2 * (appOut - inMsgCount) = Len(toDevice) + 1
             => 2 * (appOut - (inMsgCount + 1)) = Len(toDevice') + 0
      BY <1>3, <1>6
    <2>4. QED
      BY <1>1, <1>2, <2>1, <2>2, <2>3 DEF Numbered
  <1>8. QED
    BY <1>1, <1>2, <1>4, <1>5, <1>7
    DEF Agreed, HashHeld, ChallengeHashed, InSession, AUTHORIZING_SENT_CHALLENGE, AUTHORIZING_SUCCESS

\* The hash that comes is refused when the program has written since: the session ends.
LEMMA WrongHashAgreed == ASSUME TypeOK, Agreed, ParseWrongHash PROVE Agreed'
  <1>1. /\ collecting = "clean" /\ toDevice # <<>> /\ Head(toDevice).kind = "digits"
    BY TokenFields DEF ParseWrongHash, Agreed, HashHeld
  <1>2. Disconnect(TRUE) /\ toDevice' = Tail(toDevice) /\ UNCHANGED <<macVars, toApp>>
    BY <1>1, SeenIsFirst DEF ParseWrongHash, Sees, IsMessage
  <1>3. QED
    BY <1>1, <1>2, Outside DEF Disconnect, CloseSession, NewSession, Shorter, appVars, InSession,
       ChallengeHashed, NOT_AUTHORIZING, AUTHORIZING_SENT_CHALLENGE, AUTHORIZING_SUCCESS

\* The device sends a message, in the middle of one that comes in if it likes.
LEMMA WriteAgreed ==
    ASSUME TypeOK, TypeOK', Agreed, Respond \/ Write
    PROVE  Agreed'
  <1>1. /\ InSession /\ toApp' = Append(toApp, Digits(hash')) /\ hash' \in Hashes
        /\ UNCHANGED <<authorizing, powerCycles, challenge, inMsgCount, collecting, msg, toDevice,
                       app, appChallenge, appOut>>
    BY DEF Respond, Write, writeToPfodApp, macVars, appVars, InSession, TypeOK
  <1>2. /\ \A i \in DOMAIN toApp : i \in DOMAIN toApp' /\ toApp'[i] = toApp[i]
        /\ \A i \in DOMAIN toApp' : i \in DOMAIN toApp \/ i = Len(toApp) + 1
        /\ toApp'[Len(toApp) + 1] = Digits(hash')
    <2>1. toApp \in Seq(Tokens) /\ Digits(hash') \in Tokens
      BY <1>1, TokenTypes DEF TypeOK
    <2>2. QED
      BY <1>1, <2>1, Appended
  <1>3. \A i \in DOMAIN toApp' :
           toApp'[i].kind # "digits" => i \in DOMAIN toApp /\ toApp'[i] = toApp[i]
    BY <1>2, TokenFields
  <1>4. ChallengeIsLast'
    <2>1. \A i \in DOMAIN toApp' : toApp'[i].kind # "challenge"
      BY <1>1, <1>3 DEF Agreed, ChallengeIsLast
    <2>2. QED
      BY <2>1 DEF ChallengeIsLast
  <1>5. OkIsSingle'
    <2>1. \A i \in DOMAIN toApp' : toApp'[i].kind = "ok" => i \in DOMAIN toApp /\ toApp[i].kind = "ok"
      BY <1>3
    <2>2. QED
      BY <1>1, <2>1 DEF Agreed, OkIsSingle, InSession
  <1>6. Queue' /\ Numbered'
    BY <1>1 DEF Agreed, Queue, Kinds, AskIsLast, AnswerFits, AnsweredIsSilent, BodyHasHash,
       Numbered, InSession, Holding
  <1>7. QED
    BY <1>1, <1>4, <1>5, <1>6
    DEF Agreed, HashHeld, ChallengeHashed, InSession, AUTHORIZING_SENT_CHALLENGE, AUTHORIZING_SUCCESS

\* The app sends t, which is not a part of the handshake that the device answers.
LEMMA SendAgreed ==
    ASSUME TypeOK, Session, Agreed, app \notin {"asked", "answered"},
           NEW t \in Tokens, toDevice' = Append(toDevice, t),
           \/ t.kind = "ask" /\ app' = "asked"
           \/ t.kind = "close" /\ app' = "off",
           UNCHANGED <<authorizing, powerCycles, hash, challenge, inMsgCount, collecting, msg,
                       toApp>>
    PROVE  Agreed'
  <1>1. toDevice \in Seq(Tokens)
    BY DEF TypeOK
  <1>2. /\ toDevice' \in Seq(Tokens) /\ toDevice' # <<>>
        /\ Len(toDevice) \in Nat /\ Len(toDevice') = Len(toDevice) + 1
        /\ \A i \in DOMAIN toDevice : i \in 1 .. Len(toDevice) /\ i \in DOMAIN toDevice' /\ toDevice'[i] = toDevice[i]
        /\ \A i \in DOMAIN toDevice' : i \in DOMAIN toDevice \/ i = Len(toDevice) + 1
        /\ toDevice'[Len(toDevice) + 1] = t
    BY <1>1, Appended
  <1>3. /\ \A i \in DOMAIN toDevice : toDevice[i].kind \in {"close", "body", "digits"}
        /\ \A i \in DOMAIN toApp : toApp[i].kind \notin {"challenge", "ok"}
    BY AppIsQuiet
  <1>4. \A i \in DOMAIN toDevice' :
           \/ i \in DOMAIN toDevice /\ toDevice'[i] = toDevice[i] /\ toDevice'[i].kind \in {"close", "body", "digits"}
           \/ i = Len(toDevice') /\ toDevice'[i] = t
    BY <1>2, <1>3
  <1>5. Kinds' /\ AskIsLast' /\ AnswerFits' /\ AnsweredIsSilent'
    BY <1>4 DEF Kinds, AskIsLast, AnswerFits, AnsweredIsSilent
  <1>6. BodyHasHash'
    <2> SUFFICES ASSUME NEW i \in DOMAIN toDevice', toDevice'[i].kind = "body"
                 PROVE  /\ i < Len(toDevice') /\ toDevice'[i + 1].kind = "digits"
                        /\ toDevice'[i + 1].hash.msg = toDevice'[i].hash.msg
      BY DEF BodyHasHash
    <2>1. i \in DOMAIN toDevice /\ toDevice'[i] = toDevice[i]
      BY <1>4
    <2>2. /\ i < Len(toDevice) /\ toDevice[i + 1].kind = "digits"
          /\ toDevice[i + 1].hash.msg = toDevice[i].hash.msg
      BY <2>1 DEF Agreed, Queue, BodyHasHash
    <2>3. i \in Nat /\ i >= 1 /\ i + 1 \in DOMAIN toDevice
      BY <1>1, <1>2, <2>1, <2>2, LenProperties
    <2>4. QED
      BY <1>2, <2>1, <2>2, <2>3
  <1>7. ChallengeIsLast' /\ OkIsSingle'
    BY <1>3, NoHandshake
  <1>8. Numbered'
    <2>1. \A i \in DOMAIN toDevice' : toDevice'[i].kind = "digits" => i \in DOMAIN toDevice /\ toDevice'[i] = toDevice[i]
      BY <1>4
    <2>2. app' # "ready"
      OBVIOUS
    <2>3. InSession' = InSession /\ Holding' = Holding
      BY DEF InSession, Holding
    <2>4. QED
      BY <2>1, <2>2, <2>3 DEF Agreed, Numbered
  <1>9. HashHeld'
    <2>1. toDevice # <<>> => Head(toDevice') = Head(toDevice)
      <3> SUFFICES ASSUME toDevice # <<>> PROVE Head(toDevice') = Head(toDevice)
        OBVIOUS
      <3>1. 1 \in DOMAIN toDevice /\ Head(toDevice) = toDevice[1]
        BY <1>1, Behind
      <3>2. Head(toDevice') = toDevice'[1]
        BY <1>2, Behind
      <3>3. QED
        BY <1>2, <3>1, <3>2
    <2>2. QED
      BY <1>2, <2>1 DEF Agreed, HashHeld
  <1>10. ChallengeHashed'
    BY DEF Agreed, ChallengeHashed
  <1>11. QED
    BY <1>5, <1>6, <1>7, <1>8, <1>9, <1>10 DEF Agreed, Queue

LEMMA AppCommandAgreed ==
    ASSUME TypeOK, Session, Agreed, NEW c \in Commands, AppCommand(c)
    PROVE  Agreed'
  <1> DEFINE h == MsgHash(c, appOut, appChallenge)
             n == Len(toDevice)
  <1>1. /\ app = "ready" /\ app' = "ready" /\ appOut' = appOut + 1
        /\ toDevice' = toDevice \o <<Body(c), Digits(h)>>
        /\ UNCHANGED <<authorizing, powerCycles, hash, challenge, inMsgCount, collecting, msg,
                       toApp, appChallenge>>
    BY DEF AppCommand, deviceVars
  <1>2. toDevice \in Seq(Tokens) /\ appOut \in Nat /\ appChallenge \in Challenges /\ inMsgCount \in Nat
    BY DEF TypeOK
  <1>3. /\ Body(c) \in Tokens /\ Body(c).kind = "body" /\ Body(c).hash.msg = c
        /\ Digits(h) \in Tokens /\ Digits(h).kind = "digits"
        /\ Digits(h).hash.msg = c /\ Digits(h).hash.count = appOut /\ Digits(h).hash.of = appChallenge
    <2>1. h \in Hashes
      BY <1>2, HashTypes
    <2>2. h.msg = c /\ h.count = appOut /\ h.of = appChallenge
      BY DEF MsgHash
    <2>3. QED
      BY <2>1, <2>2, TokenTypes, TokenFields
  <1> HIDE DEF h
  <1>4. /\ n \in Nat /\ toDevice' \in Seq(Tokens) /\ Len(toDevice') = n + 2
        /\ \A i \in DOMAIN toDevice : i \in 1 .. n
        /\ \A i \in 1 .. n : i \in DOMAIN toDevice /\ i \in DOMAIN toDevice' /\ toDevice'[i] = toDevice[i]
        /\ \A i \in DOMAIN toDevice' : i \in 1 .. n \/ i = n + 1 \/ i = n + 2
        /\ toDevice'[n + 1] = Body(c) /\ toDevice'[n + 2] = Digits(h)
    BY <1>1, <1>2, <1>3, LenProperties
  <1> HIDE DEF n
  <1>5. /\ \A i \in DOMAIN toDevice : toDevice[i].kind \in {"close", "body", "digits"}
        /\ \A i \in DOMAIN toApp : toApp[i].kind \notin {"challenge", "ok"}
    BY <1>1, AppIsQuiet
  <1>6. \A i \in DOMAIN toDevice' : toDevice'[i].kind \in {"close", "body", "digits"}
    <2> TAKE i \in DOMAIN toDevice'
    <2>1. CASE i \in 1 .. n
      BY <1>4, <1>5, <2>1
    <2>2. CASE i = n + 1 \/ i = n + 2
      BY <1>3, <1>4, <2>2
    <2>3. QED
      BY <1>4, <2>1, <2>2
  <1>7. Kinds' /\ AskIsLast' /\ AnswerFits' /\ AnsweredIsSilent'
    BY <1>1, <1>6 DEF Kinds, AskIsLast, AnswerFits, AnsweredIsSilent
  <1>8. BodyHasHash'
    <2> SUFFICES ASSUME NEW i \in DOMAIN toDevice', toDevice'[i].kind = "body"
                 PROVE  /\ i < Len(toDevice') /\ toDevice'[i + 1].kind = "digits"
                        /\ toDevice'[i + 1].hash.msg = toDevice'[i].hash.msg
      BY DEF BodyHasHash
    <2>1. CASE i \in 1 .. n
      <3>1. i \in DOMAIN toDevice /\ toDevice'[i] = toDevice[i]
        BY <1>4, <2>1
      <3>2. /\ i < Len(toDevice) /\ toDevice[i + 1].kind = "digits"
            /\ toDevice[i + 1].hash.msg = toDevice[i].hash.msg
        BY <3>1 DEF Agreed, Queue, BodyHasHash
      <3>3. i + 1 \in 1 .. n /\ i < n
        BY <1>4, <2>1, <3>2 DEF n
      <3>4. toDevice'[i + 1] = toDevice[i + 1]
        BY <1>4, <3>3
      <3>5. QED
        BY <1>4, <3>1, <3>2, <3>3, <3>4
    <2>2. CASE i = n + 1
      <3>1. i + 1 = n + 2 /\ i < n + 2
        BY <1>4, <2>2
      <3>2. QED
        BY <1>3, <1>4, <2>2, <3>1
    <2>3. CASE i = n + 2
      BY <1>3, <1>4, <2>3
    <2>4. QED
      BY <1>4, <2>1, <2>2, <2>3
  <1>9. ChallengeIsLast' /\ OkIsSingle'
    BY <1>1, <1>5, NoHandshake
  <1>10. InSession' = InSession /\ Holding' = Holding /\ Holding \in {0, 1}
    BY <1>1 DEF InSession, Holding
  <1>11. Numbered'
    <2> SUFFICES ASSUME InSession
                 PROVE  /\ \A i \in DOMAIN toDevice' : toDevice'[i].kind = "digits" =>
                              /\ toDevice'[i].hash.of = challenge
                              /\ 2 * (toDevice'[i].hash.count - inMsgCount) = i + Holding - 2
                        /\ appChallenge = challenge
                        /\ 2 * ((appOut + 1) - inMsgCount) = (n + 2) + Holding
      BY <1>1, <1>4, <1>10 DEF Numbered
    <2>1. appChallenge = challenge /\ 2 * (appOut - inMsgCount) = n + Holding
      BY <1>1 DEF Agreed, Numbered, n
    <2>2. 2 * (appOut - inMsgCount) = (n + 2) + Holding - 2
          /\ 2 * ((appOut + 1) - inMsgCount) = (n + 2) + Holding
      BY <1>2, <1>4, <1>10, <2>1
    <2>3. ASSUME NEW i \in DOMAIN toDevice', toDevice'[i].kind = "digits"
          PROVE  /\ toDevice'[i].hash.of = challenge
                 /\ 2 * (toDevice'[i].hash.count - inMsgCount) = i + Holding - 2
      <3>1. CASE i \in 1 .. n
        BY <1>4, <2>3, <3>1 DEF Agreed, Numbered
      <3>2. CASE i = n + 1
        BY <1>3, <1>4, <2>3, <3>2
      <3>3. CASE i = n + 2
        BY <1>3, <1>4, <2>1, <2>2, <3>3
      <3>4. QED
        BY <1>4, <3>1, <3>2, <3>3
    <2>4. QED
      BY <2>1, <2>2, <2>3
  <1>12. HashHeld'
    <2> SUFFICES ASSUME collecting # "no" PROVE HashHeld'
      BY <1>1 DEF HashHeld
    <2>1. /\ toDevice # <<>> /\ collecting = "clean" /\ msg \in Commands
          /\ Head(toDevice) = Digits(MsgHash(msg, inMsgCount, challenge))
      BY DEF Agreed, HashHeld
    <2>2. 1 \in DOMAIN toDevice /\ Head(toDevice) = toDevice[1]
      BY <1>2, <2>1, Behind
    <2>3. 1 \in DOMAIN toDevice' /\ toDevice'[1] = toDevice[1]
      BY <1>4, <2>2
    <2>4. toDevice' # <<>>
      BY <2>3
    <2>5. Head(toDevice') = toDevice'[1]
      BY <1>4, <2>4, Behind
    <2>6. QED
      BY <1>1, <2>1, <2>2, <2>3, <2>4, <2>5 DEF HashHeld
  <1>13. ChallengeHashed'
    BY <1>1 DEF Agreed, ChallengeHashed
  <1>14. QED
    BY <1>7, <1>8, <1>9, <1>11, <1>12, <1>13 DEF Agreed, Queue

\* The app has read a token, which changes nothing for the device.
LEMMA ReadAgreed ==
    ASSUME TypeOK, Agreed, toApp # <<>>, toApp' = Tail(toApp),
           \/ app' = app /\ UNCHANGED <<appChallenge, appOut>>
           \/ app = "ready" /\ app' = "off",
           UNCHANGED <<authorizing, powerCycles, hash, challenge, inMsgCount, collecting, msg,
                       toDevice>>
    PROVE  Agreed'
  <1>1. /\ Len(toApp) \in Nat /\ Len(toApp') = Len(toApp) - 1
        /\ \A i \in DOMAIN toApp' : i \in Nat /\ i + 1 \in DOMAIN toApp /\ toApp'[i] = toApp[i + 1]
    BY Behind DEF TypeOK
  <1>2. CASE app' = app /\ UNCHANGED <<appChallenge, appOut>>
    <2>1. Queue' /\ Numbered' /\ HashHeld' /\ ChallengeHashed'
      BY <1>2 DEF Agreed, Queue, Kinds, AskIsLast, AnswerFits, AnsweredIsSilent, BodyHasHash,
         Numbered, HashHeld, ChallengeHashed, InSession, Holding
    <2>2. ChallengeIsLast'
      <3> SUFFICES ASSUME NEW i \in DOMAIN toApp', toApp'[i].kind = "challenge"
                   PROVE  /\ i = Len(toApp') /\ app' = "asked" /\ toDevice' = <<>> /\ ~InSession'
                          /\ toApp'[i].hash = ChallengeHash(toApp'[i].hash.of)
        BY DEF ChallengeIsLast
      <3>1. i + 1 \in DOMAIN toApp /\ toApp'[i] = toApp[i + 1] /\ i \in Nat
        BY <1>1
      <3>2. /\ i + 1 = Len(toApp) /\ app = "asked" /\ toDevice = <<>> /\ ~InSession
            /\ toApp[i + 1].hash = ChallengeHash(toApp[i + 1].hash.of)
        BY <3>1 DEF Agreed, ChallengeIsLast
      <3>3. i = Len(toApp')
        BY <1>1, <3>1, <3>2
      <3>4. QED
        BY <1>2, <3>1, <3>2, <3>3 DEF InSession
    <2>3. OkIsSingle'
      <3>1. ASSUME NEW i \in DOMAIN toApp', toApp'[i].kind = "ok"
            PROVE  /\ app = "answered" /\ toDevice = <<>>
                   /\ InSession => appChallenge = challenge /\ inMsgCount = 0 /\ collecting = "no"
        BY <1>1, <3>1 DEF Agreed, OkIsSingle
      <3>2. ASSUME NEW i \in DOMAIN toApp', NEW j \in DOMAIN toApp',
                   toApp'[i].kind = "ok", toApp'[j].kind = "ok"
            PROVE  i = j
        <4>1. i + 1 = j + 1
          BY <1>1, <3>2 DEF Agreed, OkIsSingle
        <4>2. QED
          BY <1>1, <4>1
      <3>3. QED
        BY <1>2, <3>1, <3>2 DEF OkIsSingle, InSession
    <2>4. QED
      BY <2>1, <2>2, <2>3 DEF Agreed
  <1>3. CASE app = "ready" /\ app' = "off"
    <2>1. /\ \A i \in DOMAIN toDevice : toDevice[i].kind \in {"close", "body", "digits"}
          /\ \A i \in DOMAIN toApp : toApp[i].kind \notin {"challenge", "ok"}
      BY <1>3, AppIsQuiet
    <2>2. Queue'
      BY <1>3, <2>1 DEF Agreed, Queue, Kinds, AskIsLast, AnswerFits, AnsweredIsSilent, BodyHasHash
    <2>3. ChallengeIsLast' /\ OkIsSingle'
      BY <1>1, <2>1, NoHandshake
    <2>4. Numbered' /\ HashHeld' /\ ChallengeHashed'
      BY <1>3 DEF Agreed, Numbered, HashHeld, ChallengeHashed, InSession, Holding
    <2>5. QED
      BY <2>2, <2>3, <2>4 DEF Agreed
  <1>4. QED
    BY <1>2, <1>3

\* The app reads the challenge, and answers: nothing else is on its way.
LEMMA GetsChallenge ==
    ASSUME TypeOK, Session, Agreed, toApp # <<>>, toApp' = Tail(toApp), NEW t, t = Head(toApp),
           app = "asked", t.kind = "challenge", app' = "answered", appChallenge' = t.hash.of,
           toDevice' = Append(toDevice, Answer(t.hash)),
           UNCHANGED <<authorizing, powerCycles, hash, challenge, inMsgCount, collecting>>
    PROVE  Agreed'
  <1>1. toApp[1] = t /\ t \in Tokens /\ 1 \in DOMAIN toApp /\ (Len(toApp) = 1 => toApp' = <<>>)
    BY Behind DEF TypeOK
  <1>2. /\ Len(toApp) = 1 /\ toDevice = <<>> /\ ~InSession /\ t.hash = ChallengeHash(t.hash.of)
    BY <1>1 DEF Agreed, ChallengeIsLast
  <1>3. toApp' = <<>>
    BY <1>1, <1>2
  <1>4. toDevice' = <<Answer(t.hash)>>
    BY <1>2
  <1>5. Len(toDevice') = 1 /\ DOMAIN toDevice' = {1} /\ toDevice'[1] = Answer(t.hash)
    <2>1. \A a : Len(<<a>>) = 1 /\ DOMAIN <<a>> = {1} /\ <<a>>[1] = a
      OBVIOUS
    <2>2. QED
      BY <1>4, <2>1, Zenon
  <1>6. ~InSession' /\ collecting' = "no"
    BY <1>2 DEF InSession, Session, NothingCarriedOver
  <1>7. toDevice'[1].kind = "answer" /\ toDevice'[1].hash = ChallengeHash(appChallenge')
    BY <1>2, <1>5 DEF Answer
  <1>8. Queue'
    BY <1>5, <1>6, <1>7 DEF Queue, Kinds, AskIsLast, AnswerFits, AnsweredIsSilent, BodyHasHash
  <1>9. ChallengeIsLast' /\ OkIsSingle'
    <2>1. DOMAIN toApp' = {}
      BY <1>3
    <2>2. QED
      BY <2>1, NoHandshake
  <1>10. Numbered' /\ HashHeld'
    BY <1>6 DEF Numbered, HashHeld
  <1>11. ChallengeHashed'
    BY DEF Agreed, ChallengeHashed
  <1>12. QED
    BY <1>8, <1>9, <1>10, <1>11 DEF Agreed

\* The app reads that its answer is accepted: both count from zero.
LEMMA GetsOk ==
    ASSUME TypeOK, Session, Agreed, toApp # <<>>, toApp' = Tail(toApp), NEW t, t = Head(toApp),
           app = "answered", t.kind = "ok", app' = "ready", appOut' = 0,
           UNCHANGED <<authorizing, powerCycles, hash, challenge, inMsgCount, collecting, msg,
                       toDevice, appChallenge>>
    PROVE  Agreed'
  <1>1. /\ toApp[1] = t /\ 1 \in DOMAIN toApp
        /\ \A i \in DOMAIN toApp' : i \in Nat /\ i >= 1 /\ i + 1 \in DOMAIN toApp /\ toApp'[i] = toApp[i + 1]
    BY Behind DEF TypeOK
  <1>2. /\ toDevice = <<>>
        /\ InSession => appChallenge = challenge /\ inMsgCount = 0 /\ collecting = "no"
    BY <1>1 DEF Agreed, OkIsSingle
  <1>3. \A i \in DOMAIN toApp' : toApp'[i].kind \notin {"challenge", "ok"}
    <2> TAKE i \in DOMAIN toApp'
    <2>1. i + 1 \in DOMAIN toApp /\ toApp'[i] = toApp[i + 1] /\ i + 1 # 1
      BY <1>1
    <2>2. toApp[i + 1].kind # "challenge"
      BY <2>1 DEF Agreed, ChallengeIsLast
    <2>3. toApp[i + 1].kind # "ok"
      BY <1>1, <2>1 DEF Agreed, OkIsSingle
    <2>4. QED
      BY <2>1, <2>2, <2>3
  <1>4. ChallengeIsLast' /\ OkIsSingle'
    BY <1>3, NoHandshake
  <1>5. Numbered'
    <2>1. DOMAIN toDevice' = {} /\ Len(toDevice') = 0
      BY <1>2
    <2>2. InSession => Holding' = 0
      BY <1>2 DEF Holding
    <2>3. QED
      BY <1>2, <2>1, <2>2 DEF Numbered, InSession
  <1>6. collecting = "no"
    BY <1>2 DEF Agreed, HashHeld
  <1>7. QED
    BY <1>2, <1>4, <1>5, <1>6, QueueEmpty DEF Agreed, HashHeld, ChallengeHashed

LEMMA AppReadsAgreed ==
    ASSUME TypeOK, Session, Agreed, AppReads
    PROVE  Agreed'
  <1> DEFINE t == Head(toApp)
  <1>1. /\ toApp # <<>> /\ toApp' = Tail(toApp)
        /\ UNCHANGED <<authorizing, powerCycles, hash, challenge, inMsgCount, collecting, msg>>
    BY DEF AppReads, deviceVars
  <1>2. \/ /\ app = "asked" /\ t.kind = "challenge" /\ app' = "answered"
           /\ appChallenge' = t.hash.of /\ toDevice' = Append(toDevice, Answer(t.hash))
        \/ /\ app = "answered" /\ t.kind = "ok" /\ app' = "ready" /\ appOut' = 0
           /\ UNCHANGED <<appChallenge, toDevice>>
        \/ /\ \/ app' = app /\ UNCHANGED <<appChallenge, appOut>>
              \/ app = "ready" /\ app' = "off"
           /\ UNCHANGED toDevice
    BY DEF AppReads, AppForgets, appVars
  <1> HIDE DEF t
  <1>3. CASE app = "asked" /\ t.kind = "challenge" /\ app' = "answered"
             /\ appChallenge' = t.hash.of /\ toDevice' = Append(toDevice, Answer(t.hash))
    BY <1>1, <1>3, GetsChallenge DEF t
  <1>4. CASE app = "answered" /\ t.kind = "ok" /\ app' = "ready" /\ appOut' = 0
             /\ UNCHANGED <<appChallenge, toDevice>>
    BY <1>1, <1>4, GetsOk DEF t
  <1>5. CASE /\ \/ app' = app /\ UNCHANGED <<appChallenge, appOut>>
                \/ app = "ready" /\ app' = "off"
             /\ UNCHANGED toDevice
    BY <1>1, <1>5, ReadAgreed
  <1>6. QED
    BY <1>2, <1>3, <1>4, <1>5

\* parse() and the program end the session, or the link is gone.
LEMMA EndAgreed ==
    ASSUME TypeOK, Agreed,
           \/ ParseInvalid \/ ParseTimeOut \/ ParseClose \/ ParseUnexpected
           \/ Connect \/ LinkDown \/ PowerCycle
    PROVE  Agreed'
  <1> USE DEF CloseSession, NewSession, InSession, ChallengeHashed, NOT_AUTHORIZING,
          AUTHORIZING_START, AUTHORIZING_SENT_CHALLENGE, AUTHORIZING_SUCCESS
  <1>1. CASE ParseInvalid \/ ParseTimeOut \/ ParseClose \/ ParseUnexpected
    <2>1. CASE ParseInvalid \/ ParseTimeOut
      BY <2>1, Outside DEF ParseInvalid, ParseTimeOut, Disconnect, appVars, Shorter
    <2>2. CASE ParseClose
      <3>1. toDevice # <<>>
        BY <2>2, SeenIsFirst DEF ParseClose, Reads, Sees
      <3>2. QED
        BY <2>2, <3>1, Outside DEF ParseClose, Reads, Disconnect, appVars, Shorter
    <2>3. CASE ParseUnexpected
      <3>1. toDevice # <<>>
        BY <2>3, SeenIsFirst DEF ParseUnexpected, Reads, Sees
      <3>2. QED
        BY <2>3, <3>1, Outside DEF ParseUnexpected, Reads, Disconnect, appVars, Shorter
    <2>4. QED
      BY <1>1, <2>1, <2>2, <2>3
  <1>2. CASE Connect
    BY <1>2, Outside DEF Connect, appVars, Shorter
  <1>3. CASE LinkDown \/ PowerCycle
    BY <1>3, NothingOnItsWay DEF LinkDown, PowerCycle, LosePower, AppForgets
  <1>4. QED
    BY <1>1, <1>2, <1>3

LEMMA HonestStep ==
    ASSUME TypeOK, TypeOK', Session, Honest, [Next]_vars
    PROVE  Honest'
  <1>1. SUFFICES ASSUME reliable, Agreed PROVE Agreed'
    BY DEF Honest, Next, vars
  <1>2. CASE ParseInvalid \/ ParseTimeOut \/ ParseClose \/ ParseUnexpected \/ Connect
             \/ LinkDown \/ PowerCycle
    BY <1>1, <1>2, EndAgreed
  <1>3. CASE ParseStray \/ ParseAsk \/ ParseAnswer \/ ParseBody \/ ParseHash \/ ParseWrongHash
    BY <1>1, <1>3, StrayAgreed, AskAgreed, AnswerAgreed, MessageAgreed, HashAgreed,
       WrongHashAgreed
  <1>4. CASE Respond \/ Write
    BY <1>1, <1>4, WriteAgreed
  <1>5. CASE Ignore \/ Tick \/ UNCHANGED vars
    BY <1>1, <1>5, StayAgreed DEF Ignore, Tick, vars, sessionVars, macVars, appVars
  <1>6. CASE AppAsk
    BY <1>1, <1>6, SendAgreed, TokenTypes, TokenFields DEF AppAsk, deviceVars
  <1>7. CASE AppClose
    BY <1>1, <1>7, SendAgreed, TokenTypes, TokenFields DEF AppClose, AppForgets, deviceVars
  <1>8. CASE AppReads \/ \E c \in Commands : AppCommand(c)
    BY <1>1, <1>8, AppReadsAgreed, AppCommandAgreed
  <1>9. CASE AppRestart \/ Lose
    BY <1>1, <1>9 DEF AppRestart, Lose
  <1>10. QED
    BY <1>2, <1>3, <1>4, <1>5, <1>6, <1>7, <1>8, <1>9 DEF Next, Program, Parse, App

LEMMA HonestHolds == Spec => []Honest
  <1>1. Init => Honest
    <2> SUFFICES ASSUME Init PROVE Agreed
      BY DEF Honest
    <2>1. DOMAIN toDevice = {} /\ DOMAIN toApp = {} /\ toDevice = <<>>
      BY DEF Init
    <2>2. QED
      BY <2>1 DEF Init, Agreed, Queue, Kinds, AskIsLast, AnswerFits, AnsweredIsSilent,
         BodyHasHash, ChallengeIsLast, OkIsSingle, Numbered, HashHeld, ChallengeHashed, InSession,
         NOT_AUTHORIZING, AUTHORIZING_SENT_CHALLENGE, AUTHORIZING_SUCCESS
  <1>2. TypeOK /\ TypeOK' /\ Session /\ Honest /\ [Next]_vars => Honest'
    BY HonestStep
  <1>3. QED
    BY <1>1, <1>2, TypeCorrect, SessionHolds, PTL DEF Spec

\* On a link that loses nothing, with an app that is not restarted, what follows a message
\* in an authorized session is its hash, and parse() waits for it, unless the program has
\* written a message since: nothing else replaces the hash of the SipHash that they share.
THEOREM HonestHashesMatch == Spec => []HonestHashMatches
  <1>1. Honest /\ InOrder => HonestHashMatches
    BY DEF Honest, Agreed, HashHeld, InOrder, HashIsOfMessage, HonestHashMatches
  <1>2. QED
    BY <1>1, HonestHolds, InOrderHolds, PTL

--------------------------------------------------------------------------------
(* The text of a hash. *)

Conv == INSTANCE Conversions

\* Of two numbers in order, Min takes the first.
LEMMA Smaller == \A a, b \in Nat : a <= b => Conv!Min({a, b}) = a /\ Conv!Min({b, a}) = a
  <1> SUFFICES ASSUME NEW a \in Nat, NEW b \in Nat, a <= b PROVE Conv!Min({a, b}) = a
    OBVIOUS
  <1>1. \A x \in {a, b} : a <= x
    OBVIOUS
  <1>2. \A x \in {a, b} : (\A y \in {a, b} : x <= y) => x = a
    OBVIOUS
  <1>3. QED
    BY <1>1, <1>2 DEF Conv!Min

\* A hash that hexToAscii() writes into a message, in a buffer of two characters a byte
\* and the null, is the one that asciiToHex() reads from it: no byte is lost, cut off or
\* changed by the way there and back, however many there are.
THEOREM HashComesBack ==
    ASSUME NEW bytes \in Seq(0 .. 255)
    PROVE  Conv!asciiToHex(Conv!hexToAscii(bytes, 2 * Len(bytes) + 1), Len(bytes)) = bytes
  <1> DEFINE n == Len(bytes)
             str == Conv!hexToAscii(bytes, 2 * n + 1)
             Half(j) == IF j % 2 = 1 THEN bytes[(j + 1) \div 2] \div 16 ELSE bytes[(j + 1) \div 2] % 16
  <1>1. n \in Nat /\ DOMAIN bytes = 1 .. n /\ \A j \in 1 .. n : bytes[j] \in 0 .. 255
    BY LenProperties, ElementOfSeq
  <1>2. Conv!Min({2 * n, 2 * n + 1 - 1}) = 2 * n
    <2>1. 2 * n \in Nat /\ 2 * n + 1 - 1 = 2 * n
      BY <1>1
    <2> QED
      BY <2>1, Smaller
  <1>3. str = [j \in 1 .. 2 * n |-> IF Half(j) >= 10 THEN Half(j) + 55 ELSE Half(j) + 48]
    BY <1>2 DEF Conv!hexToAscii
  <1>4. Len(str) = 2 * n
    <2>1. \A j \in 1 .. 2 * n : TRUE
      OBVIOUS
    <2> QED
      BY <1>1, <1>3
  <1>5. \A j \in 1 .. 2 * n : Half(j) \in 0 .. 15
    <2> SUFFICES ASSUME NEW j \in 1 .. 2 * n PROVE Half(j) \in 0 .. 15
      OBVIOUS
    <2>1. (j + 1) \div 2 \in 1 .. n
      BY <1>1
    <2>2. bytes[(j + 1) \div 2] \in 0 .. 255
      BY <1>1, <2>1
    <2>3. \A b \in 0 .. 255 : b \div 16 \in 0 .. 15 /\ b % 16 \in 0 .. 15
      OBVIOUS
    <2> QED
      BY <2>2, <2>3
  <1> DEFINE value(i) == IF i > Len(str) THEN 0
                         ELSE str[i] - (IF str[i] >= 97 THEN 87 ELSE IF str[i] >= 65 THEN 55 ELSE 48)
  <1>6. \A j \in 1 .. 2 * n : value(j) = Half(j)
    <2> SUFFICES ASSUME NEW j \in 1 .. 2 * n PROVE value(j) = Half(j)
      OBVIOUS
    <2>1. PICK b \in 0 .. 15 : b = Half(j)
      BY <1>5
    <2>2. str[j] = IF b >= 10 THEN b + 55 ELSE b + 48
      BY <1>3, <2>1
    <2>3. ~(j > Len(str))
      BY <1>1, <1>4
    <2> HIDE DEF str, Half
    <2>4. (IF b >= 10 THEN b + 55 ELSE b + 48) \in Nat
      OBVIOUS
    <2>5. \A c \in Nat : c = (IF b >= 10 THEN b + 55 ELSE b + 48)
              => c - (IF c >= 97 THEN 87 ELSE IF c >= 65 THEN 55 ELSE 48) = b
      OBVIOUS
    <2> QED
      BY <2>1, <2>2, <2>3, <2>4, <2>5
  <1>7. Conv!Min({(Len(str) + 1) \div 2, n}) = n
    <2>1. \A m \in Nat : (2 * m + 1) \div 2 = m
      OBVIOUS
    <2>2. (2 * n + 1) \div 2 = n
      BY <1>1, <2>1
    <2> QED
      BY <1>1, <1>4, <2>2, Smaller
  <1>8. Conv!asciiToHex(str, n) = [j \in 1 .. n |-> (16 * value(2 * j - 1) + value(2 * j)) % 256]
    BY <1>7 DEF Conv!asciiToHex
  <1>9. ASSUME NEW j \in 1 .. n PROVE (16 * value(2 * j - 1) + value(2 * j)) % 256 = bytes[j]
    <2>1. 2 * j - 1 \in 1 .. 2 * n /\ 2 * j \in 1 .. 2 * n
      BY <1>1
    <2>2. /\ (2 * j - 1) % 2 = 1 /\ (2 * j) % 2 # 1
          /\ ((2 * j - 1) + 1) \div 2 = j /\ (2 * j + 1) \div 2 = j
      BY <1>1
    <2>3. Half(2 * j - 1) = bytes[j] \div 16 /\ Half(2 * j) = bytes[j] % 16
      BY <2>2
    <2>4. bytes[j] \in 0 .. 255
      BY <1>1
    <2>5. \A b \in 0 .. 255 : (16 * (b \div 16) + (b % 16)) % 256 = b
      OBVIOUS
    <2> HIDE DEF value, Half
    <2>6. value(2 * j - 1) = bytes[j] \div 16 /\ value(2 * j) = bytes[j] % 16
      BY <1>6, <2>1, <2>3
    <2> QED
      BY <2>4, <2>5, <2>6
  <1>10. [j \in 1 .. n |-> (16 * value(2 * j - 1) + value(2 * j)) % 256] = bytes
    <2> HIDE DEF value
    <2>1. bytes = [j \in 1 .. n |-> bytes[j]]
      BY <1>1, LenProperties
    <2> QED
      BY <1>9, <2>1
  <1>11. QED
    BY <1>8, <1>10
================================================================================
