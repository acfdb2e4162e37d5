--------------------------- MODULE BlindsServerProofs ---------------------------
(***************************************************************************)
(* Theorems about BlindsServer, for any set of clients, any letters and    *)
(* any idle time-out longer than a motor run, and about PfodParser, which  *)
(* BlindsServer reads its messages with.                                   *)
(***************************************************************************)
EXTENDS BlindsServer, PfodParser, FiniteSetTheorems, SequenceTheorems, WellFoundedInduction, TLAPS

Token == Letters \cup {End}

\* The actions that run at a served client, and those that leave it alone.
LEMMA ServedClient ==
    ASSUME TypeOK, ServeClient
    PROVE  /\ client \in Clients
           /\ inbox[client] \in Seq(Token)
           /\ Half0 \in Letters \cup {None}
           /\ Timer0 \in Off .. IdleTimeOut
           /\ Raw0 \in BOOLEAN
  BY ServerAssumption
  DEF TypeOK, ServeClient, Connected, Half0, Timer0, Raw0, Token, Off

LEMMA EmptyInSeq == \A S : <<>> \in Seq(S)
  BY EmptySeq

LEMMA NoConnections ==
    /\ [c \in Clients |-> "none"] \in [Clients -> {"none", "open", "closed"}]
    /\ [c \in Clients |-> <<>>] \in [Clients -> Seq(Letters \cup {End})]
  <1>1. \A e : e \in Seq(Letters \cup {End})
                => [c \in Clients |-> e] \in [Clients -> Seq(Letters \cup {End})]
    OBVIOUS
  <1>2. QED
    BY <1>1, EmptyInSeq

LEMMA ConsumeType ==
    ASSUME TypeOK, client \in Clients, inbox[client] # <<>>, Consume
    PROVE  inbox' \in [Clients -> Seq(Token)]
  BY DEF TypeOK, Consume, Token

LEMMA TakeNextType ==
    ASSUME TypeOK, TakeNext
    PROVE  /\ client' \in Clients \cup {NoClient}
           /\ queue' \in Seq(Clients)
           /\ conn' \in [Clients -> {"none", "open", "closed"}]
           /\ inbox' \in [Clients -> Seq(Token)]
  BY DEF TypeOK, TakeNext, Token

LEMMA ParseReturnsType ==
    ASSUME TypeOK, NEW x \in Letters, ParseReturns(x)
    PROVE  /\ inbox' \in [Clients -> Seq(Token)]
           /\ half' \in Letters \cup {None}
           /\ rawOn' \in BOOLEAN
           /\ timer' \in Off .. IdleTimeOut
           /\ alreadyConnected' = TRUE /\ attached' = TRUE
           /\ cmd' = x
           /\ client \in Clients
  <1>1. ServeClient
    BY DEF ParseReturns
  <1>2. client \in Clients
    BY <1>1, ServedClient
  <1>3. inbox' \in [Clients -> Seq(Token)]
    <2>1. CASE UNCHANGED inbox
      BY <2>1 DEF TypeOK, Token
    <2>2. CASE Reads(End) /\ Consume
      BY <2>2, <1>2, ConsumeType DEF Reads
    <2>3. QED
      BY <2>1, <2>2 DEF ParseReturns
  <1>4. timer' \in Off .. IdleTimeOut
    <2>1. timer' = TimerAfter(x)
      BY DEF ParseReturns
    <2>2. Off \in Off .. IdleTimeOut /\ IdleTimeOut \in Off .. IdleTimeOut
      BY ServerAssumption DEF Off
    <2>3. QED
      BY <2>1, <2>2 DEF TimerAfter
  <1>5. QED
    BY <1>1, <1>2, <1>3, <1>4 DEF ParseReturns, ServeClient, Attach

LEMMA TimerTypes ==
    /\ Off \in Off .. IdleTimeOut /\ IdleTimeOut \in Off .. IdleTimeOut
    /\ 0 \in 0 .. RunTime
  BY ServerAssumption DEF Off

--------------------------------------------------------------------------------
\* The type invariant: every handler of loop(), every peer and the clock keep
\* the state of the sketch in its type.
THEOREM TypeCorrect == Spec => []TypeOK
  <1>1. Init => TypeOK
    <2> SUFFICES ASSUME Init PROVE TypeOK
      OBVIOUS
    <2>1. /\ conn \in [Clients -> {"none", "open", "closed"}]
          /\ inbox \in [Clients -> Seq(Letters \cup {End})]
      BY NoConnections DEF Init
    <2>2. queue \in Seq(Clients)
      BY EmptyInSeq DEF Init
    <2>3. QED
      BY <2>1, <2>2, TimerTypes DEF Init, TypeOK, Low
  <1>2. TypeOK /\ [Next]_vars => TypeOK'
    <2> SUFFICES ASSUME TypeOK, [Next]_vars
                 PROVE  TypeOK'
      OBVIOUS
    <2> USE DEF peerVars, parserVars, motorVars
    <2>1. CASE CheckConnected
      BY <2>1, TakeNextType DEF CheckConnected, TypeOK, Token
    <2>2. CASE AcceptClient
      BY <2>2, TakeNextType DEF AcceptClient, TypeOK, Token
    <2>3. CASE CloseConnection
      BY <2>3, TakeNextType, TimerTypes, EmptyInSeq
      DEF CloseConnection, Detach, ResetParser, TypeOK, Token
    <2>4. CASE ParseNothing
      BY <2>4, ServedClient DEF ParseNothing, ServeClient, Attach, TypeOK
    <2>5. CASE ParsePart
      <3>1. ServeClient /\ inbox[client] # <<>>
        BY <2>5 DEF ParsePart, Reads
      <3>2. inbox' \in [Clients -> Seq(Token)]
        BY <2>5, <3>1, ServedClient, ConsumeType DEF ParsePart
      <3>3. half' \in Letters \cup {None}
        BY <2>5, <3>1, ServedClient DEF ParsePart
      <3>4. QED
        BY <2>5, <3>1, <3>2, <3>3, ServedClient
        DEF ParsePart, ServeClient, Attach, TypeOK, Token
    <2>6. CASE ParsePing
      <3>1. ServeClient /\ inbox[client] # <<>>
        BY <2>6 DEF ParsePing, Reads
      <3>2. inbox' \in [Clients -> Seq(Token)]
        BY <2>6, <3>1, ServedClient, ConsumeType DEF ParsePing
      <3>3. QED
        BY <2>6, <3>1, <3>2, ServedClient
        DEF ParsePing, ServeClient, Attach, TypeOK, Token
    <2>7. CASE StoreCommand
      <3>1. PICK x \in Letters : /\ ParseReturns(x)
                                 /\ waitingForOK' = TRUE /\ stored' = x
                                 /\ UNCHANGED motorVars
        BY <2>7 DEF StoreCommand
      <3>2. QED
        BY <3>1, ParseReturnsType DEF ParseReturns, TypeOK, Token
    <2>8. CASE ConfirmCommand
      <3>1. "$" \in Letters
        BY ServerAssumption
      <3>2. ParseReturns("$")
        BY <2>8 DEF ConfirmCommand, Confirms
      <3>3. /\ motor' \in Motors \cup {None} /\ left' \in 0 .. RunTime
            /\ pins' \in {0, 1} \X {0, 1} \X {0, 1} /\ waitingForOK' \in BOOLEAN
        <4>1. RunTime \in 0 .. RunTime
          BY ServerAssumption
        <4>2. PinsFor(stored, "F") \in {0, 1} \X {0, 1} \X {0, 1}
          BY DEF PinsFor
        <4>3. QED
          BY <2>8, <4>1, <4>2 DEF ConfirmCommand, TypeOK
      <3>4. QED
        BY <2>8, <3>1, <3>2, <3>3, ParseReturnsType
        DEF ConfirmCommand, ParseReturns, TypeOK, Token
    <2>9. CASE RejectCommand
      <3>1. PICK x \in Letters : /\ ParseReturns(x)
                                 /\ waitingForOK' = FALSE
                                 /\ UNCHANGED <<stored, motorVars>>
        BY <2>9 DEF RejectCommand
      <3>2. QED
        BY <3>1, ParseReturnsType DEF ParseReturns, TypeOK, Token
    <2>10. CASE MotorDone
      BY <2>10 DEF MotorDone, StopMotor, TypeOK, Low
    <2>11. ASSUME NEW c \in Clients, PeerConnect(c)
           PROVE  TypeOK'
      BY <2>11 DEF PeerConnect, TypeOK
    <2>12. ASSUME NEW c \in Clients, NEW t \in Token, PeerSend(c, t)
           PROVE  TypeOK'
      BY <2>12 DEF PeerSend, TypeOK, Token
    <2>13. ASSUME NEW c \in Clients, PeerClose(c)
           PROVE  TypeOK'
      <3>1. PICK kept \in {inbox[c], <<>>} : inbox' = [inbox EXCEPT ![c] = kept]
        BY <2>13 DEF PeerClose
      <3>2. kept \in Seq(Letters \cup {End})
        BY <3>1, EmptyInSeq DEF TypeOK
      <3>3. inbox' \in [Clients -> Seq(Letters \cup {End})]
        BY <3>1, <3>2 DEF TypeOK
      <3>4. QED
        BY <2>13, <3>3 DEF PeerClose, TypeOK
    <2>14. CASE Tick
      BY <2>14, ServerAssumption DEF Tick, Elapse, TypeOK, Off
    <2>15. CASE PowerCycle
      <3>1. /\ conn' \in [Clients -> {"none", "open", "closed"}]
            /\ inbox' \in [Clients -> Seq(Letters \cup {End})]
        BY <2>15, NoConnections DEF PowerCycle
      <3>2. queue' \in Seq(Clients)
        BY <2>15, EmptyInSeq DEF PowerCycle
      <3>3. QED
        BY <2>15, <3>1, <3>2, TimerTypes DEF PowerCycle, Detach, TypeOK, Low
    <2>16. CASE UNCHANGED vars
      BY <2>16 DEF vars, TypeOK
    <2>17. QED
      BY <2>1, <2>2, <2>3, <2>4, <2>5, <2>6, <2>7, <2>8, <2>9, <2>10, <2>11,
         <2>12, <2>13, <2>14, <2>15, <2>16
      DEF Next, Loop, Peer, Token
  <1>3. QED
    BY <1>1, <1>2, PTL DEF Spec

--------------------------------------------------------------------------------
(* The safety properties are inductive together, given TypeOK, once the motor
   property says in full how motor, pins and the held command go together. *)

\* No motor and all pins low, or the held command's motor and its pins after
\* the confirmation.
MotorAndPins ==
    \/ motor = None /\ pins = Low
    \/ /\ motor \in Motors /\ pins = PinsFor(motor, "F")
       /\ waitingForOK /\ motor = stored /\ cmd = "$"

HeldIsCommand == waitingForOK => stored \in Letters

IInv ==
    /\ MotorAndPins
    /\ HeldIsCommand
    /\ ArmedIsTimed
    /\ RunKeepsClient
    /\ ParserForgets

LEMMA Constants ==
    /\ None \notin Letters /\ None \notin Motors
    /\ RunTime \in Nat \ {0} /\ IdleTimeOut \in Nat /\ RunTime < IdleTimeOut
    /\ IdleTimeOut # Off
  BY ServerAssumption DEF None, Motors, Off

\* What a command that parse() returned leaves behind.
LEMMA AfterCommand ==
    ASSUME TypeOK, NEW x \in Letters, ParseReturns(x)
    PROVE  /\ motor = None
           /\ alreadyConnected' = TRUE /\ attached' = TRUE
           /\ cmd' = x
           /\ x # "!" => timer' = IdleTimeOut
  BY DEF ParseReturns, ServeClient, Attach, InLoop, TimerAfter

\* One step keeps IInv.
LEMMA IInvStep ==
    ASSUME TypeOK, TypeOK', IInv, [Next]_vars
    PROVE  IInv'
  <1> USE DEF peerVars, parserVars, motorVars
  <1>1. CASE CheckConnected \/ AcceptClient
    BY <1>1 DEF CheckConnected, AcceptClient, IInv, MotorAndPins, HeldIsCommand,
       ArmedIsTimed, RunKeepsClient, ParserForgets
  <1>2. CASE CloseConnection
    BY <1>2 DEF CloseConnection, Detach, ResetParser, InLoop, IInv, MotorAndPins,
       HeldIsCommand, ArmedIsTimed, RunKeepsClient, ParserForgets
  <1>3. CASE ParseNothing \/ ParsePart \/ ParsePing
    <2>1. /\ alreadyConnected' = TRUE /\ attached' = TRUE /\ motor = None
          /\ timer' = Timer0
          /\ UNCHANGED <<cmd, waitingForOK, stored, motorVars>>
      BY <1>3 DEF ParseNothing, ParsePart, ParsePing, ServeClient, Attach, InLoop
    <2>2. ArmedIsTimed'
      BY <2>1, Constants DEF IInv, ArmedIsTimed, Timer0
    <2>3. QED
      BY <2>1, <2>2 DEF IInv, MotorAndPins, HeldIsCommand,
         RunKeepsClient, ParserForgets
  <1>4. CASE StoreCommand
    <2>1. PICK x \in Letters : /\ ParseReturns(x)
                               /\ waitingForOK' = TRUE /\ stored' = x
                               /\ UNCHANGED motorVars
      BY <1>4 DEF StoreCommand
    <2>2. /\ motor = None /\ alreadyConnected' = TRUE /\ attached' = TRUE
          /\ x # "!" => timer' = IdleTimeOut
      BY <2>1, AfterCommand
    <2>3. QED
      BY <2>1, <2>2, Constants DEF IInv, MotorAndPins, HeldIsCommand,
         ArmedIsTimed, RunKeepsClient, ParserForgets
  <1>5. CASE ConfirmCommand
    <2>1. /\ ParseReturns("$") /\ "$" \in Letters
          /\ waitingForOK /\ UNCHANGED stored
      BY <1>5, ServerAssumption DEF ConfirmCommand, Confirms
    <2>2. /\ motor = None /\ alreadyConnected' = TRUE /\ attached' = TRUE
          /\ cmd' = "$" /\ timer' = IdleTimeOut
      BY <2>1, AfterCommand
    <2>3. CASE /\ stored \in Motors
               /\ motor' = stored /\ left' = RunTime /\ pins' = PinsFor(stored, "F")
               /\ UNCHANGED waitingForOK
      <3>1. MotorAndPins'
        BY <2>1, <2>2, <2>3 DEF MotorAndPins
      <3>2. RunKeepsClient'
        BY <2>2, <2>3, Constants DEF RunKeepsClient
      <3>3. QED
        BY <2>1, <2>2, <2>3, <3>1, <3>2, Constants
        DEF IInv, HeldIsCommand, ArmedIsTimed, ParserForgets
    <2>4. CASE waitingForOK' = FALSE /\ UNCHANGED motorVars
      BY <2>1, <2>2, <2>4, Constants DEF IInv, MotorAndPins, HeldIsCommand,
         ArmedIsTimed, RunKeepsClient, ParserForgets
    <2>5. QED
      BY <1>5, <2>3, <2>4 DEF ConfirmCommand
  <1>6. CASE RejectCommand
    <2>1. PICK x \in Letters : /\ ParseReturns(x)
                               /\ waitingForOK' = FALSE
                               /\ UNCHANGED <<stored, motorVars>>
      BY <1>6 DEF RejectCommand
    <2>2. motor = None /\ alreadyConnected' = TRUE /\ attached' = TRUE
      BY <2>1, AfterCommand
    <2>3. QED
      BY <2>1, <2>2, Constants DEF IInv, MotorAndPins, HeldIsCommand,
         ArmedIsTimed, RunKeepsClient, ParserForgets
  <1>7. CASE MotorDone
    BY <1>7 DEF MotorDone, StopMotor, IInv, MotorAndPins, HeldIsCommand,
       ArmedIsTimed, RunKeepsClient, ParserForgets
  <1>8. CASE \E c \in Clients : \/ PeerConnect(c)
                                \/ \E t \in Letters \cup {End} : PeerSend(c, t)
                                \/ PeerClose(c)
    BY <1>8 DEF PeerConnect, PeerSend, PeerClose, IInv, MotorAndPins,
       HeldIsCommand, ArmedIsTimed, RunKeepsClient, ParserForgets
  <1>9. CASE Tick
    <2>1. /\ motor # None => left > 0
          /\ timer' = Elapse(timer) /\ left' = Elapse(left)
          /\ UNCHANGED <<alreadyConnected, half, rawOn, attached, cmd, waitingForOK,
                         stored, motor, pins>>
      BY <1>9 DEF Tick
    <2>2. timer \in Off .. IdleTimeOut /\ left \in 0 .. RunTime
      BY DEF TypeOK
    <2>3. timer' = Off <=> timer = Off
      BY <2>1, <2>2, Constants DEF Elapse, Off
    <2>4. RunKeepsClient'
      BY <2>1, <2>2, Constants DEF IInv, RunKeepsClient, Elapse, Off
    <2>5. QED
      BY <2>1, <2>3, <2>4 DEF IInv, MotorAndPins, HeldIsCommand,
         ArmedIsTimed, ParserForgets
  <1>10. CASE PowerCycle
    BY <1>10 DEF PowerCycle, Detach, IInv, MotorAndPins, HeldIsCommand,
       ArmedIsTimed, RunKeepsClient, ParserForgets
  <1>11. CASE UNCHANGED vars
    BY <1>11 DEF vars, IInv, MotorAndPins, HeldIsCommand,
       ArmedIsTimed, RunKeepsClient, ParserForgets
  <1>12. QED
    BY <1>1, <1>2, <1>3, <1>4, <1>5, <1>6, <1>7, <1>8, <1>9, <1>10, <1>11
    DEF Next, Loop, Peer

LEMMA IInvHolds == Spec => []IInv
  <1>1. Init => IInv
    BY DEF Init, IInv, MotorAndPins, HeldIsCommand, ArmedIsTimed,
       RunKeepsClient, ParserForgets
  <1>2. TypeOK /\ TypeOK' /\ IInv /\ [Next]_vars => IInv'
    BY IInvStep
  <1>3. QED
    BY <1>1, <1>2, TypeCorrect, PTL DEF Spec

\* The pins drive a motor only for the command that is on hold, when the last
\* thing that a client said was its confirmation.
THEOREM MotorRunsHeldCommand == Spec => []EnergisedByHeldCommand
  <1>1. IInv => EnergisedByHeldCommand
    BY DEF IInv, MotorAndPins, EnergisedByHeldCommand, Energised
  <1>2. QED
    BY <1>1, IInvHolds, PTL

\* An armed command on a served connection has the idle timer against it.
THEOREM ArmedCommandIsTimed == Spec => []ArmedIsTimed
  <1>1. IInv => ArmedIsTimed
    BY DEF IInv
  <1>2. QED
    BY <1>1, IInvHolds, PTL

\* A motor run leaves idle time over for the client that asked for it.
THEOREM RunLeavesIdleTime == Spec => []RunKeepsClient
  <1>1. IInv => RunKeepsClient
    BY DEF IInv
  <1>2. QED
    BY <1>1, IInvHolds, PTL

\* Parser, buffered client and sketch forget a connection together: no write
\* loop of the parser is entered on a detached buffered client.
THEOREM ClosedParserIsClean == Spec => []ParserForgets
  <1>1. IInv => ParserForgets
    BY DEF IInv
  <1>2. QED
    BY <1>1, IInvHolds, PTL

--------------------------------------------------------------------------------
(* The refinement: every step of the sketch is a step of the two-phase command
   or leaves the held command and the motor alone. *)

LEMMA AbstractStep ==
    ASSUME TypeOK, IInv, [Next]_vars
    PROVE  [Abstract!Next]_<<IF waitingForOK THEN stored ELSE None, motor, cmd>>
  <1> DEFINE held == IF waitingForOK THEN stored ELSE None
  <1> USE DEF peerVars, parserVars, motorVars
  <1>1. CASE UNCHANGED <<waitingForOK, stored, motor, cmd>>
    BY <1>1
  <1>2. CASE StoreCommand
    <2>1. PICK x \in Letters : /\ ParseReturns(x) /\ ~waitingForOK
                               /\ waitingForOK' = TRUE /\ stored' = x
                               /\ UNCHANGED motorVars
      BY <1>2 DEF StoreCommand
    <2>2. motor = None /\ cmd' = x
      BY <2>1, AfterCommand
    <2>3. Abstract!Hold(x)
      BY <2>1, <2>2 DEF Abstract!Hold
    <2>4. QED
      BY <2>3 DEF Abstract!Next
  <1>3. CASE ConfirmCommand
    <2>1. /\ ParseReturns("$") /\ "$" \in Letters
          /\ waitingForOK /\ UNCHANGED stored
      BY <1>3, ServerAssumption DEF ConfirmCommand, Confirms
    <2>2. motor = None /\ cmd' = "$"
      BY <2>1, AfterCommand
    <2>3. stored \in Letters /\ stored # None
      BY <2>1, Constants DEF IInv, HeldIsCommand
    <2>4. CASE stored \in Motors /\ motor' = stored /\ UNCHANGED waitingForOK
      <3>1. Abstract!Run
        BY <2>1, <2>2, <2>3, <2>4 DEF Abstract!Run
      <3>2. QED
        BY <3>1 DEF Abstract!Next
    <2>5. CASE stored \notin Motors /\ waitingForOK' = FALSE /\ UNCHANGED motorVars
      <3>1. Abstract!GiveUp("$")
        BY <2>1, <2>2, <2>3, <2>5 DEF Abstract!GiveUp
      <3>2. QED
        BY <2>1, <3>1 DEF Abstract!Next
    <2>6. QED
      BY <1>3, <2>4, <2>5 DEF ConfirmCommand
  <1>4. CASE RejectCommand
    <2>1. PICK x \in Letters : /\ x # "$" /\ ParseReturns(x)
                               /\ waitingForOK /\ waitingForOK' = FALSE
                               /\ UNCHANGED <<stored, motorVars>>
      BY <1>4 DEF RejectCommand, Confirms
    <2>2. motor = None /\ cmd' = x
      BY <2>1, AfterCommand
    <2>3. stored # None
      BY <2>1, Constants DEF IInv, HeldIsCommand
    <2>4. Abstract!GiveUp(x)
      BY <2>1, <2>2, <2>3 DEF Abstract!GiveUp
    <2>5. QED
      BY <2>4 DEF Abstract!Next
  <1>5. CASE MotorDone
    <2>1. Abstract!Finish
      BY <1>5 DEF MotorDone, StopMotor, Abstract!Finish
    <2>2. QED
      BY <2>1 DEF Abstract!Next
  <1>6. CASE PowerCycle
    <2>1. Abstract!PowerCut
      BY <1>6 DEF PowerCycle, Abstract!PowerCut
    <2>2. QED
      BY <2>1 DEF Abstract!Next
  <1>7. QED
    BY <1>1, <1>2, <1>3, <1>4, <1>5, <1>6
    DEF Next, Loop, Peer, CheckConnected, AcceptClient, CloseConnection,
        ParseNothing, ParsePart, ParsePing, PeerConnect, PeerSend, PeerClose,
        Tick, vars

\* The sketch implements the two-phase command: a motor turns only for a held
\* and confirmed command, each held command is settled once, and none is
\* replaced while it is held, whatever the clients, the network and the power do.
THEOREM SketchImplementsTwoPhaseCommand == Spec => ImplementsTwoPhaseCommand
  <1>1. Init => Abstract!Init
    BY DEF Init, Abstract!Init
  <1>2. TypeOK /\ IInv /\ [Next]_vars => [Abstract!Next]_Abstract!avars
    BY AbstractStep DEF Abstract!avars
  <1>3. QED
    BY <1>1, <1>2, TypeCorrect, IInvHolds, PTL
    DEF Spec, ImplementsTwoPhaseCommand, Abstract!Spec

--------------------------------------------------------------------------------
(* The parser that the sketch reads with: nothing is ever stored beyond the *)
(* buffer, the indices point into it, and a closing brace always closes the *)
(* message, for every alphabet, version and length of the buffer.           *)

Content == Bytes \cup {Nul}

\* Why the buffer is long enough: while a message is open, the two nulls that
\* end it still fit behind what is stored.
RoomForEnd == InMessage => argsIdx <= pfodMaxMsgLen - 2

ParserInv == ParserTypeOK /\ RoomForEnd

--------------------------------------------------------------------------------
\* Storing one element leaves what was stored in its place.
LEMMA StoreOne ==
    ASSUME NEW S, NEW s \in Seq(S), NEW e \in S
    PROVE  /\ Append(s, e) \in Seq(S)
           /\ Len(Append(s, e)) = Len(s) + 1
  BY AppendProperties

\* The end mark is two nulls behind what was stored.
LEMMA StoreEnd ==
    ASSUME NEW s \in Seq(Content)
    PROVE  /\ s \o EndMark \in Seq(Content)
           /\ Len(s \o EndMark) = Len(s) + 2
           /\ \A i \in 1 .. Len(s) + 2 : (s \o EndMark)[i] \in Content
  <1>1. EndMark \in Seq(Content) /\ Len(EndMark) = 2
    BY DEF EndMark, Content
  <1>2. s \o EndMark \in Seq(Content) /\ Len(s \o EndMark) = Len(s) + 2
    <2>1. s \o EndMark \in Seq(Content) BY <1>1, ConcatProperties
    <2>2. Len(s \o EndMark) = Len(s) + Len(EndMark) BY <1>1, ConcatProperties
    <2> QED BY <1>1, <2>1, <2>2
  <1>3. \A i \in 1 .. Len(s \o EndMark) : (s \o EndMark)[i] \in Content
    BY <1>2, ElementOfSeq
  <1> QED BY <1>2, <1>3

\* The cleared parser is well-typed.
LEMMA ClearedFits ==
    ASSUME Cleared, parserState' \in {"waiting", "started"},
           returned' \in Content, raw' \in Seq(Bytes)
    PROVE  ParserInv'
  <1>1. args' \in Seq(Content) /\ Len(args') = 0
    BY EmptySeq DEF Cleared
  <1>2. /\ argsCount' = 0 /\ cmdStart' = 1
        /\ versioned' = FALSE /\ refresh' = FALSE
    BY DEF Cleared
  <1>3. /\ argsCount' \in 0 .. argsIdx' /\ cmdStart' \in 1 .. argsIdx' + 1
        /\ argsIdx' <= pfodMaxMsgLen - 2 /\ argsIdx' <= pfodMaxMsgLen
    BY <1>1, <1>2, ParserAssumption DEF argsIdx
  <1>4. versioned' \in BOOLEAN /\ refresh' \in BOOLEAN
    BY <1>2
  <1> QED
    BY <1>1, <1>3, <1>4
       DEF ParserInv, ParserTypeOK, RoomForEnd, argsIdx, Content

\* A step outside a message keeps the invariant.
LEMMA Outside ==
    ASSUME ParserInv, NEW in \in Bytes, ParseOutside(in)
    PROVE  ParserInv'
  <1>1. CASE in = pfodMsgStarted
    <2>1. <<>> \in Seq(Bytes) BY EmptySeq
    <2> QED BY <1>1, <2>1, ClearedFits DEF ParseOutside, Content
  <1>2. CASE in # pfodMsgStarted
    BY <1>2 DEF ParseOutside, ParserInv, ParserTypeOK, RoomForEnd, InMessage, argsIdx
  <1> QED BY <1>1, <1>2

\* What a byte that is taken leaves as it was: its room and its history.
LEMMA TakesFits ==
    ASSUME ParserInv, NEW in \in Bytes, Takes(in)
    PROVE  /\ raw' \in Seq(Bytes)
           /\ argsIdx \in Nat /\ argsIdx <= pfodMaxMsgLen - 2
           /\ in # pfodMsgEnd => argsIdx < pfodMaxMsgLen - 2
           /\ Now \in {"inMsg", "argStarted"}
  <1>1. raw' \in Seq(Bytes)
    BY StoreOne DEF Takes, ParserInv, ParserTypeOK
  <1>2. argsIdx \in Nat
    BY LenProperties DEF ParserInv, ParserTypeOK, argsIdx
  <1> QED
    BY <1>1, <1>2, ParserAssumption
       DEF Takes, ParserInv, RoomForEnd, TooLong, InMessage, Now

\* The bytes of a message are stored within the buffer.
LEMMA StoreFits ==
    ASSUME ParserInv, NEW in \in Bytes, Takes(in),
           ParseRefresh(in) \/ ParseVersion(in) \/ ParseBar(in) \/ ParseByte(in)
    PROVE  ParserInv'
  <1> USE ParserAssumption
  <1> DEFINE n == argsIdx
  <1>1. /\ raw' \in Seq(Bytes) /\ n \in Nat /\ n <= pfodMaxMsgLen - 2
        /\ in # pfodMsgEnd => n < pfodMaxMsgLen - 2
        /\ Now \in {"inMsg", "argStarted"}
    BY TakesFits
  <1>2. \A e \in Content : /\ Append(args, e) \in Seq(Content)
                           /\ Len(Append(args, e)) = n + 1
    BY StoreOne DEF ParserInv, ParserTypeOK, Content, argsIdx
  <1>3. Nul \in Content /\ in \in Content
    BY DEF Content
  <1>4. /\ argsCount \in 0 .. n /\ cmdStart \in 1 .. n + 1
        /\ versioned \in BOOLEAN /\ refresh \in BOOLEAN
        /\ parserState \in {"waiting", "started", "inMsg", "argStarted", "end"}
        /\ args \in Seq(Content)
    BY DEF ParserInv, ParserTypeOK, argsIdx, Content
  <1>5. in # pfodMsgEnd => n + 1 <= pfodMaxMsgLen - 2
    BY <1>1
  <1>6. CASE ParseRefresh(in)
    BY <1>1, <1>4, <1>6
       DEF ParseRefresh, ParserInv, ParserTypeOK, RoomForEnd, InMessage, argsIdx, Content
  <1>7. CASE ParseVersion(in)
    <2>1. in # pfodMsgEnd BY <1>7 DEF ParseVersion, pfodRefresh, pfodMsgEnd
    <2>2. args' \in Seq(Content) /\ Len(args') = n + 1
      BY <1>2, <1>3, <1>7 DEF ParseVersion
    <2>3. refresh' \in BOOLEAN /\ versioned' \in BOOLEAN
      BY <1>7 DEF ParseVersion
    <2>4. cmdStart' \in 1 .. n + 2 /\ argsCount' \in 0 .. n + 1
      BY <1>1, <1>4, <1>7 DEF ParseVersion
    <2>5. parserState' = parserState /\ returned' = Nul
      BY <1>7 DEF ParseVersion
    <2> QED
      BY <1>1, <1>4, <1>5, <2>1, <2>2, <2>3, <2>4, <2>5
         DEF ParserInv, ParserTypeOK, RoomForEnd, argsIdx, Content
  <1>8. CASE ParseBar(in)
    <2>1. in # pfodMsgEnd BY <1>8 DEF ParseBar, pfodBar, pfodMsgEnd
    <2>2. args' \in Seq(Content) /\ Len(args') = n + 1
      BY <1>2, <1>3, <1>8 DEF ParseBar
    <2>3. argsCount' \in 0 .. n + 1
      BY <1>1, <1>4, <1>8 DEF ParseBar, CountsArgs
    <2>4. /\ UNCHANGED <<cmdStart, versioned, refresh>>
          /\ parserState' = "argStarted" /\ returned' = Nul
      BY <1>8 DEF ParseBar
    <2> QED
      BY <1>1, <1>4, <1>5, <2>1, <2>2, <2>3, <2>4
         DEF ParserInv, ParserTypeOK, RoomForEnd, argsIdx, Content
  <1>9. CASE ParseByte(in)
    <2>1. in # pfodMsgEnd
      BY <1>9 DEF ParseByte, pfodRefresh, pfodMsgStarted, pfodMsgEnd
    <2>2. args' \in Seq(Content) /\ Len(args') = n + 1
      BY <1>2, <1>3, <1>9 DEF ParseByte
    <2>3. /\ UNCHANGED <<argsCount, cmdStart, versioned, refresh>>
          /\ parserState' = Now /\ returned' = Nul
      BY <1>9 DEF ParseByte
    <2> QED
      BY <1>1, <1>4, <1>5, <2>1, <2>2, <2>3
         DEF ParserInv, ParserTypeOK, RoomForEnd, argsIdx, Content
  <1> QED BY <1>6, <1>7, <1>8, <1>9

\* The end of a message fills at most the room that was left for it.
LEMMA EndFits ==
    ASSUME ParserInv, NEW in \in Bytes, ParseEnd(in)
    PROVE  ParserInv'
  <1> USE ParserAssumption
  <1> DEFINE n == argsIdx
  <1>1. raw' \in Seq(Bytes) /\ n \in Nat /\ n <= pfodMaxMsgLen - 2
    BY TakesFits DEF ParseEnd
  <1>2. args' \in Seq(Content) /\ Len(args') = n + 2
        /\ \A i \in 1 .. n + 2 : args'[i] \in Content
    BY StoreEnd DEF ParseEnd, ParserInv, ParserTypeOK, Content, argsIdx
  <1>3. argsCount \in 0 .. n /\ cmdStart \in 1 .. n + 1
        /\ versioned \in BOOLEAN /\ refresh \in BOOLEAN
    BY DEF ParserInv, ParserTypeOK, argsIdx
  <1>4. argsCount' \in 0 .. n + 2
    BY <1>1, <1>3 DEF ParseEnd, CountsArgs
  <1>5. cmdStart \in 1 .. n + 2
    BY <1>1, <1>3
  <1>6. returned' \in Content
    BY <1>2, <1>5 DEF ParseEnd
  <1>7. UNCHANGED <<cmdStart, versioned, refresh>> /\ parserState' = "end"
    BY DEF ParseEnd, EndsMessage
  <1> QED
    BY <1>1, <1>2, <1>3, <1>4, <1>6, <1>7
       DEF ParserInv, ParserTypeOK, RoomForEnd, InMessage, argsIdx, Content

\* A command that the sketch sets itself fits.
LEMMA SetFits ==
    ASSUME NEW c \in Chars \cup {Nul}, SetCmd(c)
    PROVE  ParserInv'
  <1>1. c \in Content /\ Nul \in Content
    BY DEF Content, Bytes
  <1>2. args' \in Seq(Content) /\ Len(args') \in {0, 2}
    <2>1. CASE c = Nul BY <2>1, EmptySeq DEF SetCmd
    <2>2. CASE c # Nul BY <1>1, <2>2 DEF SetCmd
    <2> QED BY <2>1, <2>2
  <1>3. raw' \in Seq(Bytes) BY EmptySeq DEF SetCmd
  <1>4. /\ parserState' = "waiting" /\ returned' = Nul
        /\ argsCount' = 0 /\ cmdStart' = 1 /\ versioned' = FALSE /\ refresh' = FALSE
    BY DEF SetCmd
  <1>5. /\ argsCount' \in 0 .. argsIdx' /\ cmdStart' \in 1 .. argsIdx' + 1
        /\ argsIdx' <= pfodMaxMsgLen
    <2>1. argsIdx' \in {0, 2} BY <1>2 DEF argsIdx
    <2>2. argsIdx' \in Nat /\ argsIdx' <= 2 BY <2>1
    <2>3. pfodMaxMsgLen \in Nat /\ pfodMaxMsgLen > 3 BY ParserAssumption
    <2>4. ASSUME NEW n \in Nat, n <= 2, NEW M \in Nat, M > 3
          PROVE  0 \in 0 .. n /\ 1 \in 1 .. n + 1 /\ n <= M
      BY <2>4
    <2>5. argsCount' = 0 /\ cmdStart' = 1 BY DEF SetCmd
    <2> QED BY <2>2, <2>3, <2>4, <2>5
  <1>6. versioned' \in BOOLEAN /\ refresh' \in BOOLEAN /\ ~InMessage'
    BY <1>4 DEF InMessage
  <1>7. returned' \in Content /\ parserState' \in {"waiting", "started", "inMsg", "argStarted", "end"}
    BY <1>1, <1>4
  <1> QED
    BY <1>2, <1>3, <1>5, <1>6, <1>7
       DEF ParserInv, ParserTypeOK, RoomForEnd, InMessage, argsIdx, Content

--------------------------------------------------------------------------------
\* The invariant holds at first.
LEMMA InitFits == ParserInit => ParserInv
  <1> SUFFICES ASSUME ParserInit PROVE ParserInv
    OBVIOUS
  <1>1. args \in Seq(Content) /\ Len(args) = 0 /\ raw \in Seq(Bytes)
    BY EmptySeq DEF ParserInit
  <1>2. /\ parserState = "waiting" /\ returned = Nul
        /\ argsCount = 0 /\ cmdStart = 1 /\ versioned = FALSE /\ refresh = FALSE
    BY DEF ParserInit
  <1>3. /\ argsCount \in 0 .. argsIdx /\ cmdStart \in 1 .. argsIdx + 1
        /\ argsIdx <= pfodMaxMsgLen
    BY <1>1, <1>2, ParserAssumption DEF argsIdx
  <1>4. versioned \in BOOLEAN /\ refresh \in BOOLEAN /\ ~InMessage
    BY <1>2 DEF InMessage
  <1>5. returned \in Content /\ parserState \in {"waiting", "started", "inMsg", "argStarted", "end"}
    BY <1>2 DEF Content
  <1> QED
    BY <1>1, <1>3, <1>4, <1>5
       DEF ParserInv, ParserTypeOK, RoomForEnd, InMessage, argsIdx, Content

\* Every step keeps it.
LEMMA StepFits == ParserInv /\ [ParserNext]_readVars => ParserInv'
  <1> SUFFICES ASSUME ParserInv, [ParserNext]_readVars PROVE ParserInv'
    OBVIOUS
  <1>1. CASE ParseFF
    <2>1. <<>> \in Seq(Bytes) BY EmptySeq
    <2> QED BY <1>1, <2>1, ClearedFits DEF ParseFF, Content
  <1>2. ASSUME NEW in \in Bytes, Parse(in) PROVE ParserInv'
    <2>1. CASE ParseOutside(in) BY <2>1, Outside
    <2>2. CASE ParseTooLong(in)
      <3>1. <<>> \in Seq(Bytes) BY EmptySeq
      <3> QED BY <2>2, <3>1, ClearedFits DEF ParseTooLong, Content
    <2>3. CASE ParseEnd(in) BY <2>3, EndFits
    <2>4. CASE ParseRefresh(in) \/ ParseVersion(in) \/ ParseBar(in) \/ ParseByte(in)
      <3>1. Takes(in)
        BY <2>4 DEF ParseRefresh, ParseVersion, ParseBar, ParseByte
      <3> QED BY <2>4, <3>1, StoreFits
    <2> QED BY <1>2, <2>1, <2>2, <2>3, <2>4 DEF Parse
  <1>3. ASSUME NEW c \in Chars \cup {Nul}, SetCmd(c) PROVE ParserInv'
    BY <1>3, SetFits
  <1>4. CASE UNCHANGED readVars
    BY <1>4 DEF readVars, ParserInv, ParserTypeOK, RoomForEnd, InMessage, argsIdx
  <1> QED BY <1>1, <1>2, <1>3, <1>4 DEF ParserNext

\* Whatever is received, the parser never writes outside its buffer of
\* pfodMaxMsgLen bytes, and cmdStart and argsCount stay within what is stored.
THEOREM ParserTypeCorrect == ParserSpec => []ParserTypeOK
  <1>1. ParserInv => ParserTypeOK BY DEF ParserInv
  <1> QED BY <1>1, InitFits, StepFits, PTL DEF ParserSpec

\* A closing brace closes every message, too long ones included: parse()
\* always finds the opening brace of the next one.
THEOREM EndCloses == ParserSpec => ResyncsAtEnd
  <1>1. ASSUME ParserInv, [ParserNext]_readVars, NEW in \in Bytes, Parse(in), in = pfodMsgEnd
        PROVE  ~InMessage'
    <2>1. CASE ParseOutside(in)
      BY <1>1, <2>1 DEF ParseOutside, InMessage, pfodMsgStarted, pfodMsgEnd
    <2>2. CASE ParseTooLong(in)
      BY <1>1, <2>2 DEF ParseTooLong, TooLong
    <2>3. CASE ParseEnd(in)
      BY <2>3 DEF ParseEnd, EndsMessage, InMessage
    <2>4. ~(ParseRefresh(in) \/ ParseVersion(in) \/ ParseBar(in))
      BY <1>1 DEF ParseRefresh, ParseVersion, ParseBar, pfodRefresh, pfodBar, pfodMsgEnd
    <2>5. ~ParseByte(in)
      BY <1>1, ParserAssumption
         DEF ParseByte, pfodMsgStarted, pfodRefresh, pfodMsgEnd
    <2> QED BY <1>1, <2>1, <2>2, <2>3, <2>4, <2>5 DEF Parse
  <1>2. ParserInv /\ [ParserNext]_readVars =>
          [\A in \in Bytes : (Parse(in) /\ in = pfodMsgEnd) => ~InMessage']_readVars
    BY <1>1
  <1> QED BY <1>2, InitFits, StepFits, PTL DEF ParserSpec, ResyncsAtEnd

--------------------------------------------------------------------------------
(* The message comes back.  What is stored is what was received, bars and   *)
(* the colon behind the version as nulls (MessageInv); a walk from null to  *)
(* null over a closed message finds its arguments, by induction over them.  *)

\* A colon that opens the message is not stored: raw is that much longer.
Skipped == IF raw # <<>> /\ raw[1] = pfodRefresh THEN 1 ELSE 0

\* What is stored of the first n bytes after it: bars, and the colon behind the
\* version, as nulls, all else as it was received.
Stored(n) ==
    \A i \in 1 .. n :
        args[i] = IF raw[i + Skipped] = pfodBar \/ (versioned /\ i = cmdStart - 1)
                  THEN Nul ELSE raw[i + Skipped]

\* The command starts behind the first colon but for that one.
Starts(n) ==
    IF versioned
    THEN /\ cmdStart - 1 \in 1 .. n /\ cmdStart - 1 + Skipped > 1
         /\ raw[cmdStart - 1 + Skipped] = pfodRefresh
    ELSE /\ cmdStart = 1 /\ (refresh <=> Skipped = 1)
         /\ \A i \in 2 .. n + Skipped : raw[i] # pfodRefresh

Bars(n) == {i \in 1 .. n : raw[i] = pfodBar}

\* While a message is open.
OpenMessage ==
    /\ Len(raw) = argsIdx + Skipped
    /\ Stored(argsIdx) /\ Starts(argsIdx)
    /\ raw = <<>> <=> parserState = "started"
    /\ Cardinality(Bars(Len(raw))) = IF parserState = "argStarted" THEN argsCount + 1 ELSE 0
    /\ parserState # "argStarted" => argsCount = 0

\* When it has been closed: two nulls, and each bar begins an argument.
Last == argsIdx - 2
ClosedMessage ==
    /\ Last \in Nat /\ Len(raw) = Last + Skipped + 1 /\ raw[Len(raw)] = pfodMsgEnd
    /\ args[Last + 1] = Nul /\ args[Last + 2] = Nul
    /\ Stored(Last) /\ Starts(Last)
    /\ Cardinality(Bars(Len(raw))) = argsCount
    /\ returned = args[cmdStart]

MessageInv ==
    /\ InMessage => OpenMessage
    /\ parserState = "end" => ClosedMessage

--------------------------------------------------------------------------------
(* Induction: a set of natural numbers has a least one, and one that has 0 *)
(* and the successors of its members has all of them.                      *)

LEMMA Least ==
    ASSUME NEW T \in SUBSET Nat, T # {}
    PROVE  \E x \in T : \A y \in T : x <= y
  <1> DEFINE R == OpToRel(<, Nat)
  <1>1. IsWellFoundedOn(R, Nat)
    BY NatLessThanWellFounded
  <1>2. \A x, y \in Nat : x < y => <<x, y>> \in R
    BY DEF OpToRel
  <1> HIDE DEF R
  <1>3. PICK x \in T : \A y \in T : <<y, x>> \notin R
    BY <1>1, WFMin
  <1>4. ASSUME NEW y \in T PROVE x <= y
    <2>1. x \in Nat /\ y \in Nat
      OBVIOUS
    <2>2. ~(y < x)
      BY <1>2, <1>3, <2>1
    <2>3. QED
      BY <2>1, <2>2
  <1>5. QED
    BY <1>4

LEMMA SetInduction ==
    ASSUME NEW S \in SUBSET Nat, 0 \in S, \A n \in S : n + 1 \in S
    PROVE  S = Nat
  <1> DEFINE T == Nat \ S
  <1>1. ASSUME T # {} PROVE FALSE
    <2>1. PICK x \in T : \A y \in T : x <= y
      BY <1>1, Least
    <2>2. x \in Nat \ {0} /\ x - 1 \in Nat /\ x - 1 \notin T
      BY <2>1
    <2>3. QED
      BY <2>2
  <1>2. QED
    BY <1>1

--------------------------------------------------------------------------------
(* The walk over the arguments. *)

\* A string ends at the first null from where it starts.
LEMMA StringEnds ==
    ASSUME argsIdx \in Nat, NEW i \in 1 .. argsIdx, NEW j \in i .. argsIdx, args[j] = Nul
    PROVE  /\ EndOf(i) \in i .. j /\ args[EndOf(i)] = Nul
           /\ \A k \in i .. EndOf(i) - 1 : args[k] # Nul
  <1> DEFINE T == Nulls(i)
  <1>1. T \in SUBSET Nat /\ j \in T /\ T # {}
    BY DEF Nulls
  <1>2. \E x \in T : \A y \in T : x <= y
    BY <1>1, Least
  <1>3. EndOf(i) \in T /\ \A y \in T : EndOf(i) <= y
    BY <1>1, <1>2 DEF EndOf
  <1>4. EndOf(i) \in i .. argsIdx /\ args[EndOf(i)] = Nul /\ EndOf(i) <= j
    BY <1>1, <1>3 DEF Nulls
  <1>5. ASSUME NEW k \in i .. EndOf(i) - 1 PROVE args[k] # Nul
    <2>1. k \in i .. argsIdx /\ ~(EndOf(i) <= k)
      BY <1>4
    <2>2. k \notin T
      BY <1>3, <2>1
    <2>3. QED
      BY <2>1, <2>2 DEF Nulls
  <1>6. QED
    BY <1>4, <1>5

\* getFirstArg() and getNextArg(), one after the other.
LEMMA Walk ==
    ASSUME argsCount \in Nat
    PROVE  \A k \in 1 .. argsCount :
               ArgAt[k] = IF k = 1 THEN getFirstArg ELSE getNextArg(ArgAt[k - 1])
  <1> DEFINE Walks(h, n) ==
                 h = [k \in 1 .. n |-> IF k = 1 THEN getFirstArg ELSE getNextArg(h[k - 1])]
             S == {n \in Nat : \E h : Walks(h, n)}
  <1>1. 0 \in S
    <2>1. Walks([k \in 1 .. 0 |-> 0], 0)
      OBVIOUS
    <2> QED
      BY <2>1
  <1>2. ASSUME NEW n \in S PROVE n + 1 \in S
    <2>1. PICK h : Walks(h, n)
      OBVIOUS
    <2> DEFINE g == [k \in 1 .. n + 1 |->
                        IF k \in 1 .. n THEN h[k]
                        ELSE IF k = 1 THEN getFirstArg ELSE getNextArg(h[k - 1])]
               f == [k \in 1 .. n + 1 |-> IF k = 1 THEN getFirstArg ELSE getNextArg(g[k - 1])]
    <2>2. n \in Nat
      OBVIOUS
    <2>3. ASSUME NEW k \in 1 .. n + 1 PROVE g[k] = f[k]
      <3>1. k # 1 => k - 1 \in 1 .. n /\ g[k - 1] = h[k - 1]
        BY <2>2
      <3>2. CASE k \in 1 .. n
        BY <2>1, <3>1, <3>2
      <3>3. CASE k \notin 1 .. n
        BY <3>1, <3>3
      <3> QED
        BY <3>2, <3>3
    <2>4. g = f
      BY <2>3
    <2> HIDE DEF g
    <2>5. Walks(g, n + 1)
      BY <2>4
    <2> QED
      BY <2>2, <2>5
  <1>3. argsCount \in S
    <2>1. S = Nat
      BY <1>1, <1>2, SetInduction
    <2> QED
      BY <2>1
  <1>4. Walks(ArgAt, argsCount)
    BY <1>3 DEF ArgAt
  <1>5. QED
    BY <1>4

\* What can be walked over in a closed message.
LEMMA Closed ==
    ASSUME ParserTypeOK, ClosedMessage
    PROVE  /\ argsIdx \in Nat /\ Last \in Nat /\ argsIdx = Last + 2 /\ Skipped \in 0 .. 1
           /\ argsCount \in Nat /\ cmdStart \in 1 .. Last + 1
           /\ DOMAIN args = 1 .. argsIdx /\ DOMAIN raw = 1 .. Len(raw)
           /\ Len(raw) = Last + Skipped + 1
           /\ \A i \in 1 .. Len(raw) : raw[i] \in Bytes
  <1>1. args \in Seq(Bytes \cup {Nul}) /\ raw \in Seq(Bytes)
    BY DEF ParserTypeOK
  <1>2. argsIdx \in Nat /\ DOMAIN args = 1 .. argsIdx /\ DOMAIN raw = 1 .. Len(raw) /\ Len(raw) \in Nat
    BY <1>1, LenProperties DEF argsIdx
  <1>3. argsCount \in Nat /\ Last \in Nat /\ argsIdx = Last + 2
    BY <1>2 DEF ParserTypeOK, ClosedMessage, Last
  <1>4. cmdStart \in 1 .. Last + 1
    BY <1>2, <1>3 DEF ParserTypeOK, ClosedMessage, Starts
  <1>5. Skipped \in 0 .. 1 /\ Len(raw) = Last + Skipped + 1
    BY DEF Skipped, ClosedMessage
  <1>6. \A i \in 1 .. Len(raw) : raw[i] \in Bytes
    BY <1>1, ElementOfSeq
  <1>7. QED
    BY <1>2, <1>3, <1>4, <1>5, <1>6

\* The two nulls at the end stop a walk, wherever it is.
LEMMA StringInside ==
    ASSUME ParserTypeOK, ClosedMessage, NEW i \in 1 .. argsIdx
    PROVE  /\ EndOf(i) \in i .. argsIdx /\ args[EndOf(i)] = Nul
           /\ \A k \in i .. EndOf(i) - 1 : args[k] # Nul
           /\ i # argsIdx => EndOf(i) <= Last + 1
           /\ getNextArg(i) \in 1 .. argsIdx
  <1>1. argsIdx \in Nat /\ Last \in Nat /\ argsIdx = Last + 2
    BY Closed
  <1>2. args[argsIdx] = Nul /\ args[Last + 1] = Nul
    BY <1>1 DEF ClosedMessage
  <1>3. /\ EndOf(i) \in i .. argsIdx /\ args[EndOf(i)] = Nul
        /\ \A k \in i .. EndOf(i) - 1 : args[k] # Nul
    <2>1. argsIdx \in i .. argsIdx
      BY <1>1
    <2> QED
      BY <1>1, <1>2, <2>1, StringEnds
  <1>4. i # argsIdx => EndOf(i) <= Last + 1
    <2> SUFFICES ASSUME i # argsIdx PROVE EndOf(i) <= Last + 1
      OBVIOUS
    <2>1. Last + 1 \in i .. argsIdx
      BY <1>1
    <2>2. EndOf(i) \in i .. Last + 1
      BY <1>1, <1>2, <2>1, StringEnds
    <2> QED
      BY <1>1, <2>2
  <1>5. getNextArg(i) \in 1 .. argsIdx
    BY <1>1, <1>3, <1>4 DEF getNextArg
  <1>6. QED
    BY <1>3, <1>4, <1>5

LEMMA WalkInside ==
    ASSUME ParserTypeOK, ClosedMessage
    PROVE  \A k \in 1 .. argsCount : ArgAt[k] \in 1 .. argsIdx
  <1>1. /\ argsIdx \in Nat /\ Last \in Nat /\ argsIdx = Last + 2 /\ argsCount \in Nat
        /\ cmdStart \in 1 .. Last + 1
    BY Closed
  <1> DEFINE S == {n \in Nat : n + 1 \in 1 .. argsCount => ArgAt[n + 1] \in 1 .. argsIdx}
  <1>2. 0 \in S
    <2>1. cmdStart \in 1 .. argsIdx /\ cmdStart # argsIdx
      BY <1>1
    <2>2. EndOf(cmdStart) \in 1 .. Last + 1
      BY <1>1, <2>1, StringInside
    <2>3. 1 \in 1 .. argsCount => ArgAt[1] = EndOf(cmdStart) + 1
      BY <1>1, Walk DEF getFirstArg
    <2> QED
      BY <1>1, <2>2, <2>3
  <1>3. ASSUME NEW n \in S PROVE n + 1 \in S
    <2>1. SUFFICES ASSUME n + 2 \in 1 .. argsCount PROVE ArgAt[n + 2] \in 1 .. argsIdx
      OBVIOUS
    <2>2. n \in Nat /\ n + 1 \in 1 .. argsCount
      BY <1>1, <2>1
    <2>3. ArgAt[n + 1] \in 1 .. argsIdx
      BY <2>2
    <2>4. ArgAt[n + 2] = getNextArg(ArgAt[n + 1])
      <3>1. n + 2 # 1 /\ (n + 2) - 1 = n + 1
        BY <2>2
      <3> QED
        BY <1>1, <2>1, <3>1, Walk
    <2> QED
      BY <2>3, <2>4, StringInside
  <1>4. S = Nat
    <2> HIDE DEF S
    <2>1. S \in SUBSET Nat
      BY DEF S
    <2> QED
      BY <1>2, <1>3, <2>1, SetInduction
  <1>5. ASSUME NEW k \in 1 .. argsCount PROVE ArgAt[k] \in 1 .. argsIdx
    <2>1. k - 1 \in Nat /\ (k - 1) + 1 = k
      BY <1>1
    <2>2. k - 1 \in S
      BY <1>4, <2>1
    <2> QED
      BY <2>1, <2>2
  <1>6. QED
    BY <1>5

\* Written, argument by argument.
LEMMA Spelling ==
    ASSUME argsCount \in Nat
    PROVE  \E u :
               /\ \A k \in 0 .. argsCount :
                      u[k] = IF k = 0 THEN StringAt(cmdStart)
                             ELSE u[k - 1] \o <<pfodBar>> \o StringAt(ArgAt[k])
               /\ Written = (IF versioned THEN StringAt(1) \o <<pfodRefresh>>
                             ELSE IF refresh THEN <<pfodRefresh>> ELSE <<>>)
                                \o u[argsCount] \o <<pfodMsgEnd>>
  <1> DEFINE Spells(h, n) ==
                 h = [k \in 0 .. n |-> IF k = 0 THEN StringAt(cmdStart)
                                       ELSE h[k - 1] \o <<pfodBar>> \o StringAt(ArgAt[k])]
             S == {n \in Nat : \E h : Spells(h, n)}
  <1>1. 0 \in S
    <2> DEFINE g == [k \in 0 .. 0 |-> StringAt(cmdStart)]
    <2>1. g = [k \in 0 .. 0 |-> IF k = 0 THEN StringAt(cmdStart)
                                ELSE g[k - 1] \o <<pfodBar>> \o StringAt(ArgAt[k])]
      OBVIOUS
    <2> HIDE DEF g
    <2>2. Spells(g, 0)
      BY <2>1
    <2> QED
      BY <2>2
  <1>2. ASSUME NEW n \in S PROVE n + 1 \in S
    <2>1. PICK h : Spells(h, n)
      OBVIOUS
    <2> DEFINE g == [k \in 0 .. n + 1 |->
                        IF k \in 0 .. n THEN h[k] ELSE h[k - 1] \o <<pfodBar>> \o StringAt(ArgAt[k])]
               f == [k \in 0 .. n + 1 |-> IF k = 0 THEN StringAt(cmdStart)
                                          ELSE g[k - 1] \o <<pfodBar>> \o StringAt(ArgAt[k])]
    <2>2. n \in Nat
      OBVIOUS
    <2>3. ASSUME NEW k \in 0 .. n + 1 PROVE g[k] = f[k]
      <3>1. k # 0 => k - 1 \in 0 .. n /\ g[k - 1] = h[k - 1]
        BY <2>2
      <3>2. CASE k \in 0 .. n
        BY <2>1, <3>1, <3>2
      <3>3. CASE k \notin 0 .. n
        BY <2>2, <3>1, <3>3
      <3> QED
        BY <3>2, <3>3
    <2>4. g = f
      BY <2>3
    <2> HIDE DEF g
    <2>5. Spells(g, n + 1)
      BY <2>4
    <2> QED
      BY <2>2, <2>5
  <1>3. \E h : Spells(h, argsCount)
    <2>1. S = Nat
      BY <1>1, <1>2, SetInduction
    <2> QED
      BY <2>1
  <1> DEFINE u == CHOOSE h : Spells(h, argsCount)
  <1>4. Spells(u, argsCount)
    BY <1>3
  <1>5. Written = (IF versioned THEN StringAt(1) \o <<pfodRefresh>>
                   ELSE IF refresh THEN <<pfodRefresh>> ELSE <<>>)
                      \o u[argsCount] \o <<pfodMsgEnd>>
    BY DEF Written
  <1> HIDE DEF u
  <1>6. QED
    BY <1>4, <1>5

\* A part of args that was stored as it was received is that part of raw.
LEMMA SameText ==
    ASSUME ParserTypeOK, NEW a \in Nat \ {0}, NEW b \in Nat, NEW s \in 0 .. 1,
           b <= argsIdx, b + s <= Len(raw), \A i \in a .. b : args[i] = raw[i + s]
    PROVE  SubSeq(args, a, b) = SubSeq(raw, a + s, b + s)
  <1> DEFINE B == Bytes \cup {Nul}
  <1>1. args \in Seq(B) /\ raw \in Seq(B)
    BY SeqMonotonic DEF ParserTypeOK
  <1>2. /\ \A i \in a .. b : args[i] \in B
        /\ \A i \in a + s .. b + s : raw[i] \in B
    <2>1. argsIdx = Len(args) /\ Len(raw) \in Nat /\ Len(args) \in Nat
      BY <1>1, LenProperties DEF argsIdx
    <2>2. \A i \in a .. b : i \in 1 .. Len(args)
      BY <2>1
    <2>3. \A i \in a + s .. b + s : i \in 1 .. Len(raw)
      BY <2>1
    <2> QED
      BY <1>1, <2>2, <2>3, ElementOfSeq
  <1> HIDE DEF B
  <1>3. /\ SubSeq(args, a, b) \in Seq(B) /\ Len(SubSeq(args, a, b)) = IF a <= b THEN b - a + 1 ELSE 0
        /\ \A i \in 1 .. b - a + 1 : SubSeq(args, a, b)[i] = args[a + i - 1]
    BY <1>2, SubSeqProperties
  <1>4. /\ SubSeq(raw, a + s, b + s) \in Seq(B)
        /\ Len(SubSeq(raw, a + s, b + s)) = IF a + s <= b + s THEN (b + s) - (a + s) + 1 ELSE 0
        /\ \A i \in 1 .. (b + s) - (a + s) + 1 : SubSeq(raw, a + s, b + s)[i] = raw[(a + s) + i - 1]
    <2>1. a + s \in Int /\ b + s \in Int
      OBVIOUS
    <2> QED
      BY <1>2, <2>1, SubSeqProperties
  <1>5. Len(SubSeq(args, a, b)) = Len(SubSeq(raw, a + s, b + s))
    BY <1>3, <1>4
  <1>6. ASSUME NEW i \in 1 .. Len(SubSeq(args, a, b))
        PROVE  SubSeq(args, a, b)[i] = SubSeq(raw, a + s, b + s)[i]
    <2>1. /\ i \in 1 .. b - a + 1 /\ i \in 1 .. (b + s) - (a + s) + 1
          /\ a + i - 1 \in a .. b /\ (a + s) + i - 1 = (a + i - 1) + s
      BY <1>3
    <2> QED
      BY <1>3, <1>4, <2>1
  <1>7. QED
    BY <1>3, <1>4, <1>5, <1>6, SeqEqual

\* Two parts of raw with what is between them.
LEMMA Joined ==
    ASSUME ParserTypeOK, NEW a \in 1 .. Len(raw), NEW m \in a .. Len(raw), NEW b \in m .. Len(raw)
    PROVE  SubSeq(raw, a, m - 1) \o <<raw[m]>> \o SubSeq(raw, m + 1, b) = SubSeq(raw, a, b)
  <1>1. raw \in Seq(Bytes) /\ Len(raw) \in Nat
    BY LenProperties DEF ParserTypeOK
  <1>2. m \in 1 .. Len(raw) /\ a \in 1 .. Len(raw) + 1 /\ m \in a - 1 .. Len(raw)
    BY <1>1
  <1>3. SubSeq(raw, a, m) = SubSeq(raw, a, m - 1) \o <<raw[m]>>
    BY <1>1, SubSeqRecursiveSecond
  <1>4. SubSeq(raw, a, m) \o SubSeq(raw, m + 1, b) = SubSeq(raw, a, b)
    BY <1>1, <1>2, ConcatAdjacentSubSeq
  <1>5. QED
    BY <1>3, <1>4

\* In a regular message all bars stand behind what precedes the command, and
\* something follows each of them.
LEMMA RegularMessage ==
    ASSUME ParserTypeOK, ClosedMessage, Regular
    PROVE  /\ \A i \in 1 .. Len(raw) - 1 :
                  raw[i] = pfodBar => /\ cmdStart + Skipped <= i
                                      /\ raw[i + 1] \notin {pfodBar, pfodMsgEnd}
           /\ \A i \in cmdStart .. Last :
                  args[i] = IF raw[i + Skipped] = pfodBar THEN Nul ELSE raw[i + Skipped]
           /\ versioned => /\ Skipped = 0 /\ cmdStart > 2 /\ raw[cmdStart - 1] = pfodRefresh
                           /\ args[cmdStart - 1] = Nul
                           /\ \A i \in 1 .. cmdStart - 2 : args[i] = raw[i] /\ raw[i] # Nul
           /\ ~versioned => cmdStart = 1 /\ (refresh <=> Skipped = 1)
  <1>1. /\ Last \in Nat /\ Skipped \in 0 .. 1 /\ cmdStart \in 1 .. Last + 1
        /\ Len(raw) = Last + Skipped + 1 /\ \A i \in 1 .. Len(raw) : raw[i] \in Bytes
    BY Closed
  <1>2. Nul \notin Bytes /\ pfodBar # pfodRefresh
    BY ParserAssumption DEF Bytes, Nul, pfodBar, pfodRefresh, pfodMsgStarted, pfodMsgEnd
  <1>3. raw # <<>> => (Skipped = 1 <=> raw[1] = pfodRefresh)
    BY DEF Skipped
  <1>4. raw # <<>>
    BY <1>1
  <1>5. Stored(Last) /\ Starts(Last)
    BY DEF ClosedMessage
  <1>6. CASE versioned
    <2>1. /\ cmdStart - 1 \in 1 .. Last /\ cmdStart - 1 + Skipped > 1
          /\ raw[cmdStart - 1 + Skipped] = pfodRefresh
      BY <1>5, <1>6 DEF Starts
    <2>2. cmdStart - 1 + Skipped \in At(pfodRefresh)
      BY <1>1, <2>1 DEF At
    <2>3. Skipped = 0
      <3>1. SUFFICES ASSUME Skipped = 1 PROVE FALSE
        BY <1>1
      <3>2. 1 \in At(pfodRefresh)
        BY <1>1, <1>3, <1>4, <3>1 DEF At
      <3>3. ~(At(pfodRefresh) \subseteq {1})
        BY <1>1, <2>1, <2>2
      <3>4. PICK i \in 2 .. Len(raw) - 1 : At(pfodRefresh) = {i}
        BY <3>3 DEF Regular
      <3> QED
        BY <3>2, <3>4
    <2>4. PICK i \in 2 .. Len(raw) - 1 : At(pfodRefresh) = {i} /\ \A j \in At(pfodBar) : i < j
      <3>1. ~(At(pfodRefresh) \subseteq {1})
        BY <1>1, <2>1, <2>2
      <3> QED
        BY <3>1 DEF Regular
    <2>5. i = cmdStart - 1
      BY <1>1, <2>2, <2>3, <2>4
    <2>6. cmdStart > 2 /\ raw[cmdStart - 1] = pfodRefresh
      BY <1>1, <2>1, <2>3
    <2>7. \A j \in 1 .. Len(raw) - 1 : raw[j] = pfodBar => cmdStart + Skipped <= j
      BY <1>1, <2>3, <2>4, <2>5 DEF At
    <2>8. ASSUME NEW j \in 1 .. cmdStart - 2 PROVE args[j] = raw[j] /\ raw[j] # Nul
      <3>1. j \in 1 .. Last /\ j \in 1 .. Len(raw) - 1 /\ j # cmdStart - 1 /\ j + Skipped = j
            /\ ~(cmdStart + Skipped <= j) /\ j \in 1 .. Len(raw)
        BY <1>1, <2>3
      <3>2. raw[j] # pfodBar
        BY <2>7, <3>1
      <3> QED
        BY <1>1, <1>2, <1>5, <3>1, <3>2 DEF Stored
    <2>9. args[cmdStart - 1] = Nul
      BY <1>5, <1>6, <2>1 DEF Stored
    <2>10. \A j \in cmdStart .. Last :
               args[j] = IF raw[j + Skipped] = pfodBar THEN Nul ELSE raw[j + Skipped]
      <3>1. \A j \in cmdStart .. Last : j \in 1 .. Last /\ j # cmdStart - 1
        BY <1>1
      <3> QED
        BY <1>5, <3>1 DEF Stored
    <2>11. \A j \in 1 .. Len(raw) - 1 : raw[j] = pfodBar => raw[j + 1] \notin {pfodBar, pfodMsgEnd}
      BY DEF Regular, At
    <2> QED
      BY <1>6, <2>3, <2>6, <2>7, <2>8, <2>9, <2>10, <2>11
  <1>7. CASE ~versioned
    <2>1. cmdStart = 1 /\ (refresh <=> Skipped = 1)
      BY <1>5, <1>7 DEF Starts
    <2>2. \A j \in 1 .. Len(raw) - 1 : raw[j] = pfodBar => cmdStart + Skipped <= j
      <3>1. Skipped = 1 => raw[1] # pfodBar
        BY <1>2, <1>3, <1>4
      <3> QED
        BY <1>1, <2>1, <3>1
    <2>3. \A j \in cmdStart .. Last :
              args[j] = IF raw[j + Skipped] = pfodBar THEN Nul ELSE raw[j + Skipped]
      BY <1>5, <1>7, <2>1 DEF Stored
    <2>4. \A j \in 1 .. Len(raw) - 1 : raw[j] = pfodBar => raw[j + 1] \notin {pfodBar, pfodMsgEnd}
      BY DEF Regular, At
    <2> QED
      BY <1>7, <2>1, <2>2, <2>3, <2>4
  <1>8. QED
    BY <1>6, <1>7

\* A string in a regular message, up to the next bar or the end.
LEMMA RegularString ==
    ASSUME ParserTypeOK, ClosedMessage, Regular, NEW a \in cmdStart .. Last + 1
    PROVE  /\ EndOf(a) \in a .. Last + 1
           /\ StringAt(a) = SubSeq(raw, a + Skipped, EndOf(a) - 1 + Skipped)
           /\ \A i \in a .. EndOf(a) - 1 : raw[i + Skipped] # pfodBar
           /\ EndOf(a) # Last + 1 => raw[EndOf(a) + Skipped] = pfodBar
  <1>1. /\ Last \in Nat /\ Skipped \in 0 .. 1 /\ cmdStart \in 1 .. Last + 1
        /\ argsIdx \in Nat /\ argsIdx = Last + 2
        /\ Len(raw) = Last + Skipped + 1 /\ \A i \in 1 .. Len(raw) : raw[i] \in Bytes
    BY Closed
  <1>2. Nul \notin Bytes
    BY ParserAssumption DEF Bytes, Nul, pfodBar, pfodRefresh, pfodMsgStarted, pfodMsgEnd
  <1>3. a \in 1 .. argsIdx /\ a # argsIdx
    BY <1>1
  <1>4. /\ EndOf(a) \in a .. Last + 1 /\ args[EndOf(a)] = Nul
        /\ \A i \in a .. EndOf(a) - 1 : args[i] # Nul
    BY <1>1, <1>3, StringInside
  <1>5. \A i \in cmdStart .. Last :
            args[i] = IF raw[i + Skipped] = pfodBar THEN Nul ELSE raw[i + Skipped]
    BY RegularMessage
  <1>6. \A i \in a .. EndOf(a) - 1 : i \in cmdStart .. Last
    BY <1>1, <1>4
  <1>7. \A i \in a .. EndOf(a) - 1 : raw[i + Skipped] # pfodBar /\ args[i] = raw[i + Skipped]
    BY <1>4, <1>5, <1>6
  <1>8. StringAt(a) = SubSeq(raw, a + Skipped, EndOf(a) - 1 + Skipped)
    <2>1. /\ a \in Nat \ {0} /\ EndOf(a) - 1 \in Nat /\ EndOf(a) - 1 <= argsIdx
          /\ EndOf(a) - 1 + Skipped <= Len(raw)
      BY <1>1, <1>4
    <2> QED
      BY <1>1, <1>7, <2>1, SameText DEF StringAt
  <1>9. EndOf(a) # Last + 1 => raw[EndOf(a) + Skipped] = pfodBar
    <2> SUFFICES ASSUME EndOf(a) # Last + 1 PROVE raw[EndOf(a) + Skipped] = pfodBar
      OBVIOUS
    <2>1. EndOf(a) \in cmdStart .. Last /\ EndOf(a) + Skipped \in 1 .. Len(raw)
      BY <1>1, <1>4
    <2> QED
      BY <1>1, <1>2, <1>4, <1>5, <2>1
  <1>10. QED
    BY <1>4, <1>7, <1>8, <1>9

LEMMA BarsAreFinite ==
    ASSUME NEW n \in Nat
    PROVE  IsFiniteSet(Bars(n)) /\ Cardinality(Bars(n)) \in Nat
  <1>1. IsFiniteSet(1 .. n) /\ Bars(n) \in SUBSET (1 .. n)
    BY FS_Interval DEF Bars
  <1>2. QED
    BY <1>1, FS_Subset, FS_CardinalityType

\* The next string begins behind a bar: it is one more of as many.
LEMMA OneMoreBar ==
    ASSUME NEW m \in Nat \ {0}, NEW n \in Nat, m <= n, raw[m] = pfodBar,
           \A i \in m + 1 .. n : raw[i] # pfodBar
    PROVE  Cardinality(Bars(n)) = Cardinality(Bars(m - 1)) + 1
  <1>1. m - 1 \in Nat
    OBVIOUS
  <1>2. Bars(n) = Bars(m - 1) \cup {m} /\ m \notin Bars(m - 1)
    BY DEF Bars
  <1>3. QED
    BY <1>1, <1>2, BarsAreFinite, FS_AddElement

\* A regular message is read as it was written: the first k arguments end with
\* the k-th of its bars behind them, up to the last.
LEMMA ArgumentsAsWritten ==
    ASSUME ParserTypeOK, ClosedMessage, Regular, NEW u,
           \A k \in 0 .. argsCount :
               u[k] = IF k = 0 THEN StringAt(cmdStart)
                      ELSE u[k - 1] \o <<pfodBar>> \o StringAt(ArgAt[k])
    PROVE  u[argsCount] = SubSeq(raw, cmdStart + Skipped, Len(raw) - 1)
  <1> DEFINE At1(k)   == IF k = 0 THEN cmdStart ELSE ArgAt[k]
             Known(k) == /\ At1(k) \in cmdStart .. Last + 1 /\ EndOf(At1(k)) \in cmdStart .. Last + 1
                         /\ k # 0 => EndOf(ArgAt[k]) # ArgAt[k]
                         /\ Cardinality(Bars(EndOf(At1(k)) - 1 + Skipped)) = k
                         /\ u[k] = SubSeq(raw, cmdStart + Skipped, EndOf(At1(k)) - 1 + Skipped)
             S == {k \in Nat : k <= argsCount => Known(k)}
  <1>1. /\ Last \in Nat /\ Skipped \in 0 .. 1 /\ cmdStart \in 1 .. Last + 1
        /\ argsIdx \in Nat /\ argsIdx = Last + 2 /\ argsCount \in Nat
        /\ Len(raw) = Last + Skipped + 1 /\ \A i \in 1 .. Len(raw) : raw[i] \in Bytes
    BY Closed
  <1>2. /\ Cardinality(Bars(Len(raw))) = argsCount /\ raw[Len(raw)] = pfodMsgEnd
        /\ pfodMsgEnd # pfodBar
    BY DEF ClosedMessage, pfodMsgEnd, pfodBar
  <1>3. \A i \in 1 .. Len(raw) - 1 :
            raw[i] = pfodBar => /\ cmdStart + Skipped <= i
                                /\ raw[i + 1] \notin {pfodBar, pfodMsgEnd}
    BY RegularMessage
  <1>4. \A a \in cmdStart .. Last + 1 :
            /\ EndOf(a) \in a .. Last + 1
            /\ StringAt(a) = SubSeq(raw, a + Skipped, EndOf(a) - 1 + Skipped)
            /\ \A i \in a .. EndOf(a) - 1 : raw[i + Skipped] # pfodBar
            /\ EndOf(a) # Last + 1 => raw[EndOf(a) + Skipped] = pfodBar
    BY RegularString
  <1>5. 0 \in S
    <2>1. cmdStart \in cmdStart .. Last + 1
      BY <1>1
    <2>2. EndOf(cmdStart) \in cmdStart .. Last + 1
      BY <1>4, <2>1
    <2>3. u[0] = SubSeq(raw, cmdStart + Skipped, EndOf(cmdStart) - 1 + Skipped)
      <3>1. 0 \in 0 .. argsCount
        BY <1>1
      <3> QED
        BY <1>4, <2>1, <3>1
    <2>4. Bars(EndOf(cmdStart) - 1 + Skipped) = {}
      <3>1. ASSUME NEW i \in Bars(EndOf(cmdStart) - 1 + Skipped) PROVE FALSE
        <4>1. i \in 1 .. EndOf(cmdStart) - 1 + Skipped /\ raw[i] = pfodBar
          BY DEF Bars
        <4>2. i \in 1 .. Len(raw) - 1
          BY <1>1, <2>2, <4>1
        <4>3. cmdStart + Skipped <= i
          BY <1>3, <4>1, <4>2
        <4>4. i - Skipped \in cmdStart .. EndOf(cmdStart) - 1 /\ (i - Skipped) + Skipped = i
          BY <1>1, <2>2, <4>1, <4>3
        <4>5. raw[i] # pfodBar
          BY <1>4, <2>1, <4>4
        <4> QED
          BY <4>1, <4>5
      <3> QED
        BY <3>1
    <2>5. Cardinality(Bars(EndOf(cmdStart) - 1 + Skipped)) = 0
      BY <2>4, FS_EmptySet
    <2> QED
      BY <2>1, <2>2, <2>3, <2>5
  <1>6. ASSUME NEW k \in S PROVE k + 1 \in S
    <2>1. SUFFICES ASSUME k + 1 <= argsCount PROVE Known(k + 1)
      OBVIOUS
    <2>2. k \in Nat /\ Known(k)
      BY <1>1, <2>1
    <2> DEFINE e == EndOf(At1(k))
    <2>3. /\ e \in cmdStart .. Last + 1 /\ At1(k) \in cmdStart .. Last + 1
          /\ Cardinality(Bars(e - 1 + Skipped)) = k
          /\ u[k] = SubSeq(raw, cmdStart + Skipped, e - 1 + Skipped)
          /\ k # 0 => e # ArgAt[k]
      BY <2>2
    <2>4. e # Last + 1
      <3>1. SUFFICES ASSUME e = Last + 1 PROVE FALSE
        OBVIOUS
      <3>2. e - 1 + Skipped = Len(raw) - 1
        BY <1>1, <3>1
      <3>3. Bars(Len(raw) - 1) = Bars(Len(raw))
        BY <1>1, <1>2 DEF Bars
      <3> QED
        BY <1>1, <1>2, <2>1, <2>2, <2>3, <3>2, <3>3
    <2>5. raw[e + Skipped] = pfodBar
      BY <1>4, <2>3, <2>4
    <2>6. ArgAt[k + 1] = e + 1
      <3>1. k + 1 \in 1 .. argsCount /\ (k + 1) - 1 = k
        BY <1>1, <2>1, <2>2
      <3>2. ArgAt[k + 1] = IF k + 1 = 1 THEN getFirstArg ELSE getNextArg(ArgAt[k])
        BY <1>1, <3>1, Walk
      <3>3. CASE k = 0
        BY <1>1, <2>1, <3>2, <3>3 DEF getFirstArg
      <3>4. CASE k # 0
        BY <2>2, <2>3, <3>2, <3>4 DEF getNextArg
      <3> QED
        BY <3>3, <3>4
    <2> DEFINE a == e + 1
    <2> HIDE DEF e
    <2>7. e + Skipped \in 1 .. Len(raw) - 1 /\ (e + Skipped) + 1 = a + Skipped
      BY <1>1, <2>3, <2>4
    <2>8. raw[a + Skipped] # pfodBar /\ raw[a + Skipped] # pfodMsgEnd
      BY <1>3, <2>5, <2>7
    <2>9. a \in cmdStart .. Last
      <3>1. Last + 1 + Skipped = Len(raw)
        BY <1>1
      <3>2. a # Last + 1
        BY <1>2, <2>8, <3>1
      <3> QED
        BY <1>1, <2>3, <2>4, <3>2
    <2>10. a \in cmdStart .. Last + 1
      BY <1>1, <2>9
    <2>11. /\ EndOf(a) \in a .. Last + 1
           /\ StringAt(a) = SubSeq(raw, a + Skipped, EndOf(a) - 1 + Skipped)
           /\ \A i \in a .. EndOf(a) - 1 : raw[i + Skipped] # pfodBar
           /\ EndOf(a) # Last + 1 => raw[EndOf(a) + Skipped] = pfodBar
      BY <1>4, <2>10
    <2>12. EndOf(a) # a
      <3>1. a # Last + 1
        BY <1>1, <2>9
      <3> QED
        BY <2>8, <2>11, <3>1
    <2> DEFINE f == EndOf(a)
    <2>13. f \in a .. Last + 1
      BY <2>11
    <2> HIDE DEF f
    <2>14. /\ e \in Nat /\ f \in Nat /\ e + 1 <= f /\ f <= Last + 1 /\ cmdStart <= e
           /\ Skipped \in Nat /\ Last \in Nat /\ Len(raw) \in Nat /\ cmdStart \in Nat \ {0}
           /\ Len(raw) = Last + Skipped + 1
      BY <1>1, <2>3, <2>13
    <2>15. Cardinality(Bars(f - 1 + Skipped)) = k + 1
      <3>1. e + Skipped \in Nat \ {0} /\ f - 1 + Skipped \in Nat
            /\ e + Skipped <= f - 1 + Skipped
            /\ (e + Skipped) - 1 = e - 1 + Skipped
        BY <2>14
      <3>2. ASSUME NEW i \in e + Skipped + 1 .. f - 1 + Skipped
            PROVE  raw[i] # pfodBar
        <4>1. i - Skipped \in a .. f - 1 /\ (i - Skipped) + Skipped = i
          BY <2>14, <3>2
        <4> QED
          BY <2>11, <4>1 DEF f
      <3> QED
        BY <2>3, <2>5, <3>1, <3>2, OneMoreBar
    <2>16. u[k + 1] = SubSeq(raw, cmdStart + Skipped, EndOf(a) - 1 + Skipped)
      <3>1. k + 1 \in 0 .. argsCount /\ (k + 1) - 1 = k /\ k + 1 # 0
        BY <1>1, <2>1, <2>2
      <3>2. u[k + 1] = u[k] \o <<pfodBar>> \o StringAt(a)
        BY <2>6, <3>1
      <3>3. /\ cmdStart + Skipped \in 1 .. Len(raw)
            /\ e + Skipped \in cmdStart + Skipped .. Len(raw)
            /\ f - 1 + Skipped \in e + Skipped .. Len(raw)
            /\ (e + Skipped) - 1 = e - 1 + Skipped /\ (e + Skipped) + 1 = a + Skipped
        BY <2>14
      <3>4. SubSeq(raw, cmdStart + Skipped, (e + Skipped) - 1) \o <<raw[e + Skipped]>>
               \o SubSeq(raw, (e + Skipped) + 1, f - 1 + Skipped)
            = SubSeq(raw, cmdStart + Skipped, f - 1 + Skipped)
        BY <3>3, Joined
      <3> QED
        BY <2>3, <2>5, <2>11, <3>2, <3>3, <3>4 DEF f
    <2>17. At1(k + 1) = a /\ EndOf(a) \in cmdStart .. Last + 1 /\ k + 1 # 0
      <3>1. f \in cmdStart .. Last + 1 /\ k + 1 # 0
        BY <2>2, <2>14
      <3> QED
        BY <2>6, <3>1 DEF f
    <2> QED
      BY <2>6, <2>10, <2>12, <2>15, <2>16, <2>17 DEF f
  <1>7. Known(argsCount)
    <2> HIDE DEF Known
    <2>1. S \in SUBSET Nat
      OBVIOUS
    <2>2. S = Nat
      <3> HIDE DEF S
      <3> QED
        BY <1>5, <1>6, <2>1, SetInduction
    <2>3. argsCount \in S /\ argsCount <= argsCount
      BY <1>1, <2>2
    <2> QED
      BY <2>3
  <1> DEFINE e == EndOf(At1(argsCount))
  <1>8. /\ e \in cmdStart .. Last + 1 /\ At1(argsCount) \in cmdStart .. Last + 1
        /\ Cardinality(Bars(e - 1 + Skipped)) = argsCount
        /\ u[argsCount] = SubSeq(raw, cmdStart + Skipped, e - 1 + Skipped)
    BY <1>7
  <1>9. e = Last + 1
    <2>1. SUFFICES ASSUME e # Last + 1 PROVE FALSE
      OBVIOUS
    <2>2. raw[e + Skipped] = pfodBar
      BY <1>4, <1>8, <2>1
    <2> HIDE DEF e
    <2>3. /\ e + Skipped \in 1 .. Len(raw) /\ ~(e + Skipped <= e - 1 + Skipped)
          /\ e - 1 + Skipped <= Len(raw) /\ Len(raw) \in Nat
      BY <1>1, <1>8, <2>1
    <2>4. Bars(e - 1 + Skipped) \in SUBSET Bars(Len(raw))
      BY <1>1, <1>8, <2>3 DEF Bars
    <2>5. e + Skipped \in Bars(Len(raw)) /\ e + Skipped \notin Bars(e - 1 + Skipped)
      BY <2>2, <2>3 DEF Bars
    <2>6. IsFiniteSet(Bars(Len(raw)))
      BY <2>3, BarsAreFinite
    <2> QED
      BY <1>2, <1>8, <2>4, <2>5, <2>6, FS_Subset
  <1> HIDE DEF e
  <1>10. e - 1 + Skipped = Len(raw) - 1
    BY <1>1, <1>9
  <1>11. QED
    BY <1>8, <1>10

LEMMA WrittenAsReceived ==
    ASSUME ParserTypeOK, ClosedMessage, Regular
    PROVE  Written = raw
  <1>1. /\ Last \in Nat /\ Skipped \in 0 .. 1 /\ cmdStart \in 1 .. Last + 1 /\ argsCount \in Nat
        /\ argsIdx \in Nat /\ argsIdx = Last + 2 /\ Len(raw) = Last + Skipped + 1
    BY Closed
  <1>2. raw \in Seq(Bytes) /\ raw[Len(raw)] = pfodMsgEnd
    BY DEF ParserTypeOK, ClosedMessage
  <1>3. PICK u :
            /\ \A k \in 0 .. argsCount :
                   u[k] = IF k = 0 THEN StringAt(cmdStart)
                          ELSE u[k - 1] \o <<pfodBar>> \o StringAt(ArgAt[k])
            /\ Written = (IF versioned THEN StringAt(1) \o <<pfodRefresh>>
                          ELSE IF refresh THEN <<pfodRefresh>> ELSE <<>>)
                             \o u[argsCount] \o <<pfodMsgEnd>>
    BY <1>1, Spelling
  <1>4. u[argsCount] = SubSeq(raw, cmdStart + Skipped, Len(raw) - 1)
    BY <1>3, ArgumentsAsWritten
  <1> DEFINE before == IF versioned THEN StringAt(1) \o <<pfodRefresh>>
                       ELSE IF refresh THEN <<pfodRefresh>> ELSE <<>>
  <1>5. before \o SubSeq(raw, cmdStart + Skipped, Len(raw) - 1) = SubSeq(raw, 1, Len(raw) - 1)
    <2>1. CASE versioned
      <3>1. /\ Skipped = 0 /\ cmdStart > 2 /\ raw[cmdStart - 1] = pfodRefresh
            /\ args[cmdStart - 1] = Nul
            /\ \A i \in 1 .. cmdStart - 2 : args[i] = raw[i] /\ raw[i] # Nul
        BY <2>1, RegularMessage
      <3>2. EndOf(1) = cmdStart - 1
        <4>1. 1 \in 1 .. argsIdx /\ cmdStart - 1 \in 1 .. argsIdx
          BY <1>1, <3>1
        <4>2. EndOf(1) \in 1 .. cmdStart - 1 /\ args[EndOf(1)] = Nul
          BY <1>1, <3>1, <4>1, StringEnds
        <4>3. EndOf(1) \notin 1 .. cmdStart - 2
          BY <3>1, <4>2
        <4> QED
          BY <1>1, <4>2, <4>3
      <3>3. StringAt(1) = SubSeq(raw, 1, cmdStart - 2)
        <4>1. /\ 1 \in Nat \ {0} /\ cmdStart - 2 \in Nat /\ 0 \in 0 .. 1 /\ cmdStart - 2 <= argsIdx
              /\ cmdStart - 2 + 0 <= Len(raw) /\ 1 + 0 = 1 /\ cmdStart - 2 + 0 = cmdStart - 2
              /\ (cmdStart - 1) - 1 = cmdStart - 2
          BY <1>1, <3>1
        <4>2. \A i \in 1 .. cmdStart - 2 : args[i] = raw[i + 0]
          BY <1>1, <3>1
        <4>3. SubSeq(args, 1, cmdStart - 2) = SubSeq(raw, 1 + 0, cmdStart - 2 + 0)
          BY <4>1, <4>2, SameText
        <4> QED
          BY <3>2, <4>1, <4>3 DEF StringAt
      <3>4. /\ 1 \in 1 .. Len(raw) /\ cmdStart - 1 \in 1 .. Len(raw)
            /\ Len(raw) - 1 \in cmdStart - 1 .. Len(raw)
            /\ (cmdStart - 1) - 1 = cmdStart - 2 /\ (cmdStart - 1) + 1 = cmdStart + Skipped
        BY <1>1, <3>1
      <3>5. SubSeq(raw, 1, (cmdStart - 1) - 1) \o <<raw[cmdStart - 1]>>
               \o SubSeq(raw, (cmdStart - 1) + 1, Len(raw) - 1) = SubSeq(raw, 1, Len(raw) - 1)
        BY <3>4, Joined
      <3> QED
        BY <2>1, <3>1, <3>3, <3>4, <3>5
    <2>2. CASE ~versioned /\ refresh
      <3>1. cmdStart = 1 /\ Skipped = 1 /\ Len(raw) = Last + 2
        BY <1>1, <2>2, RegularMessage
      <3>2. raw[1] = pfodRefresh
        BY <3>1 DEF Skipped
      <3>3. 1 \in 1 .. Len(raw) /\ Len(raw) - 1 \in 1 .. Len(raw) /\ 1 + 1 = cmdStart + Skipped
        BY <1>1, <3>1
      <3>4. SubSeq(raw, 1, Len(raw) - 1) = <<raw[1]>> \o SubSeq(raw, 1 + 1, Len(raw) - 1)
        BY <1>2, <3>3, SubSeqRecursiveFirst
      <3> QED
        BY <2>2, <3>2, <3>3, <3>4
    <2>3. CASE ~versioned /\ ~refresh
      <3>1. cmdStart = 1 /\ Skipped = 0
        BY <1>1, <2>3, RegularMessage
      <3>2. \A i \in 1 .. Len(raw) - 1 : raw[i] \in Bytes
        <4>1. \A i \in 1 .. Len(raw) - 1 : i \in 1 .. Len(raw)
          BY <1>1
        <4> QED
          BY <1>2, <4>1, ElementOfSeq
      <3>3. 1 \in Int /\ Len(raw) - 1 \in Int
        BY <1>1
      <3>4. SubSeq(raw, 1, Len(raw) - 1) \in Seq(Bytes)
        BY <3>2, <3>3, SubSeqProperties
      <3>5. <<>> \o SubSeq(raw, 1, Len(raw) - 1) = SubSeq(raw, 1, Len(raw) - 1)
        BY <3>4, ConcatEmptySeq
      <3> QED
        BY <2>3, <3>1, <3>5
    <2> QED
      BY <2>1, <2>2, <2>3
  <1>6. SubSeq(raw, 1, Len(raw) - 1) \o <<raw[Len(raw)]>> = raw
    <2>1. 1 \in 1 .. Len(raw) /\ Len(raw) \in 1 .. Len(raw)
      BY <1>1
    <2>2. SubSeq(raw, 1, Len(raw)) = SubSeq(raw, 1, Len(raw) - 1) \o <<raw[Len(raw)]>>
      BY <1>2, <2>1, SubSeqRecursiveSecond
    <2> QED
      BY <1>2, <2>2, SubSeqFull
  <1>7. Written = before \o u[argsCount] \o <<pfodMsgEnd>>
    BY <1>3
  <1> HIDE DEF before
  <1>8. QED
    BY <1>2, <1>4, <1>5, <1>6, <1>7

LEMMA ClosedComesBack ==
    ASSUME ParserTypeOK, ClosedMessage
    PROVE  RoundTrip
  <1>1. /\ Last \in Nat /\ cmdStart \in 1 .. Last + 1 /\ argsIdx \in Nat /\ argsIdx = Last + 2
        /\ argsCount \in Nat
    BY Closed
  <1>2. WalkStaysInside
    <2>1. \A k \in 1 .. argsCount : EndOf(ArgAt[k]) \in ArgAt[k] .. argsIdx /\ ArgAt[k] \in 1 .. argsIdx
      BY WalkInside, StringInside
    <2> QED
      BY <1>1, <2>1 DEF WalkStaysInside
  <1>3. (StringAt(cmdStart) \o <<Nul>>)[1] = args[cmdStart]
    <2> DEFINE B == Bytes \cup {Nul}
               e == EndOf(cmdStart)
    <2>1. cmdStart \in 1 .. argsIdx
      BY <1>1
    <2>2. e \in cmdStart .. argsIdx /\ args[e] = Nul
      BY <2>1, StringInside
    <2>3. args \in Seq(B) /\ \A i \in 1 .. argsIdx : args[i] \in B
      <3>1. args \in Seq(B)
        BY DEF ParserTypeOK
      <3> QED
        BY <3>1, ElementOfSeq DEF argsIdx
    <2>4. <<Nul>> \in Seq(B) /\ Len(<<Nul>>) = 1 /\ <<Nul>>[1] = Nul
      OBVIOUS
    <2> HIDE DEF B, e
    <2>5. \A i \in cmdStart .. e - 1 : args[i] \in B
      BY <1>1, <2>2, <2>3
    <2>6. cmdStart \in Int /\ e - 1 \in Int
      BY <1>1, <2>2
    <2>7. /\ SubSeq(args, cmdStart, e - 1) \in Seq(B)
          /\ Len(SubSeq(args, cmdStart, e - 1)) = IF cmdStart <= e - 1 THEN (e - 1) - cmdStart + 1 ELSE 0
          /\ \A i \in 1 .. (e - 1) - cmdStart + 1 : SubSeq(args, cmdStart, e - 1)[i] = args[cmdStart + i - 1]
      BY <2>5, <2>6, SubSeqProperties
    <2> DEFINE s == SubSeq(args, cmdStart, e - 1)
    <2>8. \A i \in 1 .. Len(s) + 1 :
              (s \o <<Nul>>)[i] = IF i <= Len(s) THEN s[i] ELSE <<Nul>>[i - Len(s)]
      BY <2>4, <2>7, ConcatProperties
    <2> HIDE DEF s
    <2>9. CASE e = cmdStart
      <3>1. Len(s) = 0 /\ 1 \in 1 .. Len(s) + 1 /\ ~(1 <= Len(s)) /\ 1 - Len(s) = 1
        BY <1>1, <2>7, <2>9 DEF s
      <3>2. (s \o <<Nul>>)[1] = Nul
        BY <2>4, <2>8, <3>1
      <3> QED
        BY <2>2, <2>9, <3>2 DEF StringAt, e, s
    <2>10. CASE e # cmdStart
      <3>1. 1 \in 1 .. (e - 1) - cmdStart + 1 /\ cmdStart + 1 - 1 = cmdStart
        BY <1>1, <2>2, <2>10
      <3>2. 1 <= Len(s) /\ 1 \in 1 .. Len(s) + 1
        BY <1>1, <2>2, <2>7, <2>10 DEF s
      <3>3. s[1] = args[cmdStart]
        BY <2>7, <3>1 DEF s
      <3>4. (s \o <<Nul>>)[1] = s[1]
        BY <2>8, <3>2
      <3> QED
        BY <3>3, <3>4 DEF StringAt, e, s
    <2> QED
      BY <2>9, <2>10
  <1>4. returned = args[cmdStart]
    BY DEF ClosedMessage
  <1>5. QED
    BY <1>2, <1>3, <1>4, WrittenAsReceived DEF RoundTrip

--------------------------------------------------------------------------------
(* The message as it is stored, byte by byte. *)

\* A byte that is taken is added to raw.
LEMMA TakesByte ==
    ASSUME ParserInv, OpenMessage, NEW in \in Bytes, Takes(in)
    PROVE  /\ Len(raw) \in Nat /\ argsIdx \in Nat /\ Len(raw) = argsIdx + Skipped /\ Skipped \in 0 .. 1
           /\ Len(raw') = Len(raw) + 1 /\ raw' # <<>> /\ raw'[Len(raw) + 1] = in
           /\ \A i \in 1 .. Len(raw) : raw'[i] = raw[i]
           /\ Skipped' = IF raw = <<>> /\ in = pfodRefresh THEN 1 ELSE Skipped
           /\ raw = <<>> => Skipped = 0 /\ argsIdx = 0
           /\ Cardinality(Bars(Len(raw)))' =
                  IF in = pfodBar THEN Cardinality(Bars(Len(raw))) + 1 ELSE Cardinality(Bars(Len(raw)))
  <1>1. raw \in Seq(Bytes) /\ raw' = Append(raw, in)
    BY DEF ParserInv, ParserTypeOK, Takes
  <1>2. Len(raw) \in Nat /\ (raw # <<>> => Len(raw) \in Nat \ {0}) /\ Len(<<>>) = 0
    BY <1>1, LenProperties, EmptySeq
  <1>3. /\ Len(raw') = Len(raw) + 1 /\ raw' # <<>> /\ raw'[Len(raw) + 1] = in
        /\ \A i \in 1 .. Len(raw) : raw'[i] = raw[i]
    BY <1>1, AppendProperties
  <1>4. Len(raw) = argsIdx + Skipped /\ Skipped \in 0 .. 1 /\ argsIdx \in Nat
    <2>1. argsIdx \in Nat
      BY LenProperties DEF ParserInv, ParserTypeOK, argsIdx
    <2> QED
      BY <2>1 DEF OpenMessage, Skipped
  <1>5. Skipped' = IF raw = <<>> /\ in = pfodRefresh THEN 1 ELSE Skipped
    <2>1. CASE raw = <<>>
      <3>1. raw'[1] = in
        BY <1>2, <1>3, <2>1
      <3> QED
        BY <1>3, <2>1, <3>1 DEF Skipped
    <2>2. CASE raw # <<>>
      <3>1. raw'[1] = raw[1]
        BY <1>2, <1>3, <2>2
      <3> QED
        BY <1>3, <2>2, <3>1 DEF Skipped
    <2> QED
      BY <2>1, <2>2
  <1>6. raw = <<>> => Skipped = 0 /\ argsIdx = 0
    BY <1>2, <1>4 DEF Skipped
  <1>7. Cardinality(Bars(Len(raw)))' =
            IF in = pfodBar THEN Cardinality(Bars(Len(raw))) + 1 ELSE Cardinality(Bars(Len(raw)))
    <2>1. Bars(Len(raw))' = {i \in 1 .. Len(raw) + 1 : raw'[i] = pfodBar}
      BY <1>3 DEF Bars
    <2>2. CASE in = pfodBar
      <3>1. Bars(Len(raw))' = Bars(Len(raw)) \cup {Len(raw) + 1} /\ Len(raw) + 1 \notin Bars(Len(raw))
        BY <1>2, <1>3, <2>1, <2>2 DEF Bars
      <3>2. Cardinality(Bars(Len(raw)) \cup {Len(raw) + 1}) = Cardinality(Bars(Len(raw))) + 1
        BY <1>2, <3>1, BarsAreFinite, FS_AddElement
      <3> QED
        BY <2>2, <3>1, <3>2
    <2>3. CASE in # pfodBar
      <3>1. Bars(Len(raw))' = Bars(Len(raw))
        BY <1>2, <1>3, <2>1, <2>3 DEF Bars
      <3> QED
        BY <2>3, <3>1
    <2> QED
      BY <2>2, <2>3
  <1>8. QED
    BY <1>2, <1>3, <1>4, <1>5, <1>6, <1>7

\* One more element that stands for the byte.
LEMMA AddsElement ==
    ASSUME ParserInv, OpenMessage, NEW in \in Bytes, Takes(in), raw # <<>> \/ in # pfodRefresh,
           NEW x \in Content, args' = Append(args, x)
    PROVE  /\ argsIdx' = argsIdx + 1 /\ Skipped' = Skipped /\ Len(raw') = argsIdx' + Skipped'
           /\ argsIdx' + Skipped = Len(raw) + 1
           /\ args'[argsIdx + 1] = x /\ raw'[argsIdx + 1 + Skipped] = in
           /\ \A i \in 1 .. argsIdx : args'[i] = args[i] /\ raw'[i + Skipped] = raw[i + Skipped]
           /\ \A i \in 1 .. argsIdx + Skipped : raw'[i] = raw[i]
  <1>1. /\ Len(raw) \in Nat /\ argsIdx \in Nat /\ Len(raw) = argsIdx + Skipped /\ Skipped \in 0 .. 1
        /\ Len(raw') = Len(raw) + 1 /\ raw'[Len(raw) + 1] = in
        /\ \A i \in 1 .. Len(raw) : raw'[i] = raw[i]
        /\ Skipped' = IF raw = <<>> /\ in = pfodRefresh THEN 1 ELSE Skipped
    BY TakesByte
  <1>2. args \in Seq(Content)
    BY DEF ParserInv, ParserTypeOK, Content
  <1>3. Len(args') = Len(args) + 1 /\ args'[Len(args) + 1] = x /\ \A i \in 1 .. Len(args) : args'[i] = args[i]
    BY <1>2, AppendProperties
  <1>4. argsIdx' = argsIdx + 1 /\ args'[argsIdx + 1] = x /\ \A i \in 1 .. argsIdx : args'[i] = args[i]
    BY <1>3 DEF argsIdx
  <1>5. Skipped' = Skipped
    BY <1>1
  <1>6. /\ \A i \in 1 .. argsIdx : raw'[i + Skipped] = raw[i + Skipped]
        /\ \A i \in 1 .. argsIdx + Skipped : raw'[i] = raw[i]
    <2>1. \A i \in 1 .. argsIdx : i + Skipped \in 1 .. Len(raw)
      BY <1>1
    <2> QED
      BY <1>1, <2>1
  <1>7. argsIdx + 1 + Skipped = Len(raw) + 1 /\ Len(raw') = (argsIdx + 1) + Skipped
    BY <1>1
  <1>8. QED
    BY <1>1, <1>4, <1>5, <1>6, <1>7

\* A bar, and a byte that is stored as it is.
LEMMA AddsByte ==
    ASSUME ParserInv, OpenMessage, NEW in \in Bytes, Takes(in), in = pfodRefresh => versioned,
           args' = Append(args, IF in = pfodBar THEN Nul ELSE in),
           UNCHANGED <<cmdStart, versioned, refresh>>
    PROVE  Len(raw') = argsIdx' + Skipped' /\ Stored(argsIdx)' /\ Starts(argsIdx)'
  <1> DEFINE x == IF in = pfodBar THEN Nul ELSE in
  <1>1. x \in Content
    BY DEF Content
  <1>2. argsIdx \in Nat /\ Skipped \in 0 .. 1 /\ (raw = <<>> => argsIdx = 0)
    BY TakesByte
  <1>3. Stored(argsIdx) /\ Starts(argsIdx)
    BY DEF OpenMessage
  <1>4. raw # <<>> \/ in # pfodRefresh
    BY <1>2, <1>3 DEF Starts
  <1>5. /\ argsIdx' = argsIdx + 1 /\ Skipped' = Skipped /\ Len(raw') = argsIdx' + Skipped'
        /\ args'[argsIdx + 1] = x /\ raw'[argsIdx + 1 + Skipped] = in
        /\ \A i \in 1 .. argsIdx : args'[i] = args[i] /\ raw'[i + Skipped] = raw[i + Skipped]
        /\ \A i \in 1 .. argsIdx + Skipped : raw'[i] = raw[i]
    BY <1>1, <1>4, AddsElement
  <1>6. versioned => cmdStart - 1 \in 1 .. argsIdx
    BY <1>3 DEF Starts
  <1>7. ASSUME NEW i \in 1 .. argsIdx + 1
        PROVE  args'[i] = IF raw'[i + Skipped] = pfodBar \/ (versioned /\ i = cmdStart - 1)
                          THEN Nul ELSE raw'[i + Skipped]
    <2>1. CASE i \in 1 .. argsIdx
      BY <1>3, <1>5, <2>1 DEF Stored
    <2>2. CASE i = argsIdx + 1
      <3>1. ~(versioned /\ i = cmdStart - 1)
        BY <1>2, <1>6, <2>2
      <3> QED
        BY <1>5, <2>2, <3>1
    <2>3. i \in 1 .. argsIdx \/ i = argsIdx + 1
      BY <1>2
    <2> QED
      BY <2>1, <2>2, <2>3
  <1>8. Stored(argsIdx)'
    BY <1>5, <1>7 DEF Stored
  <1>9. Starts(argsIdx)'
    <2>1. CASE versioned
      <3>1. cmdStart - 1 \in 1 .. argsIdx + 1
        BY <1>2, <1>6, <2>1
      <3>2. raw'[cmdStart - 1 + Skipped] = pfodRefresh /\ cmdStart - 1 + Skipped > 1
        BY <1>3, <1>5, <1>6, <2>1 DEF Starts
      <3> QED
        BY <1>5, <2>1, <3>1, <3>2 DEF Starts
    <2>2. CASE ~versioned
      <3>1. cmdStart = 1 /\ (refresh <=> Skipped = 1) /\ \A i \in 2 .. argsIdx + Skipped : raw[i] # pfodRefresh
        BY <1>3, <2>2 DEF Starts
      <3>2. ASSUME NEW i \in 2 .. (argsIdx + 1) + Skipped PROVE raw'[i] # pfodRefresh
        <4>1. CASE i \in 2 .. argsIdx + Skipped
          <5>1. i \in 1 .. argsIdx + Skipped
            BY <1>2, <4>1
          <5> QED
            BY <1>5, <3>1, <4>1, <5>1
        <4>2. CASE i = argsIdx + 1 + Skipped
          BY <1>5, <2>2, <4>2
        <4> QED
          BY <1>2, <4>1, <4>2
      <3> QED
        BY <1>5, <2>2, <3>1, <3>2 DEF Starts
    <2> QED
      BY <2>1, <2>2
  <1>10. QED
    BY <1>5, <1>8, <1>9

\* The colon behind the version.
LEMMA AddsColon ==
    ASSUME ParserInv, OpenMessage, ParseVersion(pfodRefresh)
    PROVE  Len(raw') = argsIdx' + Skipped' /\ Stored(argsIdx)' /\ Starts(argsIdx)'
  <1>1. /\ Takes(pfodRefresh) /\ args' = Append(args, Nul) /\ ~versioned /\ versioned' = TRUE
        /\ cmdStart' = argsIdx + 2 /\ parserState # "started"
    BY DEF ParseVersion
  <1>2. pfodRefresh \in Bytes /\ Nul \in Content
    BY DEF Bytes, Content
  <1>3. /\ argsIdx \in Nat /\ Skipped \in 0 .. 1 /\ Len(raw) = argsIdx + Skipped
        /\ raw # <<>> /\ Stored(argsIdx)
    BY <1>1, <1>2, TakesByte DEF OpenMessage
  <1>4. Len(raw) > 0
    <2>1. raw \in Seq(Bytes)
      BY DEF ParserInv, ParserTypeOK
    <2>2. Len(raw) \in Nat \ {0}
      BY <1>3, <2>1, EmptySeq
    <2> QED
      BY <2>2
  <1>5. /\ argsIdx' = argsIdx + 1 /\ Skipped' = Skipped /\ Len(raw') = argsIdx' + Skipped'
        /\ args'[argsIdx + 1] = Nul /\ raw'[argsIdx + 1 + Skipped] = pfodRefresh
        /\ \A i \in 1 .. argsIdx : args'[i] = args[i] /\ raw'[i + Skipped] = raw[i + Skipped]
    BY <1>1, <1>2, <1>3, AddsElement
  <1>6. cmdStart' - 1 = argsIdx + 1
    BY <1>1, <1>3
  <1>7. ASSUME NEW i \in 1 .. argsIdx + 1
        PROVE  args'[i] = IF raw'[i + Skipped] = pfodBar \/ i = argsIdx + 1
                          THEN Nul ELSE raw'[i + Skipped]
    <2>1. CASE i \in 1 .. argsIdx
      <3>1. i # argsIdx + 1
        BY <1>3, <2>1
      <3> QED
        BY <1>1, <1>3, <1>5, <2>1, <3>1 DEF Stored
    <2>2. CASE i = argsIdx + 1
      BY <1>5, <2>2
    <2> QED
      BY <1>3, <2>1, <2>2
  <1>8. Stored(argsIdx)'
    BY <1>1, <1>5, <1>6, <1>7 DEF Stored
  <1>9. Starts(argsIdx)'
    <2>1. argsIdx + 1 \in 1 .. argsIdx + 1 /\ argsIdx + 1 + Skipped > 1
      BY <1>3, <1>4
    <2> QED
      BY <1>1, <1>5, <1>6, <2>1 DEF Starts
  <1>10. QED
    BY <1>5, <1>8, <1>9

--------------------------------------------------------------------------------
(* The steps of the parser keep the message. *)

\* A cleared parser has the empty message.
LEMMA ClearedMessage ==
    ASSUME Cleared, parserState' = "started", raw' = <<>>
    PROVE  OpenMessage'
  <1>1. Skipped' = 0 /\ Len(raw') = 0
    BY DEF Skipped
  <1>2. /\ args' = <<>> /\ argsCount' = 0 /\ cmdStart' = 1
        /\ versioned' = FALSE /\ refresh' = FALSE /\ argsIdx' = 0
    BY DEF Cleared, argsIdx
  <1>3. Stored(argsIdx)'
    BY <1>2 DEF Stored
  <1>4. Starts(argsIdx)'
    BY <1>1, <1>2 DEF Starts
  <1>5. Cardinality(Bars(Len(raw)))' = 0
    <2>1. Bars(Len(raw))' = {}
      BY <1>1 DEF Bars
    <2> QED
      BY <2>1, FS_EmptySet
  <1>6. QED
    BY <1>1, <1>2, <1>3, <1>4, <1>5 DEF OpenMessage

\* A message that goes on.
LEMMA MessageGoesOn ==
    ASSUME ParserInv, OpenMessage, NEW in \in Bytes, InMessage,
           ParseRefresh(in) \/ ParseVersion(in) \/ ParseBar(in) \/ ParseByte(in)
    PROVE  OpenMessage' /\ parserState' # "end"
  <1>1. Takes(in)
    BY DEF ParseRefresh, ParseVersion, ParseBar, ParseByte
  <1>2. /\ Len(raw) \in Nat /\ argsIdx \in Nat /\ Len(raw) = argsIdx + Skipped /\ Skipped \in 0 .. 1
        /\ Len(raw') = Len(raw) + 1 /\ raw' # <<>>
        /\ Skipped' = IF raw = <<>> /\ in = pfodRefresh THEN 1 ELSE Skipped
        /\ raw = <<>> => Skipped = 0 /\ argsIdx = 0
        /\ Cardinality(Bars(Len(raw)))' =
               IF in = pfodBar THEN Cardinality(Bars(Len(raw))) + 1 ELSE Cardinality(Bars(Len(raw)))
    BY <1>1, TakesByte
  <1>3. /\ raw = <<>> <=> parserState = "started"
        /\ Cardinality(Bars(Len(raw))) = IF parserState = "argStarted" THEN argsCount + 1 ELSE 0
        /\ parserState # "argStarted" => argsCount = 0
        /\ Stored(argsIdx) /\ Starts(argsIdx)
    BY DEF OpenMessage
  <1>4. argsCount \in Nat /\ parserState \in {"started", "inMsg", "argStarted"}
    BY <1>2 DEF InMessage, ParserInv, ParserTypeOK
  <1>5. CASE ParseRefresh(in)
    <2>1. /\ parserState = "started" /\ in = pfodRefresh /\ parserState' = "inMsg" /\ refresh' = TRUE
          /\ args' = args /\ argsCount' = argsCount /\ cmdStart' = cmdStart /\ versioned' = versioned
      BY <1>5 DEF ParseRefresh
    <2>2. /\ Skipped' = 1 /\ argsIdx' = 0 /\ Len(raw') = argsIdx' + Skipped'
          /\ in # pfodBar
      BY <1>2, <1>3, <2>1 DEF argsIdx, pfodRefresh, pfodBar
    <2>3. Stored(argsIdx)'
      BY <2>2 DEF Stored
    <2>4. ~versioned /\ cmdStart = 1
      BY <1>2, <1>3, <2>1 DEF Starts
    <2>5. Starts(argsIdx)'
      BY <2>1, <2>2, <2>4 DEF Starts
    <2> QED
      BY <1>2, <1>3, <2>1, <2>2, <2>3, <2>5 DEF OpenMessage
  <1>6. CASE ParseVersion(in)
    <2>1. /\ in = pfodRefresh /\ parserState # "started" /\ in # pfodBar
          /\ parserState' = parserState /\ argsCount' = argsCount
      BY <1>6 DEF ParseVersion, pfodRefresh, pfodBar
    <2>2. Len(raw') = argsIdx' + Skipped' /\ Stored(argsIdx)' /\ Starts(argsIdx)'
      BY <1>6, <2>1, AddsColon
    <2> QED
      BY <1>2, <1>3, <1>4, <2>1, <2>2 DEF OpenMessage
  <1>7. CASE ParseBar(in)
    <2>1. /\ in = pfodBar /\ in # pfodRefresh /\ args' = Append(args, Nul)
          /\ parserState' = "argStarted"
          /\ UNCHANGED <<cmdStart, versioned, refresh>>
          /\ argsCount' = IF parserState = "argStarted" THEN argsCount + 1 ELSE argsCount
      BY <1>4, <1>7 DEF ParseBar, CountsArgs, Now, pfodRefresh, pfodBar
    <2>2. Len(raw') = argsIdx' + Skipped' /\ Stored(argsIdx)' /\ Starts(argsIdx)'
      BY <1>1, <2>1, AddsByte
    <2>3. Cardinality(Bars(Len(raw)))' = argsCount' + 1
      BY <1>2, <1>3, <1>4, <2>1
    <2> QED
      BY <1>2, <2>1, <2>2, <2>3 DEF OpenMessage
  <1>8. CASE ParseByte(in)
    <2>1. /\ in # pfodBar /\ (in = pfodRefresh => versioned) /\ args' = Append(args, in)
          /\ UNCHANGED <<argsCount, cmdStart, versioned, refresh>>
          /\ parserState' = IF parserState = "argStarted" THEN "argStarted" ELSE "inMsg"
      BY <1>4, <1>8, ParserAssumption DEF ParseByte, Now, pfodRefresh, pfodBar, pfodMsgStarted
    <2>2. Len(raw') = argsIdx' + Skipped' /\ Stored(argsIdx)' /\ Starts(argsIdx)'
      BY <1>1, <2>1, AddsByte
    <2> QED
      BY <1>2, <1>3, <1>4, <2>1, <2>2 DEF OpenMessage
  <1>9. QED
    BY <1>5, <1>6, <1>7, <1>8

\* The closing brace.
LEMMA MessageCloses ==
    ASSUME ParserInv, OpenMessage, NEW in \in Bytes, InMessage, ParseEnd(in)
    PROVE  ClosedMessage' /\ parserState' = "end"
  <1>1. /\ Takes(in) /\ in = pfodMsgEnd /\ args' = args \o EndMark
        /\ parserState' = "end" /\ returned' = args'[cmdStart]
        /\ UNCHANGED <<cmdStart, versioned, refresh>>
        /\ argsCount' = IF Now = "argStarted" THEN argsCount + 1 ELSE argsCount
    BY DEF ParseEnd, EndsMessage, CountsArgs
  <1>2. in # pfodBar /\ in # pfodRefresh
    BY <1>1 DEF pfodMsgEnd, pfodBar, pfodRefresh
  <1>3. /\ Len(raw) \in Nat /\ argsIdx \in Nat /\ Len(raw) = argsIdx + Skipped /\ Skipped \in 0 .. 1
        /\ Len(raw') = Len(raw) + 1 /\ raw'[Len(raw) + 1] = in
        /\ \A i \in 1 .. Len(raw) : raw'[i] = raw[i]
        /\ Skipped' = Skipped
        /\ Cardinality(Bars(Len(raw)))' = Cardinality(Bars(Len(raw)))
    BY <1>1, <1>2, TakesByte
  <1>4. /\ Cardinality(Bars(Len(raw))) = IF parserState = "argStarted" THEN argsCount + 1 ELSE 0
        /\ parserState # "argStarted" => argsCount = 0
        /\ Stored(argsIdx) /\ Starts(argsIdx)
    BY DEF OpenMessage
  <1>5. parserState \in {"started", "inMsg", "argStarted"} /\ (Now = "argStarted" <=> parserState = "argStarted")
    BY DEF InMessage, Now
  <1>6. Cardinality(Bars(Len(raw)))' = argsCount'
    BY <1>1, <1>3, <1>4, <1>5
  <1>7. args \in Seq(Content) /\ EndMark \in Seq(Content) /\ Len(EndMark) = 2
        /\ EndMark[1] = Nul /\ EndMark[2] = Nul
    BY DEF ParserInv, ParserTypeOK, Content, EndMark
  <1>8. /\ Len(args') = Len(args) + 2
        /\ \A i \in 1 .. Len(args) + 2 : args'[i] = IF i <= Len(args) THEN args[i] ELSE EndMark[i - Len(args)]
    <2> DEFINE e == EndMark
    <2>1. e \in Seq(Content) /\ Len(e) = 2 /\ args' = args \o e
      BY <1>1, <1>7
    <2> HIDE DEF e
    <2>2. /\ Len(args \o e) = Len(args) + Len(e)
          /\ \A i \in 1 .. Len(args) + Len(e) : (args \o e)[i] = IF i <= Len(args) THEN args[i] ELSE e[i - Len(args)]
      BY <1>7, <2>1, ConcatProperties
    <2> QED
      BY <2>1, <2>2 DEF e
  <1>9. /\ argsIdx' = argsIdx + 2 /\ Last' = argsIdx
        /\ \A i \in 1 .. argsIdx : args'[i] = args[i]
        /\ args'[argsIdx + 1] = Nul /\ args'[argsIdx + 2] = Nul
    <2>1. argsIdx' = argsIdx + 2
      BY <1>8 DEF argsIdx
    <2>2. \A i \in 1 .. argsIdx : i \in 1 .. argsIdx + 2 /\ i <= argsIdx
      BY <1>3
    <2>3. /\ argsIdx + 1 \in 1 .. argsIdx + 2 /\ ~(argsIdx + 1 <= argsIdx) /\ argsIdx + 1 - argsIdx = 1
          /\ argsIdx + 2 \in 1 .. argsIdx + 2 /\ ~(argsIdx + 2 <= argsIdx) /\ argsIdx + 2 - argsIdx = 2
      BY <1>3
    <2>4. Last' = argsIdx
      BY <1>3, <2>1 DEF Last
    <2> QED
      BY <1>7, <1>8, <2>1, <2>2, <2>3, <2>4 DEF argsIdx
  <1>10. \A i \in 1 .. argsIdx : raw'[i + Skipped] = raw[i + Skipped]
    <2>1. \A i \in 1 .. argsIdx : i + Skipped \in 1 .. Len(raw)
      BY <1>3
    <2> QED
      BY <1>3, <2>1
  <1>11. Stored(Last)'
    BY <1>1, <1>3, <1>4, <1>9, <1>10 DEF Stored
  <1>12. Starts(Last)'
    <2>1. CASE versioned
      BY <1>1, <1>3, <1>4, <1>9, <1>10, <2>1 DEF Starts
    <2>2. CASE ~versioned
      <3>1. \A i \in 2 .. argsIdx + Skipped : i \in 1 .. Len(raw)
        BY <1>3
      <3> QED
        BY <1>1, <1>3, <1>4, <1>9, <2>2, <3>1 DEF Starts
    <2> QED
      BY <2>1, <2>2
  <1>13. Len(raw') = Last' + Skipped' + 1 /\ raw'[Len(raw')] = pfodMsgEnd /\ Last' \in Nat
    BY <1>1, <1>3, <1>9
  <1>14. QED
    BY <1>1, <1>6, <1>9, <1>11, <1>12, <1>13 DEF ClosedMessage

LEMMA StepKeepsMessage ==
    ASSUME ParserInv, MessageInv, [ParserNext]_readVars
    PROVE  MessageInv'
  <1>1. CASE ParseFF
    BY <1>1 DEF ParseFF, MessageInv, InMessage
  <1>2. ASSUME NEW in \in Bytes, Parse(in) PROVE MessageInv'
    <2>1. CASE ParseOutside(in)
      <3>1. CASE in = pfodMsgStarted
        <4>1. Cleared /\ parserState' = "started" /\ raw' = <<>>
          BY <2>1, <3>1 DEF ParseOutside
        <4>2. OpenMessage'
          BY <4>1, ClearedMessage
        <4> QED
          BY <4>1, <4>2 DEF MessageInv
      <3>2. CASE in # pfodMsgStarted
        BY <2>1, <3>2 DEF ParseOutside, MessageInv, InMessage
      <3> QED
        BY <3>1, <3>2
    <2>2. CASE ParseTooLong(in)
      BY <2>2 DEF ParseTooLong, MessageInv, InMessage
    <2>3. CASE ParseRefresh(in) \/ ParseVersion(in) \/ ParseBar(in) \/ ParseByte(in)
      <3>1. InMessage
        BY <2>3 DEF ParseRefresh, ParseVersion, ParseBar, ParseByte, Takes
      <3>2. OpenMessage
        BY <3>1 DEF MessageInv
      <3>3. OpenMessage' /\ parserState' # "end"
        BY <2>3, <3>1, <3>2, MessageGoesOn
      <3> QED
        BY <3>3 DEF MessageInv
    <2>4. CASE ParseEnd(in)
      <3>1. InMessage
        BY <2>4 DEF ParseEnd, Takes
      <3>2. ClosedMessage' /\ parserState' = "end"
        BY <2>4, <3>1, MessageCloses DEF MessageInv
      <3> QED
        BY <3>2 DEF MessageInv, InMessage
    <2> QED
      BY <1>2, <2>1, <2>2, <2>3, <2>4 DEF Parse
  <1>3. ASSUME NEW c \in Chars \cup {Nul}, SetCmd(c) PROVE MessageInv'
    BY <1>3 DEF SetCmd, MessageInv, InMessage
  <1>4. CASE UNCHANGED readVars
    <2>1. /\ parserState' = parserState /\ args' = args /\ argsCount' = argsCount
          /\ cmdStart' = cmdStart /\ versioned' = versioned /\ refresh' = refresh
          /\ returned' = returned /\ raw' = raw
      BY <1>4 DEF readVars
    <2>2. Skipped' = Skipped /\ argsIdx' = argsIdx /\ Last' = Last
      BY <2>1 DEF Skipped, argsIdx, Last
    <2>3. /\ Stored(argsIdx)' <=> Stored(argsIdx)
          /\ Stored(Last)' <=> Stored(Last)
          /\ Starts(argsIdx)' <=> Starts(argsIdx)
          /\ Starts(Last)' <=> Starts(Last)
          /\ Bars(Len(raw))' = Bars(Len(raw))
      BY <2>1, <2>2 DEF Stored, Starts, Bars
    <2>4. (OpenMessage => OpenMessage') /\ (ClosedMessage => ClosedMessage')
      BY <2>1, <2>2, <2>3 DEF OpenMessage, ClosedMessage
    <2> QED
      BY <2>1, <2>4 DEF MessageInv, InMessage
  <1>5. QED
    BY <1>1, <1>2, <1>3, <1>4 DEF ParserNext

--------------------------------------------------------------------------------
\* Any program that walks over a parsed message stays inside the buffer, and what
\* it finds, written out again, is the message as it was received, if that was as
\* the protocol has it; parse() returned the first byte of its command.  This is
\* so for any alphabet, version, length of buffer and number of arguments.
THEOREM MessageComesBack == ParserSpec => []RoundTrip
  <1>1. ParserInit => MessageInv
    BY DEF ParserInit, MessageInv, InMessage
  <1>2. ParserInv /\ MessageInv /\ [ParserNext]_readVars => MessageInv'
    BY StepKeepsMessage
  <1>3. ParserInv /\ MessageInv => RoundTrip
    <2> SUFFICES ASSUME ParserInv, MessageInv, parserState = "end" PROVE RoundTrip
      BY DEF RoundTrip
    <2>1. ParserTypeOK /\ ClosedMessage
      BY DEF ParserInv, MessageInv
    <2> QED
      BY <2>1, ClosedComesBack
  <1>4. QED
    BY <1>1, <1>2, <1>3, InitFits, StepFits, PTL DEF ParserSpec

--------------------------------------------------------------------------------
(* The fields of the form that sets the sketch up. *)

Conv == INSTANCE Conversions

\* What is decoded from place i on, by what f says of the places behind it.
DecodedAt(src, f, i) ==
    CASE i > Len(src)         -> <<>>
      [] Conv!Escaped(src, i) ->
             <<16 * Conv!HexValue(src[i + 1]) + Conv!HexValue(src[i + 2])>> \o f[i + 3]
      [] OTHER                -> <<IF src[i] = 43 THEN Conv!Blank ELSE src[i]>> \o f[i + 1]

\* It looks at nothing before i.
LEMMA LooksAhead ==
    ASSUME NEW src, Len(src) \in Nat, NEW i \in 1 .. Len(src) + 1, NEW f, NEW g,
           \A j \in i + 1 .. Len(src) + 1 : f[j] = g[j]
    PROVE  DecodedAt(src, f, i) = DecodedAt(src, g, i)
  <1>1. CASE i > Len(src)
    BY <1>1 DEF DecodedAt, Conv!Escaped
  <1>2. CASE ~(i > Len(src)) /\ Conv!Escaped(src, i)
    <2>1. i + 3 \in i + 1 .. Len(src) + 1
      BY <1>2 DEF Conv!Escaped
    <2>2. f[i + 3] = g[i + 3]
      BY <2>1
    <2> QED
      BY <1>2, <2>2 DEF DecodedAt
  <1>3. CASE ~(i > Len(src)) /\ ~Conv!Escaped(src, i)
    <2>1. i + 1 \in i + 1 .. Len(src) + 1
      BY <1>3
    <2>2. f[i + 1] = g[i + 1]
      BY <2>1
    <2> QED
      BY <1>3, <2>2 DEF DecodedAt
  <1> QED
    BY <1>1, <1>2, <1>3

\* urldecode2() goes from place to place.
LEMMA Decoding ==
    ASSUME NEW src, Len(src) \in Nat
    PROVE  \E f : /\ \A i \in 1 .. Len(src) + 1 : f[i] = DecodedAt(src, f, i)
                  /\ Conv!urldecode2(src) = Conv!CString(f[1])
  <1> DEFINE n == Len(src)
             Behind(h, m) == h = [i \in 1 .. n + 1 |-> IF i + m > n + 1 THEN DecodedAt(src, h, i) ELSE <<>>]
             S == {m \in Nat : \E h : Behind(h, m)}
  <1>1. 0 \in S
    <2> DEFINE g == [i \in 1 .. n + 1 |-> <<>>]
               f == [i \in 1 .. n + 1 |-> IF i + 0 > n + 1 THEN DecodedAt(src, g, i) ELSE <<>>]
    <2>1. \A i \in 1 .. n + 1 : ~(i + 0 > n + 1)
      OBVIOUS
    <2>2. g = f
      BY <2>1
    <2> HIDE DEF g
    <2>3. Behind(g, 0)
      BY <2>2
    <2> QED
      BY <2>3
  <1>2. ASSUME NEW m \in S PROVE m + 1 \in S
    <2>1. PICK h : Behind(h, m)
      OBVIOUS
    <2>2. m \in Nat
      OBVIOUS
    <2> DEFINE g == [i \in 1 .. n + 1 |->
                        IF i + m > n + 1 THEN h[i] ELSE IF i + m = n + 1 THEN DecodedAt(src, h, i) ELSE <<>>]
               f == [i \in 1 .. n + 1 |-> IF i + (m + 1) > n + 1 THEN DecodedAt(src, g, i) ELSE <<>>]
    <2>3. ASSUME NEW i \in 1 .. n + 1 PROVE g[i] = f[i]
      <3>1. CASE i + m >= n + 1
        <4>1. \A j \in i + 1 .. n + 1 : j \in 1 .. n + 1 /\ j + m > n + 1
          BY <2>2, <3>1
        <4>2. \A j \in i + 1 .. n + 1 : g[j] = h[j]
          BY <4>1
        <4> HIDE DEF g
        <4>3. DecodedAt(src, g, i) = DecodedAt(src, h, i)
          BY <4>2, LooksAhead
        <4> USE DEF g
        <4>4. f[i] = DecodedAt(src, h, i)
          <5>1. i + (m + 1) > n + 1
            BY <2>2, <3>1
          <5> HIDE DEF g
          <5> QED
            BY <4>3, <5>1
        <4>5. g[i] = DecodedAt(src, h, i)
          <5>1. CASE i + m > n + 1
            BY <2>1, <5>1
          <5>2. CASE i + m = n + 1
            <6>1. ~(i + m > n + 1)
              BY <5>2
            <6> QED
              BY <5>2, <6>1
          <5> QED
            BY <2>2, <3>1, <5>1, <5>2
        <4> QED
          BY <4>4, <4>5
      <3>2. CASE ~(i + m >= n + 1)
        <4>1. ~(i + m > n + 1) /\ i + m # n + 1 /\ ~(i + (m + 1) > n + 1)
          BY <2>2, <3>2
        <4> QED
          BY <4>1
      <3> QED
        BY <3>1, <3>2
    <2>4. g = f
      BY <2>3
    <2> HIDE DEF g
    <2>5. Behind(g, m + 1)
      BY <2>4
    <2> QED
      BY <2>2, <2>5
  <1>3. n + 1 \in S
    <2>1. S = Nat
      <3> HIDE DEF Behind
      <3> QED BY <1>1, <1>2, SetInduction
    <2> QED
      BY <2>1
  <1> DEFINE Decodes(h) == h = [i \in 1 .. n + 1 |-> DecodedAt(src, h, i)]
  <1>4. \E h : Decodes(h)
    <2>1. PICK h : Behind(h, n + 1)
      BY <1>3
    <2>2. \A i \in 1 .. n + 1 : i + (n + 1) > n + 1
      OBVIOUS
    <2>3. Decodes(h)
      BY <2>1, <2>2
    <2> QED
      BY <2>3
  <1> DEFINE from == CHOOSE h : Decodes(h)
  <1>5. Decodes(from)
    BY <1>4
  <1>6. Conv!urldecode2(src) = Conv!CString(from[1])
    BY DEF Conv!urldecode2, DecodedAt
  <1> HIDE DEF from
  <1> QED
    BY <1>5, <1>6

\* src holds text as a form does: character k stands at place at[k], as itself, a blank
\* as "+", and any of them also as "%" and two hexadecimal digits.
HoldsText(src, text, at) ==
    /\ at \in [1 .. Len(text) + 1 -> 1 .. Len(src) + 1]
    /\ at[1] = 1 /\ at[Len(text) + 1] = Len(src) + 1
    /\ \A k \in 1 .. Len(text) :
          LET i == at[k]
          IN  \/ /\ at[k + 1] = i + 1
                 /\ \/ src[i] = text[k] /\ text[k] \notin {37, 43}
                    \/ src[i] = 43 /\ text[k] = Conv!Blank
              \/ /\ at[k + 1] = i + 3 /\ src[i] = 37
                 /\ Conv!isxdigit(src[i + 1]) /\ Conv!isxdigit(src[i + 2])
                 /\ 16 * Conv!HexValue(src[i + 1]) + Conv!HexValue(src[i + 2]) = text[k]

\* Whatever a browser escapes of a text, and however it writes its blanks, the field of
\* the form is decoded to the text.
THEOREM FieldComesBack ==
    ASSUME NEW text \in Seq(1 .. 255), NEW src, Len(src) \in Nat, NEW at, HoldsText(src, text, at)
    PROVE  Conv!urldecode2(src) = text
  <1> DEFINE n == Len(text)
  <1>1. n \in Nat /\ DOMAIN text = 1 .. n /\ \A k \in 1 .. n : text[k] \in 1 .. 255
    BY LenProperties, ElementOfSeq
  <1>2. PICK f : /\ \A i \in 1 .. Len(src) + 1 : f[i] = DecodedAt(src, f, i)
                 /\ Conv!urldecode2(src) = Conv!CString(f[1])
    BY Decoding
  <1>3. ASSUME NEW k \in 1 .. n PROVE f[at[k]] = <<text[k]>> \o f[at[k + 1]]
    <2> DEFINE i == at[k]
    <2>1. i \in 1 .. Len(src) + 1 /\ at[k + 1] \in 1 .. Len(src) + 1
      <3> HIDE DEF n
      <3>1. k \in 1 .. n + 1 /\ k + 1 \in 1 .. n + 1
        BY <1>1
      <3> QED
        BY <3>1 DEF HoldsText, n
    <2>2. f[i] = DecodedAt(src, f, i)
      BY <1>2, <2>1
    <2>3. CASE at[k + 1] = i + 1 /\ src[i] = text[k] /\ text[k] \notin {37, 43}
      <3>1. ~(i > Len(src)) /\ ~Conv!Escaped(src, i) /\ src[i] # 43
        BY <2>1, <2>3 DEF Conv!Escaped
      <3> HIDE DEF i
      <3> QED
        BY <2>2, <2>3, <3>1 DEF DecodedAt, i
    <2>4. CASE at[k + 1] = i + 1 /\ src[i] = 43 /\ text[k] = Conv!Blank
      <3>1. ~(i > Len(src)) /\ ~Conv!Escaped(src, i)
        BY <2>1, <2>4 DEF Conv!Escaped
      <3> HIDE DEF i
      <3> QED
        BY <2>2, <2>4, <3>1 DEF DecodedAt, i
    <2>5. CASE /\ at[k + 1] = i + 3 /\ src[i] = 37
               /\ Conv!isxdigit(src[i + 1]) /\ Conv!isxdigit(src[i + 2])
               /\ 16 * Conv!HexValue(src[i + 1]) + Conv!HexValue(src[i + 2]) = text[k]
      <3>1. ~(i > Len(src)) /\ Conv!Escaped(src, i)
        <4> HIDE DEF i
        <4>1. i + 3 <= Len(src) + 1 /\ i \in Nat
          BY <2>1, <2>5
        <4>2. i + 2 <= Len(src) /\ ~(i > Len(src))
          BY <4>1
        <4> QED
          BY <2>5, <4>2, Zenon DEF Conv!Escaped
      <3> HIDE DEF i
      <3> QED
        BY <2>2, <2>5, <3>1 DEF DecodedAt, i
    <2> QED
      BY <2>3, <2>4, <2>5 DEF HoldsText
  <1>4. f[at[n + 1]] = <<>>
    <2>1. at[n + 1] = Len(src) + 1 /\ Len(src) + 1 \in 1 .. Len(src) + 1 /\ Len(src) + 1 > Len(src)
      BY DEF HoldsText
    <2>2. f[Len(src) + 1] = DecodedAt(src, f, Len(src) + 1)
      BY <1>2, <2>1
    <2>3. ~Conv!Escaped(src, Len(src) + 1)
      BY DEF Conv!Escaped
    <2> QED
      BY <2>1, <2>2, <2>3 DEF DecodedAt
  <1> DEFINE S == {m \in Nat : m <= n => f[at[n + 1 - m]] = SubSeq(text, n + 1 - m, n)}
  <1>5. 0 \in S
    <2>1. SubSeq(text, n + 1, n) = <<>> /\ n + 1 - 0 = n + 1
      BY <1>1, SubSeqEmpty
    <2> QED
      BY <1>4, <2>1
  <1>6. ASSUME NEW m \in S PROVE m + 1 \in S
    <2>1. m \in Nat
      OBVIOUS
    <2>2. SUFFICES ASSUME m + 1 <= n PROVE f[at[n + 1 - (m + 1)]] = SubSeq(text, n + 1 - (m + 1), n)
      BY <2>1
    <2> DEFINE k == n - m
    <2>3. k \in 1 .. n /\ n + 1 - (m + 1) = k /\ n + 1 - m = k + 1 /\ m <= n
      <3> HIDE DEF n, S
      <3> QED
        BY <1>1, <2>1, <2>2
    <2>4. f[at[k + 1]] = SubSeq(text, k + 1, n)
      BY <2>3
    <2> HIDE DEF k
    <2>5. f[at[k]] = <<text[k]>> \o SubSeq(text, k + 1, n)
      BY <1>3, <2>3, <2>4
    <2>6. n \in k .. n
      BY <1>1, <2>3
    <2>7. SubSeq(text, k, n) = <<text[k]>> \o SubSeq(text, k + 1, n)
      BY <1>1, <2>3, <2>6, SubSeqRecursiveFirst
    <2> QED
      BY <2>3, <2>5, <2>7
  <1>7. f[1] = text
    <2>1. S = Nat
      BY <1>5, <1>6, SetInduction
    <2>2. n \in S /\ n + 1 - n = 1
      <3> HIDE DEF n, S
      <3> QED
        BY <1>1, <2>1
    <2>3. f[at[1]] = SubSeq(text, 1, n)
      BY <1>1, <2>2
    <2>4. SubSeq(text, 1, n) = text
      BY SubSeqFull
    <2> QED
      BY <2>3, <2>4 DEF HoldsText
  <1>8. Conv!CString(text) = text
    <2>1. \A i \in DOMAIN text : text[i] # 0
      <3> HIDE DEF n
      <3>1. \A c \in 1 .. 255 : c # 0
        OBVIOUS
      <3> QED
        BY <1>1, <3>1
    <2> QED
      BY <2>1 DEF Conv!CString
  <1> QED
    BY <1>2, <1>7, <1>8

\* A text up to its null is no longer than the text.
LEMMA StringIsShorter ==
    ASSUME NEW s \in Seq(Nat)
    PROVE  Len(Conv!CString(s)) \in 0 .. Len(s)
  <1> DEFINE nulls == {i \in DOMAIN s : s[i] = 0}
  <1>1. Len(s) \in Nat /\ DOMAIN s = 1 .. Len(s) /\ \A i \in 1 .. Len(s) : s[i] \in Nat
    BY LenProperties, ElementOfSeq
  <1>2. CASE nulls = {}
    BY <1>1, <1>2 DEF Conv!CString
  <1>3. CASE nulls # {}
    <2>1. nulls \in SUBSET Nat /\ nulls \subseteq 1 .. Len(s)
      BY <1>1
    <2>2. PICK x \in nulls : \A y \in nulls : x <= y
      <3> HIDE DEF nulls
      <3> QED
        BY <1>3, <2>1, Least
    <2>3. Conv!Min(nulls) \in nulls
      <3> HIDE DEF nulls
      <3> QED
        BY <2>2 DEF Conv!Min
    <2>5. Conv!CString(s) = SubSeq(s, 1, Conv!Min(nulls) - 1)
      BY <1>3 DEF Conv!CString
    <2>4. PICK first \in 1 .. Len(s) : first = Conv!Min(nulls)
      BY <2>1, <2>3
    <2> DEFINE last == first - 1
    <2>6. /\ last \in 0 .. Len(s) - 1 /\ last \in Int /\ 1 \in Int
          /\ \A i \in 1 .. last : s[i] \in Nat
      BY <1>1
    <2>7. Len(SubSeq(s, 1, last)) = IF 1 <= last THEN last - 1 + 1 ELSE 0
      BY <2>6, SubSeqProperties
    <2> QED
      BY <1>1, <2>4, <2>5, <2>6, <2>7
  <1> QED
    BY <1>2, <1>3

\* Whatever is received as a field, what it is decoded to is no longer: as handleConfig()
\* says, the "result is always <= source so just copy over".
THEOREM FieldIsDecodedInPlace ==
    ASSUME NEW src \in Seq(0 .. 255)
    PROVE  Len(Conv!urldecode2(src)) <= Len(src)
  <1> DEFINE n == Len(src)
  <1>1. n \in Nat /\ \A i \in 1 .. n : src[i] \in 0 .. 255
    BY LenProperties, ElementOfSeq
  <1>2. PICK f : /\ \A i \in 1 .. n + 1 : f[i] = DecodedAt(src, f, i)
                 /\ Conv!urldecode2(src) = Conv!CString(f[1])
    BY <1>1, Decoding
  <1> DEFINE Short(i) == f[i] \in Seq(Nat) /\ Len(f[i]) <= n + 1 - i
             S == {m \in Nat : \A i \in 1 .. n + 1 : i + m >= n + 1 => Short(i)}
  <1>3. ASSUME NEW i \in 1 .. n + 1, \A j \in i + 1 .. n + 1 : Short(j) PROVE Short(i)
    <2>1. f[i] = DecodedAt(src, f, i)
      BY <1>2
    <2>2. ASSUME NEW c \in Nat, NEW s \in Seq(Nat)
          PROVE  <<c>> \o s \in Seq(Nat) /\ Len(<<c>> \o s) = Len(s) + 1
      BY ConcatProperties
    <2>3. CASE i > n
      <3>1. f[i] = <<>>
        BY <2>1, <2>3 DEF DecodedAt, Conv!Escaped
      <3>2. n + 1 - i = 0
        BY <1>1, <2>3
      <3> QED
        BY <3>1, <3>2
    <2>4. CASE ~(i > n) /\ Conv!Escaped(src, i)
      <3> DEFINE a == Conv!HexValue(src[i + 1])
                 b == Conv!HexValue(src[i + 2])
      <3>1. i + 3 \in i + 1 .. n + 1 /\ Conv!isxdigit(src[i + 1]) /\ Conv!isxdigit(src[i + 2])
        BY <2>4 DEF Conv!Escaped
      <3>2. ASSUME NEW c, Conv!isxdigit(c) PROVE Conv!HexValue(c) \in Nat
        <4>1. CASE c \in 48 .. 57
          <5>1. Conv!HexValue(c) = c - 48
            <6>1. c \notin 65 .. 90 /\ c \notin 97 .. 122
              BY <4>1
            <6> QED
              BY <4>1, <6>1, Zenon DEF Conv!HexValue, Conv!Digit, Conv!Upper, Conv!Lower
          <5> QED
            BY <4>1, <5>1
        <4>2. CASE c \in 65 .. 90
          <5>1. Conv!HexValue(c) = c - 55
            <6>1. c \notin 48 .. 57 /\ c \notin 97 .. 122
              BY <4>2
            <6> QED
              BY <4>2, <6>1, Zenon DEF Conv!HexValue, Conv!Digit, Conv!Upper, Conv!Lower
          <5> QED
            BY <4>2, <5>1
        <4>3. CASE c \in 97 .. 122
          <5>1. Conv!HexValue(c) = c - 87
            <6>1. c \notin 48 .. 57 /\ c \notin 65 .. 90
              BY <4>3
            <6> QED
              BY <4>3, <6>1, Zenon DEF Conv!HexValue, Conv!Digit, Conv!Upper, Conv!Lower
          <5> QED
            BY <4>3, <5>1
        <4>4. c \in 48 .. 57 \/ c \in 65 .. 90 \/ c \in 97 .. 122
          BY <3>2 DEF Conv!isxdigit, Conv!Digit
        <4> QED
          BY <4>1, <4>2, <4>3, <4>4
      <3>3. a \in Nat /\ b \in Nat
        BY <3>1, <3>2
      <3>4. f[i] = <<16 * a + b>> \o f[i + 3]
        BY <2>1, <2>4 DEF DecodedAt
      <3>5. Short(i + 3)
        BY <1>3, <3>1
      <3> HIDE DEF a, b, n
      <3>6. 16 * a + b \in Nat
        BY <3>3
      <3>7. f[i] \in Seq(Nat) /\ Len(f[i]) = Len(f[i + 3]) + 1 /\ Len(f[i + 3]) \in Nat
        BY <2>2, <3>4, <3>5, <3>6, LenProperties
      <3> QED
        BY <1>1, <3>1, <3>5, <3>7
    <2>5. CASE ~(i > n) /\ ~Conv!Escaped(src, i)
      <3> DEFINE c == IF src[i] = 43 THEN Conv!Blank ELSE src[i]
      <3>1. i \in 1 .. n /\ i + 1 \in i + 1 .. n + 1
        <4> HIDE DEF n
        <4> QED BY <1>1, <2>5
      <3>2. c \in Nat
        <4>1. src[i] \in 0 .. 255
          BY <1>1, <3>1
        <4>2. Conv!Blank \in Nat
          BY DEF Conv!Blank
        <4>3. \A x \in 0 .. 255 : x \in Nat
          OBVIOUS
        <4> QED
          BY <4>1, <4>2, <4>3, Zenon
      <3>3. f[i] = <<c>> \o f[i + 1]
        BY <2>1, <2>5 DEF DecodedAt
      <3>4. Short(i + 1)
        BY <1>3, <3>1
      <3> HIDE DEF c, n
      <3>5. f[i] \in Seq(Nat) /\ Len(f[i]) = Len(f[i + 1]) + 1 /\ Len(f[i + 1]) \in Nat
        BY <2>2, <3>2, <3>3, <3>4, LenProperties
      <3> QED
        BY <1>1, <3>1, <3>4, <3>5
    <2> QED
      BY <2>3, <2>4, <2>5
  <1> HIDE DEF Short, n
  <1>4. 0 \in S
    <2>1. ASSUME NEW i \in 1 .. n + 1, i + 0 >= n + 1 PROVE Short(i)
      <3>1. \A j \in i + 1 .. n + 1 : FALSE
        BY <1>1, <2>1
      <3> QED
        BY <1>3, <3>1
    <2> QED
      BY <2>1
  <1>5. ASSUME NEW m \in S PROVE m + 1 \in S
    <2>1. m \in Nat /\ \A i \in 1 .. n + 1 : i + m >= n + 1 => Short(i)
      OBVIOUS
    <2>2. ASSUME NEW i \in 1 .. n + 1, i + (m + 1) >= n + 1 PROVE Short(i)
      <3>1. \A j \in i + 1 .. n + 1 : j \in 1 .. n + 1 /\ j + m >= n + 1
        BY <1>1, <2>1, <2>2
      <3> QED
        BY <1>3, <2>1, <3>1
    <2> QED
      BY <2>1, <2>2
  <1>6. Short(1)
    <2>1. S = Nat
      <3> HIDE DEF S
      <3>1. S \in SUBSET Nat
        BY DEF S
      <3> QED
        BY <1>4, <1>5, <3>1, SetInduction
    <2>2. n \in S /\ 1 \in 1 .. n + 1 /\ 1 + n >= n + 1
      <3> HIDE DEF S
      <3> QED
        BY <1>1, <2>1
    <2> QED
      BY <2>2
  <1>7. f[1] \in Seq(Nat) /\ Len(f[1]) <= n
    BY <1>1, <1>6 DEF Short
  <1>8. Len(Conv!CString(f[1])) \in 0 .. Len(f[1])
    BY <1>7, StringIsShorter
  <1>9. Len(f[1]) \in Nat
    BY <1>7, LenProperties
  <1> QED
    BY <1>1, <1>2, <1>7, <1>8, <1>9 DEF n
================================================================================
