----------------------------- MODULE ControllerApps -----------------------------
(***************************************************************************)
(* The Android apps with the blinds they control.  Controller version 2    *)
(* opens a socket in a background task whenever blinds are tapped and      *)
(* writes commands to it; version 1 opens one for each press of a button   *)
(* and waits for an echo.  A third client, the pfodApp, confirms what is   *)
(* on hold.  Each of the blinds serves one connection at a time; what it   *)
(* does with a message is the sketch of BlindsServer, with its timers left *)
(* out: the idle time-out may come whenever nothing has been read.         *)
(*                                                                         *)
(* A command is its letter; "line" is what version 1 sends, which has no   *)
(* braces and which the parser of the sketch passes over.                  *)
(***************************************************************************)
EXTENDS Integers, Sequences

CONSTANTS
    Blinds, None,
    Commands,       \* letters of the messages of version 2
    SamePort,       \* the blinds listen on one port number
    MaxSockets,     \* bound: sockets that are ever opened
    MaxSent,        \* bound: messages that wait to be read, for each socket
    MaxTasks        \* bound: connection tasks that run or wait, and their results

ASSUME AppsAssumption ==
    /\ None \notin Blinds \cup Commands /\ {"$", "!", "line"} \cap (Commands \cup {None}) = {}
    /\ SamePort \in BOOLEAN /\ {MaxSockets, MaxSent, MaxTasks} \subseteq Nat

VARIABLES
    ipAddress, portNumber,  \* version 2: of which blinds; see Tap
    tapping,                \* onItemClick() has set the first of them
    tasks,                  \* tasks that have not ended, and what each has read
    posts,                  \* results not yet handed to onPostExecute()
    socket,                 \* the shared socket, or 0
    isConnect,              \* the colour of textViewIsConnect
    connected,              \* history: the last task that ended has connected
    waiting,                \* version 1: the socket of a press, or 0
    opened,                 \* every socket: [by, to, open, sent]
    client,                 \* what each of the blinds serves, or 0
    backlog,                \* what waits to be served
    held, running,          \* on hold, and the motor driven
    said                    \* the last command read, or None

v2Vars     == <<ipAddress, portNumber, tapping, tasks, posts, socket, isConnect, connected>>
blindsVars == <<client, backlog, held, running, said>>
vars       == <<v2Vars, waiting, opened, blindsVars>>

Apps     == {"v1", "v2", "pfodApp"}
Messages == Commands \cup {"$", "line"}
Sockets  == [by : Apps, to : Blinds, open : BOOLEAN, sent : Seq(Messages)]

\* A task has looked up the address before it reads the port.
Task == {t \in [address : Blinds \cup {None}, port : Blinds \cup {None}] :
            t.address = None => t.port = None}

TypeOK ==
    /\ {ipAddress, portNumber} \subseteq Blinds \cup {None} /\ tapping \in BOOLEAN
    /\ tasks \in Seq(Task) /\ posts \in Seq(BOOLEAN)
    /\ opened \in Seq(Sockets)
    /\ {socket, waiting} \subseteq 0 .. Len(opened)
    /\ isConnect \in {"none", "red", "green"} /\ connected \in BOOLEAN
    /\ client \in [Blinds -> 0 .. Len(opened)] /\ backlog \in [Blinds -> Seq(1 .. Len(opened))]
    /\ held \in [Blinds -> Commands \cup {"$", "!", None}]
    /\ running \in [Blinds -> Commands \cup {None}]
    /\ said \in [Blinds -> Commands \cup {"$", "!", None}]

Init ==
    /\ ipAddress = None /\ portNumber = None /\ tapping = FALSE
    /\ tasks = <<>> /\ posts = <<>> /\ socket = 0
    /\ isConnect = "none" /\ connected = FALSE
    /\ waiting = 0 /\ opened = <<>>
    /\ client = [b \in Blinds |-> 0] /\ backlog = [b \in Blinds |-> <<>>]
    /\ held = [b \in Blinds |-> None] /\ running = [b \in Blinds |-> None]
    /\ said = [b \in Blinds |-> None]

--------------------------------------------------------------------------------
(* Sockets.  A socket is connected as soon as it is in the backlog.          *)

NewSocket == Len(opened) + 1

Open(app, b) ==
    /\ Len(opened) < MaxSockets
    /\ opened' = Append(opened, [by |-> app, to |-> b, open |-> TRUE, sent |-> <<>>])
    /\ backlog' = [backlog EXCEPT ![b] = Append(@, NewSocket)]
    /\ UNCHANGED <<client, held, running, said>>

\* Nobody learns that the blinds of a socket have lost their power.
Send(s, m) ==
    /\ Len(opened[s].sent) < MaxSent
    /\ opened' = [opened EXCEPT ![s].sent = Append(@, m)]

CloseAllOf(app) ==
    opened' = [s \in DOMAIN opened |-> IF opened[s].by = app THEN [opened[s] EXCEPT !.open = FALSE]
                                                             ELSE opened[s]]

--------------------------------------------------------------------------------
(* Controller, version 2: Home.java. *)

\* onItemClick() in the UI thread: a task may read between the assignments.
TapFirst(b) ==
    /\ ~tapping /\ Len(tasks) + Len(posts) < MaxTasks
    /\ tapping' = TRUE /\ ipAddress' = b
    /\ UNCHANGED <<portNumber, tasks, posts, socket, isConnect, connected, waiting, opened, blindsVars>>

\* execute() calls onPreExecute() at once and appends the task.
TapThen ==
    /\ tapping /\ tapping' = FALSE
    /\ portNumber' = ipAddress
    /\ tasks' = Append(tasks, [address |-> None, port |-> None]) /\ isConnect' = "red"
    /\ UNCHANGED <<ipAddress, posts, socket, connected, waiting, opened, blindsVars>>

\* AsyncTasks run one after the other.
RunsInPool(i) == i \in {1, 2}                                     \* mutant
Runs(i)       == i = 1

\* doInBackground(): the address, the port and the connection.
TaskLooksUp(i) ==
    /\ i \in DOMAIN tasks /\ Runs(i) /\ tasks[i].address = None
    /\ tasks' = [tasks EXCEPT ![i].address = ipAddress]
    /\ UNCHANGED <<ipAddress, portNumber, tapping, posts, socket, isConnect, connected,
                   waiting, opened, blindsVars>>

TaskReadsPort(i) ==
    /\ i \in DOMAIN tasks /\ Runs(i) /\ tasks[i].address # None /\ tasks[i].port = None
    /\ tasks' = [tasks EXCEPT ![i].port = portNumber]
    /\ UNCHANGED <<ipAddress, portNumber, tapping, posts, socket, isConnect, connected,
                   waiting, opened, blindsVars>>

TaskEnds(i) ==
    /\ i \in DOMAIN tasks /\ Runs(i) /\ tasks[i].port # None
    /\ tasks' = SubSeq(tasks, 1, i - 1) \o SubSeq(tasks, i + 1, Len(tasks))
    /\ \/ /\ tasks[i].address = tasks[i].port \/ SamePort
          /\ Open("v2", tasks[i].address) /\ socket' = NewSocket
          /\ connected' = TRUE /\ posts' = Append(posts, TRUE)
       \/ /\ connected' = FALSE /\ posts' = Append(posts, FALSE)
          /\ UNCHANGED <<socket, opened, blindsVars>>
    /\ UNCHANGED <<ipAddress, portNumber, tapping, isConnect, waiting>>

onPostExecute ==
    /\ posts # <<>> /\ posts' = Tail(posts)
    /\ isConnect' = IF Head(posts) THEN "green" ELSE isConnect
    /\ UNCHANGED <<ipAddress, portNumber, tapping, tasks, socket, connected, waiting, opened, blindsVars>>

\* A button.  PrintWriter throws nothing: any socket will do.
sendCommand(x) ==
    /\ ~tapping /\ socket # 0
    /\ Send(socket, x)
    /\ UNCHANGED <<v2Vars, waiting, blindsVars>>

\* The app is ended: only now are its sockets closed.
EndV2 ==
    /\ socket # 0 /\ CloseAllOf("v2")
    /\ ipAddress' = None /\ portNumber' = None /\ tapping' = FALSE
    /\ tasks' = <<>> /\ posts' = <<>> /\ socket' = 0
    /\ isConnect' = "none" /\ connected' = FALSE
    /\ UNCHANGED <<waiting, blindsVars>>

V2 == \/ \E b \in Blinds : TapFirst(b)
      \/ TapThen \/ onPostExecute \/ EndV2
      \/ \E i \in 1 .. MaxTasks : TaskLooksUp(i) \/ TaskReadsPort(i) \/ TaskEnds(i)
      \/ \E x \in Commands : sendCommand(x)

--------------------------------------------------------------------------------
(* Controller, version 1: Controller.java.  readLine() has no time-out, and   *)
(* the blinds send no line: onClick() does not return.                       *)

PressV1(b) ==
    /\ waiting = 0 /\ Len(opened) < MaxSockets
    /\ opened' = Append(opened, [by |-> "v1", to |-> b, open |-> TRUE, sent |-> <<"line">>])
    /\ backlog' = [backlog EXCEPT ![b] = Append(@, NewSocket)]
    /\ waiting' = NewSocket
    /\ UNCHANGED <<v2Vars, client, held, running, said>>

EndV1 ==
    /\ waiting # 0 /\ waiting' = 0 /\ CloseAllOf("v1")
    /\ UNCHANGED <<v2Vars, blindsVars>>

(* The pfodApp (external). *)

PfodAppOpens(b) == Open("pfodApp", b) /\ UNCHANGED <<v2Vars, waiting>>

PfodAppSends(s) ==
    /\ s \in DOMAIN opened /\ opened[s].by = "pfodApp" /\ opened[s].open
    /\ \E m \in Commands \cup {"$"} : Send(s, m)
    /\ UNCHANGED <<v2Vars, waiting, blindsVars>>

PfodAppCloses ==
    /\ \E s \in DOMAIN opened : opened[s].by = "pfodApp" /\ opened[s].open
    /\ CloseAllOf("pfodApp")
    /\ UNCHANGED <<v2Vars, waiting, blindsVars>>

--------------------------------------------------------------------------------
(* The blinds: loop() of the sketch. *)

appsUnchanged == UNCHANGED <<v2Vars, waiting>>

\* WiFiClient::connected()
Connected(s) == s # 0 /\ (opened[s].open \/ opened[s].sent # <<>>)
InLoop(b)    == running[b] = None

\* available(): the next connection, when the last one has gone.
Available(b) ==
    /\ InLoop(b) /\ ~Connected(client[b])
    /\ client[b] # 0 \/ backlog[b] # <<>>
    /\ IF backlog[b] = <<>>
       THEN client' = [client EXCEPT ![b] = 0] /\ UNCHANGED backlog
       ELSE /\ client' = [client EXCEPT ![b] = Head(backlog[b])]
            /\ backlog' = [backlog EXCEPT ![b] = Tail(@)]
    /\ UNCHANGED <<opened, held, running, said>> /\ appsUnchanged

\* The next message x of the client, or the time-out of parse(), which is "!".
Reads(b, x) ==
    /\ InLoop(b) /\ Connected(client[b])
    /\ \/ /\ opened[client[b]].sent # <<>> /\ x = Head(opened[client[b]].sent)
          /\ opened' = [opened EXCEPT ![client[b]].sent = Tail(@)]
       \/ x = "!" /\ opened[client[b]].sent = <<>> /\ UNCHANGED opened

PassesOver(b) ==
    /\ Reads(b, "line")
    /\ UNCHANGED blindsVars /\ appsUnchanged

\* parse() returns x.
Obeys(b, x) == Reads(b, x) /\ said' = [said EXCEPT ![b] = x]

Stores(b) ==
    /\ held[b] = None
    /\ \E x \in Commands \cup {"$", "!"} : Obeys(b, x) /\ held' = [held EXCEPT ![b] = x]
    /\ UNCHANGED <<client, backlog, running>> /\ appsUnchanged

\* "$": a motor command is carried out, in five seconds.
ConfirmsAny(b) == TRUE                                            \* mutant
IsMotor(b)     == held[b] \in Commands
Confirms(b) ==
    /\ held[b] # None /\ Obeys(b, "$")
    /\ IF IsMotor(b)
       THEN running' = [running EXCEPT ![b] = held[b]] /\ UNCHANGED held
       ELSE held' = [held EXCEPT ![b] = None] /\ UNCHANGED running
    /\ UNCHANGED <<client, backlog>> /\ appsUnchanged

Rejects(b) ==
    /\ held[b] # None
    /\ \E x \in Commands \cup {"!"} : Obeys(b, x)
    /\ held' = [held EXCEPT ![b] = None]
    /\ UNCHANGED <<client, backlog, running>> /\ appsUnchanged

MotorDone(b) ==
    /\ running[b] # None
    /\ running' = [running EXCEPT ![b] = None] /\ held' = [held EXCEPT ![b] = None]
    /\ UNCHANGED <<client, backlog, opened, said>> /\ appsUnchanged

\* Power is cut and comes back: what was sent, and what waited, is lost.
PowerCycle(b) ==
    /\ client' = [client EXCEPT ![b] = 0] /\ backlog' = [backlog EXCEPT ![b] = <<>>]
    /\ held' = [held EXCEPT ![b] = None] /\ running' = [running EXCEPT ![b] = None]
    /\ said' = [said EXCEPT ![b] = None]
    /\ opened' = [s \in DOMAIN opened |-> IF opened[s].to = b THEN [opened[s] EXCEPT !.sent = <<>>]
                                                              ELSE opened[s]]
    /\ appsUnchanged

Loop(b) == Available(b) \/ PassesOver(b) \/ Stores(b) \/ Confirms(b) \/ Rejects(b) \/ MotorDone(b)

--------------------------------------------------------------------------------
(* Everything together. *)

Next == \/ V2 \/ EndV1 \/ PfodAppCloses
        \/ \E b \in Blinds : PressV1(b) \/ PfodAppOpens(b) \/ Loop(b) \/ PowerCycle(b)
        \/ \E s \in 1 .. MaxSockets : PfodAppSends(s)

Spec == Init /\ [][Next]_vars

--------------------------------------------------------------------------------
(* Properties. *)

\* However often the user taps while connections are being made: when no task
\* is left and the last one has connected, the shared socket goes to the blinds
\* that were tapped last, and the app shows that it is connected.
LastTapWins ==
    (tasks = <<>> /\ posts = <<>> /\ ~tapping /\ connected)
        => opened[socket].to = ipAddress /\ isConnect = "green"

\* Each of the blinds carries out the two-phase command of TwoPhaseCommand, to
\* whichever app its messages belong.
TwoPhase(b) == INSTANCE TwoPhaseCommand WITH
    Commands <- Commands \cup {"$", "!"}, Motors <- Commands, Confirm <- "$",
    held <- held[b], running <- running[b], said <- said[b]
ImplementsTwoPhaseCommand ==
    /\ \A b \in Blinds : TwoPhase(b)!Init
    /\ [][\A b \in Blinds : TwoPhase(b)!Next \/ UNCHANGED <<held[b], running[b], said[b]>>]_vars
================================================================================
