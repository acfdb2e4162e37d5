-------------------------- MODULE ControllerAppsProofs --------------------------
(***************************************************************************)
(* What holds of ControllerApps for any blinds, commands and ports, and    *)
(* for any number of sockets, messages and connection tasks: each of the   *)
(* blinds carries out a two-phase command, whoever sends its parts, and    *)
(* the last tap decides which blinds version 2 is connected to.            *)
(***************************************************************************)
EXTENDS ControllerApps, SequenceTheorems, TLAPS

\* What the tasks and their results are made of.
TapsOK == /\ {ipAddress, portNumber} \subseteq Blinds \cup {None} /\ tapping \in BOOLEAN
          /\ tasks \in Seq(Task)
ShownOK == /\ posts \in Seq(BOOLEAN) /\ connected \in BOOLEAN
           /\ isConnect \in {"none", "red", "green"}
SocketsOK ==
    /\ opened \in Seq(Sockets)
    /\ socket \in 0 .. Len(opened) /\ waiting \in 0 .. Len(opened)
    /\ client \in [Blinds -> 0 .. Len(opened)]
    /\ backlog \in [Blinds -> Seq(1 .. Len(opened))]
HeldOK == /\ held \in [Blinds -> Commands \cup {"$", "!", None}]
          /\ running \in [Blinds -> Commands \cup {None}]
          /\ said \in [Blinds -> Commands \cup {"$", "!", None}]

\* The task of the last tap comes last, and has looked up what was tapped, or
\* has yet to.
LastTask == ~tapping /\ tasks # <<>> => tasks[Len(tasks)].address \in {None, ipAddress}

\* When it has ended with a connection, the socket is its own, and the app
\* shows so or is about to.
Settled == tasks = <<>> /\ ~tapping /\ connected
LastSocket == Settled => /\ socket # 0 /\ opened[socket].to = ipAddress
                         /\ posts = <<>> => isConnect = "green"
                         /\ posts # <<>> => posts[Len(posts)]

IInv == TapsOK /\ ShownOK /\ SocketsOK /\ HeldOK /\ LastTask /\ LastSocket

--------------------------------------------------------------------------------
(* Sockets. *)

\* What no step does to the sockets: to drop one or to turn it to other blinds.
Keeps == /\ Len(opened) <= Len(opened')
         /\ \A s \in 1 .. Len(opened) : opened'[s].to = opened[s].to

\* What a step that appends an element makes of a sequence.
LEMMA AppendFacts ==
    ASSUME NEW S, NEW s \in Seq(S), NEW e \in S
    PROVE  /\ Append(s, e) \in Seq(S) /\ Append(s, e) # <<>>
           /\ Len(Append(s, e)) = Len(s) + 1
           /\ Append(s, e)[Len(Append(s, e))] = e
           /\ \A i \in 1 .. Len(s) : Append(s, e)[i] = s[i]
  <1>1. /\ Append(s, e) \in Seq(S) /\ Len(Append(s, e)) = Len(s) + 1
        /\ \A i \in 1 .. Len(s) : Append(s, e)[i] = s[i]
        /\ Append(s, e)[Len(s) + 1] = e
    BY AppendProperties
  <1>2. Append(s, e) # <<>>
    BY <1>1, LenProperties, EmptySeq
  <1> QED BY <1>1, <1>2

\* A new socket waits in the backlog of its blinds.
LEMMA OpenFacts ==
    ASSUME SocketsOK, NEW app \in Apps, NEW b \in Blinds, NEW sent \in Seq(Messages),
           opened' = Append(opened, [by |-> app, to |-> b, open |-> TRUE, sent |-> sent]),
           backlog' = [backlog EXCEPT ![b] = Append(@, NewSocket)], client' = client
    PROVE  /\ opened' \in Seq(Sockets) /\ Len(opened') = Len(opened) + 1 /\ Keeps
           /\ NewSocket \in 1 .. Len(opened') /\ opened'[NewSocket].to = b
           /\ client' \in [Blinds -> 0 .. Len(opened')]
           /\ backlog' \in [Blinds -> Seq(1 .. Len(opened'))]
  <1> DEFINE new == [by |-> app, to |-> b, open |-> TRUE, sent |-> sent]
             n == Len(opened)
  <1>1. new \in Sockets /\ new.to = b
    BY DEF Sockets
  <1>2. n \in Nat
    BY LenProperties DEF SocketsOK
  <1> HIDE DEF new
  <1>3. opened' = Append(opened, new)
    BY DEF new
  <1>4. /\ opened' \in Seq(Sockets) /\ Len(opened') = n + 1
        /\ opened'[n + 1] = new
        /\ \A i \in 1 .. n : opened'[i] = opened[i]
    BY <1>1, <1>3, AppendFacts DEF SocketsOK
  <1>5. Keeps /\ NewSocket = n + 1 /\ NewSocket \in 1 .. Len(opened')
    BY <1>2, <1>4 DEF Keeps, NewSocket
  <1>6. client' \in [Blinds -> 0 .. Len(opened')]
    <2>1. 0 .. n \subseteq 0 .. n + 1 BY <1>2
    <2> QED BY <1>4, <2>1 DEF SocketsOK
  <1>7. backlog' \in [Blinds -> Seq(1 .. Len(opened'))]
    <2>1. 1 .. n \subseteq 1 .. n + 1 BY <1>2
    <2>2. \A x \in Blinds : backlog[x] \in Seq(1 .. n + 1)
      BY <2>1, SeqMonotonic DEF SocketsOK
    <2>3. Append(backlog[b], NewSocket) \in Seq(1 .. n + 1)
      <3>1. NewSocket \in 1 .. n + 1 BY <1>2, <1>5
      <3> QED BY <2>2, <3>1, AppendProperties
    <2>4. backlog \in [Blinds -> Seq(1 .. n + 1)]
      BY <2>2 DEF SocketsOK
    <2> QED BY <1>4, <2>3, <2>4
  <1> QED BY <1>1, <1>4, <1>5, <1>6, <1>7

\* Sockets that change, but not to whom they go.
LEMMA ChangeFacts ==
    ASSUME SocketsOK, NEW t \in [1 .. Len(opened) -> Sockets], opened' = t,
           \A s \in 1 .. Len(opened) : t[s].to = opened[s].to
    PROVE  opened' \in Seq(Sockets) /\ Len(opened') = Len(opened) /\ Keeps
  <1>1. Len(opened) \in Nat
    BY LenProperties DEF SocketsOK
  <1>2. t \in Seq(Sockets)
    BY <1>1, SeqDef
  <1>3. Len(t) = Len(opened)
    BY <1>1, <1>2, LenProperties
  <1> QED BY <1>1, <1>2, <1>3 DEF Keeps

\* One socket gets or loses a message.
LEMMA SentFacts ==
    ASSUME SocketsOK, NEW s \in 1 .. Len(opened), NEW q \in Seq(Messages),
           opened' = [opened EXCEPT ![s].sent = q]
    PROVE  opened' \in Seq(Sockets) /\ Len(opened') = Len(opened) /\ Keeps
  <1>1. opened \in [1 .. Len(opened) -> Sockets]
    BY LenProperties DEF SocketsOK
  <1>2. [opened[s] EXCEPT !.sent = q] \in Sockets /\ [opened[s] EXCEPT !.sent = q].to = opened[s].to
    BY <1>1 DEF Sockets
  <1>3. opened' = [opened EXCEPT ![s] = [opened[s] EXCEPT !.sent = q]]
    OBVIOUS
  <1>4. /\ opened' \in [1 .. Len(opened) -> Sockets]
        /\ \A i \in 1 .. Len(opened) : opened'[i].to = opened[i].to
    BY <1>1, <1>2, <1>3
  <1> QED BY <1>4, ChangeFacts

\* An app closes what it has opened.
LEMMA CloseFacts ==
    ASSUME SocketsOK, NEW app, CloseAllOf(app)
    PROVE  opened' \in Seq(Sockets) /\ Len(opened') = Len(opened) /\ Keeps
  <1>1. opened \in [1 .. Len(opened) -> Sockets] /\ DOMAIN opened = 1 .. Len(opened)
    BY LenProperties DEF SocketsOK
  <1>2. \A s \in 1 .. Len(opened) :
            /\ [opened[s] EXCEPT !.open = FALSE] \in Sockets
            /\ [opened[s] EXCEPT !.open = FALSE].to = opened[s].to
    BY <1>1 DEF Sockets
  <1>3. /\ opened' \in [1 .. Len(opened) -> Sockets]
        /\ \A s \in 1 .. Len(opened) : opened'[s].to = opened[s].to
    BY <1>1, <1>2 DEF CloseAllOf
  <1> QED BY <1>3, ChangeFacts

\* A power cycle of b loses what was sent to it.
LEMMA LoseFacts ==
    ASSUME SocketsOK, NEW b \in Blinds,
           opened' = [s \in DOMAIN opened |-> IF opened[s].to = b
                                              THEN [opened[s] EXCEPT !.sent = <<>>]
                                              ELSE opened[s]]
    PROVE  opened' \in Seq(Sockets) /\ Len(opened') = Len(opened) /\ Keeps
  <1>1. opened \in [1 .. Len(opened) -> Sockets] /\ DOMAIN opened = 1 .. Len(opened)
    BY LenProperties DEF SocketsOK
  <1>2. <<>> \in Seq(Messages)
    BY EmptySeq
  <1>3. \A s \in 1 .. Len(opened) :
            /\ [opened[s] EXCEPT !.sent = <<>>] \in Sockets
            /\ [opened[s] EXCEPT !.sent = <<>>].to = opened[s].to
    BY <1>1, <1>2 DEF Sockets
  <1>4. /\ opened' \in [1 .. Len(opened) -> Sockets]
        /\ \A s \in 1 .. Len(opened) : opened'[s].to = opened[s].to
    BY <1>1, <1>3
  <1> QED BY <1>4, ChangeFacts

\* Steps that leave version 2 alone keep what it knows of its socket.
LEMMA V2Unchanged ==
    ASSUME IInv, UNCHANGED v2Vars, Keeps
    PROVE  TapsOK' /\ ShownOK' /\ LastTask' /\ LastSocket' /\ socket' = socket
           /\ socket' \in 0 .. Len(opened')
  <1>1. UNCHANGED <<ipAddress, portNumber, tapping, tasks>>
        /\ UNCHANGED <<posts, socket, isConnect, connected>>
    BY DEF v2Vars
  <1>2. TapsOK' /\ LastTask'
    BY <1>1 DEF IInv, TapsOK, LastTask
  <1>3. ShownOK'
    BY <1>1 DEF IInv, ShownOK
  <1>4. socket \in 0 .. Len(opened) /\ Len(opened) \in Nat /\ Len(opened) <= Len(opened')
    BY LenProperties DEF IInv, SocketsOK, Keeps
  <1>5. socket # 0 => opened'[socket].to = opened[socket].to
    BY <1>4 DEF Keeps
  <1>6. LastSocket'
    BY <1>1, <1>5 DEF IInv, LastSocket, Settled
  <1>7. socket' \in 0 .. Len(opened')
    BY <1>1, <1>4
  <1> QED BY <1>1, <1>2, <1>3, <1>6, <1>7

--------------------------------------------------------------------------------
(* Version 2. *)

\* A tap begins: the address is that of other blinds.
LEMMA TapFirstStep ==
    ASSUME IInv, NEW b \in Blinds, TapFirst(b)
    PROVE  IInv'
  <1>1. /\ UNCHANGED <<portNumber, tasks, posts, socket, isConnect, connected>>
        /\ UNCHANGED <<waiting, opened, client, backlog, held, running, said>>
        /\ tapping' = TRUE /\ ipAddress' = b
    BY DEF TapFirst, blindsVars
  <1>2. TapsOK' /\ ShownOK'
    BY <1>1 DEF IInv, TapsOK, ShownOK
  <1>3. SocketsOK' /\ HeldOK'
    BY <1>1 DEF IInv, SocketsOK, HeldOK
  <1>4. LastTask' /\ LastSocket'
    BY <1>1 DEF LastTask, LastSocket, Settled
  <1> QED BY <1>2, <1>3, <1>4 DEF IInv

\* It ends with a task of its own.
LEMMA TapThenStep ==
    ASSUME IInv, TapThen
    PROVE  IInv'
  <1>1. /\ UNCHANGED <<ipAddress, posts, socket, connected>>
        /\ UNCHANGED <<waiting, opened, client, backlog, held, running, said>>
        /\ tapping' = FALSE /\ portNumber' = ipAddress
        /\ tasks' = Append(tasks, [address |-> None, port |-> None]) /\ isConnect' = "red"
    BY DEF TapThen, blindsVars
  <1>2. /\ tasks' \in Seq(Task) /\ tasks' # <<>>
        /\ tasks'[Len(tasks')].address = None
    <2> DEFINE new == [address |-> None, port |-> None]
    <2>1. new \in Task /\ new.address = None BY DEF Task
    <2> HIDE DEF new
    <2>2. tasks' = Append(tasks, new) BY <1>1 DEF new
    <2> QED BY <2>1, <2>2, AppendFacts DEF IInv, TapsOK
  <1>3. TapsOK' /\ ShownOK'
    BY <1>1, <1>2 DEF IInv, TapsOK, ShownOK
  <1>4. SocketsOK' /\ HeldOK'
    BY <1>1 DEF IInv, SocketsOK, HeldOK
  <1>5. LastTask' /\ LastSocket'
    BY <1>1, <1>2 DEF LastTask, LastSocket, Settled
  <1> QED BY <1>3, <1>4, <1>5 DEF IInv

\* What a task has read is still that of a task when it reads one thing more.
LEMMA TaskFacts ==
    ASSUME NEW t \in Task, NEW x \in Blinds \cup {None}
    PROVE  /\ t.address = None => /\ [t EXCEPT !.address = x] \in Task
                                  /\ [t EXCEPT !.address = x].address = x
           /\ t.address # None => /\ [t EXCEPT !.port = x] \in Task
                                  /\ [t EXCEPT !.port = x].address = t.address
           /\ t.port # None => t.address \in Blinds
  BY DEF Task

\* The task that runs, which is the first, looks up the address or the port.
LEMMA LookUpStep ==
    ASSUME IInv, NEW i \in 1 .. MaxTasks, TaskLooksUp(i) \/ TaskReadsPort(i)
    PROVE  IInv'
  <1>1. /\ UNCHANGED <<ipAddress, portNumber, tapping, posts, socket, isConnect, connected>>
        /\ UNCHANGED <<waiting, opened, client, backlog, held, running, said>>
        /\ i = 1 /\ i \in DOMAIN tasks
        /\ \/ tasks' = [tasks EXCEPT ![i].address = ipAddress] /\ tasks[i].address = None
           \/ tasks' = [tasks EXCEPT ![i].port = portNumber] /\ tasks[i].address # None
    BY DEF TaskLooksUp, TaskReadsPort, Runs, blindsVars
  <1>2. /\ tasks \in Seq(Task) /\ {ipAddress, portNumber} \subseteq Blinds \cup {None}
        /\ DOMAIN tasks = 1 .. Len(tasks) /\ Len(tasks) \in Nat
    BY LenProperties DEF IInv, TapsOK
  <1>3. PICK t \in Task : /\ tasks' = [tasks EXCEPT ![i] = t]
                          /\ t.address \in {tasks[i].address, ipAddress}
    <2>1. tasks[i] \in Task BY <1>1, <1>2, ElementOfSeq
    <2>2. CASE tasks' = [tasks EXCEPT ![i].address = ipAddress] /\ tasks[i].address = None
      <3>1. /\ [tasks[i] EXCEPT !.address = ipAddress] \in Task
            /\ [tasks[i] EXCEPT !.address = ipAddress].address = ipAddress
        BY <1>2, <2>1, <2>2, TaskFacts
      <3>2. tasks' = [tasks EXCEPT ![i] = [tasks[i] EXCEPT !.address = ipAddress]]
        BY <2>2
      <3> QED BY <3>1, <3>2
    <2>3. CASE tasks' = [tasks EXCEPT ![i].port = portNumber] /\ tasks[i].address # None
      <3>1. /\ [tasks[i] EXCEPT !.port = portNumber] \in Task
            /\ [tasks[i] EXCEPT !.port = portNumber].address = tasks[i].address
        BY <1>2, <2>1, <2>3, TaskFacts
      <3>2. tasks' = [tasks EXCEPT ![i] = [tasks[i] EXCEPT !.port = portNumber]]
        BY <2>3
      <3> QED BY <3>1, <3>2
    <2> QED BY <1>1, <2>2, <2>3
  <1>9. /\ tasks' \in Seq(Task) /\ Len(tasks') = Len(tasks)
        /\ \A j \in 1 .. Len(tasks) : tasks'[j] = IF j = i THEN t ELSE tasks[j]
    BY <1>1, <1>2, <1>3, ExceptSeq
  <1>4. tasks # <<>> /\ tasks' # <<>>
    BY <1>1, <1>2, <1>9, EmptySeq
  <1>5. TapsOK' /\ ShownOK'
    BY <1>1, <1>9 DEF IInv, TapsOK, ShownOK
  <1>6. SocketsOK' /\ HeldOK'
    BY <1>1 DEF IInv, SocketsOK, HeldOK
  <1>7. LastTask'
    <2>1. Len(tasks) \in 1 .. Len(tasks) BY <1>1, <1>2
    <2> QED BY <1>1, <1>3, <1>4, <1>9, <2>1 DEF IInv, LastTask
  <1>8. LastSocket'
    BY <1>1, <1>4 DEF LastSocket, Settled
  <1> QED BY <1>5, <1>6, <1>7, <1>8 DEF IInv

\* When the first task has ended, the others are what they were.
LEMMA RestOfTasks ==
    ASSUME NEW S, NEW s \in Seq(S), s # <<>>
    PROVE  SubSeq(s, 1, 1 - 1) \o SubSeq(s, 1 + 1, Len(s)) = Tail(s)
  <1>1. SubSeq(s, 1, 0) = <<>>
    BY SubSeqEmpty
  <1>2. Tail(s) = SubSeq(s, 2, Len(s)) /\ Tail(s) \in Seq(S)
    BY TailIsSubSeq, HeadTailProperties
  <1>3. <<>> \o Tail(s) = Tail(s)
    BY <1>2, ConcatEmptySeq
  <1>4. 1 - 1 = 0 /\ 1 + 1 = 2
    OBVIOUS
  <1> QED BY <1>1, <1>2, <1>3, <1>4

\* The first element of a sequence is its last, or leaves the last in place.
LEMMA TailFacts ==
    ASSUME NEW S, NEW s \in Seq(S), s # <<>>
    PROVE  /\ Tail(s) \in Seq(S) /\ Head(s) = s[1]
           /\ Tail(s) = <<>> => s[1] = s[Len(s)]
           /\ Tail(s) # <<>> => Tail(s)[Len(Tail(s))] = s[Len(s)]
  <1> DEFINE t == Tail(s)
             n == Len(s)
             k == Len(t)
  <1>1. t \in Seq(S) /\ k = n - 1 /\ n \in Nat \ {0} /\ (t # <<>> => k \in Nat \ {0})
    BY HeadTailProperties, EmptySeq
  <1>2. t = <<>> => k = 0
    BY EmptySeq
  <1>3. \A i \in 1 .. k : t[i] = s[i + 1]
    BY HeadTailProperties
  <1>4. Head(s) = s[1]
    OBVIOUS
  <1> HIDE DEF t, n, k
  <1>5. t = <<>> => n = 1
    BY <1>1, <1>2
  <1>6. t # <<>> => k \in 1 .. k /\ k + 1 = n
    BY <1>1
  <1>7. t = <<>> => s[1] = s[n]
    BY <1>5
  <1>8. t # <<>> => t[k] = s[n]
    BY <1>3, <1>6
  <1> QED BY <1>1, <1>4, <1>7, <1>8 DEF t, n, k

\* A task ends: with a connection to what it has looked up, or without.
LEMMA TaskEndsStep ==
    ASSUME IInv, NEW i \in 1 .. MaxTasks, TaskEnds(i)
    PROVE  IInv'
  <1>1. /\ UNCHANGED <<ipAddress, portNumber, tapping, isConnect, waiting>>
        /\ i = 1 /\ i \in DOMAIN tasks /\ tasks[i].port # None
        /\ tasks' = SubSeq(tasks, 1, i - 1) \o SubSeq(tasks, i + 1, Len(tasks))
    BY DEF TaskEnds, Runs
  <1>2. /\ tasks \in Seq(Task)
        /\ DOMAIN tasks = 1 .. Len(tasks)
    BY LenProperties DEF IInv, TapsOK
  <1>3. tasks # <<>> /\ tasks[1].address \in Blinds
    <2>1. tasks # <<>> /\ tasks[1] \in Task
      BY <1>1, <1>2, EmptySeq, ElementOfSeq
    <2>2. None \in Blinds \cup {None} /\ tasks[1].port # None BY <1>1
    <2> QED BY <2>1, <2>2, TaskFacts
  <1>4. tasks' = Tail(tasks)
    BY <1>1, <1>2, <1>3, RestOfTasks
  <1>5. /\ tasks' \in Seq(Task)
        /\ tasks' = <<>> => tasks[1] = tasks[Len(tasks)]
        /\ tasks' # <<>> => tasks'[Len(tasks')] = tasks[Len(tasks)]
    BY <1>2, <1>3, <1>4, TailFacts
  <1>6. TapsOK'
    BY <1>1, <1>5 DEF IInv, TapsOK
  <1>7. LastTask'
    BY <1>1, <1>3, <1>5 DEF IInv, LastTask
  <1>8. ~tapping /\ tasks' = <<>> => tasks[1].address = ipAddress
    <2>1. None \notin Blinds BY AppsAssumption
    <2> QED BY <1>1, <1>3, <1>5, <2>1 DEF IInv, LastTask
  <1>9. CASE /\ Open("v2", tasks[i].address) /\ socket' = NewSocket
             /\ connected' = TRUE /\ posts' = Append(posts, TRUE)
    <2>1. <<>> \in Seq(Messages) BY EmptySeq
    <2>2. UNCHANGED <<client, held, running, said>> BY <1>9 DEF Open
    <2>3. /\ opened' \in Seq(Sockets) /\ Len(opened') = Len(opened) + 1 /\ Keeps
          /\ NewSocket \in 1 .. Len(opened') /\ opened'[NewSocket].to = tasks[1].address
          /\ client' \in [Blinds -> 0 .. Len(opened')]
          /\ backlog' \in [Blinds -> Seq(1 .. Len(opened'))]
      BY <1>1, <1>3, <1>9, <2>1, OpenFacts DEF Open, Apps, IInv
    <2>4. Len(opened) \in Nat /\ waiting' \in 0 .. Len(opened')
      BY <1>1, <2>3, LenProperties DEF IInv, SocketsOK
    <2>5. SocketsOK' /\ HeldOK'
      BY <1>9, <2>2, <2>3, <2>4 DEF IInv, SocketsOK, HeldOK
    <2>6. /\ posts' \in Seq(BOOLEAN) /\ posts' # <<>> /\ posts'[Len(posts')]
      <3>1. TRUE \in BOOLEAN OBVIOUS
      <3> QED BY <1>9, <3>1, AppendFacts DEF IInv, ShownOK
    <2>7. ShownOK'
      <3>1. connected' \in BOOLEAN BY <1>9
      <3> QED BY <1>1, <2>6, <3>1 DEF IInv, ShownOK
    <2>8. LastSocket'
      <3> SUFFICES ASSUME Settled' PROVE LastSocket'
        BY DEF LastSocket
      <3>1. socket' # 0
        BY <1>9, <2>4 DEF NewSocket
      <3>2. opened'[socket'].to = ipAddress'
        BY <1>1, <1>8, <1>9, <2>3 DEF Settled
      <3> QED BY <2>6, <3>1, <3>2 DEF LastSocket
    <2> QED BY <1>6, <1>7, <2>5, <2>7, <2>8 DEF IInv
  <1>10. CASE /\ connected' = FALSE /\ posts' = Append(posts, FALSE)
              /\ UNCHANGED <<socket, opened, blindsVars>>
    <2>1. posts' \in Seq(BOOLEAN)
      <3>1. FALSE \in BOOLEAN OBVIOUS
      <3> QED BY <1>10, <3>1, AppendFacts DEF IInv, ShownOK
    <2>2. ShownOK'
      <3>1. connected' \in BOOLEAN BY <1>10
      <3> QED BY <1>1, <2>1, <3>1 DEF IInv, ShownOK
    <2>3. SocketsOK' /\ HeldOK'
      BY <1>1, <1>10 DEF IInv, SocketsOK, HeldOK, blindsVars
    <2>4. LastSocket'
      BY <1>10 DEF LastSocket, Settled
    <2> QED BY <1>6, <1>7, <2>2, <2>3, <2>4 DEF IInv
  <1> QED BY <1>9, <1>10 DEF TaskEnds

\* A result is shown.
LEMMA PostStep ==
    ASSUME IInv, onPostExecute
    PROVE  IInv'
  <1>1. /\ UNCHANGED <<ipAddress, portNumber, tapping, tasks, socket, connected>>
        /\ UNCHANGED <<waiting, opened, client, backlog, held, running, said>>
        /\ posts # <<>> /\ posts' = Tail(posts)
        /\ isConnect' = IF Head(posts) THEN "green" ELSE isConnect
    BY DEF onPostExecute, blindsVars
  <1>2. /\ posts' \in Seq(BOOLEAN) /\ Head(posts) = posts[1]
        /\ posts' = <<>> => posts[1] = posts[Len(posts)]
        /\ posts' # <<>> => posts'[Len(posts')] = posts[Len(posts)]
    BY <1>1, TailFacts DEF IInv, ShownOK
  <1>3. TapsOK' /\ LastTask'
    BY <1>1 DEF IInv, TapsOK, LastTask
  <1>4. ShownOK'
    <2>1. isConnect' \in {"none", "red", "green"} BY <1>1 DEF IInv, ShownOK
    <2> QED BY <1>1, <1>2, <2>1 DEF IInv, ShownOK
  <1>5. SocketsOK' /\ HeldOK'
    BY <1>1 DEF IInv, SocketsOK, HeldOK
  <1>6. LastSocket'
    <2> SUFFICES ASSUME Settled PROVE LastSocket'
      BY <1>1 DEF LastSocket, Settled
    <2>1. socket # 0 /\ opened[socket].to = ipAddress /\ posts[Len(posts)]
      BY <1>1 DEF IInv, LastSocket
    <2>2. posts' = <<>> => isConnect' = "green"
      BY <1>1, <1>2, <2>1
    <2>3. posts' # <<>> => posts'[Len(posts')]
      BY <1>2, <2>1
    <2> QED BY <1>1, <2>1, <2>2, <2>3 DEF LastSocket, Settled
  <1> QED BY <1>3, <1>4, <1>5, <1>6 DEF IInv

\* The app ends and forgets everything.
LEMMA EndV2Step ==
    ASSUME IInv, EndV2
    PROVE  IInv'
  <1>1. /\ CloseAllOf("v2")
        /\ ipAddress' = None /\ portNumber' = None /\ tapping' = FALSE
        /\ tasks' = <<>> /\ posts' = <<>> /\ socket' = 0
        /\ isConnect' = "none" /\ connected' = FALSE
        /\ UNCHANGED <<waiting, client, backlog, held, running, said>>
    BY DEF EndV2, blindsVars
  <1>2. opened' \in Seq(Sockets) /\ Len(opened') = Len(opened) /\ Keeps
    BY <1>1, CloseFacts DEF IInv
  <1>3. SocketsOK' /\ HeldOK'
    <2>1. socket' \in 0 .. Len(opened') BY <1>1, <1>2, LenProperties DEF IInv, SocketsOK
    <2> QED BY <1>1, <1>2, <2>1 DEF IInv, SocketsOK, HeldOK
  <1>4. TapsOK'
    BY <1>1, EmptySeq DEF TapsOK
  <1>5. ShownOK'
    <2>1. posts' \in Seq(BOOLEAN) BY <1>1, EmptySeq
    <2>2. connected' \in BOOLEAN /\ isConnect' \in {"none", "red", "green"} BY <1>1
    <2> QED BY <2>1, <2>2 DEF ShownOK
  <1>6. LastTask' /\ LastSocket'
    BY <1>1 DEF LastTask, LastSocket, Settled
  <1> QED BY <1>3, <1>4, <1>5, <1>6 DEF IInv

--------------------------------------------------------------------------------
(* Version 1, the pfodApp and what the apps send. *)

\* A step that changes neither version 2 nor the number of sockets keeps the
\* invariant if it keeps the types of the blinds.
LEMMA OtherStep ==
    ASSUME IInv, UNCHANGED v2Vars, Keeps, opened' \in Seq(Sockets),
           waiting' \in 0 .. Len(opened'), client' \in [Blinds -> 0 .. Len(opened')],
           backlog' \in [Blinds -> Seq(1 .. Len(opened'))], HeldOK'
    PROVE  IInv'
  <1>1. TapsOK' /\ ShownOK' /\ LastTask' /\ LastSocket' /\ socket' \in 0 .. Len(opened')
    BY V2Unchanged
  <1> QED BY <1>1 DEF IInv, SocketsOK

\* The blinds notice nothing when messages are sent or sockets closed.
LEMMA QuietStep ==
    ASSUME IInv, UNCHANGED <<v2Vars, blindsVars>>, Keeps, opened' \in Seq(Sockets),
           Len(opened') = Len(opened), waiting' \in {0, waiting}
    PROVE  IInv'
  <1>1. UNCHANGED <<client, backlog, held, running, said>>
    BY DEF blindsVars
  <1>2. waiting' \in 0 .. Len(opened')
    BY LenProperties DEF IInv, SocketsOK
  <1>3. HeldOK'
    BY <1>1 DEF IInv, HeldOK
  <1> QED BY <1>1, <1>2, <1>3, OtherStep DEF IInv, SocketsOK

LEMMA SendStep ==
    ASSUME IInv, UNCHANGED <<v2Vars, waiting, blindsVars>>,
           NEW s \in 1 .. Len(opened), NEW m \in Messages, Send(s, m)
    PROVE  IInv'
  <1>1. opened[s].sent \in Seq(Messages)
    <2>1. opened[s] \in Sockets BY ElementOfSeq DEF IInv, SocketsOK
    <2> QED BY <2>1 DEF Sockets
  <1>2. Append(opened[s].sent, m) \in Seq(Messages)
    BY <1>1, AppendFacts
  <1>3. opened' = [opened EXCEPT ![s].sent = Append(opened[s].sent, m)]
    BY DEF Send
  <1>4. opened' \in Seq(Sockets) /\ Len(opened') = Len(opened) /\ Keeps
    BY <1>2, <1>3, SentFacts DEF IInv
  <1> QED BY <1>4, QuietStep

LEMMA AppStep ==
    ASSUME IInv,
           \/ \E x \in Commands : sendCommand(x)
           \/ EndV1 \/ PfodAppCloses
           \/ \E b \in Blinds : PressV1(b) \/ PfodAppOpens(b)
           \/ \E s \in 1 .. MaxSockets : PfodAppSends(s)
    PROVE  IInv'
  <1>0. /\ Len(opened) \in Nat /\ DOMAIN opened = 1 .. Len(opened)
        /\ socket \in 0 .. Len(opened) /\ waiting \in 0 .. Len(opened)
    BY LenProperties DEF IInv, SocketsOK
  <1>1. ASSUME NEW x \in Commands, sendCommand(x) PROVE IInv'
    <2>1. UNCHANGED <<v2Vars, waiting, blindsVars>> /\ socket # 0 /\ Send(socket, x)
      BY <1>1 DEF sendCommand
    <2>2. socket \in 1 .. Len(opened) /\ x \in Messages
      BY <1>0, <2>1 DEF Messages
    <2> QED BY <2>1, <2>2, SendStep
  <1>2. CASE EndV1
    <2>1. UNCHANGED <<v2Vars, blindsVars>> /\ waiting' = 0 /\ CloseAllOf("v1")
      BY <1>2 DEF EndV1
    <2> QED BY <2>1, CloseFacts, QuietStep DEF IInv
  <1>3. CASE PfodAppCloses
    <2>1. UNCHANGED <<v2Vars, blindsVars>> /\ waiting' = waiting /\ CloseAllOf("pfodApp")
      BY <1>3 DEF PfodAppCloses
    <2> QED BY <2>1, CloseFacts, QuietStep DEF IInv
  <1>4. ASSUME NEW b \in Blinds, NEW app \in Apps, NEW sent \in Seq(Messages),
               opened' = Append(opened, [by |-> app, to |-> b, open |-> TRUE, sent |-> sent]),
               backlog' = [backlog EXCEPT ![b] = Append(@, NewSocket)],
               UNCHANGED v2Vars, UNCHANGED <<client, held, running, said>>,
               waiting' \in {NewSocket, waiting}
        PROVE  IInv'
    <2>1. /\ opened' \in Seq(Sockets) /\ Len(opened') = Len(opened) + 1 /\ Keeps
          /\ NewSocket \in 1 .. Len(opened')
          /\ client' \in [Blinds -> 0 .. Len(opened')]
          /\ backlog' \in [Blinds -> Seq(1 .. Len(opened'))]
      BY <1>4, OpenFacts DEF IInv
    <2>2. waiting' \in 0 .. Len(opened')
      BY <1>0, <1>4, <2>1
    <2>3. HeldOK'
      BY <1>4 DEF IInv, HeldOK
    <2> QED BY <1>4, <2>1, <2>2, <2>3, OtherStep
  <1>5. ASSUME NEW b \in Blinds, PressV1(b) PROVE IInv'
    <2>1. <<"line">> \in Seq(Messages)
      <3>1. "line" \in Messages BY DEF Messages
      <3> QED BY <3>1
    <2>2. "v1" \in Apps BY DEF Apps
    <2> QED BY <1>4, <1>5, <2>1, <2>2 DEF PressV1
  <1>6. ASSUME NEW b \in Blinds, PfodAppOpens(b) PROVE IInv'
    <2>1. <<>> \in Seq(Messages) BY EmptySeq
    <2>2. "pfodApp" \in Apps BY DEF Apps
    <2> QED BY <1>4, <1>6, <2>1, <2>2 DEF PfodAppOpens, Open
  <1>7. ASSUME NEW s \in 1 .. MaxSockets, PfodAppSends(s) PROVE IInv'
    <2>1. PICK m \in Commands \cup {"$"} : Send(s, m)
      BY <1>7 DEF PfodAppSends
    <2>2. m \in Messages BY DEF Messages
    <2>3. s \in 1 .. Len(opened) /\ UNCHANGED <<v2Vars, waiting, blindsVars>>
      BY <1>0, <1>7 DEF PfodAppSends
    <2> QED BY <2>1, <2>2, <2>3, SendStep
  <1> QED BY <1>1, <1>2, <1>3, <1>5, <1>6, <1>7

--------------------------------------------------------------------------------
(* The blinds. *)

\* Reading takes the first message of the client, or nothing.
LEMMA ReadFacts ==
    ASSUME IInv, NEW b \in Blinds, NEW x, Reads(b, x)
    PROVE  opened' \in Seq(Sockets) /\ Len(opened') = Len(opened) /\ Keeps
  <1>1. Len(opened) \in Nat /\ client[b] \in 0 .. Len(opened) /\ client[b] # 0
    BY LenProperties DEF IInv, SocketsOK, Reads, Connected
  <1>2. CASE UNCHANGED opened
    BY <1>1, <1>2 DEF IInv, SocketsOK, Keeps
  <1>3. CASE /\ opened[client[b]].sent # <<>>
             /\ opened' = [opened EXCEPT ![client[b]].sent = Tail(@)]
    <2> DEFINE s == client[b]
    <2>1. s \in 1 .. Len(opened) BY <1>1
    <2>2. opened[s].sent \in Seq(Messages)
      <3>1. opened[s] \in Sockets BY <2>1, ElementOfSeq DEF IInv, SocketsOK
      <3> HIDE DEF s
      <3> QED BY <3>1 DEF Sockets
    <2>3. Tail(opened[s].sent) \in Seq(Messages)
      BY <1>3, <2>2, HeadTailProperties
    <2>4. opened' = [opened EXCEPT ![s].sent = Tail(opened[s].sent)]
      BY <1>3
    <2> QED BY <2>1, <2>3, <2>4, SentFacts DEF IInv
  <1> QED BY <1>2, <1>3 DEF Reads

\* The blinds serve the next connection when theirs is gone.
LEMMA AvailableStep ==
    ASSUME IInv, NEW b \in Blinds, Available(b)
    PROVE  IInv'
  <1>1. UNCHANGED <<opened, held, running, said>> /\ UNCHANGED v2Vars /\ waiting' = waiting
    BY DEF Available, appsUnchanged
  <1>2. Len(opened) \in Nat /\ Keeps
    BY <1>1, LenProperties DEF IInv, SocketsOK, Keeps
  <1>3. /\ client \in [Blinds -> 0 .. Len(opened)]
        /\ backlog \in [Blinds -> Seq(1 .. Len(opened))]
    BY DEF IInv, SocketsOK
  <1>4. client' \in [Blinds -> 0 .. Len(opened)] /\ backlog' \in [Blinds -> Seq(1 .. Len(opened))]
    <2>1. CASE backlog[b] = <<>>
      BY <1>2, <1>3, <2>1 DEF Available
    <2>2. CASE backlog[b] # <<>>
      <3>1. Head(backlog[b]) \in 1 .. Len(opened) /\ Tail(backlog[b]) \in Seq(1 .. Len(opened))
        BY <1>3, <2>2, HeadTailProperties
      <3>2. Head(backlog[b]) \in 0 .. Len(opened)
        BY <1>2, <3>1
      <3> QED BY <1>3, <2>2, <3>1, <3>2 DEF Available
    <2> QED BY <2>1, <2>2
  <1>5. HeldOK'
    BY <1>1 DEF IInv, HeldOK
  <1> QED BY <1>1, <1>2, <1>4, <1>5, OtherStep DEF IInv, SocketsOK

\* What the blinds do with a message changes only what they hold and run.
LEMMA MessageStep ==
    ASSUME IInv, NEW b \in Blinds,
           PassesOver(b) \/ Stores(b) \/ Confirms(b) \/ Rejects(b) \/ MotorDone(b)
    PROVE  IInv'
  <1>1. UNCHANGED <<client, backlog>> /\ UNCHANGED v2Vars /\ waiting' = waiting
    BY DEF PassesOver, Stores, Confirms, Rejects, Obeys, MotorDone, blindsVars, appsUnchanged
  <1>2. opened' \in Seq(Sockets) /\ Len(opened') = Len(opened) /\ Keeps
    <2>1. CASE MotorDone(b)
      BY <2>1, LenProperties DEF MotorDone, IInv, SocketsOK, Keeps
    <2>2. CASE \E x : Reads(b, x)
      BY <2>2, ReadFacts
    <2> QED BY <2>1, <2>2 DEF PassesOver, Stores, Confirms, Rejects, Obeys
  <1>3. HeldOK'
    <2>1. CASE PassesOver(b)
      BY <2>1 DEF PassesOver, blindsVars, IInv, HeldOK
    <2>2. CASE Stores(b)
      BY <2>2 DEF Stores, Obeys, IInv, HeldOK
    <2>3. CASE Confirms(b)
      BY <2>3 DEF Confirms, Obeys, IsMotor, IInv, HeldOK
    <2>4. CASE Rejects(b) \/ MotorDone(b)
      BY <2>4 DEF Rejects, MotorDone, Obeys, IInv, HeldOK
    <2> QED BY <2>1, <2>2, <2>3, <2>4
  <1> QED BY <1>1, <1>2, <1>3, OtherStep DEF IInv, SocketsOK

\* A power cycle forgets the client and what waits.
LEMMA PowerStep ==
    ASSUME IInv, NEW b \in Blinds, PowerCycle(b)
    PROVE  IInv'
  <1>1. UNCHANGED v2Vars /\ waiting' = waiting
    BY DEF PowerCycle, appsUnchanged
  <1>2. opened' \in Seq(Sockets) /\ Len(opened') = Len(opened) /\ Keeps
    BY LoseFacts DEF PowerCycle, IInv
  <1>3. HeldOK'
    BY DEF PowerCycle, IInv, HeldOK
  <1>4. client' \in [Blinds -> 0 .. Len(opened')] /\ backlog' \in [Blinds -> Seq(1 .. Len(opened'))]
    <2>1. Len(opened) \in Nat /\ 0 \in 0 .. Len(opened)
      BY LenProperties DEF IInv, SocketsOK
    <2>2. <<>> \in Seq(1 .. Len(opened'))
      BY EmptySeq
    <2> QED BY <1>2, <2>1, <2>2 DEF PowerCycle, IInv, SocketsOK
  <1> QED BY <1>1, <1>2, <1>3, <1>4, OtherStep DEF IInv, SocketsOK

--------------------------------------------------------------------------------
\* The invariant holds at first.
LEMMA InitHolds == Init => IInv
  <1> SUFFICES ASSUME Init PROVE IInv
    OBVIOUS
  <1>1. TapsOK
    BY EmptySeq DEF Init, TapsOK
  <1>2. ShownOK
    <2>1. posts \in Seq(BOOLEAN) BY EmptySeq DEF Init
    <2> QED BY <2>1 DEF Init, ShownOK
  <1>3. SocketsOK
    <2>1. opened \in Seq(Sockets) /\ Len(opened) = 0 BY EmptySeq DEF Init
    <2>2. <<>> \in Seq(1 .. Len(opened)) BY EmptySeq
    <2>3. 0 \in 0 .. Len(opened) BY <2>1
    <2>4. socket = 0 /\ waiting = 0 BY DEF Init
    <2>5. client \in [Blinds -> 0 .. Len(opened)] BY <2>3 DEF Init
    <2>6. backlog \in [Blinds -> Seq(1 .. Len(opened))] BY <2>2 DEF Init
    <2> QED BY <2>1, <2>3, <2>4, <2>5, <2>6 DEF SocketsOK
  <1>4. HeldOK
    BY DEF Init, HeldOK
  <1>5. LastTask /\ LastSocket
    BY DEF Init, LastTask, LastSocket, Settled
  <1> QED BY <1>1, <1>2, <1>3, <1>4, <1>5 DEF IInv

\* Every step keeps it.
LEMMA StepHolds == IInv /\ [Next]_vars => IInv'
  <1> SUFFICES ASSUME IInv, [Next]_vars PROVE IInv'
    OBVIOUS
  <1>1. CASE V2
    BY <1>1, TapFirstStep, TapThenStep, PostStep, EndV2Step, LookUpStep, TaskEndsStep,
       AppStep DEF V2
  <1>2. CASE EndV1 \/ PfodAppCloses
    BY <1>2, AppStep
  <1>3. ASSUME NEW b \in Blinds, PressV1(b) \/ PfodAppOpens(b) \/ Loop(b) \/ PowerCycle(b)
        PROVE  IInv'
    BY <1>3, AppStep, AvailableStep, MessageStep, PowerStep DEF Loop
  <1>4. ASSUME NEW s \in 1 .. MaxSockets, PfodAppSends(s) PROVE IInv'
    BY <1>4, AppStep
  <1>5. CASE UNCHANGED vars
    <2>1. UNCHANGED v2Vars /\ UNCHANGED <<waiting, opened, client, backlog, held, running, said>>
      BY <1>5 DEF vars, blindsVars
    <2>2. Keeps /\ HeldOK'
      BY <2>1, LenProperties DEF IInv, SocketsOK, HeldOK, Keeps
    <2> QED BY <2>1, <2>2, OtherStep DEF IInv, SocketsOK
  <1> QED BY <1>1, <1>2, <1>3, <1>4, <1>5 DEF Next

\* The apps, the sockets and the blinds keep their types: no socket is used
\* that was never opened.
THEOREM TypeCorrect == Spec => []TypeOK
  <1>1. IInv => TypeOK
    BY DEF IInv, TapsOK, ShownOK, SocketsOK, HeldOK, TypeOK
  <1> QED BY <1>1, InitHolds, StepHolds, PTL DEF Spec

\* However often the user of version 2 taps, and however the connection tasks
\* fall between the taps: the last tap decides where commands go.
THEOREM TheLastTapWins == Spec => []LastTapWins
  <1>1. IInv => LastTapWins
    BY DEF IInv, LastSocket, Settled, LastTapWins
  <1> QED BY <1>1, InitHolds, StepHolds, PTL DEF Spec

\* At most one of the blinds takes a step at a time, and it is one of the
\* two-phase command.
LEMMA StepOfBlinds ==
    ASSUME IInv, [Next]_vars, NEW b \in Blinds
    PROVE  TwoPhase(b)!Next \/ UNCHANGED <<held[b], running[b], said[b]>>
  <1>0. /\ held \in [Blinds -> Commands \cup {"$", "!", None}]
        /\ running \in [Blinds -> Commands \cup {None}]
        /\ said \in [Blinds -> Commands \cup {"$", "!", None}]
    BY DEF IInv, HeldOK
  <1>1. CASE UNCHANGED <<held, running, said>>
    BY <1>1
  <1>2. ASSUME NEW a \in Blinds,
               \/ Stores(a) \/ Confirms(a) \/ Rejects(a) \/ MotorDone(a) \/ PowerCycle(a)
        PROVE  TwoPhase(b)!Next \/ UNCHANGED <<held[b], running[b], said[b]>>
    <2>1. CASE a # b
      BY <1>0, <1>2, <2>1 DEF Stores, Confirms, Rejects, MotorDone, PowerCycle, Obeys
    <2>2. CASE Stores(b)
      <3>1. PICK x \in Commands \cup {"$", "!"} :
                /\ running[b] = None /\ held' = [held EXCEPT ![b] = x]
                /\ said' = [said EXCEPT ![b] = x]
        BY <2>2 DEF Stores, Obeys, Reads, InLoop
      <3>2. TwoPhase(b)!Hold(x)
        BY <1>0, <2>2, <3>1 DEF Stores, TwoPhase!Hold
      <3> QED BY <3>2 DEF TwoPhase!Next
    <2>3. CASE Confirms(b)
      <3>1. running[b] = None /\ held[b] # None /\ said' = [said EXCEPT ![b] = "$"]
        BY <2>3 DEF Confirms, Obeys, Reads, InLoop
      <3>2. CASE IsMotor(b)
        <4>1. TwoPhase(b)!Run
          BY <1>0, <2>3, <3>1, <3>2 DEF Confirms, IsMotor, TwoPhase!Run
        <4> QED BY <4>1 DEF TwoPhase!Next
      <3>3. CASE ~IsMotor(b)
        <4>1. TwoPhase(b)!GiveUp("$")
          BY <1>0, <2>3, <3>1, <3>3 DEF Confirms, IsMotor, TwoPhase!GiveUp
        <4> QED BY <4>1 DEF TwoPhase!Next
      <3> QED BY <3>2, <3>3
    <2>4. CASE Rejects(b)
      <3>1. PICK x \in Commands \cup {"!"} : Obeys(b, x)
        BY <2>4 DEF Rejects
      <3>2. /\ running[b] = None /\ x # "$"
            /\ said' = [said EXCEPT ![b] = x]
        BY <3>1, AppsAssumption DEF Obeys, Reads, InLoop
      <3>3. TwoPhase(b)!GiveUp(x)
        BY <1>0, <2>4, <3>2 DEF Rejects, TwoPhase!GiveUp
      <3> QED BY <3>3 DEF TwoPhase!Next
    <2>5. CASE MotorDone(b) \/ PowerCycle(b)
      <3>1. TwoPhase(b)!Finish \/ TwoPhase(b)!PowerCut
        BY <1>0, <2>5 DEF MotorDone, PowerCycle, TwoPhase!Finish, TwoPhase!PowerCut
      <3> QED BY <3>1 DEF TwoPhase!Next
    <2> QED BY <1>2, <2>1, <2>2, <2>3, <2>4, <2>5
  <1>3. CASE V2
    <2>1. UNCHANGED <<held, running, said>>
      BY <1>3 DEF V2, TapFirst, TapThen, onPostExecute, EndV2, TaskLooksUp,
                  TaskReadsPort, TaskEnds, sendCommand, Open, blindsVars
    <2> QED BY <1>1, <2>1
  <1>4. CASE EndV1 \/ PfodAppCloses
    BY <1>1, <1>4 DEF EndV1, PfodAppCloses, blindsVars
  <1>5. ASSUME NEW a \in Blinds, PressV1(a) \/ PfodAppOpens(a) \/ Loop(a) \/ PowerCycle(a)
        PROVE  TwoPhase(b)!Next \/ UNCHANGED <<held[b], running[b], said[b]>>
    <2>1. CASE PressV1(a) \/ PfodAppOpens(a) \/ Available(a) \/ PassesOver(a)
      BY <1>1, <2>1 DEF PressV1, PfodAppOpens, Open, Available, PassesOver, blindsVars
    <2> QED BY <1>2, <1>5, <2>1 DEF Loop
  <1>6. ASSUME NEW s \in 1 .. MaxSockets, PfodAppSends(s)
        PROVE  TwoPhase(b)!Next \/ UNCHANGED <<held[b], running[b], said[b]>>
    BY <1>1, <1>6 DEF PfodAppSends, blindsVars
  <1>7. CASE UNCHANGED vars
    BY <1>1, <1>7 DEF vars, blindsVars
  <1> QED BY <1>3, <1>4, <1>5, <1>6, <1>7 DEF Next

\* Each of the blinds implements the two-phase command, although its messages
\* come from three apps over connections that come and go.
THEOREM BlindsAreTwoPhase == Spec => ImplementsTwoPhaseCommand
  <1>1. Init => \A b \in Blinds : TwoPhase(b)!Init
    BY DEF Init, TwoPhase!Init
  <1>2. IInv /\ [Next]_vars =>
          [\A b \in Blinds : TwoPhase(b)!Next \/ UNCHANGED <<held[b], running[b], said[b]>>]_vars
    BY StepOfBlinds
  <1> QED BY <1>1, <1>2, InitHolds, StepHolds, PTL DEF Spec, ImplementsTwoPhaseCommand

================================================================================
