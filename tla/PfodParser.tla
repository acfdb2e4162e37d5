------------------------------- MODULE PfodParser -------------------------------
(***************************************************************************)
(* pfodParser.cpp: the parser of messages { version : cmd | arg1 ` arg2 }, *)
(* a byte at a time, and the functions that walk what it has parsed.  The  *)
(* array args is modelled up to argsIdx; indices are those of TLA+         *)
(* sequences, so that args[1] is args[0] of the code.                      *)
(***************************************************************************)
EXTENDS Integers, Sequences

CONSTANTS
    Chars,          \* bytes that mean nothing to the parser
    Version,        \* the version of this parser, a sequence of Chars
    pfodMaxMsgLen   \* 255 in the code

pfodMsgStarted == "{"
pfodMsgEnd     == "}"
pfodRefresh    == ":"
pfodBar        == "|"       \* pfodTilda and pfodAccent are treated alike
Nul            == "nul"     \* the byte 0

Bytes == Chars \cup {pfodMsgStarted, pfodMsgEnd, pfodRefresh, pfodBar}

ASSUME ParserAssumption ==
    /\ Chars \cap {pfodMsgStarted, pfodMsgEnd, pfodRefresh, pfodBar, Nul} = {}
    /\ Version \in Seq(Chars)
    /\ pfodMaxMsgLen \in Nat /\ pfodMaxMsgLen > 3

VARIABLES
    parserState,    \* "waiting", "started", "inMsg", "argStarted" or "end"
    args,           \* the bytes stored; argsIdx is its length
    argsCount,
    cmdStart,       \* where the command starts in args
    versioned,      \* versionStart points to args, not to emptyVersion
    refresh,
    returned,       \* what the last parse(byte) returned
    raw             \* history: the bytes received since the last opening brace

readVars == <<parserState, args, argsCount, cmdStart, versioned, refresh, returned, raw>>

argsIdx == Len(args)

ParserTypeOK ==
    /\ parserState \in {"waiting", "started", "inMsg", "argStarted", "end"}
    /\ args \in Seq(Bytes \cup {Nul}) /\ argsIdx <= pfodMaxMsgLen
    /\ argsCount \in 0 .. argsIdx
    /\ cmdStart \in 1 .. argsIdx + 1
    /\ versioned \in BOOLEAN /\ refresh \in BOOLEAN
    /\ returned \in Bytes \cup {Nul}
    /\ raw \in Seq(Bytes)

InMessage == parserState \in {"started", "inMsg", "argStarted"}

\* init()
Cleared ==
    /\ args' = <<>> /\ argsCount' = 0
    /\ cmdStart' = 1 /\ versioned' = FALSE
    /\ refresh' = FALSE

ParserInit ==
    /\ parserState = "waiting"
    /\ args = <<>> /\ argsCount = 0
    /\ cmdStart = 1 /\ versioned = FALSE
    /\ refresh = FALSE
    /\ returned = Nul /\ raw = <<>>

--------------------------------------------------------------------------------
(* parse(in): one action for each return of it. *)

\* The byte 0xff.
ParseFF ==
    /\ Cleared
    /\ parserState' = "waiting" /\ returned' = Nul /\ raw' = <<>>

\* Outside a message all is ignored but an opening brace.
ParseOutside(in) ==
    /\ ~InMessage
    /\ returned' = Nul
    /\ IF in = pfodMsgStarted
       THEN Cleared /\ parserState' = "started" /\ raw' = <<>>
       ELSE /\ parserState' = "waiting"
            /\ UNCHANGED <<args, argsCount, cmdStart, versioned, refresh, raw>>

\* The message is too long, unless this is its end.
NeverTooLong(in) == FALSE                                          \* mutant
TooLong(in) == argsIdx >= pfodMaxMsgLen - 2 /\ in # pfodMsgEnd

ParseTooLong(in) ==
    /\ InMessage /\ TooLong(in)
    /\ Cleared
    /\ parserState' = "waiting" /\ returned' = Nul /\ raw' = <<>>

Takes(in) ==
    /\ InMessage /\ ~TooLong(in)
    /\ raw' = Append(raw, in)

\* The state after the first byte of a message, which is then looked at.
Now == IF parserState = "started" THEN "inMsg" ELSE parserState

ParseRefresh(in) ==
    /\ Takes(in)
    /\ parserState = "started" /\ in = pfodRefresh
    /\ parserState' = "inMsg" /\ refresh' = TRUE /\ returned' = Nul
    /\ UNCHANGED <<args, argsCount, cmdStart, versioned>>

\* Where the string that starts at i ends, beyond args if no null ends it.
Nulls(i) == {j \in i .. argsIdx : args[j] = Nul}
EndOf(i) == IF Nulls(i) = {} THEN argsIdx + 1
            ELSE CHOOSE j \in Nulls(i) : \A k \in Nulls(i) : j <= k
StringAt(i) == SubSeq(args, i, EndOf(i) - 1)

\* What precedes is the version, up to a null that an argument may have left.
ParseVersion(in) ==
    /\ Takes(in)
    /\ parserState # "started" /\ in = pfodRefresh /\ ~versioned
    /\ args' = Append(args, Nul)
    /\ versioned' = TRUE /\ cmdStart' = argsIdx + 2
    /\ refresh' = (StringAt(1) = Version)
    /\ returned' = Nul
    /\ UNCHANGED <<parserState, argsCount>>

\* An argument ends where the next one starts, or with the message.
CountsAll  == argsCount' = argsCount + 1                                       \* mutant
CountsArgs == argsCount' = IF Now = "argStarted" THEN argsCount + 1 ELSE argsCount

ParseBar(in) ==
    /\ Takes(in)
    /\ in = pfodBar
    /\ args' = Append(args, Nul)
    /\ CountsArgs
    /\ parserState' = "argStarted" /\ returned' = Nul
    /\ UNCHANGED <<cmdStart, versioned, refresh>>

\* The end, marked by two nulls: the first byte of the command is returned.
EndMark == <<Nul, Nul>>
EmptyStaysOpen == parserState' = IF args = <<>> THEN Now ELSE "end"            \* mutant
EndsMessage    == parserState' = "end"

ParseEnd(in) ==
    /\ Takes(in)
    /\ in = pfodMsgEnd
    /\ args' = args \o EndMark
    /\ CountsArgs
    /\ EndsMessage /\ returned' = args'[cmdStart]
    /\ UNCHANGED <<cmdStart, versioned, refresh>>

ParseByte(in) ==
    /\ Takes(in)
    /\ \/ in \in Chars \cup {pfodMsgStarted}
       \/ in = pfodRefresh /\ versioned /\ parserState # "started"
    /\ args' = Append(args, in)
    /\ parserState' = Now /\ returned' = Nul
    /\ UNCHANGED <<argsCount, cmdStart, versioned, refresh>>

\* closeConnection() and setCmd(c): the parser starts anew, with c as command.
SetCmd(c) ==
    /\ parserState' = "waiting" /\ returned' = Nul /\ raw' = <<>>
    /\ args' = IF c = Nul THEN <<>> ELSE <<c, Nul>>
    /\ argsCount' = 0 /\ cmdStart' = 1 /\ versioned' = FALSE /\ refresh' = FALSE

Parse(in) ==
    \/ ParseOutside(in) \/ ParseTooLong(in) \/ ParseRefresh(in)
    \/ ParseVersion(in) \/ ParseBar(in) \/ ParseEnd(in) \/ ParseByte(in)

ParserNext ==
    \/ ParseFF
    \/ \E in \in Bytes : Parse(in)
    \/ \E c \in Chars \cup {Nul} : SetCmd(c)

ParserSpec == ParserInit /\ [][ParserNext]_readVars

--------------------------------------------------------------------------------
(* Walking the parsed message. *)

getFirstArg == IF argsCount > 0 THEN EndOf(cmdStart) + 1 ELSE EndOf(cmdStart)
getNextArg(start) == IF EndOf(start) = start THEN start ELSE EndOf(start) + 1

\* Where a program finds the arguments with getFirstArg() and getNextArg().
ArgAt ==
    LET at[k \in 1 .. argsCount] ==
            IF k = 1 THEN getFirstArg ELSE getNextArg(at[k - 1])
    IN  at

--------------------------------------------------------------------------------
(* What must hold. *)

\* The positions of c in the message before its closing brace.
At(c) == {i \in 1 .. Len(raw) - 1 : raw[i] = c}

\* A message as the protocol has it: no argument is empty, and a colon stands
\* only at the start or behind a version.
Regular ==
    /\ \A i \in At(pfodBar) : i > 1 /\ raw[i + 1] \notin {pfodBar, pfodMsgEnd}
    /\ At(pfodRefresh) \subseteq {1} \/
          \E i \in 2 .. Len(raw) - 1 :
              At(pfodRefresh) = {i} /\ \A j \in At(pfodBar) : i < j

\* The message that the parser holds, written out.
Written ==
    LET upto[k \in 0 .. argsCount] ==
            IF k = 0 THEN StringAt(cmdStart)
            ELSE upto[k - 1] \o <<pfodBar>> \o StringAt(ArgAt[k])
    IN  (IF versioned THEN StringAt(1) \o <<pfodRefresh>>
         ELSE IF refresh THEN <<pfodRefresh>> ELSE <<>>)
            \o upto[argsCount] \o <<pfodMsgEnd>>

\* A walk with getFirstArg() and getNextArg() stays inside args, also over
\* empty arguments and colons: the two nulls at the end stop it.
WalkStaysInside == \A k \in 1 .. argsCount : EndOf(ArgAt[k]) <= argsIdx

\* A program that walks over what it finds in the parser stays inside args, and
\* what it finds, written out again, is the message that was received; parse()
\* returns the first byte of its command.
RoundTrip ==
    parserState = "end" =>
        /\ WalkStaysInside
        /\ Regular => /\ Written = raw
                      /\ returned = (StringAt(cmdStart) \o <<Nul>>)[1]

\* A closing brace leaves no message open, however long it was and whatever
\* was lost: the next opening brace starts a message.
ResyncsAtEnd == [][\A in \in Bytes :
                      (Parse(in) /\ in = pfodMsgEnd) => ~InMessage']_readVars
================================================================================
