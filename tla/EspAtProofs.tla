------------------------------- MODULE EspAtProofs -------------------------------
(***************************************************************************)
(* What holds of EspAt for any clients, any number of parts, of lines that *)
(* wait and of failures of the chip: a chip that prompts for a part gets   *)
(* that part, and a client that waits for its response gets the parts of   *)
(* responses and raw data whole and in order.                              *)
(***************************************************************************)
EXTENDS EspAt, SequenceTheorems, TLAPS

--------------------------------------------------------------------------------
(* The lines that wait.                                                      *)

Occurs(t, ls) == \E i \in DOMAIN ls : ls[i].type = t
Single(t, ls) == \A i, j \in DOMAIN ls : ls[i].type = t /\ ls[j].type = t => i = j

Prompted(ls) == Occurs("> ", ls)
Acknowledged(ls) == Occurs("SEND OK", ls)
Orderly(ls) == Single("> ", ls) /\ Single("SEND OK", ls)

IsData(l) == l.type \in {"+IPD", "data"}
IsCommand(l) == IsData(l) /\ l.piece = "command" /\ l.of # Other
Asks(ls)     == \E i \in DOMAIN ls : IsCommand(ls[i])
AsksOnce(ls) == \A i, j \in DOMAIN ls : IsCommand(ls[i]) /\ IsCommand(ls[j]) => i = j
OfLink(c, ls) == \A i \in DOMAIN ls : IsData(ls[i]) => ls[i].of \in {c, Other}

\* Data are of a client or another link.  What a +IPD does not hold follows it, and is
\* of the same link.
Follows1(l, m) == m.type = "data" /\ (m.of = Other <=> l.of = Other)
BeginsData(l)  == l.type = "+IPD" /\ l.piece = "part"
LineFits(l) ==
    /\ IsData(l) => l.of # None
    /\ l.type = "+IPD" /\ l.of = Other => l.piece = "part"
Framed(ls) ==
    \A i \in DOMAIN ls :
        /\ LineFits(ls[i])
        /\ BeginsData(ls[i]) => i < Len(ls) /\ Follows1(ls[i], ls[i + 1])

\* What is known of the lines when one of them is read,
Splits(t, c, ls, h, r) ==
    /\ r \in Seq(Lines) /\ h \in Lines
    /\ Occurs(t, ls) <=> h.type = t \/ Occurs(t, r)
    /\ Single(t, ls) => Single(t, r) /\ (h.type = t => ~Occurs(t, r))
    /\ Asks(ls) <=> IsCommand(h) \/ Asks(r)
    /\ AsksOnce(ls) => AsksOnce(r) /\ (IsCommand(h) => ~Asks(r))
    /\ OfLink(c, ls) <=> (IsData(h) => h.of \in {c, Other}) /\ OfLink(c, r)
    /\ Framed(ls) => /\ Framed(r) /\ LineFits(h)
                     /\ BeginsData(h) => r # <<>> /\ Follows1(h, Head(r))
LEMMA Rest ==
    ASSUME NEW ls \in Seq(Lines), ls # <<>>, NEW c, NEW t,
           NEW r, r = Tail(ls), NEW h, h = Head(ls)
    PROVE  Splits(t, c, ls, h, r)
  <1> DEFINE n == Len(ls)
  <1>1. n \in Nat \ {0} /\ DOMAIN ls = 1 .. n /\ h = ls[1] /\ h \in Lines
    BY EmptySeq, LenProperties, HeadTailProperties
  <1>2. /\ r \in Seq(Lines) /\ Len(r) = n - 1 /\ DOMAIN r = 1 .. n - 1
        /\ \A i \in 1 .. n - 1 : r[i] = ls[i + 1]
    BY <1>1, HeadTailProperties, LenProperties
  <1> HIDE DEF n
  <1>3. ASSUME NEW i \in DOMAIN ls, i # 1
        PROVE  i - 1 \in DOMAIN r /\ r[i - 1] = ls[i]
    BY <1>1, <1>2, <1>3
  <1>4. ASSUME NEW i \in DOMAIN r PROVE i + 1 \in DOMAIN ls /\ r[i] = ls[i + 1] /\ i + 1 # 1
    BY <1>1, <1>2, <1>4
  <1>5. 1 \in DOMAIN ls BY <1>1
  <1>6. Occurs(t, ls) <=> h.type = t \/ Occurs(t, r)
    <2>1. ASSUME Occurs(t, ls), h.type # t PROVE Occurs(t, r)
      <3>1. PICK i \in DOMAIN ls : ls[i].type = t BY <2>1 DEF Occurs
      <3>2. i # 1 BY <1>1, <2>1, <3>1
      <3> QED BY <1>3, <3>1, <3>2 DEF Occurs
    <2>2. ASSUME h.type = t PROVE Occurs(t, ls) BY <1>1, <1>5, <2>2 DEF Occurs
    <2>3. ASSUME Occurs(t, r) PROVE Occurs(t, ls) BY <1>4, <2>3 DEF Occurs
    <2> QED BY <2>1, <2>2, <2>3
  <1>7. Asks(ls) <=> IsCommand(h) \/ Asks(r)
    BY <1>1, <1>3, <1>4, <1>5 DEF Asks
  <1>8. OfLink(c, ls) <=> (IsData(h) => h.of \in {c, Other}) /\ OfLink(c, r)
    BY <1>1, <1>3, <1>4, <1>5 DEF OfLink
  <1>9. ASSUME Single(t, ls) PROVE Single(t, r) /\ (h.type = t => ~Occurs(t, r))
    <2>1. ASSUME NEW i \in DOMAIN r, NEW j \in DOMAIN r, r[i].type = t, r[j].type = t
          PROVE  i = j
      <3>1. i + 1 = j + 1 BY <1>4, <1>9, <2>1 DEF Single
      <3> QED BY <1>2, <3>1
    <2>2. ASSUME h.type = t, NEW i \in DOMAIN r, r[i].type = t PROVE FALSE
      BY <1>1, <1>4, <1>5, <1>9, <2>2 DEF Single
    <2> QED BY <2>1, <2>2 DEF Single, Occurs
  <1>10. ASSUME AsksOnce(ls) PROVE AsksOnce(r) /\ (IsCommand(h) => ~Asks(r))
    <2>1. ASSUME NEW i \in DOMAIN r, NEW j \in DOMAIN r, IsCommand(r[i]), IsCommand(r[j])
          PROVE  i = j
      <3>1. IsCommand(ls[i + 1]) /\ IsCommand(ls[j + 1]) BY <1>4, <2>1
      <3>2. i + 1 = j + 1 BY <1>4, <1>10, <3>1 DEF AsksOnce
      <3> QED BY <1>2, <3>2
    <2>2. ASSUME IsCommand(h), NEW i \in DOMAIN r, IsCommand(r[i]) PROVE FALSE
      <3>1. IsCommand(ls[i + 1]) /\ IsCommand(ls[1]) BY <1>1, <1>4, <2>2
      <3> QED BY <1>4, <1>5, <1>10, <3>1 DEF AsksOnce
    <2> QED BY <2>1, <2>2 DEF AsksOnce, Asks
  <1>11. ASSUME Framed(ls)
         PROVE  /\ Framed(r) /\ LineFits(h)
                /\ BeginsData(h) => r # <<>> /\ Follows1(h, Head(r))
    <2>1. ASSUME NEW i \in DOMAIN r
          PROVE  /\ LineFits(r[i])
                 /\ BeginsData(r[i]) => i < Len(r) /\ Follows1(r[i], r[i + 1])
      <3>1. /\ LineFits(ls[i + 1])
            /\ BeginsData(ls[i + 1]) => i + 1 < n /\ Follows1(ls[i + 1], ls[i + 2])
        BY <1>1, <1>2, <1>4, <1>11 DEF Framed, n
      <3>2. i + 1 < n => i + 1 \in DOMAIN r /\ r[i + 1] = ls[i + 2] BY <1>1, <1>2
      <3>3. i + 1 < n => i < Len(r) BY <1>1, <1>2
      <3> QED BY <1>4, <3>1, <3>2, <3>3
    <2>2. LineFits(h) BY <1>1, <1>5, <1>11 DEF Framed
    <2>3. ASSUME BeginsData(h) PROVE r # <<>> /\ Follows1(h, Head(r))
      <3>1. 1 < n /\ Follows1(ls[1], ls[2]) BY <1>1, <1>5, <1>11, <2>3 DEF Framed, n
      <3>2. r # <<>> /\ r[1] = ls[2] BY <1>1, <1>2, <3>1, EmptySeq
      <3>3. Head(r) = r[1] BY <1>2, <3>2, HeadTailProperties
      <3> QED BY <1>1, <3>1, <3>2, <3>3
    <2> QED BY <2>1, <2>2, <2>3 DEF Framed
  <1> QED BY <1>1, <1>2, <1>6, <1>7, <1>8, <1>9, <1>10, <1>11 DEF Splits

\* and when others come.
Joins(t, c, ls, add, all) ==
    /\ all \in Seq(Lines)
    /\ Occurs(t, all) <=> Occurs(t, ls) \/ Occurs(t, add)
    /\ Single(t, ls) /\ Single(t, add) /\ ~(Occurs(t, ls) /\ Occurs(t, add)) => Single(t, all)
    /\ Asks(all) <=> Asks(ls) \/ Asks(add)
    /\ AsksOnce(ls) /\ AsksOnce(add) /\ ~(Asks(ls) /\ Asks(add)) => AsksOnce(all)
    /\ OfLink(c, all) <=> OfLink(c, ls) /\ OfLink(c, add)
    /\ Framed(ls) /\ Framed(add) => Framed(all)
    /\ ls # <<>> => all # <<>> /\ Head(all) = Head(ls)
LEMMA Behind ==
    ASSUME NEW ls \in Seq(Lines), NEW add \in Seq(Lines), NEW c, NEW t,
           NEW all, all = ls \o add
    PROVE  Joins(t, c, ls, add, all)
  <1> DEFINE n == Len(ls)
             m == Len(add)
  <1>1. n \in Nat /\ m \in Nat /\ DOMAIN ls = 1 .. n /\ DOMAIN add = 1 .. m
    BY LenProperties
  <1>2. /\ all \in Seq(Lines) /\ Len(all) = n + m /\ DOMAIN all = 1 .. n + m
        /\ \A i \in 1 .. n : all[i] = ls[i]
        /\ \A i \in 1 .. m : all[n + i] = add[i]
    BY <1>1, ConcatProperties, LenProperties
  <1>3. ASSUME NEW i \in DOMAIN all
        PROVE  \/ i \in DOMAIN ls /\ all[i] = ls[i]
               \/ i - n \in DOMAIN add /\ all[i] = add[i - n] /\ i \notin DOMAIN ls
    <2>1. CASE i <= n BY <1>1, <1>2, <2>1
    <2>2. CASE i > n
      <3>1. i - n \in 1 .. m /\ n + (i - n) = i BY <1>1, <1>2, <2>2
      <3> QED BY <1>1, <1>2, <2>2, <3>1
    <2> QED BY <1>1, <1>2, <2>1, <2>2
  <1>4. ASSUME NEW i \in DOMAIN ls PROVE i \in DOMAIN all /\ all[i] = ls[i]
    BY <1>1, <1>2
  <1>5. ASSUME NEW i \in DOMAIN add PROVE n + i \in DOMAIN all /\ all[n + i] = add[i]
    BY <1>1, <1>2
  <1>6. Occurs(t, all) <=> Occurs(t, ls) \/ Occurs(t, add)
    BY <1>3, <1>4, <1>5 DEF Occurs
  <1>7. Asks(all) <=> Asks(ls) \/ Asks(add)
    BY <1>3, <1>4, <1>5 DEF Asks
  <1>8. OfLink(c, all) <=> OfLink(c, ls) /\ OfLink(c, add)
    BY <1>3, <1>4, <1>5 DEF OfLink
  <1>9. ASSUME Single(t, ls), Single(t, add), ~(Occurs(t, ls) /\ Occurs(t, add))
        PROVE  Single(t, all)
    <2> SUFFICES ASSUME NEW i \in DOMAIN all, NEW j \in DOMAIN all, all[i].type = t, all[j].type = t
                 PROVE  i = j
      BY DEF Single
    <2>1. CASE i \in DOMAIN ls /\ j \in DOMAIN ls BY <1>4, <1>9, <2>1 DEF Single
    <2>2. CASE i \notin DOMAIN ls /\ j \notin DOMAIN ls
      <3>1. i - n = j - n BY <1>3, <1>9, <2>2 DEF Single
      <3> QED BY <1>1, <1>2, <3>1
    <2>3. CASE i \in DOMAIN ls /\ j \notin DOMAIN ls BY <1>3, <1>9, <2>3 DEF Occurs
    <2>4. CASE i \notin DOMAIN ls /\ j \in DOMAIN ls BY <1>3, <1>9, <2>4 DEF Occurs
    <2> QED BY <2>1, <2>2, <2>3, <2>4
  <1>10. ASSUME AsksOnce(ls), AsksOnce(add), ~(Asks(ls) /\ Asks(add))
         PROVE  AsksOnce(all)
    <2> SUFFICES ASSUME NEW i \in DOMAIN all, NEW j \in DOMAIN all,
                        IsCommand(all[i]), IsCommand(all[j])
                 PROVE  i = j
      BY DEF AsksOnce
    <2>1. CASE i \in DOMAIN ls /\ j \in DOMAIN ls BY <1>4, <1>10, <2>1 DEF AsksOnce
    <2>2. CASE i \notin DOMAIN ls /\ j \notin DOMAIN ls
      <3>1. i - n = j - n BY <1>3, <1>10, <2>2 DEF AsksOnce
      <3> QED BY <1>1, <1>2, <3>1
    <2>3. CASE i \in DOMAIN ls /\ j \notin DOMAIN ls BY <1>3, <1>10, <2>3 DEF Asks
    <2>4. CASE i \notin DOMAIN ls /\ j \in DOMAIN ls BY <1>3, <1>10, <2>4 DEF Asks
    <2> QED BY <2>1, <2>2, <2>3, <2>4
  <1>11. ASSUME Framed(ls), Framed(add) PROVE Framed(all)
    <2> SUFFICES ASSUME NEW i \in DOMAIN all
                 PROVE  /\ LineFits(all[i])
                        /\ BeginsData(all[i]) => i < n + m /\ Follows1(all[i], all[i + 1])
      BY <1>2 DEF Framed
    <2>1. CASE i \in DOMAIN ls
      <3>1. /\ LineFits(ls[i])
            /\ BeginsData(ls[i]) => i < n /\ Follows1(ls[i], ls[i + 1])
        BY <1>11, <2>1 DEF Framed
      <3>2. i < n => i + 1 \in DOMAIN ls /\ i < n + m BY <1>1, <2>1
      <3> QED BY <1>4, <2>1, <3>1, <3>2
    <2>2. CASE i \notin DOMAIN ls
      <3> DEFINE k == i - n
      <3>1. k \in DOMAIN add /\ all[i] = add[k] BY <1>3, <2>2
      <3>2. /\ LineFits(add[k])
            /\ BeginsData(add[k]) => k < m /\ Follows1(add[k], add[k + 1])
        BY <1>11, <3>1 DEF Framed
      <3>3. k < m => k + 1 \in DOMAIN add /\ n + (k + 1) = i + 1 /\ i < n + m
        <4>1. n \in Nat /\ m \in Nat /\ i \in 1 .. n + m BY <1>1, <1>2
        <4>2. k \in 1 .. m BY <1>1, <3>1
        <4> HIDE DEF n, m
        <4>3. k < m => k + 1 \in 1 .. m /\ n + (k + 1) = i + 1 /\ i < n + m BY <4>1, <4>2
        <4> QED BY <1>1, <4>3
      <3>4. k < m => all[i + 1] = add[k + 1] BY <1>5, <3>3
      <3> QED BY <3>1, <3>2, <3>3, <3>4
    <2> QED BY <2>1, <2>2
  <1>12. ASSUME ls # <<>> PROVE all # <<>> /\ Head(all) = Head(ls)
    <2>1. n > 0 /\ Head(ls) = ls[1] BY <1>1, <1>12, EmptySeq, HeadTailProperties
    <2>2. all # <<>> /\ all[1] = ls[1] BY <1>1, <1>2, <2>1
    <2> QED BY <1>2, <2>1, <2>2, HeadTailProperties
  <1> QED BY <1>2, <1>6, <1>7, <1>8, <1>9, <1>10, <1>11, <1>12 DEF Joins

\* The same for the two lines that the exchange with the chip depends on.
LinesSplit(c, ls, h, r) ==
    /\ r \in Seq(Lines) /\ h \in Lines
    /\ Prompted(ls) <=> h.type = "> " \/ Prompted(r)
    /\ Acknowledged(ls) <=> h.type = "SEND OK" \/ Acknowledged(r)
    /\ Orderly(ls) => /\ Orderly(r)
                      /\ h.type = "> " => ~Prompted(r)
                      /\ h.type = "SEND OK" => ~Acknowledged(r)
    /\ Asks(ls) <=> IsCommand(h) \/ Asks(r)
    /\ AsksOnce(ls) => AsksOnce(r) /\ (IsCommand(h) => ~Asks(r))
    /\ OfLink(c, ls) <=> (IsData(h) => h.of \in {c, Other}) /\ OfLink(c, r)
    /\ Framed(ls) => /\ Framed(r) /\ LineFits(h)
                     /\ BeginsData(h) => r # <<>> /\ Follows1(h, Head(r))
LEMMA RestLines ==
    ASSUME NEW ls \in Seq(Lines), ls # <<>>, NEW c
    PROVE  LinesSplit(c, ls, Head(ls), Tail(ls))
  <1>1. Splits("> ", c, ls, Head(ls), Tail(ls)) BY Rest
  <1>2. Splits("SEND OK", c, ls, Head(ls), Tail(ls)) BY Rest
  <1> QED BY <1>1, <1>2 DEF Splits, LinesSplit, Prompted, Acknowledged, Orderly

LinesJoin(c, ls, add, all) ==
    /\ all \in Seq(Lines)
    /\ Prompted(all) <=> Prompted(ls) \/ Prompted(add)
    /\ Acknowledged(all) <=> Acknowledged(ls) \/ Acknowledged(add)
    /\ Orderly(ls) /\ Orderly(add)
          /\ ~(Prompted(ls) /\ Prompted(add)) /\ ~(Acknowledged(ls) /\ Acknowledged(add))
       => Orderly(all)
    /\ Asks(all) <=> Asks(ls) \/ Asks(add)
    /\ AsksOnce(ls) /\ AsksOnce(add) /\ ~(Asks(ls) /\ Asks(add)) => AsksOnce(all)
    /\ OfLink(c, all) <=> OfLink(c, ls) /\ OfLink(c, add)
    /\ Framed(ls) /\ Framed(add) => Framed(all)
    /\ ls # <<>> => all # <<>> /\ Head(all) = Head(ls)
LEMMA AddedLines ==
    ASSUME NEW ls \in Seq(Lines), NEW add \in Seq(Lines), NEW c
    PROVE  LinesJoin(c, ls, add, ls \o add)
  <1>1. Joins("> ", c, ls, add, ls \o add) BY Behind
  <1>2. Joins("SEND OK", c, ls, add, ls \o add) BY Behind
  <1> QED BY <1>1, <1>2 DEF Joins, LinesJoin, Prompted, Acknowledged, Orderly

LEMMA NoLines ==
    ASSUME NEW c
    PROVE  /\ <<>> \in Seq(Lines)
           /\ ~Prompted(<<>>) /\ ~Acknowledged(<<>>) /\ Orderly(<<>>)
           /\ ~Asks(<<>>) /\ AsksOnce(<<>>) /\ OfLink(c, <<>>) /\ Framed(<<>>)
  <1>1. <<>> \in Seq(Lines) /\ DOMAIN <<>> = {} BY EmptySeq
  <1> QED BY <1>1 DEF Prompted, Acknowledged, Orderly, Occurs, Single, Asks, AsksOnce, OfLink, Framed

LEMMA OneLine ==
    ASSUME NEW l \in Lines, NEW c
    PROVE  /\ <<l>> \in Seq(Lines)
           /\ Prompted(<<l>>) <=> l.type = "> "
           /\ Acknowledged(<<l>>) <=> l.type = "SEND OK"
           /\ Orderly(<<l>>) /\ AsksOnce(<<l>>)
           /\ Asks(<<l>>) <=> IsCommand(l)
           /\ OfLink(c, <<l>>) <=> (IsData(l) => l.of \in {c, Other})
           /\ LineFits(l) /\ ~BeginsData(l) => Framed(<<l>>)
  <1>1. <<l>> \in Seq(Lines) /\ DOMAIN <<l>> = {1} /\ <<l>>[1] = l OBVIOUS
  <1> QED BY <1>1 DEF Prompted, Acknowledged, Orderly, Occurs, Single, Asks, AsksOnce, OfLink, Framed

\* What the chip answers is no data.
Answer == {"> ", "OK", "SEND OK", "ERROR", "busy", "Unlink"}
LEMMA Plain ==
    ASSUME NEW x \in Answer
    PROVE  /\ Line(x) \in Lines /\ Line(x).type = x
           /\ ~IsData(Line(x)) /\ ~IsCommand(Line(x)) /\ LineFits(Line(x)) /\ ~BeginsData(Line(x))
  BY DEF Line, Lines, IsData, IsCommand, LineFits, BeginsData, Answer, Pieces

LEMMA OneAnswer ==
    ASSUME NEW x \in Answer, NEW c, NEW s, s = <<Line(x)>>
    PROVE  /\ s \in Seq(Lines)
           /\ Prompted(s) <=> x = "> "
           /\ Acknowledged(s) <=> x = "SEND OK"
           /\ Orderly(s) /\ ~Asks(s) /\ AsksOnce(s) /\ OfLink(c, s) /\ Framed(s)
  BY Plain, OneLine

LEMMA TwoAnswers ==
    ASSUME NEW x \in Answer, NEW y \in Answer, x # y, NEW c, NEW s, s = <<Line(x), Line(y)>>
    PROVE  /\ s \in Seq(Lines)
           /\ Prompted(s) <=> x = "> " \/ y = "> "
           /\ Acknowledged(s) <=> x = "SEND OK" \/ y = "SEND OK"
           /\ Orderly(s) /\ ~Asks(s) /\ AsksOnce(s) /\ OfLink(c, s) /\ Framed(s)
  <1> DEFINE a == <<Line(x)>>
             b == <<Line(y)>>
  <1>1. s = a \o b OBVIOUS
  <1>2. /\ a \in Seq(Lines) /\ (Prompted(a) <=> x = "> ") /\ (Acknowledged(a) <=> x = "SEND OK")
        /\ Orderly(a) /\ ~Asks(a) /\ AsksOnce(a) /\ OfLink(c, a) /\ Framed(a)
    BY OneAnswer
  <1>3. /\ b \in Seq(Lines) /\ (Prompted(b) <=> y = "> ") /\ (Acknowledged(b) <=> y = "SEND OK")
        /\ Orderly(b) /\ ~Asks(b) /\ AsksOnce(b) /\ OfLink(c, b) /\ Framed(b)
    BY OneAnswer
  <1> HIDE DEF a, b
  <1>4. LinesJoin(c, a, b, s) BY <1>1, <1>2, <1>3, AddedLines
  <1>5. ~(Prompted(a) /\ Prompted(b)) /\ ~(Acknowledged(a) /\ Acknowledged(b))
    <2>1. ASSUME Prompted(a), Prompted(b) PROVE FALSE
      <3>1. x = "> " BY <1>2, <2>1
      <3>2. y = "> " BY <1>3, <2>1
      <3> QED BY <3>1, <3>2
    <2>2. ASSUME Acknowledged(a), Acknowledged(b) PROVE FALSE
      <3>1. x = "SEND OK" BY <1>2, <2>2
      <3>2. y = "SEND OK" BY <1>3, <2>2
      <3> QED BY <3>1, <3>2
    <2> QED BY <2>1, <2>2
  <1>6. s \in Seq(Lines) /\ Orderly(s) /\ ~Asks(s) /\ AsksOnce(s) /\ OfLink(c, s) /\ Framed(s)
    BY <1>2, <1>3, <1>4, <1>5 DEF LinesJoin
  <1>7. (Prompted(s) <=> Prompted(a) \/ Prompted(b)) /\ (Acknowledged(s) <=> Acknowledged(a) \/ Acknowledged(b))
    BY <1>4 DEF LinesJoin
  <1> QED BY <1>2, <1>3, <1>6, <1>7

\* What a client sends: at most one command.
LEMMA DataLines ==
    ASSUME NEW o \in Clients \cup {Other}, NEW s, NEW c,
           \/ \E p \in {"command", "close"} : o # Other /\ s = <<Data("+IPD", o, p), Line("OK")>>
           \/ s = <<Data("+IPD", o, "part"), Data("data", o, "command"), Line("OK")>>
    PROVE  /\ s \in Seq(Lines)
           /\ ~Prompted(s) /\ ~Acknowledged(s) /\ Orderly(s)
           /\ AsksOnce(s) /\ OfLink(o, s) /\ Framed(s)
           /\ Asks(s) => o # Other
           /\ s = <<Data("+IPD", o, "close"), Line("OK")>> => ~Asks(s)
           /\ o = Other => OfLink(c, s)
  <1> DEFINE ok == <<Line("OK")>>
             d == <<Data("data", o, "command")>>
  <1>0. o # None /\ None # Other BY EspAssumption
  <1>1. /\ ok \in Seq(Lines) /\ ~Prompted(ok) /\ ~Acknowledged(ok) /\ Orderly(ok)
        /\ ~Asks(ok) /\ AsksOnce(ok) /\ OfLink(o, ok) /\ OfLink(c, ok) /\ Framed(ok)
    BY OneAnswer DEF Answer
  <1>2. ASSUME NEW p \in {"command", "close"}, o # Other,
               s = <<Data("+IPD", o, p), Line("OK")>>
        PROVE  /\ s \in Seq(Lines)
               /\ ~Prompted(s) /\ ~Acknowledged(s) /\ Orderly(s)
               /\ AsksOnce(s) /\ OfLink(o, s) /\ Framed(s)
               /\ p = "close" => ~Asks(s)
    <2> DEFINE l == Data("+IPD", o, p)
    <2>1. /\ l \in Lines /\ l.type = "+IPD" /\ l.of = o /\ l.piece = p
      BY DEF Data, Lines, Pieces
    <2>2. IsData(l) /\ ~BeginsData(l) /\ LineFits(l) /\ (IsCommand(l) <=> p = "command")
      BY <1>0, <1>2, <2>1 DEF IsData, BeginsData, LineFits, IsCommand
    <2>3. s = <<l>> \o ok BY <1>2
    <2> HIDE DEF l, ok
    <2>4. /\ <<l>> \in Seq(Lines) /\ ~Prompted(<<l>>) /\ ~Acknowledged(<<l>>) /\ Orderly(<<l>>)
          /\ AsksOnce(<<l>>) /\ (Asks(<<l>>) <=> p = "command") /\ OfLink(o, <<l>>) /\ Framed(<<l>>)
      BY <2>1, <2>2, OneLine
    <2>5. LinesJoin(o, <<l>>, ok, s) BY <1>1, <2>3, <2>4, AddedLines
    <2> QED BY <1>1, <2>4, <2>5 DEF LinesJoin
  <1>3. ASSUME s = <<Data("+IPD", o, "part"), Data("data", o, "command"), Line("OK")>>
        PROVE  /\ s \in Seq(Lines)
               /\ ~Prompted(s) /\ ~Acknowledged(s) /\ Orderly(s)
               /\ AsksOnce(s) /\ OfLink(o, s) /\ Framed(s)
               /\ Asks(s) => o # Other
               /\ o = Other => OfLink(c, s)
    <2> DEFINE l == Data("+IPD", o, "part")
               e == Data("data", o, "command")
               le == <<l, e>>
    <2>1. /\ l \in Lines /\ l.type = "+IPD" /\ l.of = o /\ l.piece = "part"
          /\ e \in Lines /\ e.type = "data" /\ e.of = o /\ e.piece = "command"
      BY DEF Data, Lines, Pieces
    <2>2. /\ IsData(l) /\ LineFits(l) /\ ~IsCommand(l) /\ Follows1(l, e)
          /\ IsData(e) /\ ~BeginsData(e) /\ LineFits(e) /\ (IsCommand(e) <=> o # Other)
      BY <1>0, <2>1 DEF IsData, BeginsData, LineFits, IsCommand, Follows1
    <2>3. s = le \o ok BY <1>3
    <2>4. le \in Seq(Lines) /\ DOMAIN le = {1, 2} /\ le[1] = l /\ le[2] = e /\ Len(le) = 2
      BY <2>1
    <2> HIDE DEF l, e, le, ok
    <2>5. ~Prompted(le) /\ ~Acknowledged(le) /\ Orderly(le)
      BY <2>1, <2>4 DEF Prompted, Acknowledged, Orderly, Occurs, Single
    <2>6. /\ AsksOnce(le) /\ (Asks(le) => o # Other)
          /\ OfLink(o, le) /\ (o = Other => OfLink(c, le))
      BY <2>1, <2>2, <2>4 DEF AsksOnce, Asks, OfLink
    <2>7. Framed(le) BY <2>2, <2>4 DEF Framed
    <2>8. LinesJoin(o, le, ok, s) /\ LinesJoin(c, le, ok, s) BY <1>1, <2>3, <2>4, AddedLines
    <2> QED BY <1>1, <2>4, <2>5, <2>6, <2>7, <2>8 DEF LinesJoin
  <1>4. Data("+IPD", o, "close") # Data("+IPD", o, "command") /\ Data("+IPD", o, "close") # Data("+IPD", o, "part")
    BY DEF Data
  <1> QED
    <2>1. CASE \E p \in {"command", "close"} : o # Other /\ s = <<Data("+IPD", o, p), Line("OK")>>
      <3>1. PICK p \in {"command", "close"} : o # Other /\ s = <<Data("+IPD", o, p), Line("OK")>>
        BY <2>1
      <3>2. s = <<Data("+IPD", o, "close"), Line("OK")>> => p = "close" BY <1>4, <3>1
      <3> QED BY <1>2, <3>1, <3>2
    <2>2. CASE s = <<Data("+IPD", o, "part"), Data("data", o, "command"), Line("OK")>>
      <3>1. s # <<Data("+IPD", o, "close"), Line("OK")>>
        BY <2>2
      <3> QED BY <1>3, <2>2, <3>1
    <2> QED BY <2>1, <2>2

\* Lines behind which one came that is neither data nor one of those two.
Alike(c, ls, all) ==
    /\ all \in Seq(Lines)
    /\ Prompted(all) <=> Prompted(ls)
    /\ Acknowledged(all) <=> Acknowledged(ls)
    /\ Orderly(ls) => Orderly(all)
    /\ Asks(all) <=> Asks(ls)
    /\ AsksOnce(ls) => AsksOnce(all)
    /\ OfLink(c, ls) => OfLink(c, all)
    /\ Framed(ls) => Framed(all)
    /\ ls # <<>> => all # <<>> /\ Head(all) = Head(ls)
LEMMA AlikeWith ==
    ASSUME NEW ls \in Seq(Lines), NEW c, NEW x \in {"OK", "ERROR", "busy", "Unlink"}
    PROVE  Alike(c, ls, ls) /\ Alike(c, ls, ls \o <<Line(x)>>)
  <1> DEFINE add == <<Line(x)>>
  <1>1. /\ add \in Seq(Lines) /\ ~Prompted(add) /\ ~Acknowledged(add)
        /\ Orderly(add) /\ ~Asks(add) /\ AsksOnce(add) /\ OfLink(c, add) /\ Framed(add)
    BY OneAnswer DEF Answer
  <1>2. LinesJoin(c, ls, add, ls \o add) BY <1>1, AddedLines
  <1>3. Alike(c, ls, ls \o add) BY <1>1, <1>2 DEF LinesJoin, Alike
  <1> QED BY <1>3 DEF Alike

--------------------------------------------------------------------------------
(* The invariant.                                                            *)

\* What the driver copies or drops is what it announced.
Stream ==
    /\ Framed(lines)
    /\ more # "no" => /\ lines # <<>> /\ Head(lines).type = "data"
                      /\ more = "copied" => Head(lines).of # Other

\* While the chip is set up there is nothing to read or to send.
SetUp ==
    stage > 0 => /\ chip = Idle /\ lines = <<>> /\ rx = <<>> /\ more = "no"
                 /\ flags = NoFlags /\ tx = NoUnit /\ raw = NoUnit /\ text = NoPart
                 /\ ~cut /\ ~linkConnected /\ ~closing

\* A unit that was begun has the flags to itself.
UnitsFit(f) ==
    /\ ~f.responseSet => tx = NoUnit
    /\ ~f.rawDataSet => raw = NoUnit
    /\ raw = NoUnit \/ (raw.of = Raw /\ raw.len = raw.n /\ raw.idx <= raw.len)
    /\ tx.idx > 0 => f.sendingResponse /\ ~f.sendingRawData
    /\ raw.idx > 0 => f.sendingRawData
    /\ f.waitingToSend => linkConnected

\* How far the chip is with the part that is announced, sent, acknowledged.  Until
\* then waitingToSend is set, and the driver says nothing else.
Exchange ==
    /\ chip.does \in {"CIPSEND", "prompt"} =>
           /\ flags.waitingToSend /\ text # NoPart /\ chip.part = text
           /\ flags.sendingResponse \/ flags.sendingRawData
           /\ ~Acknowledged(lines)
    /\ chip.does = "sending" => flags.waitingToSend /\ text = NoPart /\ ~Acknowledged(lines)
    /\ Prompted(lines) <=> chip.does = "prompt"
    /\ Acknowledged(lines) => flags.waitingToSend /\ text = NoPart
    /\ Orderly(lines)
    /\ ~flags.waitingToSend => text = NoPart
    /\ closing => ~flags.waitingToSend
    /\ text # NoPart => flags.responseSet \/ flags.rawDataSet

\* A client that came when nothing was left of an earlier one.
Mine == fresh /\ ~cut /\ up # None /\ Patient

OwnData ==
    /\ OfLink(up, lines)
    /\ rx # <<>> => Head(rx).of \in {up, None}
    /\ tx = NoUnit \/ (tx.of = up /\ tx.len = tx.n /\ tx.idx <= tx.len)

\* It waits for its command to be read, for the response, or for its last part.
Whole(p) == p.i >= p.n
Ends     == chip.does = "sending" /\ chip.part.of = up /\ Whole(chip.part)
Reading  == rx # <<>> /\ Head(rx).piece = "command"
OneCommand ==
    /\ AsksOnce(lines)
    /\ Asks(lines) => asked /\ ~Reading /\ ~flags.responseSet /\ ~Ends
    /\ Reading => asked /\ ~flags.responseSet /\ ~Ends
    /\ flags.responseSet => asked /\ ~Ends
    /\ Ends => asked

\* A part on its way is the last one of the unit that was begun, or ends a unit.
Begun(u)  == [of |-> u.of, i |-> u.idx, n |-> u.n]
InTurn(p) ==
    /\ tx.idx > 0 => p = Begun(tx)
    /\ raw.idx > 0 => p = Begun(raw)
    /\ tx.idx = 0 /\ raw.idx = 0 => Whole(p)
Order ==
    /\ text # NoPart => Follows(text) /\ InTurn(text) /\ (tx.idx > 0 \/ raw.idx > 0)
    /\ chip.does = "sending" => Follows(chip.part) /\ InTurn(chip.part)
    /\ Acknowledged(lines) => InTurn(last)
    /\ ~flags.waitingToSend => tx.idx = 0 /\ raw.idx = 0 /\ Whole(last)

MineHolds == Mine => OwnData /\ OneCommand /\ Order
Holds ==
    /\ UnitsFit(flags) /\ (~cut => Exchange) /\ MineHolds
    /\ TextAtPrompt /\ (Patient => PartsInOrder)
IInv == TypeOK /\ Stream /\ SetUp /\ Holds

--------------------------------------------------------------------------------
(* Flags, units and parts.                                                   *)

LEMMA Constants ==
    /\ MaxParts \in Nat \ {0} /\ MaxParts >= 1
    /\ \A n \in Sizes : n \in Nat /\ 1 <= n /\ n <= MaxParts
    /\ None \notin Clients /\ Raw \notin Clients /\ Other \notin Clients
    /\ None # Raw /\ None # Other
  BY EspAssumption

LEMMA FlagFields ==
    ASSUME NEW f \in Flags
    PROVE  /\ f.responseSet \in BOOLEAN /\ f.sendingResponse \in BOOLEAN
           /\ f.waitingToSend \in BOOLEAN /\ f.rawDataSet \in BOOLEAN
           /\ f.sendingRawData \in BOOLEAN
  BY DEF Flags

LEMMA NoFlagsSet ==
    /\ NoFlags \in Flags /\ ~NoFlags.responseSet /\ ~NoFlags.sendingResponse
    /\ ~NoFlags.waitingToSend /\ ~NoFlags.rawDataSet /\ ~NoFlags.sendingRawData
  BY DEF NoFlags, Flags

LEMMA NoUnitFields ==
    /\ NoUnit \in Units /\ NoUnit.of = None /\ NoUnit.n = 0 /\ NoUnit.idx = 0 /\ NoUnit.len = 0
    /\ NoPart \in Parts /\ NoPart.of = None /\ NoPart.i = 0 /\ NoPart.n = 0
  BY Constants DEF NoUnit, Unit, Units, NoPart, Parts

LEMMA UnitFields ==
    ASSUME NEW u \in Units
    PROVE  /\ u.of \in Clients \cup {None, Raw}
           /\ u.n \in 0 .. MaxParts /\ u.idx \in 0 .. MaxParts /\ u.len \in 0 .. MaxParts
  BY DEF Units

LEMMA PartFields ==
    ASSUME NEW p \in Parts
    PROVE  /\ p.of \in Clients \cup {None, Raw}
           /\ p.i \in 0 .. MaxParts + 1 /\ p.n \in 0 .. MaxParts
  BY DEF Parts

LEMMA NewUnit ==
    ASSUME NEW c \in Clients \cup {Raw}, NEW n \in Sizes, NEW u, u = Unit(c, n)
    PROVE  u \in Units /\ u.of = c /\ u.n = n /\ u.len = n /\ u.idx = 0
  BY Constants DEF Unit, Units

\* The next part of a unit, and the unit after it.
LEMMA NextPart ==
    ASSUME NEW u \in Units, u.idx < u.len, NEW v, v = Next1(u), NEW p, p = PartOf(u)
    PROVE  /\ v \in Units /\ v.of = u.of /\ v.n = u.n /\ v.len = u.len /\ v.idx = u.idx + 1
           /\ p \in Parts /\ p # NoPart /\ p = Begun(v)
           /\ p.of = u.of /\ p.i = u.idx + 1 /\ p.n = u.n
  <1>1. u.idx + 1 \in 0 .. MaxParts /\ u.idx + 1 # 0 BY UnitFields, Constants
  <1>2. v \in Units /\ v.of = u.of /\ v.n = u.n /\ v.len = u.len /\ v.idx = u.idx + 1
    BY <1>1 DEF Next1, Units
  <1>3. p \in Parts /\ p.of = u.of /\ p.i = u.idx + 1 /\ p.n = u.n
    BY <1>1, UnitFields, Constants DEF PartOf, Parts
  <1>4. p # NoPart BY <1>1, <1>3, NoUnitFields
  <1>5. p = Begun(v) BY <1>2 DEF PartOf, Begun
  <1> QED BY <1>2, <1>3, <1>4, <1>5

LEMMA InitHolds == Init => IInv
  <1> SUFFICES ASSUME Init PROVE IInv OBVIOUS
  <1>1. TypeOK
    <2>1. 1 \in 0 .. Len(SetupCommands) BY DEF SetupCommands
    <2>2. rx \in Seq(Rx) /\ Len(rx) <= 1 /\ lines \in Seq(Lines) BY EmptySeq DEF Init
    <2>3. chip \in Chip BY NoUnitFields DEF Init, Chip, Idle
    <2>4. 0 \in 0 .. MaxFaults BY EspAssumption
    <2> QED BY <2>1, <2>2, <2>3, <2>4, NoFlagsSet, NoUnitFields DEF Init, TypeOK
  <1>2. Stream BY NoLines DEF Init, Stream
  <1>3. SetUp BY DEF Init, SetUp
  <1>4. UnitsFit(flags) BY NoFlagsSet, NoUnitFields DEF Init, UnitsFit
  <1>5. Exchange
    BY NoFlagsSet, NoLines DEF Init, Exchange, Idle
  <1>6. ~Mine BY DEF Init, Mine
  <1>7. TextAtPrompt /\ PartsInOrder BY DEF Init, TextAtPrompt, PartsInOrder
  <1> QED BY <1>1, <1>2, <1>3, <1>4, <1>5, <1>6, <1>7 DEF IInv, Holds, MineHolds

--------------------------------------------------------------------------------
(* What steps have in common.                                                *)

\* Nothing is sent: lines were read, or came, that are no part of an exchange.
LEMMA StillHolds ==
    ASSUME Holds, chip' = chip,
           UNCHANGED <<linkConnected, closing, tx, raw, flags, text, cut, garbled, torn, last, fresh, up, asked>>,
           Prompted(lines') <=> Prompted(lines), Acknowledged(lines') <=> Acknowledged(lines),
           Orderly(lines) => Orderly(lines'),
           AsksOnce(lines) => AsksOnce(lines'), Asks(lines') => Asks(lines),
           OfLink(up, lines) => OfLink(up, lines'),
           OwnData => (rx' # <<>> => Head(rx').of \in {up, None}),
           Reading' => Reading \/ Asks(lines),
           AsksOnce(lines) /\ Reading' /\ Asks(lines') => Reading
    PROVE  Holds'
  <1>1. /\ UNCHANGED <<linkConnected, closing, cut, garbled, torn, last, fresh, up, asked>>
        /\ UNCHANGED <<tx, raw, flags, text>>
    OBVIOUS
  <1>2. UnitsFit(flags)' BY <1>1 DEF Holds, UnitsFit
  <1>3. (~cut => Exchange)' BY <1>1 DEF Holds, Exchange
  <1>4. MineHolds'
    <2> SUFFICES ASSUME Mine' PROVE OwnData' /\ OneCommand' /\ Order' BY DEF MineHolds
    <2>1. OwnData /\ OneCommand /\ Order BY <1>1 DEF Holds, MineHolds, Mine
    <2>2. OwnData' BY <1>1, <2>1 DEF OwnData
    <2>3. OneCommand'
      <3>1. Ends' = Ends BY <1>1 DEF Ends, Whole
      <3>2. AsksOnce(lines') BY <2>1 DEF OneCommand
      <3> QED BY <1>1, <2>1, <3>1, <3>2 DEF OneCommand
    <2>4. Order' BY <1>1, <2>1 DEF Order, Follows, InTurn, Begun, Whole
    <2> QED BY <2>2, <2>3, <2>4
  <1>5. (TextAtPrompt /\ (Patient => PartsInOrder))' BY <1>1 DEF Holds, TextAtPrompt, PartsInOrder
  <1> QED BY <1>2, <1>3, <1>4, <1>5 DEF Holds

LEMMA Frame ==
    ASSUME Holds, chip' = chip,
           UNCHANGED <<linkConnected, closing, sendVars, cut, garbled, torn, last, fresh, up, asked>>,
           Prompted(lines') <=> Prompted(lines), Acknowledged(lines') <=> Acknowledged(lines),
           Orderly(lines) => Orderly(lines'),
           AsksOnce(lines) => AsksOnce(lines'), Asks(lines') => Asks(lines),
           OfLink(up, lines) => OfLink(up, lines'),
           OwnData => (rx' # <<>> => Head(rx').of \in {up, None}),
           Reading' => Reading \/ Asks(lines),
           AsksOnce(lines) /\ Reading' /\ Asks(lines') => Reading
    PROVE  Holds'
  BY StillHolds DEF sendVars

\* The link is given up, or another begins: all that was to be sent is dropped.
LEMMA Disconnected ==
    ASSUME Holds, flags \in Flags, cut \in BOOLEAN, chip' = chip, disconnect,
           UNCHANGED <<garbled, torn, last, fresh, up, asked>>,
           Prompted(lines') => Prompted(lines), Acknowledged(lines') => Acknowledged(lines),
           Orderly(lines) => Orderly(lines'),
           AsksOnce(lines) => AsksOnce(lines'), Asks(lines') => Asks(lines),
           OfLink(up, lines) => OfLink(up, lines'),
           OwnData => (rx' # <<>> => Head(rx').of \in {up, None}),
           Reading' => Reading \/ Asks(lines),
           AsksOnce(lines) /\ Reading' /\ Asks(lines') => Reading
    PROVE  Holds'
  <1>1. /\ UNCHANGED <<garbled, torn, last, fresh, up, asked>>
        /\ tx' = NoUnit /\ raw' = NoUnit /\ flags' = NoFlags /\ text' = NoPart
    BY DEF disconnect
  <1>2. ~cut' => ~cut /\ ~flags.waitingToSend BY DEF disconnect
  <1>3. ASSUME ~cut'
        PROVE  /\ ~cut /\ chip.does \notin {"CIPSEND", "prompt", "sending"}
               /\ ~Prompted(lines) /\ ~Acknowledged(lines) /\ Orderly(lines)
    BY <1>2, <1>3 DEF Holds, Exchange
  <1>4. UnitsFit(flags)' BY <1>1, NoFlagsSet, NoUnitFields DEF UnitsFit
  <1>5. (~cut => Exchange)' BY <1>1, <1>3, NoFlagsSet DEF Exchange
  <1>6. MineHolds'
    <2> SUFFICES ASSUME Mine' PROVE OwnData' /\ OneCommand' /\ Order' BY DEF MineHolds
    <2>1. ~cut /\ OwnData /\ OneCommand /\ Order BY <1>1, <1>2 DEF Holds, MineHolds, Mine
    <2>2. OwnData' BY <1>1, <2>1 DEF OwnData
    <2>3. ~Ends' BY <1>3 DEF Mine, Ends
    <2>4. OneCommand' BY <1>1, <2>1, <2>3, NoFlagsSet DEF OneCommand
    <2>5. Whole(last) BY <1>2, <2>1 DEF Mine, Order
    <2>6. Order' BY <1>1, <1>3, <2>5, NoUnitFields DEF Mine, Order, Whole
    <2> QED BY <2>2, <2>4, <2>6
  <1>7. (TextAtPrompt /\ (Patient => PartsInOrder))' BY <1>1 DEF Holds, TextAtPrompt, PartsInOrder
  <1> QED BY <1>4, <1>5, <1>6, <1>7 DEF Holds

\* What the driver says reaches a chip that is idle; one that is not answers "busy".
LEMMA SayTypes ==
    ASSUME chip \in Chip, garbled \in BOOLEAN, cut \in BOOLEAN,
           NEW c \in {"AT", "CIPCLOSE", "CIPSEND", "failing"}, NEW p \in Parts,
           NEW ls \in Seq(Lines), Say(c, p, ls), NEW o
    PROVE  /\ chip' \in Chip /\ lines' \in Seq(Lines) /\ garbled' \in BOOLEAN
           /\ Alike(o, ls, lines')
           /\ chip.does # "prompt" => garbled' = garbled
           /\ chip.does \notin {"nothing", "prompt"} => chip' = chip
           /\ chip.does = "nothing" => chip' = [does |-> c, part |-> p]
  <1>1. [does |-> c, part |-> p] \in Chip /\ [does |-> "failing", part |-> NoPart] \in Chip
    BY NoUnitFields DEF Chip
  <1>2. chip' \in Chip BY <1>1 DEF Say
  <1>3. garbled' \in BOOLEAN BY DEF Say
  <1>4. lines' = ls \/ lines' = ls \o <<Line("busy")>>
    <2>1. Line("busy") \in Lines BY Plain DEF Answer
    <2>2. Append(ls, Line("busy")) = ls \o <<Line("busy")>> BY <2>1, AppendIsConcat
    <2> QED BY <2>2 DEF Say
  <1>5. Alike(o, ls, lines') BY <1>4, AlikeWith
  <1> QED BY <1>2, <1>3, <1>5 DEF Say, Alike

--------------------------------------------------------------------------------
(* Lines are read.                                                           *)

LEMMA Polled ==
    ASSUME IInv, Polls
    PROVE  /\ ready /\ stage = 0 /\ rx = <<>> /\ lines # <<>> /\ lines \in Seq(Lines)
           /\ rest \in Seq(Lines) /\ Head(lines) \in Lines
           /\ LinesSplit(up, lines, Head(lines), rest)
           /\ Framed(lines) /\ Framed(rest) /\ LineFits(Head(lines))
           /\ ~Reading
  <1>1. stage = 0 /\ ready /\ rx = <<>> /\ lines # <<>> BY DEF Polls, Running
  <1>2. lines \in Seq(Lines) /\ Framed(lines) BY DEF IInv, TypeOK, Stream
  <1>3. LinesSplit(up, lines, Head(lines), rest) BY <1>1, <1>2, RestLines DEF rest
  <1> QED BY <1>1, <1>2, <1>3 DEF LinesSplit, Reading

\* What is copied is one piece of a client's data.
LEMMA Copied ==
    ASSUME NEW l \in Lines, l.of \in Clients, NEW b, NEW x, x = copyDataToRxBuffer(b, PieceOf(l))
    PROVE  /\ x \in Seq(Rx) /\ Len(x) <= 1 /\ x # <<>>
           /\ Head(x).of = l.of /\ Head(x).piece = l.piece
  <1>1. PieceOf(l) \in Rx /\ PieceOf(l).of = l.of /\ PieceOf(l).piece = l.piece
    BY DEF PieceOf, Lines, Rx
  <1>2. x = <<PieceOf(l)>> BY DEF copyDataToRxBuffer
  <1> QED BY <1>1, <1>2

LEMMA TakeDataHolds == ASSUME IInv, TakeData PROVE IInv'
  <1>1. /\ Polls /\ more # "no" /\ Head(lines).type = "data"
        /\ lines' = rest /\ chip' = chip /\ garbled' = garbled /\ more' = "no"
        /\ UNCHANGED <<ready, stage, linkConnected, closing, sendVars, station,
                       peerVars, faults, cut, last, torn>>
        /\ rx' = (IF more = "copied" THEN copyDataToRxBuffer(rx, PieceOf(Head(lines))) ELSE rx)
    BY DEF TakeData, SayNothing
  <1>2. /\ stage = 0 /\ rx = <<>> /\ lines # <<>> /\ rest \in Seq(Lines) /\ Head(lines) \in Lines
        /\ LinesSplit(up, lines, Head(lines), rest)
        /\ Framed(rest) /\ LineFits(Head(lines)) /\ ~Reading
    BY <1>1, Polled
  <1>3. IsData(Head(lines)) BY <1>1 DEF IsData
  <1>4. more = "copied" => Head(lines).of \in Clients
    <2>1. more = "copied" => Head(lines).of # Other BY DEF IInv, Stream
    <2>2. Head(lines).of # None BY <1>2, <1>3 DEF LineFits
    <2>3. Head(lines).of \in Clients \cup {None, Other} BY <1>2 DEF Lines
    <2> QED BY <2>1, <2>2, <2>3
  <1>5. /\ rx' \in Seq(Rx) /\ Len(rx') <= 1
        /\ more # "copied" => rx' = <<>>
        /\ more = "copied" => /\ Head(rx').of = Head(lines).of
                              /\ Head(rx').piece = Head(lines).piece
    <2>1. CASE more = "copied"
      <3>1. rx' = copyDataToRxBuffer(rx, PieceOf(Head(lines))) BY <1>1, <2>1
      <3>2. /\ rx' \in Seq(Rx) /\ Len(rx') <= 1
            /\ Head(rx').of = Head(lines).of /\ Head(rx').piece = Head(lines).piece
        BY <1>2, <1>4, <2>1, <3>1, Copied
      <3> QED BY <2>1, <3>2
    <2>2. CASE more # "copied" BY <1>1, <1>2, <2>2 DEF IInv, TypeOK
    <2> QED BY <2>1, <2>2
  <1>6. TypeOK'
    BY <1>1, <1>2, <1>5 DEF IInv, TypeOK, sendVars, peerVars
  <1>7. Stream' BY <1>1, <1>2 DEF Stream
  <1>8. SetUp' BY <1>1, <1>2 DEF SetUp
  <1>9. Holds'
    <2>1. OwnData => (rx' # <<>> => Head(rx').of \in {up, None})
      <3> SUFFICES ASSUME OwnData, rx' # <<>> PROVE Head(rx').of \in {up, None} OBVIOUS
      <3>1. more = "copied" /\ Head(rx').of = Head(lines).of BY <1>5
      <3>2. Head(lines).of \in {up, Other} BY <1>2, <1>3 DEF OwnData, LinesSplit
      <3> QED BY <1>4, <3>1, <3>2, Constants
    <2>2. Reading' => IsCommand(Head(lines))
      <3> SUFFICES ASSUME Reading' PROVE IsCommand(Head(lines)) OBVIOUS
      <3>1. rx' # <<>> /\ Head(rx').piece = "command" BY DEF Reading
      <3>2. more = "copied" /\ Head(lines).piece = "command" BY <1>5, <3>1
      <3> QED BY <1>3, <1>4, <3>2, Constants DEF IsCommand
    <2>3. /\ AsksOnce(lines) => AsksOnce(rest) /\ (IsCommand(Head(lines)) => ~Asks(rest))
          /\ Asks(lines) <=> IsCommand(Head(lines)) \/ Asks(rest)
          /\ Prompted(rest) <=> Prompted(lines)
          /\ Acknowledged(rest) <=> Acknowledged(lines)
          /\ Orderly(lines) => Orderly(rest)
          /\ OfLink(up, lines) => OfLink(up, rest)
      BY <1>1, <1>2 DEF LinesSplit
    <2> QED BY <1>1, <1>2, <2>1, <2>2, <2>3, Frame DEF IInv, peerVars
  <1> QED BY <1>6, <1>7, <1>8, <1>9 DEF IInv

LEMMA TakeIPDHolds == ASSUME IInv, TakeIPD PROVE IInv'
  <1> DEFINE h == Head(lines)
             idZero == h.of # Other
  <1>1. /\ Polls /\ more = "no" /\ h.type = "+IPD"
        /\ lines' = rest /\ chip' = chip /\ garbled' = garbled
        /\ UNCHANGED <<ready, stage, closing, station, peerVars, faults, last, torn>>
        /\ more' = IF h.piece # "part" THEN "no" ELSE IF idZero THEN "copied" ELSE "dropped"
        /\ IF idZero /\ ~linkConnected
           THEN linkConnected' = TRUE /\ disconnect
           ELSE UNCHANGED <<linkConnected, sendVars, cut>>
        /\ rx' = IF idZero
                 THEN copyDataToRxBuffer(IF linkConnected THEN rx ELSE clearParser, PieceOf(h))
                 ELSE rx
    BY DEF TakeIPD, SayNothing
  <1>2. /\ stage = 0 /\ rx = <<>> /\ lines # <<>> /\ rest \in Seq(Lines) /\ h \in Lines
        /\ LinesSplit(up, lines, h, rest)
        /\ Framed(lines) /\ Framed(rest) /\ LineFits(h) /\ ~Reading
    BY <1>1, Polled
  <1>3. IsData(h) /\ h.of \in Clients \cup {Other} /\ h.piece \in {"part", "command", "close"}
        /\ (BeginsData(h) <=> h.piece = "part")
    BY <1>1, <1>2 DEF IsData, LineFits, Lines, BeginsData, Pieces
  <1> HIDE DEF h
  <1>4. /\ rx' \in Seq(Rx) /\ Len(rx') <= 1
        /\ ~idZero => rx' = <<>>
        /\ idZero => Head(rx').of = h.of /\ Head(rx').piece = h.piece
    <2>1. CASE idZero
      <3>1. h.of \in Clients BY <1>3, <2>1
      <3>2. rx' = copyDataToRxBuffer(IF linkConnected THEN rx ELSE clearParser, PieceOf(h))
        BY <1>1, <2>1
      <3>3. /\ rx' \in Seq(Rx) /\ Len(rx') <= 1
            /\ Head(rx').of = h.of /\ Head(rx').piece = h.piece
        BY <1>2, <3>1, <3>2, Copied
      <3> QED BY <2>1, <3>3
    <2>2. CASE ~idZero BY <1>1, <1>2, <2>2 DEF IInv, TypeOK
    <2> QED BY <2>1, <2>2
  <1>5. more' \in {"no", "copied", "dropped"} /\ (more' # "no" => h.piece = "part")
        /\ (more' = "copied" => idZero)
    BY <1>1
  <1>6. /\ linkConnected' \in BOOLEAN /\ cut' \in BOOLEAN /\ tx' \in Units /\ raw' \in Units
        /\ flags' \in Flags /\ text' \in Parts /\ newline' \in BOOLEAN
    <2>1. CASE idZero /\ ~linkConnected
      <3>1. linkConnected' = TRUE /\ disconnect BY <1>1, <2>1
      <3>2. cut' \in BOOLEAN BY <3>1 DEF disconnect
      <3> QED BY <3>1, <3>2, NoUnitFields, NoFlagsSet DEF disconnect, IInv, TypeOK
    <2>2. CASE ~(idZero /\ ~linkConnected) BY <1>1, <2>2 DEF IInv, TypeOK, sendVars
    <2> QED BY <2>1, <2>2
  <1>7. TypeOK'
    BY <1>1, <1>2, <1>4, <1>5, <1>6 DEF IInv, TypeOK, peerVars
  <1>8. Stream'
    <2>1. ASSUME more' # "no"
          PROVE  /\ rest # <<>> /\ Head(rest).type = "data"
                 /\ more' = "copied" => Head(rest).of # Other
      <3>1. rest # <<>> /\ Follows1(h, Head(rest))
        BY <1>2, <1>3, <1>5, <2>1 DEF LinesSplit
      <3> QED BY <1>5, <3>1 DEF Follows1
    <2> QED BY <1>1, <1>2, <2>1 DEF Stream
  <1>9. SetUp' BY <1>1, <1>2 DEF SetUp
  <1>10. Holds'
    <2>1. OwnData => (rx' # <<>> => Head(rx').of \in {up, None})
      <3> SUFFICES ASSUME OwnData, rx' # <<>> PROVE Head(rx').of \in {up, None} OBVIOUS
      <3>1. idZero /\ Head(rx').of = h.of BY <1>4
      <3>2. h.of \in {up, Other} BY <1>2, <1>3 DEF OwnData, LinesSplit
      <3> QED BY <3>1, <3>2
    <2>2. Reading' => IsCommand(h)
      <3> SUFFICES ASSUME Reading' PROVE IsCommand(h) OBVIOUS
      <3>1. rx' # <<>> /\ Head(rx').piece = "command" BY DEF Reading
      <3>2. idZero /\ h.piece = "command" BY <1>4, <3>1
      <3> QED BY <1>3, <3>2 DEF IsCommand
    <2>3. /\ AsksOnce(lines) => AsksOnce(rest) /\ (IsCommand(h) => ~Asks(rest))
          /\ Asks(lines) <=> IsCommand(h) \/ Asks(rest)
          /\ Prompted(rest) <=> Prompted(lines)
          /\ Acknowledged(rest) <=> Acknowledged(lines)
          /\ Orderly(lines) => Orderly(rest)
          /\ OfLink(up, lines) => OfLink(up, rest)
      BY <1>1, <1>2 DEF LinesSplit
    <2>4. CASE idZero /\ ~linkConnected
      <3>1. disconnect BY <1>1, <2>4
      <3>2. flags \in Flags /\ cut \in BOOLEAN BY DEF IInv, TypeOK
      <3> QED BY <1>1, <1>2, <2>1, <2>2, <2>3, <3>1, <3>2, Disconnected DEF IInv, peerVars
    <2>5. CASE ~(idZero /\ ~linkConnected)
      <3>1. UNCHANGED <<linkConnected, sendVars, cut>> BY <1>1, <2>5
      <3> QED BY <1>1, <1>2, <2>1, <2>2, <2>3, <3>1, Frame DEF IInv, peerVars
    <2> QED BY <2>4, <2>5
  <1> QED BY <1>7, <1>8, <1>9, <1>10 DEF IInv

\* A line that nothing is copied from.
LEMMA TakeErrorHolds == ASSUME IInv, TakeError \/ TakeOther PROVE IInv'
  <1>1. /\ Polls /\ more = "no" /\ Head(lines).type \in {"busy", "ERROR", "Unlink", "data"}
        /\ lines' = rest /\ chip' = chip /\ garbled' = garbled
        /\ ready' \in {ready, FALSE}
        /\ UNCHANGED <<stage, linkVars, sendVars, station, peerVars, faults, cut, last, torn>>
    BY DEF TakeError, TakeOther, SayNothing
  <1>2. /\ stage = 0 /\ rx = <<>> /\ rest \in Seq(Lines) /\ LinesSplit(up, lines, Head(lines), rest)
        /\ Framed(rest)
    BY <1>1, Polled
  <1>3. TypeOK' BY <1>1, <1>2 DEF IInv, TypeOK, sendVars, peerVars, linkVars
  <1>4. Stream' BY <1>1, <1>2 DEF Stream, linkVars
  <1>5. SetUp' BY <1>1, <1>2 DEF SetUp
  <1>6. Holds'
    <2>1. /\ AsksOnce(lines) => AsksOnce(rest)
          /\ Asks(rest) => Asks(lines)
          /\ Prompted(rest) <=> Prompted(lines)
          /\ Acknowledged(rest) <=> Acknowledged(lines)
          /\ Orderly(lines) => Orderly(rest)
          /\ OfLink(up, lines) => OfLink(up, rest)
      BY <1>1, <1>2 DEF LinesSplit
    <2>2. rx' = <<>> /\ ~Reading' BY <1>1, <1>2 DEF linkVars, Reading
    <2> QED BY <1>1, <2>1, <2>2, Frame DEF IInv, linkVars, peerVars
  <1> QED BY <1>3, <1>4, <1>5, <1>6 DEF IInv

--------------------------------------------------------------------------------
(* The program, and the link given up.                                       *)

LEMMA CloseTypes ==
    ASSUME TypeOK, CloseCurrentConnection
    PROVE  /\ linkConnected' \in BOOLEAN /\ closing' \in BOOLEAN /\ cut' \in BOOLEAN
           /\ tx' \in Units /\ raw' \in Units /\ flags' \in Flags /\ text' \in Parts
           /\ newline' \in BOOLEAN
  <1>1. CASE linkConnected
    <2>1. closing' = TRUE /\ linkConnected' = FALSE /\ disconnect
      BY <1>1 DEF CloseCurrentConnection
    <2>2. cut' \in BOOLEAN BY <2>1 DEF disconnect
    <2>3. newline' \in BOOLEAN BY <2>1 DEF disconnect, TypeOK
    <2> QED BY <2>1, <2>2, <2>3, NoUnitFields, NoFlagsSet DEF disconnect
  <1>2. CASE ~linkConnected BY <1>2 DEF CloseCurrentConnection, sendVars, TypeOK
  <1> QED BY <1>1, <1>2 DEF TypeOK

LEMMA ReadPartHolds == ASSUME IInv, ReadPart PROVE IInv'
  <1>1. /\ stage = 0 /\ rx' = <<>>
        /\ UNCHANGED <<linkConnected, closing, more, sendVars, cut>>
        /\ UNCHANGED <<ready, stage, lines, chip, station, peerVars, faults, garbled, last, torn>>
    BY DEF ReadPart, Running, deviceUnchanged
  <1>2. TypeOK' BY <1>1, EmptySeq DEF IInv, TypeOK, sendVars, peerVars
  <1>3. Stream' BY <1>1 DEF IInv, Stream
  <1>4. SetUp' BY <1>1 DEF SetUp
  <1>5. Holds'
    <2>1. rx' = <<>> /\ ~Reading' BY <1>1 DEF Reading
    <2> QED BY <1>1, <2>1, Frame DEF IInv, peerVars
  <1> QED BY <1>2, <1>3, <1>4, <1>5 DEF IInv

LEMMA ReadCloseHolds == ASSUME IInv, ReadClose PROVE IInv'
  <1>1. /\ stage = 0 /\ rx' = <<>> /\ CloseCurrentConnection
        /\ UNCHANGED <<more, ready, stage, lines, chip, station, peerVars, faults, garbled, last, torn>>
    BY DEF ReadClose, Running, deviceUnchanged
  <1>2. TypeOK'
    <2>1. /\ linkConnected' \in BOOLEAN /\ closing' \in BOOLEAN /\ cut' \in BOOLEAN
          /\ tx' \in Units /\ raw' \in Units /\ flags' \in Flags /\ text' \in Parts
          /\ newline' \in BOOLEAN
      BY <1>1, CloseTypes DEF IInv
    <2> QED BY <1>1, <2>1, EmptySeq DEF IInv, TypeOK, peerVars
  <1>3. Stream' BY <1>1 DEF IInv, Stream
  <1>4. SetUp' BY <1>1 DEF SetUp
  <1>5. Holds'
    <2>1. rx' = <<>> /\ ~Reading' BY <1>1 DEF Reading
    <2>2. flags \in Flags /\ cut \in BOOLEAN BY DEF IInv, TypeOK
    <2>3. CASE linkConnected
      <3>1. disconnect BY <1>1, <2>3 DEF CloseCurrentConnection
      <3> QED BY <1>1, <2>1, <2>2, <3>1, Disconnected DEF IInv, peerVars
    <2>4. CASE ~linkConnected
      <3>1. UNCHANGED <<closing, linkConnected, sendVars, cut>>
        BY <1>1, <2>4 DEF CloseCurrentConnection
      <3> QED BY <1>1, <2>1, <3>1, Frame DEF IInv, peerVars
    <2> QED BY <2>3, <2>4
  <1> QED BY <1>2, <1>3, <1>4, <1>5 DEF IInv

LEMMA IdleExpiresHolds == ASSUME IInv, IdleExpires PROVE IInv'
  <1>1. /\ stage = 0 /\ linkConnected /\ CloseCurrentConnection /\ disconnect
        /\ lines' = lines \/ (lines # <<>> /\ more = "no" /\ lines' = rest)
        /\ UNCHANGED <<ready, stage, rx, more, chip, station, peerVars, faults, garbled, last, torn>>
    BY DEF IdleExpires, Running, CloseCurrentConnection
  <1>2. lines \in Seq(Lines) /\ Framed(lines) BY DEF IInv, TypeOK, Stream
  <1>3. /\ lines' \in Seq(Lines) /\ Framed(lines')
        /\ AsksOnce(lines) => AsksOnce(lines')
        /\ Asks(lines') => Asks(lines)
        /\ OfLink(up, lines) => OfLink(up, lines')
        /\ Prompted(lines') => Prompted(lines)
        /\ Acknowledged(lines') => Acknowledged(lines)
        /\ Orderly(lines) => Orderly(lines')
    <2>1. CASE lines' = lines BY <1>2, <2>1
    <2>2. CASE lines # <<>> /\ lines' = rest
      <3>1. LinesSplit(up, lines, Head(lines), rest) BY <1>2, <2>2, RestLines DEF rest
      <3> QED BY <1>2, <2>2, <3>1 DEF LinesSplit
    <2> QED BY <1>1, <2>1, <2>2
  <1>4. TypeOK'
    <2>1. /\ linkConnected' \in BOOLEAN /\ closing' \in BOOLEAN /\ cut' \in BOOLEAN
          /\ tx' \in Units /\ raw' \in Units /\ flags' \in Flags /\ text' \in Parts
          /\ newline' \in BOOLEAN
      BY <1>1, CloseTypes DEF IInv
    <2> QED BY <1>1, <1>3, <2>1 DEF IInv, TypeOK, peerVars
  <1>5. Stream' BY <1>1, <1>3 DEF IInv, Stream
  <1>6. SetUp' BY <1>1 DEF SetUp
  <1>7. Holds'
    <2>1. rx' = rx /\ (Reading' <=> Reading) BY <1>1 DEF Reading
    <2>2. OwnData => (rx # <<>> => Head(rx).of \in {up, None}) BY DEF OwnData
    <2>3. AsksOnce(lines) /\ Reading' /\ Asks(lines') => Reading BY <2>1
    <2>4. flags \in Flags /\ cut \in BOOLEAN BY DEF IInv, TypeOK
    <2> QED BY <1>1, <1>3, <2>1, <2>2, <2>3, <2>4, Disconnected DEF IInv, peerVars
  <1> QED BY <1>4, <1>5, <1>6, <1>7 DEF IInv

LEMMA OkExpiresHolds == ASSUME IInv, OkExpires PROVE IInv'
  <1>1. /\ stage = 0 /\ ready' = FALSE /\ faults' \in {faults, faults + 1} /\ faults' \in 0 .. MaxFaults
        /\ UNCHANGED <<stage, linkVars, sendVars, lines, chip, station, peerVars, cut, garbled, last, torn>>
    <2>1. faults \in 0 .. MaxFaults /\ MaxFaults \in Nat BY EspAssumption DEF IInv, TypeOK
    <2> QED BY <2>1 DEF OkExpires, Running
  <1>2. TypeOK' BY <1>1 DEF IInv, TypeOK, linkVars, sendVars, peerVars
  <1>3. Stream' BY <1>1 DEF IInv, Stream, linkVars
  <1>4. SetUp' BY <1>1 DEF SetUp
  <1>5. Holds'
    <2>1. rx' = rx /\ (Reading' <=> Reading) BY <1>1 DEF Reading, linkVars
    <2>2. OwnData => (rx # <<>> => Head(rx).of \in {up, None}) BY DEF OwnData
    <2>3. AsksOnce(lines) /\ Reading' /\ Asks(lines') => Reading BY <2>1
    <2> QED BY <1>1, <2>1, <2>2, <2>3, Frame DEF IInv, linkVars, peerVars
  <1> QED BY <1>2, <1>3, <1>4, <1>5 DEF IInv

--------------------------------------------------------------------------------
(* A prompt.                                                                 *)

\* A link was given up while a part was being sent: of the chip nothing is claimed.
LEMMA CutHolds ==
    ASSUME Holds, cut', UnitsFit(flags)', ~garbled', torn' = torn
    PROVE  Holds'
  BY DEF Holds, MineHolds, Mine, TextAtPrompt, PartsInOrder

LEMMA ResponseDone ==
    ASSUME NEW f \in Flags, NEW g,
           g = [f EXCEPT !.responseSet = FALSE, !.sendingResponse = FALSE]
    PROVE  /\ g \in Flags /\ ~g.responseSet /\ ~g.sendingResponse
           /\ g.waitingToSend = f.waitingToSend
           /\ g.rawDataSet = f.rawDataSet /\ g.sendingRawData = f.sendingRawData
  BY DEF Flags

LEMMA RawDataDone ==
    ASSUME NEW f \in Flags, NEW g,
           g = [f EXCEPT !.rawDataSet = FALSE, !.sendingRawData = FALSE]
    PROVE  /\ g \in Flags /\ ~g.rawDataSet /\ ~g.sendingRawData
           /\ g.waitingToSend = f.waitingToSend
           /\ g.responseSet = f.responseSet /\ g.sendingResponse = f.sendingResponse
  BY DEF Flags

LEMMA NotWaiting ==
    ASSUME NEW f \in Flags, NEW g, g = [f EXCEPT !.waitingToSend = FALSE]
    PROVE  /\ g \in Flags /\ ~g.waitingToSend
           /\ g.responseSet = f.responseSet /\ g.sendingResponse = f.sendingResponse
           /\ g.rawDataSet = f.rawDataSet /\ g.sendingRawData = f.sendingRawData
  BY DEF Flags

LEMMA SayTextTypes ==
    ASSUME chip \in Chip, garbled \in BOOLEAN, cut \in BOOLEAN,
           NEW p \in Parts, NEW ls \in Seq(Lines), SayText(p, ls), NEW o
    PROVE  /\ chip' \in Chip /\ lines' \in Seq(Lines) /\ garbled' \in BOOLEAN
           /\ Alike(o, ls, lines')
           /\ cut /\ ~garbled => ~garbled'
           /\ chip.does = "prompt" /\ p = chip.part =>
                  chip' = [does |-> "sending", part |-> p] /\ lines' = ls /\ garbled' = garbled
  <1>1. CASE chip.does = "prompt" /\ p = chip.part
    <2>1. chip' = [does |-> "sending", part |-> p] /\ lines' = ls /\ garbled' = garbled
      BY <1>1 DEF SayText
    <2>2. chip' \in Chip BY <2>1 DEF Chip
    <2>3. Alike(o, ls, lines') BY <2>1, AlikeWith
    <2> QED BY <2>1, <2>2, <2>3
  <1>2. CASE ~(chip.does = "prompt" /\ p = chip.part)
    <2>1. Say("failing", NoPart, ls) BY <1>2 DEF SayText
    <2>2. cut /\ ~garbled => ~garbled' BY <2>1 DEF Say
    <2> QED BY <1>2, <2>1, <2>2, SayTypes, NoUnitFields
  <1> QED BY <1>1, <1>2

LEMMA TakePromptHolds == ASSUME IInv, TakePrompt PROVE IInv'
  <1>1. /\ Polls /\ more = "no" /\ Head(lines).type = "> "
        /\ UNCHANGED <<ready, stage, linkVars, newline, station, peerVars, faults, cut, last, torn>>
    BY DEF TakePrompt
  <1>2. /\ stage = 0 /\ rx = <<>> /\ rest \in Seq(Lines) /\ LinesSplit(up, lines, Head(lines), rest)
        /\ Framed(rest) /\ ~Reading
    BY <1>1, Polled
  <1>3. /\ chip \in Chip /\ garbled \in BOOLEAN /\ cut \in BOOLEAN /\ flags \in Flags
        /\ tx \in Units /\ raw \in Units /\ text \in Parts /\ last \in Parts
        /\ up \in Clients \cup {None}
    BY DEF IInv, TypeOK
  <1>4. PICK p \in Parts : SayText(p, rest) /\ (p = text \/ (~flags.sendingResponse /\ ~flags.sendingRawData))
    BY <1>3, NoUnitFields DEF TakePrompt
  <1>5. /\ chip' \in Chip /\ lines' \in Seq(Lines) /\ garbled' \in BOOLEAN
        /\ Alike(up, rest, lines')
        /\ cut /\ ~garbled => ~garbled'
        /\ chip.does = "prompt" /\ p = chip.part =>
               chip' = [does |-> "sending", part |-> p] /\ lines' = rest /\ garbled' = garbled
    BY <1>2, <1>3, <1>4, SayTextTypes
  <1> DEFINE WholeResponse == flags.sendingResponse /\ tx.idx >= tx.len
             WholeRaw == ~flags.sendingResponse /\ flags.sendingRawData /\ raw.idx >= raw.len
  <1>6. /\ flags' \in Flags
        /\ flags'.waitingToSend => flags.waitingToSend
        /\ flags.sendingResponse \/ flags.sendingRawData =>
               flags'.waitingToSend = flags.waitingToSend /\ text' = NoPart
        /\ text' \in Parts
        /\ WholeResponse => /\ tx' = NoUnit /\ ~flags'.responseSet /\ ~flags'.sendingResponse
        /\ ~WholeResponse => /\ tx' = tx /\ flags'.responseSet = flags.responseSet
                             /\ flags'.sendingResponse = flags.sendingResponse
        /\ WholeRaw => raw' = NoUnit /\ ~flags'.rawDataSet /\ ~flags'.sendingRawData
        /\ ~WholeRaw => /\ raw' = raw /\ flags'.rawDataSet = flags.rawDataSet
                        /\ flags'.sendingRawData = flags.sendingRawData
    <2>1. CASE WholeResponse
      <3>1. /\ text' = NoPart /\ raw' = raw /\ tx' = NoUnit
            /\ flags' = [flags EXCEPT !.responseSet = FALSE, !.sendingResponse = FALSE]
        BY <2>1 DEF TakePrompt
      <3>2. /\ flags' \in Flags /\ ~flags'.responseSet /\ ~flags'.sendingResponse
            /\ flags'.waitingToSend = flags.waitingToSend
            /\ flags'.rawDataSet = flags.rawDataSet /\ flags'.sendingRawData = flags.sendingRawData
        BY <1>3, <3>1, ResponseDone
      <3>3. ~WholeRaw BY <2>1
      <3> HIDE DEF WholeResponse, WholeRaw
      <3> QED BY <2>1, <3>1, <3>2, <3>3, NoUnitFields
    <2>2. CASE flags.sendingResponse /\ ~WholeResponse
      <3>1. text' = NoPart /\ raw' = raw /\ tx' = tx /\ flags' = flags BY <2>2 DEF TakePrompt
      <3> QED BY <1>3, <2>2, <3>1, NoUnitFields
    <2>3. CASE WholeRaw
      <3>1. /\ text' = NoPart /\ tx' = tx /\ raw' = NoUnit
            /\ flags' = [flags EXCEPT !.rawDataSet = FALSE, !.sendingRawData = FALSE]
        BY <2>3 DEF TakePrompt
      <3>2. /\ flags' \in Flags /\ ~flags'.rawDataSet /\ ~flags'.sendingRawData
            /\ flags'.waitingToSend = flags.waitingToSend
            /\ flags'.responseSet = flags.responseSet /\ flags'.sendingResponse = flags.sendingResponse
        BY <1>3, <3>1, RawDataDone
      <3>3. ~WholeResponse BY <2>3
      <3> HIDE DEF WholeResponse, WholeRaw
      <3> QED BY <2>3, <3>1, <3>2, <3>3, NoUnitFields
    <2>4. CASE ~flags.sendingResponse /\ flags.sendingRawData /\ ~WholeRaw
      <3>1. text' = NoPart /\ raw' = raw /\ tx' = tx /\ flags' = flags BY <2>4 DEF TakePrompt
      <3> QED BY <1>3, <2>4, <3>1, NoUnitFields
    <2>5. CASE ~flags.sendingResponse /\ ~flags.sendingRawData
      <3>1. /\ text' = text /\ raw' = raw /\ tx' = tx
            /\ flags' = [flags EXCEPT !.waitingToSend = FALSE]
        BY <2>5 DEF TakePrompt
      <3> QED BY <1>3, <2>5, <3>1, NotWaiting, FlagFields
    <2> QED BY <1>3, <2>1, <2>2, <2>3, <2>4, <2>5, FlagFields
  <1> HIDE DEF WholeResponse, WholeRaw
  <1>7. TypeOK'
    <2>1. tx' \in Units /\ raw' \in Units BY <1>3, <1>6, NoUnitFields
    <2> QED BY <1>1, <1>5, <1>6, <2>1 DEF IInv, TypeOK, linkVars, peerVars
  <1>8. Stream' BY <1>1, <1>2, <1>5 DEF Stream, Alike, linkVars
  <1>9. SetUp'
    <2>1. stage' = 0 BY <1>1, <1>2
    <2> QED BY <2>1 DEF SetUp
  <1>10. UnitsFit(flags)'
    <2>1. UnitsFit(flags) BY DEF IInv, Holds
    <2>2. linkConnected' = linkConnected BY <1>1 DEF linkVars
    <2>3. tx.idx \in 0 .. MaxParts /\ raw.idx \in 0 .. MaxParts BY <1>3, UnitFields
    <2>4. WholeRaw => ~(tx.idx > 0) BY <2>1 DEF UnitsFit, WholeRaw
    <2>5. flags'.responseSet \in BOOLEAN /\ flags'.sendingResponse \in BOOLEAN
          /\ flags'.rawDataSet \in BOOLEAN /\ flags'.sendingRawData \in BOOLEAN
      BY <1>6, FlagFields
    <2>6. /\ ~flags'.responseSet => tx' = NoUnit
          /\ ~flags'.rawDataSet => raw' = NoUnit
          /\ raw' = NoUnit \/ (raw'.of = Raw /\ raw'.len = raw'.n /\ raw'.idx <= raw'.len)
          /\ flags'.waitingToSend => linkConnected
      BY <1>6, <2>1 DEF UnitsFit
    <2>7. tx'.idx > 0 => flags'.sendingResponse /\ ~flags'.sendingRawData
      BY <1>6, <2>1, <2>4, NoUnitFields DEF UnitsFit
    <2>8. raw'.idx > 0 => flags'.sendingRawData
      BY <1>6, <2>1, NoUnitFields DEF UnitsFit
    <2> QED BY <2>2, <2>6, <2>7, <2>8 DEF UnitsFit
  <1>11. Holds'
    <2>1. CASE cut
      <3>1. cut' /\ torn' = torn /\ ~garbled' BY <1>1, <1>5, <2>1 DEF IInv, Holds, TextAtPrompt
      <3> QED BY <1>10, <3>1, CutHolds DEF IInv
    <2>2. CASE ~cut
      <3>1. Exchange BY <2>2 DEF IInv, Holds
      <3>2. Prompted(lines) /\ ~Prompted(rest) /\ Orderly(rest)
            /\ (Acknowledged(rest) <=> Acknowledged(lines))
        BY <1>1, <1>2, <3>1 DEF LinesSplit, Exchange
      <3>3. chip.does = "prompt" BY <3>1, <3>2 DEF Exchange
      <3>4. /\ flags.waitingToSend /\ text # NoPart /\ chip.part = text
            /\ flags.sendingResponse \/ flags.sendingRawData
            /\ ~Acknowledged(rest)
            /\ ~closing
        BY <3>1, <3>2, <3>3 DEF Exchange
      <3>5. p = text BY <1>4, <3>4
      <3>6. chip' = [does |-> "sending", part |-> text] /\ lines' = rest /\ garbled' = garbled
        BY <1>5, <3>3, <3>4, <3>5
      <3>7. flags'.waitingToSend /\ text' = NoPart BY <1>6, <3>4
      <3>8. closing' = closing BY <1>1 DEF linkVars
      <3>9. Exchange' BY <3>2, <3>4, <3>6, <3>7, <3>8 DEF Exchange
      <3>10. MineHolds'
        <4> SUFFICES ASSUME Mine' PROVE OwnData' /\ OneCommand' /\ Order' BY DEF MineHolds
        <4>1. rx' = <<>> /\ up' = up /\ asked' = asked /\ last' = last /\ fresh' = fresh /\ cut' = cut
          BY <1>1, <1>2 DEF linkVars, peerVars
        <4>2. Mine /\ OwnData /\ OneCommand /\ Order
          BY <4>1 DEF Mine, IInv, Holds, MineHolds
        <4>3. UnitsFit(flags) BY DEF IInv, Holds
        <4>4. up \in Clients /\ up # Raw /\ up # None BY <1>3, <4>2, Constants DEF Mine
        <4>5. tx.idx \in Nat /\ tx.len \in Nat /\ raw.idx \in Nat /\ raw.len \in Nat
          BY <1>3, UnitFields
        <4>6. /\ OfLink(up, rest) /\ AsksOnce(rest)
              /\ Asks(rest) => Asks(lines)
          BY <1>2, <4>2 DEF LinesSplit, OwnData, OneCommand
        <4>7. ASSUME tx.idx > 0
              PROVE  /\ text = Begun(tx) /\ tx.len = tx.n /\ tx.idx <= tx.len /\ flags.responseSet
                     /\ flags.sendingResponse
          <5>1. tx # NoUnit BY <4>5, <4>7, NoUnitFields
          <5> QED BY <3>4, <4>2, <4>3, <4>7, <5>1 DEF Order, InTurn, OwnData, UnitsFit
        <4>8. ASSUME raw.idx > 0
              PROVE  text = Begun(raw) /\ raw.of = Raw /\ raw.len = raw.n /\ raw.idx <= raw.len
          <5>1. raw # NoUnit BY <4>5, <4>8, NoUnitFields
          <5> QED BY <3>4, <4>2, <4>3, <4>8, <5>1 DEF Order, InTurn, UnitsFit
        <4>9. tx.idx > 0 \/ raw.idx > 0 BY <3>4, <4>2 DEF Order
        <4>10. OwnData' BY <1>6, <3>6, <4>1, <4>2, <4>6 DEF OwnData
        <4>11. ASSUME Ends' PROVE ~flags'.responseSet /\ flags.responseSet
          <5>1. text.of = up /\ text.i >= text.n BY <3>6, <4>1, <4>11 DEF Ends, Whole
          <5>2. ~(raw.idx > 0) BY <4>4, <4>8, <5>1 DEF Begun
          <5>3. tx.idx > 0 BY <4>9, <5>2
          <5>4. tx.idx >= tx.len BY <4>7, <5>1, <5>3 DEF Begun
          <5>5. WholeResponse BY <4>7, <5>3, <5>4 DEF WholeResponse
          <5> QED BY <1>6, <4>7, <5>3, <5>5
        <4>12. ASSUME flags'.responseSet PROVE flags.responseSet BY <1>6, <4>12
        <4>13. OneCommand'
          <5>1. ~Reading' BY <4>1 DEF Reading
          <5>2. Ends' => asked BY <4>2, <4>11 DEF OneCommand
          <5> QED BY <3>6, <4>1, <4>2, <4>6, <4>11, <4>12, <5>1, <5>2 DEF OneCommand
        <4>14. (tx' = tx \/ (tx' = NoUnit /\ tx.idx >= tx.len)) /\ (raw' = raw \/ (raw' = NoUnit /\ raw.idx >= raw.len))
          BY <1>6 DEF WholeResponse, WholeRaw
        <4>15. tx'.idx > 0 => text = Begun(tx') BY <4>7, <4>14, NoUnitFields
        <4>16. raw'.idx > 0 => text = Begun(raw') BY <4>8, <4>14, NoUnitFields
        <4>17. ASSUME tx'.idx = 0, raw'.idx = 0 PROVE Whole(text)
          <5>1. CASE tx.idx > 0 BY <4>7, <4>14, <4>17, <5>1 DEF Whole, Begun
          <5>2. CASE raw.idx > 0 BY <4>8, <4>14, <4>17, <5>2 DEF Whole, Begun
          <5> QED BY <4>9, <5>1, <5>2
        <4>18. (chip.part)' = text /\ Follows(text) BY <3>4, <3>6, <4>2 DEF Order
        <4>19. Follows((chip.part)') /\ (Follows(text) => (Follows(chip.part))')
          BY <4>1, <4>18 DEF Follows
        <4>20. (InTurn(chip.part))' BY <4>15, <4>16, <4>17, <4>18 DEF InTurn
        <4>21. Order' BY <3>4, <3>6, <3>7, <4>18, <4>19, <4>20 DEF Order
        <4> QED BY <4>10, <4>13, <4>21
      <3>11. (TextAtPrompt /\ (Patient => PartsInOrder))'
        BY <1>1, <3>6 DEF IInv, Holds, TextAtPrompt, PartsInOrder
      <3> QED BY <1>10, <3>9, <3>10, <3>11 DEF Holds
    <2> QED BY <1>3, <2>1, <2>2
  <1> QED BY <1>7, <1>8, <1>9, <1>11 DEF IInv

--------------------------------------------------------------------------------
(* An OK: the driver may say something.                                      *)

After(f) ==
    \/ Head(lines).type = "OK" /\ f = flags
    \/ Head(lines).type = "SEND OK" /\ f = [flags EXCEPT !.waitingToSend = FALSE]
Handles(f) ==
    /\ Polls /\ more = "no" /\ After(f) /\ handleOK(f, rest)
    /\ UNCHANGED <<ready, stage, station, peerVars, faults, cut, last, torn>>

\* Nothing is on its way to the chip, and the part before is where it should be.
MaySpeak ==
    /\ text = NoPart /\ chip.does \notin {"CIPSEND", "prompt", "sending"}
    /\ Orderly(rest) /\ ~Prompted(rest) /\ ~Acknowledged(rest)
    /\ Mine => /\ OwnData /\ OneCommand /\ InTurn(last)
               /\ tx.idx > 0 \/ raw.idx > 0 => linkConnected /\ ~closing

LEMMA OkFacts ==
    ASSUME IInv, NEW f, Handles(f)
    PROVE  /\ f \in Flags /\ UnitsFit(f)
           /\ f.responseSet = flags.responseSet /\ f.rawDataSet = flags.rawDataSet
           /\ f.sendingResponse = flags.sendingResponse /\ f.sendingRawData = flags.sendingRawData
           /\ f.waitingToSend => f = flags /\ Head(lines).type = "OK"
           /\ ~cut /\ closing => ~f.waitingToSend
           /\ ~cut /\ ~f.waitingToSend => MaySpeak
  <1>1. flags \in Flags /\ UnitsFit(flags) /\ (~cut => Exchange) /\ MineHolds
    BY DEF IInv, TypeOK, Holds
  <1>2. LinesSplit(up, lines, Head(lines), rest) BY Polled DEF Handles
  <1>3. CASE Head(lines).type = "OK" /\ f = flags
    <2>1. ~cut /\ closing => ~f.waitingToSend BY <1>1, <1>3 DEF Exchange
    <2>2. ASSUME ~cut, ~f.waitingToSend PROVE MaySpeak
      <3>1. Exchange /\ ~flags.waitingToSend BY <1>1, <1>3, <2>2
      <3>2. text = NoPart /\ chip.does \notin {"CIPSEND", "prompt", "sending"} BY <3>1 DEF Exchange
      <3>3. Orderly(lines) /\ ~Prompted(lines) /\ ~Acknowledged(lines) BY <3>1, <3>2 DEF Exchange
      <3>4. Orderly(rest) /\ ~Prompted(rest) /\ ~Acknowledged(rest) BY <1>2, <3>3 DEF LinesSplit
      <3>5. ASSUME Mine PROVE OwnData /\ OneCommand /\ InTurn(last) /\ tx.idx = 0 /\ raw.idx = 0
        BY <1>1, <3>1, <3>5 DEF MineHolds, Order, InTurn
      <3> QED BY <3>2, <3>4, <3>5 DEF MaySpeak
    <2> QED BY <1>1, <1>3, <2>1, <2>2
  <1>4. CASE Head(lines).type = "SEND OK" /\ f = [flags EXCEPT !.waitingToSend = FALSE]
    <2>1. /\ f \in Flags /\ ~f.waitingToSend
          /\ f.responseSet = flags.responseSet /\ f.sendingResponse = flags.sendingResponse
          /\ f.rawDataSet = flags.rawDataSet /\ f.sendingRawData = flags.sendingRawData
      BY <1>1, <1>4, NotWaiting
    <2>2. UnitsFit(f) BY <1>1, <2>1 DEF UnitsFit
    <2>3. ASSUME ~cut PROVE MaySpeak
      <3>1. Exchange BY <1>1, <2>3
      <3>2. Acknowledged(lines) BY <1>2, <1>4 DEF LinesSplit
      <3>3. flags.waitingToSend /\ text = NoPart /\ chip.does \notin {"CIPSEND", "prompt", "sending"} /\ ~closing
        BY <3>1, <3>2 DEF Exchange
      <3>4. Orderly(lines) /\ ~Prompted(lines) BY <3>1, <3>3 DEF Exchange
      <3>5. Orderly(rest) /\ ~Prompted(rest) /\ ~Acknowledged(rest) BY <1>2, <1>4, <3>4 DEF LinesSplit
      <3>6. linkConnected BY <1>1, <3>3 DEF UnitsFit
      <3>7. ASSUME Mine PROVE OwnData /\ OneCommand /\ InTurn(last)
        BY <1>1, <3>2, <3>7 DEF MineHolds, Order
      <3> QED BY <3>3, <3>5, <3>6, <3>7 DEF MaySpeak
    <2> QED BY <2>1, <2>2, <2>3
  <1> QED BY <1>3, <1>4 DEF Handles, After

\* Without a unit that was begun, the part before was the last of its unit.
LEMMA BothBegun ==
    ASSUME NEW f \in Flags, UnitsFit(f), f.sendingRawData \/ ~f.responseSet
    PROVE  ~(tx.idx > 0)
  BY NoUnitFields DEF UnitsFit

\* What follows when nothing is sent: InTurn says that the last part ended its unit.
LEMMA NotSent ==
    ASSUME IInv, NEW f, Handles(f), ~cut, ~f.waitingToSend,
           flags' \in Flags, ~flags'.waitingToSend, text' = text,
           chip'.does \notin {"CIPSEND", "prompt", "sending"}, Alike(up, rest, lines'),
           closing' \in BOOLEAN, garbled' = garbled, UnitsFit(flags)',
           flags'.responseSet => flags.responseSet,
           tx' \in {tx, NoUnit}, raw' \in {raw, NoUnit},
           Mine => tx'.idx = 0 /\ raw'.idx = 0 /\ Whole(last)
    PROVE  Holds'
  <1>1. MaySpeak BY OkFacts
  <1>2. /\ UNCHANGED <<up, asked, fresh, cut, last, torn>> /\ rx' = rx /\ rx = <<>>
        /\ LinesSplit(up, lines, Head(lines), rest)
    BY Polled DEF Handles, handleOK, peerVars
  <1>3. /\ Orderly(lines') /\ ~Prompted(lines') /\ ~Acknowledged(lines') /\ text' = NoPart
    BY <1>1 DEF MaySpeak, Alike
  <1>4. Exchange' BY <1>3 DEF Exchange
  <1>5. MineHolds'
    <2> SUFFICES ASSUME Mine' PROVE OwnData' /\ OneCommand' /\ Order' BY DEF MineHolds
    <2>1. Mine /\ OwnData /\ OneCommand BY <1>1, <1>2 DEF Mine, MaySpeak
    <2>2. /\ AsksOnce(lines') /\ (Asks(lines') => Asks(lines)) /\ OfLink(up, lines')
      BY <1>2, <2>1 DEF LinesSplit, Alike, OneCommand, OwnData
    <2>3. OwnData' BY <1>2, <2>1, <2>2 DEF OwnData
    <2>4. ~Ends' /\ ~Reading' BY <1>2 DEF Ends, Reading
    <2>5. OneCommand' BY <1>2, <2>1, <2>2, <2>4 DEF OneCommand
    <2>6. tx'.idx = 0 /\ raw'.idx = 0 /\ Whole(last') BY <1>2, <2>1
    <2>7. Order' BY <1>3, <2>6 DEF Order
    <2> QED BY <2>3, <2>5, <2>7
  <1>6. (TextAtPrompt /\ (Patient => PartsInOrder))'
    BY <1>2 DEF IInv, Holds, TextAtPrompt, PartsInOrder
  <1> QED BY <1>4, <1>5, <1>6 DEF Holds

\* What follows when the next part p of a unit is announced.
LEMMA Sent ==
    ASSUME IInv, NEW f, Handles(f), ~cut, ~f.waitingToSend, ~closing, ~closing',
           flags' \in Flags, flags'.waitingToSend,
           flags'.sendingResponse \/ flags'.sendingRawData,
           flags'.responseSet \/ flags'.rawDataSet,
           flags'.responseSet => flags.responseSet,
           text' \in Parts, text' # NoPart, Say("CIPSEND", text', rest), UnitsFit(flags)',
           Mine => /\ tx' = NoUnit \/ (tx'.of = up /\ tx'.len = tx'.n /\ tx'.idx <= tx'.len)
                   /\ Follows(text') /\ InTurn(text)' /\ (tx'.idx > 0 \/ raw'.idx > 0)
    PROVE  Holds'
  <1>1. MaySpeak BY OkFacts
  <1>2. /\ UNCHANGED <<up, asked, fresh, cut, last, torn>> /\ rx' = rx /\ rx = <<>>
        /\ LinesSplit(up, lines, Head(lines), rest) /\ rest \in Seq(Lines)
    BY Polled DEF Handles, handleOK, peerVars
  <1>3. chip \in Chip /\ garbled \in BOOLEAN /\ cut \in BOOLEAN BY DEF IInv, TypeOK
  <1>4. /\ Alike(up, rest, lines') /\ garbled' = garbled
        /\ chip' = chip \/ chip' = [does |-> "CIPSEND", part |-> text']
    BY <1>1, <1>2, <1>3, SayTypes DEF MaySpeak
  <1>5. chip'.does \notin {"prompt", "sending"} /\ (chip'.does = "CIPSEND" => chip'.part = text')
    BY <1>1, <1>4 DEF MaySpeak
  <1>6. Orderly(lines') /\ ~Prompted(lines') /\ ~Acknowledged(lines')
    BY <1>1, <1>4 DEF MaySpeak, Alike
  <1>7. Exchange' BY <1>5, <1>6 DEF Exchange
  <1>8. MineHolds'
    <2> SUFFICES ASSUME Mine' PROVE OwnData' /\ OneCommand' /\ Order' BY DEF MineHolds
    <2>1. Mine /\ OwnData /\ OneCommand BY <1>1, <1>2 DEF Mine, MaySpeak
    <2>2. /\ AsksOnce(lines') /\ (Asks(lines') => Asks(lines)) /\ OfLink(up, lines')
      BY <1>2, <1>4, <2>1 DEF LinesSplit, Alike, OneCommand, OwnData
    <2>3. OwnData' BY <1>2, <2>1, <2>2 DEF OwnData
    <2>4. ~Ends' /\ ~Reading' BY <1>2, <1>5 DEF Ends, Reading
    <2>5. OneCommand' BY <1>2, <2>1, <2>2, <2>4 DEF OneCommand
    <2>6. Follows(text') => Follows(text)' BY <1>2 DEF Follows
    <2>7. Follows(text)' /\ InTurn(text)' /\ (tx'.idx > 0 \/ raw'.idx > 0) BY <2>1, <2>6
    <2>8. Order' BY <1>5, <1>6, <2>7 DEF Order
    <2> QED BY <2>3, <2>5, <2>8
  <1>9. (TextAtPrompt /\ (Patient => PartsInOrder))'
    BY <1>2, <1>4 DEF IInv, Holds, TextAtPrompt, PartsInOrder
  <1> QED BY <1>7, <1>8, <1>9 DEF Holds

\* What each branch of handleOK() leaves.
Handled ==
    /\ chip' \in Chip /\ lines' \in Seq(Lines) /\ garbled' \in BOOLEAN /\ Alike(up, rest, lines')
    /\ tx' \in Units /\ raw' \in Units /\ flags' \in Flags /\ text' \in Parts /\ closing' \in BOOLEAN
    /\ UnitsFit(flags)' /\ (cut /\ ~garbled => ~garbled')
    /\ ~cut => Holds'

LEMMA Types ==
    ASSUME IInv
    PROVE  /\ chip \in Chip /\ garbled \in BOOLEAN /\ cut \in BOOLEAN /\ flags \in Flags
           /\ tx \in Units /\ raw \in Units /\ text \in Parts /\ last \in Parts
           /\ up \in Clients \cup {None} /\ closing \in BOOLEAN
           /\ tx.idx \in Nat /\ tx.len \in Nat /\ raw.idx \in Nat /\ raw.len \in Nat
  BY UnitFields DEF IInv, TypeOK

LEMMA ResponseBegun ==
    ASSUME NEW f \in Flags, NEW g, g = [f EXCEPT !.sendingResponse = TRUE, !.waitingToSend = TRUE]
    PROVE  /\ g \in Flags /\ g.sendingResponse /\ g.waitingToSend
           /\ g.responseSet = f.responseSet
           /\ g.rawDataSet = f.rawDataSet /\ g.sendingRawData = f.sendingRawData
  BY DEF Flags

LEMMA RawDataBegun ==
    ASSUME NEW f \in Flags, NEW g, g = [f EXCEPT !.sendingRawData = TRUE, !.waitingToSend = TRUE]
    PROVE  /\ g \in Flags /\ g.sendingRawData /\ g.waitingToSend
           /\ g.responseSet = f.responseSet
           /\ g.rawDataSet = f.rawDataSet /\ g.sendingResponse = f.sendingResponse
  BY DEF Flags

LEMMA ResponseDropped ==
    ASSUME NEW f \in Flags, NEW g, g = [f EXCEPT !.responseSet = FALSE]
    PROVE  /\ g \in Flags /\ ~g.responseSet /\ g.waitingToSend = f.waitingToSend
           /\ g.sendingResponse = f.sendingResponse
           /\ g.rawDataSet = f.rawDataSet /\ g.sendingRawData = f.sendingRawData
  BY DEF Flags

LEMMA RawDataDropped ==
    ASSUME NEW f \in Flags, NEW g, g = [f EXCEPT !.rawDataSet = FALSE]
    PROVE  /\ g \in Flags /\ ~g.rawDataSet /\ g.waitingToSend = f.waitingToSend
           /\ g.sendingResponse = f.sendingResponse
           /\ g.responseSet = f.responseSet /\ g.sendingRawData = f.sendingRawData
  BY DEF Flags

LEMMA CloseSaid ==
    ASSUME IInv, NEW f, Handles(f), closing, closing' = FALSE, Say("CIPCLOSE", NoPart, rest),
           flags' = f, UNCHANGED <<tx, raw, text>>
    PROVE  Handled
  <1>1. /\ f \in Flags /\ UnitsFit(f)
        /\ ~cut => ~f.waitingToSend /\ MaySpeak
        /\ f.responseSet = flags.responseSet
    BY OkFacts
  <1>2. rest \in Seq(Lines) /\ linkConnected' = linkConnected BY Polled DEF Handles, handleOK
  <1>3. /\ chip' \in Chip /\ lines' \in Seq(Lines) /\ garbled' \in BOOLEAN /\ Alike(up, rest, lines')
        /\ chip.does # "prompt" => garbled' = garbled
        /\ chip.does \notin {"nothing", "prompt"} => chip' = chip
        /\ chip.does = "nothing" => chip' = [does |-> "CIPCLOSE", part |-> NoPart]
    BY <1>2, Types, NoUnitFields, SayTypes
  <1>4. UnitsFit(flags)' BY <1>1, <1>2 DEF UnitsFit
  <1>5. cut /\ ~garbled => ~garbled' BY DEF Say
  <1>6. ASSUME ~cut PROVE Holds'
    <2>1. chip'.does \notin {"CIPSEND", "prompt", "sending"} /\ garbled' = garbled
      BY <1>1, <1>3, <1>6 DEF MaySpeak
    <2>2. ASSUME Mine PROVE ~(tx.idx > 0) /\ ~(raw.idx > 0) /\ InTurn(last)
      BY <1>1, <1>6, <2>2 DEF MaySpeak
    <2>3. Mine => tx'.idx = 0 /\ raw'.idx = 0 /\ Whole(last) BY <2>2, Types DEF InTurn
    <2> QED BY <1>1, <1>3, <1>4, <1>6, <2>1, <2>3, NotSent
  <1> QED BY <1>1, <1>3, <1>4, <1>5, <1>6, Types DEF Handled

LEMMA NothingSaid ==
    ASSUME IInv, NEW f, Handles(f), ~closing, ~MayRespond(f), f.rawDataSet => f.waitingToSend,
           SayNothing(rest), flags' = f, UNCHANGED <<closing, tx, raw, text>>
    PROVE  Handled
  <1>1. /\ f \in Flags /\ UnitsFit(f)
        /\ ~cut /\ ~f.waitingToSend => MaySpeak
        /\ f.responseSet = flags.responseSet
        /\ f.waitingToSend => f = flags /\ Head(lines).type = "OK"
    BY OkFacts
  <1>2. /\ rest \in Seq(Lines) /\ linkConnected' = linkConnected /\ rx' = rx /\ rx = <<>>
        /\ newline' = newline
        /\ UNCHANGED <<cut, torn, last, fresh, up, asked>> /\ LinesSplit(up, lines, Head(lines), rest)
    BY Polled DEF Handles, handleOK, peerVars
  <1>3. chip' = chip /\ lines' = rest /\ garbled' = garbled BY DEF SayNothing
  <1>4. Alike(up, rest, lines') BY <1>2, <1>3, AlikeWith
  <1>5. UnitsFit(flags)' BY <1>1, <1>2 DEF UnitsFit
  <1>6. ASSUME ~cut PROVE Holds'
    <2>1. CASE f.waitingToSend
      <3>1. UNCHANGED sendVars BY <1>1, <1>2, <2>1 DEF sendVars
      <3>2. ~Reading' BY <1>2 DEF Reading
      <3>3. /\ Prompted(rest) <=> Prompted(lines)
            /\ Acknowledged(rest) <=> Acknowledged(lines)
            /\ Orderly(lines) => Orderly(rest)
            /\ AsksOnce(lines) => AsksOnce(rest)
            /\ Asks(rest) => Asks(lines)
            /\ OfLink(up, lines) => OfLink(up, rest)
        BY <1>1, <1>2, <2>1 DEF LinesSplit
      <3> QED BY <1>2, <1>3, <3>1, <3>2, <3>3, Frame DEF IInv
    <2>2. CASE ~f.waitingToSend
      <3>1. MaySpeak BY <1>1, <1>6, <2>2
      <3>2. ~f.rawDataSet BY <2>2
      <3>3. raw.idx = 0 BY <1>1, <3>2, NoUnitFields DEF UnitsFit
      <3>4. f.sendingRawData \/ ~f.responseSet BY <2>2 DEF MayRespond
      <3>5. tx.idx = 0 BY <1>1, <3>4, BothBegun, Types
      <3>6. Mine => Whole(last) BY <3>1, <3>3, <3>5 DEF MaySpeak, InTurn
      <3> QED BY <1>1, <1>3, <1>4, <1>5, <1>6, <2>2, <3>1, <3>3, <3>5, <3>6, NotSent, Types DEF MaySpeak
    <2> QED BY <2>1, <2>2
  <1> QED BY <1>1, <1>2, <1>3, <1>4, <1>5, <1>6, Types DEF Handled

\* A response.
LEMMA ResponseSent ==
    ASSUME IInv, NEW f, Handles(f), ~closing, MayRespond(f), SendResponse(f, rest), UNCHANGED closing
    PROVE  Handled
  <1>1. /\ f \in Flags /\ UnitsFit(f) /\ f.responseSet /\ ~f.sendingRawData /\ ~f.waitingToSend
        /\ ~cut => MaySpeak
        /\ f.responseSet = flags.responseSet /\ f.sendingRawData = flags.sendingRawData
    BY OkFacts DEF MayRespond
  <1>2. rest \in Seq(Lines) /\ linkConnected' = linkConnected BY Polled DEF Handles, handleOK
  <1>3. raw.idx = 0 BY <1>1, Types DEF UnitsFit
  <1>4. CASE linkConnected /\ tx.idx < tx.len
    <2>1. /\ text' = PartOf(tx) /\ tx' = Next1(tx) /\ raw' = raw
          /\ flags' = [f EXCEPT !.sendingResponse = TRUE, !.waitingToSend = TRUE]
          /\ Say("CIPSEND", text', rest)
      BY <1>4 DEF SendResponse
    <2>2. /\ flags' \in Flags /\ flags'.sendingResponse /\ flags'.waitingToSend
          /\ flags'.responseSet = f.responseSet
          /\ flags'.rawDataSet = f.rawDataSet /\ flags'.sendingRawData = f.sendingRawData
      BY <1>1, <2>1, ResponseBegun
    <2>3. /\ tx' \in Units /\ tx'.of = tx.of /\ tx'.n = tx.n /\ tx'.len = tx.len /\ tx'.idx = tx.idx + 1
          /\ text' \in Parts /\ text' # NoPart /\ text' = Begun(tx)'
          /\ text'.of = tx.of /\ text'.i = tx.idx + 1 /\ text'.n = tx.n
      BY <1>4, <2>1, Types, NextPart DEF Begun
    <2>4. chip' \in Chip /\ lines' \in Seq(Lines) /\ garbled' \in BOOLEAN /\ Alike(up, rest, lines')
      BY <1>2, <2>1, <2>3, Types, SayTypes
    <2>5. UnitsFit(flags)'
      <3>1. /\ ~flags'.rawDataSet => raw' = NoUnit
            /\ raw' = NoUnit \/ (raw'.of = Raw /\ raw'.len = raw'.n /\ raw'.idx <= raw'.len)
        BY <1>1, <2>1, <2>2 DEF UnitsFit
      <3> QED BY <1>1, <1>2, <1>3, <1>4, <2>1, <2>2, <3>1 DEF UnitsFit
    <2>6. cut /\ ~garbled => ~garbled' BY <2>1 DEF Say
    <2>7. ASSUME ~cut PROVE Holds'
      <3>1. ASSUME Mine
            PROVE  /\ tx'.of = up /\ tx'.len = tx'.n /\ tx'.idx <= tx'.len
                   /\ Follows(text') /\ InTurn(text)' /\ tx'.idx > 0
        <4>1. OwnData /\ InTurn(last) BY <1>1, <2>7, <3>1 DEF MaySpeak
        <4>2. tx # NoUnit BY <1>4, NoUnitFields, Types
        <4>3. tx.of = up /\ tx.len = tx.n BY <4>1, <4>2 DEF OwnData
        <4>4. tx'.idx <= tx'.len /\ tx'.idx > 0 BY <1>4, <2>3, Types
        <4>5. InTurn(text)' BY <1>3, <2>1, <2>3, <4>4 DEF InTurn
        <4>6. Follows(text')
          <5>1. CASE tx.idx > 0
            <6>1. last = Begun(tx) BY <4>1, <5>1 DEF InTurn
            <6>2. last.of = tx.of /\ last.i = tx.idx /\ last.n = tx.n BY <6>1 DEF Begun
            <6>3. [last EXCEPT !.i = @ + 1] = [of |-> tx.of, i |-> tx.idx + 1, n |-> tx.n]
              BY <6>1 DEF Begun
            <6>4. text' = [of |-> tx.of, i |-> tx.idx + 1, n |-> tx.n] BY <2>1 DEF PartOf
            <6>5. last.i < last.n BY <1>4, <4>3, <6>2
            <6> QED BY <2>3, <4>3, <6>3, <6>4, <6>5 DEF Follows
          <5>2. CASE ~(tx.idx > 0)
            <6>1. tx.idx = 0 BY <5>2, Types
            <6>2. Whole(last) BY <1>3, <4>1, <6>1 DEF InTurn
            <6>3. ~(last.i < last.n) BY <6>2, Types, PartFields DEF Whole
            <6> QED BY <2>3, <4>3, <6>1, <6>3 DEF Follows
          <5> QED BY <5>1, <5>2
        <4> QED BY <2>3, <4>3, <4>4, <4>5, <4>6
      <3> QED BY <1>1, <2>1, <2>2, <2>3, <2>5, <2>7, <3>1, Sent
    <2> QED BY <2>1, <2>2, <2>3, <2>4, <2>5, <2>6, <2>7, Types DEF Handled
  <1>5. CASE ~(linkConnected /\ tx.idx < tx.len)
    <2>1. /\ tx' = NoUnit /\ flags' = [f EXCEPT !.responseSet = FALSE] /\ raw' = raw /\ text' = text
          /\ chip' = chip /\ lines' = rest /\ garbled' = garbled
      BY <1>5 DEF SendResponse, SayNothing
    <2>2. /\ flags' \in Flags /\ ~flags'.responseSet /\ ~flags'.waitingToSend
          /\ flags'.sendingResponse = f.sendingResponse
          /\ flags'.rawDataSet = f.rawDataSet /\ flags'.sendingRawData = f.sendingRawData
      BY <1>1, <2>1, ResponseDropped
    <2>3. Alike(up, rest, lines') BY <1>2, <2>1, AlikeWith
    <2>4. UnitsFit(flags)'
      <3>1. /\ ~flags'.rawDataSet => raw' = NoUnit
            /\ raw' = NoUnit \/ (raw'.of = Raw /\ raw'.len = raw'.n /\ raw'.idx <= raw'.len)
        BY <1>1, <2>1, <2>2 DEF UnitsFit
      <3> QED BY <1>3, <2>1, <2>2, <3>1, NoUnitFields DEF UnitsFit
    <2>5. ASSUME ~cut PROVE Holds'
      <3>1. MaySpeak BY <1>1, <2>5
      <3>2. ASSUME Mine PROVE Whole(last)
        <4>1. OwnData /\ InTurn(last) /\ (tx.idx > 0 => linkConnected) BY <3>1, <3>2 DEF MaySpeak
        <4>2. CASE tx.idx > 0
          <5>1. last = Begun(tx) /\ tx.idx >= tx.len BY <1>5, <4>1, <4>2, Types DEF InTurn
          <5>2. tx # NoUnit BY <4>2, NoUnitFields
          <5> QED BY <4>1, <5>1, <5>2 DEF OwnData, Whole, Begun
        <4>3. CASE ~(tx.idx > 0) BY <1>3, <4>1, <4>3, Types DEF InTurn
        <4> QED BY <4>2, <4>3
      <3> QED BY <1>1, <1>3, <2>1, <2>2, <2>3, <2>4, <2>5, <3>1, <3>2, NotSent, NoUnitFields, Types DEF MaySpeak
    <2> QED BY <1>2, <2>1, <2>2, <2>3, <2>4, <2>5, Types, NoUnitFields DEF Handled
  <1> QED BY <1>4, <1>5

\* Raw data.
LEMMA RawDataSent ==
    ASSUME IInv, NEW f, Handles(f), ~closing, ~MayRespond(f), f.rawDataSet, ~f.waitingToSend,
           SendRaw(f, rest), UNCHANGED closing
    PROVE  Handled
  <1>1. /\ f \in Flags /\ UnitsFit(f) /\ (f.sendingRawData \/ ~f.responseSet)
        /\ ~cut => MaySpeak
        /\ f.responseSet = flags.responseSet /\ f.sendingRawData = flags.sendingRawData
    BY OkFacts DEF MayRespond
  <1>2. rest \in Seq(Lines) /\ linkConnected' = linkConnected BY Polled DEF Handles, handleOK
  <1>3. tx.idx = 0 BY <1>1, BothBegun, Types
  <1>4. CASE linkConnected /\ raw.idx < raw.len
    <2>1. /\ text' = PartOf(raw) /\ raw' = Next1(raw) /\ tx' = tx
          /\ flags' = [f EXCEPT !.sendingRawData = TRUE, !.waitingToSend = TRUE]
          /\ Say("CIPSEND", text', rest)
      BY <1>4 DEF SendRaw
    <2>2. /\ flags' \in Flags /\ flags'.sendingRawData /\ flags'.waitingToSend
          /\ flags'.responseSet = f.responseSet
          /\ flags'.rawDataSet = f.rawDataSet /\ flags'.sendingResponse = f.sendingResponse
      BY <1>1, <2>1, RawDataBegun
    <2>3. /\ raw' \in Units /\ raw'.of = raw.of /\ raw'.n = raw.n /\ raw'.len = raw.len /\ raw'.idx = raw.idx + 1
          /\ text' \in Parts /\ text' # NoPart /\ text' = Begun(raw)'
          /\ text'.of = raw.of /\ text'.i = raw.idx + 1 /\ text'.n = raw.n
      BY <1>4, <2>1, Types, NextPart DEF Begun
    <2>4. chip' \in Chip /\ lines' \in Seq(Lines) /\ garbled' \in BOOLEAN /\ Alike(up, rest, lines')
      BY <1>2, <2>1, <2>3, Types, SayTypes
    <2>5. raw # NoUnit BY <1>4, NoUnitFields, Types
    <2>6. raw.of = Raw /\ raw.len = raw.n BY <1>1, <2>5 DEF UnitsFit
    <2>7. raw'.of = Raw /\ raw'.len = raw'.n /\ raw'.idx <= raw'.len /\ raw'.idx > 0
      BY <1>4, <2>3, <2>6, Types
    <2>8. UnitsFit(flags)'
      <3>1. ~flags'.responseSet => tx' = NoUnit BY <1>1, <2>1, <2>2 DEF UnitsFit
      <3>2. ~(tx'.idx > 0) BY <1>3, <2>1
      <3> QED BY <1>2, <1>4, <2>2, <2>7, <3>1, <3>2 DEF UnitsFit
    <2>9. cut /\ ~garbled => ~garbled' BY <2>1 DEF Say
    <2>10. ASSUME ~cut PROVE Holds'
      <3>1. ASSUME Mine
            PROVE  /\ tx' = NoUnit \/ (tx'.of = up /\ tx'.len = tx'.n /\ tx'.idx <= tx'.len)
                   /\ Follows(text') /\ InTurn(text)' /\ raw'.idx > 0
        <4>1. OwnData /\ InTurn(last) BY <1>1, <2>10, <3>1 DEF MaySpeak
        <4>2. tx' = NoUnit \/ (tx'.of = up /\ tx'.len = tx'.n /\ tx'.idx <= tx'.len)
          BY <2>1, <4>1 DEF OwnData
        <4>3. InTurn(text)' BY <1>3, <2>1, <2>3, <2>7 DEF InTurn
        <4>4. Follows(text')
          <5>1. CASE raw.idx > 0
            <6>1. last = Begun(raw) BY <4>1, <5>1 DEF InTurn
            <6>2. last.of = raw.of /\ last.i = raw.idx /\ last.n = raw.n BY <6>1 DEF Begun
            <6>3. [last EXCEPT !.i = @ + 1] = [of |-> raw.of, i |-> raw.idx + 1, n |-> raw.n]
              BY <6>1 DEF Begun
            <6>4. text' = [of |-> raw.of, i |-> raw.idx + 1, n |-> raw.n] BY <2>1 DEF PartOf
            <6>5. last.i < last.n BY <1>4, <2>6, <6>2
            <6> QED BY <2>3, <2>6, <6>3, <6>4, <6>5 DEF Follows
          <5>2. CASE ~(raw.idx > 0)
            <6>1. raw.idx = 0 BY <5>2, Types
            <6>2. Whole(last) BY <1>3, <4>1, <6>1 DEF InTurn
            <6>3. ~(last.i < last.n) BY <6>2, Types, PartFields DEF Whole
            <6> QED BY <2>3, <2>6, <6>1, <6>3 DEF Follows
          <5> QED BY <5>1, <5>2
        <4> QED BY <2>7, <4>2, <4>3, <4>4
      <3> QED BY <1>1, <2>1, <2>2, <2>3, <2>8, <2>10, <3>1, Sent
    <2> QED BY <2>1, <2>2, <2>3, <2>4, <2>8, <2>9, <2>10, Types DEF Handled
  <1>5. CASE ~(linkConnected /\ raw.idx < raw.len)
    <2>1. /\ raw' = NoUnit /\ flags' = [f EXCEPT !.rawDataSet = FALSE] /\ tx' = tx /\ text' = text
          /\ chip' = chip /\ lines' = rest /\ garbled' = garbled
      BY <1>5 DEF SendRaw, SayNothing
    <2>2. /\ flags' \in Flags /\ ~flags'.rawDataSet /\ ~flags'.waitingToSend
          /\ flags'.sendingResponse = f.sendingResponse
          /\ flags'.responseSet = f.responseSet /\ flags'.sendingRawData = f.sendingRawData
      BY <1>1, <2>1, RawDataDropped
    <2>3. Alike(up, rest, lines') BY <1>2, <2>1, AlikeWith
    <2>4. UnitsFit(flags)'
      <3>1. ~flags'.responseSet => tx' = NoUnit BY <1>1, <2>1, <2>2 DEF UnitsFit
      <3> QED BY <1>3, <2>1, <2>2, <3>1, NoUnitFields DEF UnitsFit
    <2>5. ASSUME ~cut PROVE Holds'
      <3>1. MaySpeak BY <1>1, <2>5
      <3>2. ASSUME Mine PROVE Whole(last)
        <4>1. InTurn(last) /\ (raw.idx > 0 => linkConnected) BY <3>1, <3>2 DEF MaySpeak
        <4>2. CASE raw.idx > 0
          <5>1. last = Begun(raw) /\ raw.idx >= raw.len BY <1>5, <4>1, <4>2, Types DEF InTurn
          <5>2. raw # NoUnit BY <4>2, NoUnitFields
          <5>3. raw.len = raw.n BY <1>1, <5>2 DEF UnitsFit
          <5> QED BY <5>1, <5>3 DEF Whole, Begun
        <4>3. CASE ~(raw.idx > 0) BY <1>3, <4>1, <4>3, Types DEF InTurn
        <4> QED BY <4>2, <4>3
      <3> QED BY <1>1, <1>3, <2>1, <2>2, <2>3, <2>4, <2>5, <3>1, <3>2, NotSent, NoUnitFields, Types DEF MaySpeak
    <2> QED BY <1>2, <2>1, <2>2, <2>3, <2>4, <2>5, Types, NoUnitFields DEF Handled
  <1> QED BY <1>4, <1>5

LEMMA TakeOKHolds == ASSUME IInv, TakeOK PROVE IInv'
  <1>1. PICK f : Handles(f) BY DEF TakeOK, Handles, After
  <1>2. Handled
    <2>1. \/ /\ closing
             /\ closing' = FALSE /\ Say("CIPCLOSE", NoPart, rest)
             /\ flags' = f /\ UNCHANGED <<tx, raw, text>>
          \/ /\ ~closing /\ MayRespond(f)
             /\ SendResponse(f, rest) /\ UNCHANGED closing
          \/ /\ ~closing /\ ~MayRespond(f) /\ f.rawDataSet /\ ~f.waitingToSend
             /\ SendRaw(f, rest) /\ UNCHANGED closing
          \/ /\ ~closing /\ ~MayRespond(f) /\ (f.rawDataSet => f.waitingToSend)
             /\ SayNothing(rest) /\ flags' = f /\ UNCHANGED <<closing, tx, raw, text>>
      BY <1>1 DEF Handles, handleOK
    <2> QED BY <1>1, <2>1, CloseSaid, ResponseSent, RawDataSent, NothingSaid
  <1>3. /\ UNCHANGED <<ready, stage, station, peerVars, faults, cut, last, torn>>
        /\ UNCHANGED <<linkConnected, rx, more, newline>>
        /\ stage = 0 /\ more = "no" /\ Framed(rest)
    BY <1>1, Polled DEF Handles, handleOK
  <1>4. TypeOK' BY <1>2, <1>3 DEF IInv, TypeOK, Handled, peerVars
  <1>5. Stream' BY <1>2, <1>3 DEF Stream, Handled, Alike
  <1>6. SetUp'
    <2>1. stage' = 0 BY <1>3
    <2> QED BY <2>1 DEF SetUp
  <1>7. Holds'
    <2>1. CASE cut
      <3>1. cut' /\ torn' = torn /\ ~garbled' /\ UnitsFit(flags)'
        BY <1>2, <1>3, <2>1 DEF IInv, Holds, TextAtPrompt, Handled
      <3> QED BY <3>1, CutHolds DEF IInv
    <2>2. CASE ~cut BY <1>2, <2>2 DEF Handled
    <2> QED BY <2>1, <2>2, Types
  <1> QED BY <1>4, <1>5, <1>6, <1>7 DEF IInv

--------------------------------------------------------------------------------
(* A command and raw data.                                                   *)

LEMMA AtExpiresHolds == ASSUME IInv, AtExpires PROVE IInv'
  <1>1. /\ stage = 0 /\ rx = <<>> /\ lines = <<>> /\ Say("AT", NoPart, <<>>)
        /\ UNCHANGED <<ready, stage, linkVars, sendVars, station, peerVars, faults, cut, last, torn>>
    BY DEF AtExpires, Running
  <1>2. <<>> \in Seq(Lines) /\ ~Prompted(lines) /\ ~Acknowledged(lines) /\ more = "no"
    BY <1>1, NoLines DEF IInv, Stream
  <1>3. /\ chip' \in Chip /\ lines' \in Seq(Lines) /\ garbled' \in BOOLEAN
        /\ Alike(up, lines, lines')
        /\ chip.does # "prompt" => garbled' = garbled
        /\ chip.does \notin {"nothing", "prompt"} => chip' = chip
        /\ chip.does = "nothing" => chip' = [does |-> "AT", part |-> NoPart]
    BY <1>1, <1>2, Types, NoUnitFields, SayTypes
  <1>4. TypeOK' BY <1>1, <1>3 DEF IInv, TypeOK, linkVars, sendVars, peerVars
  <1>5. Stream' BY <1>1, <1>2, <1>3 DEF IInv, Stream, Alike, linkVars
  <1>6. SetUp'
    <2>1. stage' = 0 BY <1>1
    <2> QED BY <2>1 DEF SetUp
  <1>7. Holds'
    <2>1. /\ UNCHANGED <<linkConnected, closing, rx, tx, raw, flags, text>>
          /\ UNCHANGED <<up, asked, fresh, cut, last, torn>>
      BY <1>1 DEF linkVars, sendVars, peerVars
    <2>2. UnitsFit(flags)' BY <2>1 DEF IInv, Holds, UnitsFit
    <2>3. CASE cut
      <3>1. cut /\ ~garbled => ~garbled' BY <1>1 DEF Say
      <3> QED BY <2>1, <2>2, <2>3, <3>1, CutHolds DEF IInv, Holds, TextAtPrompt
    <2>4. CASE ~cut
      <3>1. Exchange BY <2>4 DEF IInv, Holds
      <3>2. chip.does # "prompt" BY <1>2, <3>1 DEF Exchange
      <3>3. /\ garbled' = garbled
            /\ chip' = chip \/ chip'.does = "AT"
        BY <1>3, <3>2
      <3>4. Exchange'
        BY <1>2, <1>3, <2>1, <3>1, <3>2, <3>3 DEF Exchange, Alike
      <3>5. MineHolds'
        <4> SUFFICES ASSUME Mine' PROVE OwnData' /\ OneCommand' /\ Order' BY DEF MineHolds
        <4>1. Mine /\ OwnData /\ OneCommand /\ Order BY <2>1 DEF Mine, IInv, Holds, MineHolds
        <4>2. OwnData' BY <1>3, <2>1, <4>1 DEF OwnData, Alike
        <4>3. (Ends' => Ends) /\ (Reading' <=> Reading) BY <2>1, <3>3 DEF Ends, Whole, Reading
        <4>4. OneCommand' BY <1>3, <2>1, <4>1, <4>3 DEF OneCommand, Alike
        <4>5. Order' BY <1>3, <2>1, <3>3, <4>1 DEF Order, Alike, Follows, InTurn, Begun, Whole
        <4> QED BY <4>2, <4>4, <4>5
      <3> QED BY <2>1, <2>2, <3>3, <3>4, <3>5 DEF IInv, Holds, TextAtPrompt, PartsInOrder
    <2> QED BY <2>3, <2>4
  <1> QED BY <1>4, <1>5, <1>6, <1>7 DEF IInv

LEMMA FlushedFields ==
    ASSUME NEW u \in Units
    PROVE  Flushed(u) = [of |-> u.of, n |-> u.n, idx |-> 0, len |-> u.idx] /\ Flushed(u) \in Units
  <1>1. Flushed(u) = [of |-> u.of, n |-> u.n, idx |-> 0, len |-> u.idx]
    <2>1. DOMAIN u = {"of", "n", "idx", "len"} BY DEF Units
    <2>2. Flushed(u) = [x \in DOMAIN u |-> IF x = "idx" THEN 0 ELSE IF x = "len" THEN u.idx ELSE u[x]]
      BY <2>1 DEF Flushed, Units
    <2> QED BY <2>1, <2>2
  <1>2. 0 \in 0 .. MaxParts BY Constants
  <1> QED BY <1>1, <1>2, UnitFields DEF Units

LEMMA ReadCommandHolds == ASSUME IInv, NEW n \in Sizes, ReadCommand(n) PROVE IInv'
  <1>1. /\ stage = 0 /\ rx # <<>> /\ Head(rx).piece = "command" /\ rx' = <<>>
        /\ tx' = IF flags.responseSet \/ ~linkConnected THEN Flushed(tx) ELSE Unit(Head(rx).of, n)
        /\ flags' = [flags EXCEPT !.responseSet = TRUE]
        /\ UNCHANGED <<linkConnected, closing, more, raw, text, newline, cut>>
        /\ UNCHANGED <<ready, stage, lines, chip, station, peerVars, faults, garbled, last, torn>>
    BY DEF ReadCommand, Running, deviceUnchanged
  <1>2. Head(rx).of \in Clients /\ Reading
    <2>1. Head(rx) \in Rx BY <1>1, HeadTailProperties DEF IInv, TypeOK
    <2> QED BY <1>1, <2>1 DEF Rx, Reading
  <1>3. Flushed(tx) \in Units /\ Flushed(tx).idx = 0
    BY Types, FlushedFields
  <1>4. /\ Unit(Head(rx).of, n) \in Units /\ Unit(Head(rx).of, n).of = Head(rx).of
        /\ Unit(Head(rx).of, n).n = n /\ Unit(Head(rx).of, n).len = n /\ Unit(Head(rx).of, n).idx = 0
    BY <1>2, NewUnit
  <1>5. /\ flags' \in Flags /\ flags'.responseSet /\ flags'.waitingToSend = flags.waitingToSend
        /\ flags'.sendingResponse = flags.sendingResponse
        /\ flags'.rawDataSet = flags.rawDataSet /\ flags'.sendingRawData = flags.sendingRawData
    BY <1>1, Types DEF Flags
  <1>6. tx' \in Units /\ tx'.idx = 0 BY <1>1, <1>3, <1>4
  <1>7. TypeOK' BY <1>1, <1>5, <1>6, EmptySeq DEF IInv, TypeOK, peerVars
  <1>8. Stream' BY <1>1 DEF IInv, Stream
  <1>9. SetUp'
    <2>1. stage' = 0 BY <1>1
    <2> QED BY <2>1 DEF SetUp
  <1>10. Holds'
    <2>1. UnitsFit(flags) BY DEF IInv, Holds
    <2>2. UnitsFit(flags)'
      <3>1. /\ ~flags'.rawDataSet => raw' = NoUnit
            /\ raw' = NoUnit \/ (raw'.of = Raw /\ raw'.len = raw'.n /\ raw'.idx <= raw'.len)
            /\ raw'.idx > 0 => flags'.sendingRawData
            /\ flags'.waitingToSend => linkConnected'
        BY <1>1, <1>5, <2>1 DEF UnitsFit
      <3> QED BY <1>5, <1>6, <3>1 DEF UnitsFit
    <2>3. (~cut => Exchange)'
      <3> SUFFICES ASSUME ~cut, Exchange PROVE Exchange' BY <1>1 DEF IInv, Holds
      <3> QED BY <1>1, <1>5 DEF Exchange
    <2>4. MineHolds'
      <3> SUFFICES ASSUME Mine' PROVE OwnData' /\ OneCommand' /\ Order' BY DEF MineHolds
      <3>1. Mine /\ OwnData /\ OneCommand /\ Order BY <1>1 DEF Mine, peerVars, IInv, Holds, MineHolds
      <3>2. asked /\ ~flags.responseSet /\ ~Ends /\ ~Asks(lines) BY <1>2, <3>1 DEF OneCommand
      <3>3. tx = NoUnit BY <2>1, <3>2 DEF UnitsFit
      <3>4. Flushed(tx) = NoUnit BY <3>3, FlushedFields, NoUnitFields DEF NoUnit, Unit
      <3>5. Head(rx).of = up BY <1>1, <1>2, <3>1, Constants DEF OwnData
      <3>6. tx' = NoUnit \/ (tx'.of = up /\ tx'.n = n /\ tx'.len = n /\ tx'.idx = 0)
        BY <1>1, <1>4, <3>4, <3>5
      <3>7. OwnData' BY <1>1, <3>1, <3>6, Constants DEF OwnData, peerVars
      <3>8. ~Ends' /\ ~Reading' BY <1>1, <3>2 DEF Ends, Whole, Reading, peerVars
      <3>9. OneCommand' BY <1>1, <3>1, <3>2, <3>8 DEF OneCommand, peerVars
      <3>10. tx.idx = 0 BY <3>3, NoUnitFields
      <3>11. Order' BY <1>1, <1>5, <1>6, <3>1, <3>10 DEF Order, Follows, InTurn, Begun, Whole, peerVars
      <3> QED BY <3>7, <3>9, <3>11
    <2> QED BY <1>1, <2>2, <2>3, <2>4 DEF IInv, Holds, TextAtPrompt, PartsInOrder
  <1> QED BY <1>7, <1>8, <1>9, <1>10 DEF IInv

LEMMA WriteRawDataHolds == ASSUME IInv, NEW n \in Sizes, WriteRawData(n) PROVE IInv'
  <1>1. /\ stage = 0 /\ newline' \in BOOLEAN /\ tx' = tx /\ text' = text
        /\ UNCHANGED <<linkVars, cut>>
        /\ UNCHANGED <<ready, stage, lines, chip, station, peerVars, faults, garbled, last, torn>>
        /\ \/ raw' = raw /\ flags' = flags
           \/ /\ linkConnected /\ raw.len = 0 /\ ~flags.rawDataSet /\ ~flags.responseSet
              /\ raw' = Unit(Raw, n) /\ flags' = [flags EXCEPT !.rawDataSet = TRUE]
    BY DEF WriteRawData, Running, deviceUnchanged
  <1>2. SetUp'
    <2>1. stage' = 0 BY <1>1
    <2> QED BY <2>1 DEF SetUp
  <1>3. Stream' BY <1>1 DEF IInv, Stream, linkVars
  <1>4. UNCHANGED <<linkConnected, closing, rx, more, up, asked, fresh>> BY <1>1 DEF linkVars, peerVars
  <1>5. CASE raw' = raw /\ flags' = flags
    <2>1. TypeOK' BY <1>1, <1>4, <1>5 DEF IInv, TypeOK
    <2>2. rx' = rx /\ (Reading' <=> Reading) BY <1>4 DEF Reading
    <2>3. OwnData => (rx' # <<>> => Head(rx').of \in {up, None}) BY <1>4 DEF OwnData
    <2>4. AsksOnce(lines) /\ Reading' /\ Asks(lines') => Reading BY <2>2
    <2>5. Holds' BY <1>1, <1>4, <1>5, <2>2, <2>3, <2>4, StillHolds DEF IInv
    <2> QED BY <1>2, <1>3, <2>1, <2>5 DEF IInv
  <1>6. CASE /\ linkConnected /\ raw.len = 0 /\ ~flags.rawDataSet /\ ~flags.responseSet
             /\ raw' = Unit(Raw, n) /\ flags' = [flags EXCEPT !.rawDataSet = TRUE]
    <2>1. raw' \in Units /\ raw'.of = Raw /\ raw'.n = n /\ raw'.len = n /\ raw'.idx = 0
      BY <1>6, NewUnit
    <2>2. /\ flags' \in Flags /\ flags'.rawDataSet /\ flags'.waitingToSend = flags.waitingToSend
          /\ flags'.sendingResponse = flags.sendingResponse
          /\ flags'.responseSet = flags.responseSet /\ flags'.sendingRawData = flags.sendingRawData
      BY <1>6, Types DEF Flags
    <2>3. TypeOK' BY <1>1, <1>4, <2>1, <2>2 DEF IInv, TypeOK
    <2>4. UnitsFit(flags) BY DEF IInv, Holds
    <2>5. tx = NoUnit /\ raw = NoUnit /\ tx.idx = 0 /\ raw.idx = 0
      BY <1>6, <2>4, NoUnitFields DEF UnitsFit
    <2>6. UnitsFit(flags)'
      <3>1. (flags'.waitingToSend => linkConnected') /\ raw'.idx <= raw'.len
        BY <1>4, <2>1, <2>2, <2>4, Constants DEF UnitsFit
      <3> QED BY <1>1, <2>1, <2>2, <2>5, <3>1 DEF UnitsFit
    <2>7. (~cut => Exchange)'
      <3> SUFFICES ASSUME ~cut, Exchange PROVE Exchange' BY <1>1 DEF IInv, Holds
      <3> QED BY <1>1, <1>4, <2>2 DEF Exchange
    <2>8. MineHolds'
      <3> SUFFICES ASSUME Mine' PROVE OwnData' /\ OneCommand' /\ Order' BY DEF MineHolds
      <3>1. Mine /\ OwnData /\ OneCommand /\ Order BY <1>1, <1>4 DEF Mine, IInv, Holds, MineHolds
      <3>2. OwnData' BY <1>1, <1>4, <3>1 DEF OwnData
      <3>3. Ends' = Ends /\ Reading' = Reading BY <1>1, <1>4 DEF Ends, Whole, Reading
      <3>4. OneCommand' BY <1>1, <1>4, <2>2, <3>1, <3>3 DEF OneCommand
      <3>5. Order' BY <1>1, <1>4, <2>1, <2>2, <2>5, <3>1 DEF Order, Follows, InTurn, Begun, Whole
      <3> QED BY <3>2, <3>4, <3>5
    <2>9. Holds' BY <1>1, <2>6, <2>7, <2>8 DEF IInv, Holds, TextAtPrompt, PartsInOrder
    <2> QED BY <1>2, <1>3, <2>3, <2>9 DEF IInv
  <1> QED BY <1>1, <1>5, <1>6

--------------------------------------------------------------------------------
(* The clients.                                                              *)

\* Lines that come behind the others leave the first one where it is.
LEMMA MoreLines ==
    ASSUME IInv, NEW s \in Seq(Lines), Framed(s), lines' = lines \o s, more' = more
    PROVE  /\ Stream' /\ lines' \in Seq(Lines) /\ LinesJoin(up, lines, s, lines')
  <1>1. lines \in Seq(Lines) /\ Framed(lines) BY DEF IInv, TypeOK, Stream
  <1>2. LinesJoin(up, lines, s, lines') BY <1>1, AddedLines
  <1> QED BY <1>1, <1>2 DEF IInv, Stream, LinesJoin

LEMMA OtherLinkHolds == ASSUME IInv, OtherLink PROVE IInv'
  <1> DEFINE s == <<Data("+IPD", Other, "part"), Data("data", Other, "command"), Line("OK")>>
  <1>1. /\ stage = 0 /\ lines' = lines \o s
        /\ UNCHANGED <<peerVars, chip, last, torn>>
        /\ UNCHANGED <<ready, stage, linkVars, sendVars, station, faults, cut, garbled>>
    BY DEF OtherLink, Sends, peerUnchanged
  <1>2. /\ s \in Seq(Lines) /\ ~Prompted(s) /\ ~Acknowledged(s) /\ Orderly(s)
        /\ AsksOnce(s) /\ ~Asks(s) /\ OfLink(up, s) /\ Framed(s)
    BY DataLines
  <1> HIDE DEF s
  <1>3. Stream' /\ lines' \in Seq(Lines) /\ LinesJoin(up, lines, s, lines')
    BY <1>1, <1>2, MoreLines DEF linkVars
  <1>4. TypeOK' BY <1>1, <1>3 DEF IInv, TypeOK, linkVars, sendVars, peerVars
  <1>5. SetUp'
    <2>1. stage' = 0 BY <1>1
    <2> QED BY <2>1 DEF SetUp
  <1>6. Holds'
    <2>1. rx' = rx /\ (Reading' <=> Reading) BY <1>1 DEF Reading, linkVars
    <2>2. OwnData => (rx' # <<>> => Head(rx').of \in {up, None}) BY <2>1 DEF OwnData
    <2>3. AsksOnce(lines) /\ Reading' /\ Asks(lines') => Reading BY <2>1
    <2>4. /\ Prompted(lines') <=> Prompted(lines)
          /\ Acknowledged(lines') <=> Acknowledged(lines)
          /\ Orderly(lines) => Orderly(lines')
          /\ AsksOnce(lines) => AsksOnce(lines')
          /\ Asks(lines') => Asks(lines)
          /\ OfLink(up, lines) => OfLink(up, lines')
      BY <1>2, <1>3 DEF LinesJoin
    <2> QED BY <1>1, <2>1, <2>2, <2>3, <2>4, Frame DEF IInv, linkVars, peerVars
  <1> QED BY <1>3, <1>4, <1>5, <1>6 DEF IInv

\* A patient client has no command, response or part on its way when it sends one.
LEMMA SendCommandHolds == ASSUME IInv, SendCommand PROVE IInv'
  <1>1. /\ up \in Clients /\ (Patient => ~asked) /\ asked' \in {asked, TRUE}
        /\ UNCHANGED <<up, fresh, chip, last, torn>>
        /\ UNCHANGED <<ready, stage, linkVars, sendVars, station, faults, cut, garbled>>
    BY Types DEF SendCommand, peerUnchanged
  <1>2. UNCHANGED <<linkConnected, closing, rx, more, tx, raw, flags, text, newline>>
    BY <1>1 DEF linkVars, sendVars
  <1>8. asked' \in BOOLEAN
    <2>1. asked \in BOOLEAN BY DEF IInv, TypeOK
    <2> QED BY <2>1 DEF SendCommand
  <1>3. SetUp'
    <2>1. CASE stage > 0
      <3>1. lines' = lines BY <2>1 DEF SendCommand, Sends
      <3> QED BY <1>1, <1>2, <3>1 DEF IInv, SetUp
    <2>2. CASE ~(stage > 0) BY <1>1, <2>2 DEF SetUp
    <2> QED BY <2>1, <2>2
  <1>4. UnitsFit(flags)' BY <1>2 DEF IInv, Holds, UnitsFit
  <1>5. CASE lines' = lines
    <2>1. TypeOK' BY <1>1, <1>2, <1>5, <1>8 DEF IInv, TypeOK
    <2>2. Stream' BY <1>2, <1>5 DEF IInv, Stream
    <2>3. (~cut => Exchange)' BY <1>1, <1>2, <1>5 DEF IInv, Holds, Exchange
    <2>4. MineHolds'
      <3> SUFFICES ASSUME Mine' PROVE OwnData' /\ OneCommand' /\ Order' BY DEF MineHolds
      <3>1. Mine /\ OwnData /\ OneCommand /\ Order BY <1>1 DEF Mine, IInv, Holds, MineHolds
      <3>2. OwnData' BY <1>1, <1>2, <1>5, <3>1 DEF OwnData
      <3>3. (Ends' <=> Ends) /\ (Reading' <=> Reading) BY <1>1, <1>2 DEF Ends, Whole, Reading
      <3>4. OneCommand' BY <1>1, <1>2, <1>5, <3>1, <3>3 DEF OneCommand
      <3>5. Order' BY <1>1, <1>2, <1>5, <3>1 DEF Order, Follows, InTurn, Begun, Whole
      <3> QED BY <3>2, <3>4, <3>5
    <2>5. Holds' BY <1>1, <1>4, <2>3, <2>4 DEF IInv, Holds, TextAtPrompt, PartsInOrder
    <2> QED BY <1>3, <2>1, <2>2, <2>5 DEF IInv
  <1>6. CASE \E s \in Seq(Lines) :
                /\ lines' = lines \o s
                /\ ~Prompted(s) /\ ~Acknowledged(s) /\ Orderly(s)
                /\ AsksOnce(s) /\ OfLink(up, s) /\ Framed(s)
                /\ Asks(s) => asked' = TRUE
    <2>1. PICK s \in Seq(Lines) :
                /\ lines' = lines \o s
                /\ ~Prompted(s) /\ ~Acknowledged(s) /\ Orderly(s)
                /\ AsksOnce(s) /\ OfLink(up, s) /\ Framed(s)
                /\ Asks(s) => asked' = TRUE
      BY <1>6
    <2>2. Stream' /\ lines' \in Seq(Lines) /\ LinesJoin(up, lines, s, lines')
      BY <1>2, <2>1, MoreLines
    <2>3. TypeOK' BY <1>1, <1>2, <1>8, <2>2 DEF IInv, TypeOK
    <2>4. /\ Prompted(lines') <=> Prompted(lines)
          /\ Acknowledged(lines') <=> Acknowledged(lines)
          /\ Orderly(lines) => Orderly(lines')
          /\ OfLink(up, lines) => OfLink(up, lines')
          /\ Asks(lines') <=> Asks(lines) \/ Asks(s)
          /\ AsksOnce(lines) /\ ~(Asks(lines) /\ Asks(s)) => AsksOnce(lines')
      BY <2>1, <2>2 DEF LinesJoin
    <2>5. (~cut => Exchange)' BY <1>1, <1>2, <2>4 DEF IInv, Holds, Exchange
    <2>6. MineHolds'
      <3> SUFFICES ASSUME Mine' PROVE OwnData' /\ OneCommand' /\ Order' BY DEF MineHolds
      <3>1. Mine /\ OwnData /\ OneCommand /\ Order BY <1>1 DEF Mine, IInv, Holds, MineHolds
      <3>2. OwnData' BY <1>1, <1>2, <2>4, <3>1 DEF OwnData
      <3>3. (Ends' <=> Ends) /\ (Reading' <=> Reading) BY <1>1, <1>2 DEF Ends, Whole, Reading
      <3>4. ~asked BY <1>1, <3>1 DEF Mine
      <3>5. ~Asks(lines) /\ ~Reading /\ ~flags.responseSet /\ ~Ends BY <3>1, <3>4 DEF OneCommand
      <3>6. OneCommand' BY <1>2, <2>1, <2>4, <3>1, <3>3, <3>5 DEF OneCommand
      <3>7. Order' BY <1>1, <1>2, <2>4, <3>1 DEF Order, Follows, InTurn, Begun, Whole
      <3> QED BY <3>2, <3>6, <3>7
    <2>7. Holds' BY <1>1, <1>4, <2>5, <2>6 DEF IInv, Holds, TextAtPrompt, PartsInOrder
    <2> QED BY <1>3, <2>2, <2>3, <2>7 DEF IInv
  <1>7. \/ lines' = lines
        \/ \E s \in Seq(Lines) :
                /\ lines' = lines \o s
                /\ ~Prompted(s) /\ ~Acknowledged(s) /\ Orderly(s)
                /\ AsksOnce(s) /\ OfLink(up, s) /\ Framed(s)
                /\ Asks(s) => asked' = TRUE
    <2>0. up # Other BY <1>1, Constants
    <2>1. ASSUME NEW s, lines' = lines \o s,
                 \/ asked' = TRUE /\ \/ s = <<Data("+IPD", up, "command"), Line("OK")>>
                                     \/ s = <<Data("+IPD", up, "part"), Data("data", up, "command"), Line("OK")>>
                 \/ s = <<Data("+IPD", up, "close"), Line("OK")>>
          PROVE  /\ s \in Seq(Lines)
                 /\ ~Prompted(s) /\ ~Acknowledged(s) /\ Orderly(s)
                 /\ AsksOnce(s) /\ OfLink(up, s) /\ Framed(s)
                 /\ Asks(s) => asked' = TRUE
      <3>1. \/ \E p \in {"command", "close"} : up # Other /\ s = <<Data("+IPD", up, p), Line("OK")>>
            \/ s = <<Data("+IPD", up, "part"), Data("data", up, "command"), Line("OK")>>
        BY <2>0, <2>1
      <3>2. up \in Clients \cup {Other} BY <1>1
      <3>3. /\ s \in Seq(Lines)
            /\ ~Prompted(s) /\ ~Acknowledged(s) /\ Orderly(s)
            /\ AsksOnce(s) /\ OfLink(up, s) /\ Framed(s)
            /\ s = <<Data("+IPD", up, "close"), Line("OK")>> => ~Asks(s)
        BY <3>1, <3>2, DataLines
      <3> QED BY <2>1, <3>3
    <2> QED BY <2>1 DEF SendCommand, Sends
  <1> QED BY <1>5, <1>6, <1>7

LEMMA CloseLinkHolds == ASSUME IInv, CloseLink PROVE IInv'
  <1>1. /\ up' = None /\ asked' = FALSE
        /\ lines' = IF stage = 0 THEN lines \o <<Line("Unlink")>> ELSE lines
        /\ chip' = IF chip.does = "sending" THEN [chip EXCEPT !.does = "failing"] ELSE chip
        /\ UNCHANGED <<fresh, last, torn>>
        /\ UNCHANGED <<ready, stage, linkVars, sendVars, station, faults, cut, garbled>>
    BY DEF CloseLink, Sends, peerUnchanged
  <1>2. UNCHANGED <<linkConnected, closing, rx, more, tx, raw, flags, text, newline>>
    BY <1>1 DEF linkVars, sendVars
  <1>3. chip' \in Chip /\ (chip' = chip \/ (chip.does = "sending" /\ chip'.does = "failing"))
    BY <1>1, Types DEF Chip
  <1>4. lines \in Seq(Lines) /\ Framed(lines) BY DEF IInv, TypeOK, Stream
  <1>5. Alike(up, lines, lines') BY <1>1, <1>4, AlikeWith
  <1>6. TypeOK' BY <1>1, <1>2, <1>3, <1>5 DEF IInv, TypeOK, Alike
  <1>7. Stream' BY <1>2, <1>4, <1>5 DEF IInv, Stream, Alike
  <1>8. SetUp'
    <2>1. CASE stage > 0
      <3>1. lines' = lines BY <1>1, <2>1
      <3>2. chip = Idle BY <2>1 DEF IInv, SetUp
      <3>3. chip' = chip BY <1>1, <3>2 DEF Idle
      <3> QED BY <1>1, <1>2, <3>1, <3>3 DEF IInv, SetUp
    <2>2. CASE ~(stage > 0) BY <1>1, <2>2 DEF SetUp
    <2> QED BY <2>1, <2>2
  <1>9. UnitsFit(flags)' BY <1>2 DEF IInv, Holds, UnitsFit
  <1>10. (~cut => Exchange)'
    <2> SUFFICES ASSUME ~cut, Exchange PROVE Exchange' BY <1>1 DEF IInv, Holds
    <2> QED BY <1>2, <1>3, <1>5 DEF Exchange, Alike
  <1>11. ~Mine' BY <1>1 DEF Mine
  <1>12. Holds' BY <1>1, <1>9, <1>10, <1>11 DEF IInv, Holds, MineHolds, TextAtPrompt, PartsInOrder
  <1> QED BY <1>6, <1>7, <1>8, <1>12 DEF IInv

LEMMA ConnectHolds == ASSUME IInv, NEW c \in Clients, Connect(c) PROVE IInv'
  <1>1. /\ up' = c /\ asked' = FALSE /\ fresh' = NothingIsLeft /\ last' = NoPart
        /\ UNCHANGED <<lines, chip, torn>>
        /\ UNCHANGED <<ready, stage, linkVars, sendVars, station, faults, cut, garbled>>
    BY DEF Connect, peerUnchanged
  <1>2. UNCHANGED <<linkConnected, closing, rx, more, tx, raw, flags, text, newline>>
    BY <1>1 DEF linkVars, sendVars
  <1>3. TypeOK'
    <2>1. fresh' \in BOOLEAN BY <1>1 DEF NothingIsLeft
    <2> QED BY <1>1, <1>2, <2>1, NoUnitFields DEF IInv, TypeOK
  <1>4. Stream' BY <1>1, <1>2 DEF IInv, Stream
  <1>5. SetUp' BY <1>1, <1>2 DEF IInv, SetUp
  <1>6. UnitsFit(flags)' BY <1>2 DEF IInv, Holds, UnitsFit
  <1>7. (~cut => Exchange)'
    <2> SUFFICES ASSUME ~cut, Exchange PROVE Exchange' BY <1>1 DEF IInv, Holds
    <2> QED BY <1>1, <1>2 DEF Exchange
  <1>8. MineHolds'
    <2> SUFFICES ASSUME Mine' PROVE OwnData' /\ OneCommand' /\ Order' BY DEF MineHolds
    <2>1. NothingIsLeft /\ ~cut BY <1>1 DEF Mine
    <2>2. /\ ~flags.responseSet /\ ~flags.rawDataSet /\ rx = <<>> /\ chip.does \in {"nothing", "AT"}
          /\ \A i \in DOMAIN lines : ~IsData(lines[i])
      BY <2>1 DEF NothingIsLeft, IsData
    <2>3. UnitsFit(flags) /\ Exchange BY <2>1 DEF IInv, Holds
    <2>4. tx = NoUnit /\ raw = NoUnit /\ text = NoPart /\ tx.idx = 0 /\ raw.idx = 0
      BY <2>2, <2>3, NoUnitFields DEF UnitsFit, Exchange
    <2>5. ~Asks(lines) /\ AsksOnce(lines) /\ OfLink(c, lines)
      BY <2>2 DEF Asks, AsksOnce, OfLink, IsCommand
    <2>6. OwnData' BY <1>1, <1>2, <2>2, <2>4, <2>5 DEF OwnData
    <2>7. ~Ends' /\ ~Reading' BY <1>1, <1>2, <2>2 DEF Ends, Reading
    <2>8. OneCommand' BY <1>1, <1>2, <2>2, <2>5, <2>7 DEF OneCommand
    <2>9. Whole(NoPart) BY NoUnitFields DEF Whole
    <2>10. Order' BY <1>1, <1>2, <2>2, <2>4, <2>9 DEF Order, InTurn
    <2> QED BY <2>6, <2>8, <2>10
  <1>9. Holds' BY <1>1, <1>6, <1>7, <1>8 DEF IInv, Holds, TextAtPrompt, PartsInOrder
  <1> QED BY <1>3, <1>4, <1>5, <1>9 DEF IInv

--------------------------------------------------------------------------------
(* The chip.                                                                 *)

LEMMA ChipSpeaks ==
    ASSUME IInv, ChipAnswers
    PROVE  /\ stage = 0 /\ chip # Idle
           /\ UNCHANGED <<ready, stage, linkConnected, closing, rx, more, tx, raw, flags, text,
                          newline, station, cut, garbled>>
           /\ lines \in Seq(Lines) /\ UnitsFit(flags)' /\ SetUp'
  <1>1. chip.does # "nothing" BY DEF ChipAnswers
  <1>2. chip # Idle BY <1>1 DEF Idle
  <1>3. stage = 0
    <2>1. ~(stage > 0) BY <1>2 DEF IInv, SetUp
    <2>2. stage \in 0 .. Len(SetupCommands) BY DEF IInv, TypeOK
    <2>3. Len(SetupCommands) = 10 BY DEF SetupCommands
    <2> QED BY <2>1, <2>2, <2>3
  <1>4. UNCHANGED <<ready, stage, linkConnected, closing, rx, more, tx, raw, flags, text,
                    newline, station, cut, garbled>>
    BY DEF ChipAnswers, chipUnchanged, linkVars, sendVars
  <1>5. UnitsFit(flags)' BY <1>4 DEF IInv, Holds, UnitsFit
  <1>6. SetUp'
    <2>1. stage' = 0 BY <1>3, <1>4
    <2> QED BY <2>1 DEF SetUp
  <1> QED BY <1>2, <1>3, <1>4, <1>5, <1>6 DEF IInv, TypeOK

\* What is no prompt and no acknowledgement ends what the chip did.
Ended(s) ==
    /\ s \in Seq(Lines) /\ lines' = lines \o s /\ chip' = Idle /\ chip.does # "prompt"
    /\ ~Prompted(s) /\ ~Acknowledged(s) /\ Orderly(s)
    /\ ~Asks(s) /\ AsksOnce(s) /\ OfLink(up, s) /\ Framed(s)
    /\ UNCHANGED <<fresh, last, torn>> /\ faults' \in 0 .. MaxFaults
    /\ (up' = up /\ asked' = asked) \/ (up' = None /\ asked' = FALSE)
LEMMA EndedHolds == ASSUME IInv, ChipAnswers, NEW s, Ended(s) PROVE IInv'
  <1>1. /\ stage = 0
        /\ UNCHANGED <<ready, stage, linkConnected, closing, rx, more, tx, raw, flags, text,
                       newline, station, cut, garbled>>
        /\ lines \in Seq(Lines) /\ UnitsFit(flags)' /\ SetUp'
    BY ChipSpeaks
  <1>2. /\ s \in Seq(Lines) /\ lines' = lines \o s /\ chip' = Idle /\ chip.does # "prompt"
        /\ ~Prompted(s) /\ ~Acknowledged(s) /\ Orderly(s)
        /\ ~Asks(s) /\ AsksOnce(s) /\ OfLink(up, s) /\ Framed(s)
        /\ UNCHANGED <<fresh, last, torn>> /\ faults' \in 0 .. MaxFaults
        /\ (up' = up /\ asked' = asked) \/ (up' = None /\ asked' = FALSE)
    BY DEF Ended
  <1>3. Stream' /\ lines' \in Seq(Lines) /\ LinesJoin(up, lines, s, lines')
    BY <1>1, <1>2, MoreLines
  <1>4. Idle \in Chip /\ Idle.does = "nothing" BY NoUnitFields DEF Idle, Chip
  <1>5. TypeOK'
    <2>1. up' \in Clients \cup {None} /\ asked' \in BOOLEAN BY <1>2 DEF IInv, TypeOK
    <2> QED BY <1>1, <1>2, <1>3, <1>4, <2>1 DEF IInv, TypeOK
  <1>6. /\ Prompted(lines') <=> Prompted(lines)
        /\ Acknowledged(lines') <=> Acknowledged(lines)
        /\ Orderly(lines) => Orderly(lines')
        /\ OfLink(up, lines) => OfLink(up, lines')
        /\ Asks(lines') <=> Asks(lines)
        /\ AsksOnce(lines) => AsksOnce(lines')
    BY <1>2, <1>3 DEF LinesJoin
  <1>7. (~cut => Exchange)'
    <2> SUFFICES ASSUME ~cut, Exchange PROVE Exchange' BY <1>1 DEF IInv, Holds
    <2> QED BY <1>1, <1>2, <1>4, <1>6 DEF Exchange
  <1>8. MineHolds'
    <2> SUFFICES ASSUME Mine' PROVE OwnData' /\ OneCommand' /\ Order' BY DEF MineHolds
    <2>1. up' = up /\ asked' = asked BY <1>2 DEF Mine
    <2>2. Mine /\ OwnData /\ OneCommand /\ Order BY <1>1, <1>2, <2>1 DEF Mine, IInv, Holds, MineHolds
    <2>3. OwnData' BY <1>1, <1>6, <2>1, <2>2 DEF OwnData
    <2>4. ~Ends' /\ (Reading' <=> Reading) BY <1>1, <1>2, <1>4 DEF Ends, Reading
    <2>5. OneCommand' BY <1>1, <1>6, <2>1, <2>2, <2>4 DEF OneCommand
    <2>6. Order' BY <1>1, <1>2, <1>4, <1>6, <2>1, <2>2 DEF Order, Follows, InTurn, Begun, Whole
    <2> QED BY <2>3, <2>5, <2>6
  <1>9. Holds' BY <1>1, <1>2, <1>7, <1>8 DEF IInv, Holds, TextAtPrompt, PartsInOrder
  <1> QED BY <1>1, <1>3, <1>5, <1>9 DEF IInv

\* The chip asks for the text of the part that was announced.
Prompting(s) ==
    /\ chip.does = "CIPSEND" /\ chip' = [chip EXCEPT !.does = "prompt"]
    /\ s \in Seq(Lines) /\ lines' = lines \o s
    /\ Prompted(s) /\ ~Acknowledged(s) /\ Orderly(s)
    /\ ~Asks(s) /\ AsksOnce(s) /\ OfLink(up, s) /\ Framed(s)
    /\ UNCHANGED <<peerVars, faults, last, torn>>
LEMMA PromptingHolds == ASSUME IInv, ChipAnswers, NEW s, Prompting(s) PROVE IInv'
  <1>1. /\ stage = 0
        /\ UNCHANGED <<ready, stage, linkConnected, closing, rx, more, tx, raw, flags, text,
                       newline, station, cut, garbled>>
        /\ lines \in Seq(Lines) /\ UnitsFit(flags)' /\ SetUp'
    BY ChipSpeaks
  <1>2. /\ chip.does = "CIPSEND" /\ chip' = [chip EXCEPT !.does = "prompt"]
        /\ s \in Seq(Lines) /\ lines' = lines \o s
        /\ Prompted(s) /\ ~Acknowledged(s) /\ Orderly(s)
        /\ ~Asks(s) /\ AsksOnce(s) /\ OfLink(up, s) /\ Framed(s)
        /\ UNCHANGED <<up, asked, fresh, faults, last, torn>>
    BY DEF Prompting, peerVars
  <1>3. Stream' /\ lines' \in Seq(Lines) /\ LinesJoin(up, lines, s, lines')
    BY <1>1, <1>2, MoreLines
  <1>4. chip' \in Chip /\ chip'.does = "prompt" /\ chip'.part = chip.part
    BY <1>2, Types DEF Chip
  <1>5. TypeOK' BY <1>1, <1>2, <1>3, <1>4 DEF IInv, TypeOK
  <1>6. /\ Prompted(lines')
        /\ Acknowledged(lines') <=> Acknowledged(lines)
        /\ Orderly(lines) /\ ~Prompted(lines) => Orderly(lines')
        /\ OfLink(up, lines) => OfLink(up, lines')
        /\ Asks(lines') <=> Asks(lines)
        /\ AsksOnce(lines) => AsksOnce(lines')
    BY <1>2, <1>3 DEF LinesJoin
  <1>7. (~cut => Exchange)'
    <2> SUFFICES ASSUME ~cut, Exchange PROVE Exchange' BY <1>1 DEF IInv, Holds
    <2>1. ~Prompted(lines) BY <1>2 DEF Exchange
    <2> QED BY <1>1, <1>2, <1>4, <1>6, <2>1 DEF Exchange
  <1>8. MineHolds'
    <2> SUFFICES ASSUME Mine' PROVE OwnData' /\ OneCommand' /\ Order' BY DEF MineHolds
    <2>1. Mine /\ OwnData /\ OneCommand /\ Order BY <1>1, <1>2 DEF Mine, IInv, Holds, MineHolds
    <2>2. OwnData' BY <1>1, <1>2, <1>6, <2>1 DEF OwnData
    <2>3. ~Ends' /\ (Reading' <=> Reading) BY <1>1, <1>4 DEF Ends, Reading
    <2>4. OneCommand' BY <1>1, <1>2, <1>6, <2>1, <2>3 DEF OneCommand
    <2>5. Order' BY <1>1, <1>2, <1>4, <1>6, <2>1 DEF Order, Follows, InTurn, Begun, Whole
    <2> QED BY <2>2, <2>4, <2>5
  <1>9. Holds' BY <1>1, <1>2, <1>7, <1>8 DEF IInv, Holds, TextAtPrompt, PartsInOrder
  <1> QED BY <1>1, <1>3, <1>5, <1>9 DEF IInv

\* up gets the part: it is the one that follows.
Received(s) ==
    /\ chip.does = "sending" /\ up # None /\ chip' = Idle
    /\ s \in Seq(Lines) /\ lines' = lines \o s
    /\ ~Prompted(s) /\ Acknowledged(s) /\ Orderly(s)
    /\ ~Asks(s) /\ AsksOnce(s) /\ OfLink(up, s) /\ Framed(s)
    /\ last' = (IF fresh /\ ~cut THEN chip.part ELSE NoPart)
    /\ torn' = (torn \/ (fresh /\ ~cut /\ ~Follows(chip.part)))
    /\ asked' = (asked /\ ~(chip.part.of = up /\ chip.part.i = chip.part.n))
    /\ UNCHANGED <<up, fresh, faults>>
LEMMA ReceivedHolds == ASSUME IInv, ChipAnswers, NEW s, Received(s) PROVE IInv'
  <1>1. /\ stage = 0
        /\ UNCHANGED <<ready, stage, linkConnected, closing, rx, more, tx, raw, flags, text,
                       newline, station, cut, garbled>>
        /\ lines \in Seq(Lines) /\ UnitsFit(flags)' /\ SetUp'
    BY ChipSpeaks
  <1>2. /\ chip.does = "sending" /\ up # None /\ chip' = Idle
        /\ s \in Seq(Lines) /\ lines' = lines \o s
        /\ ~Prompted(s) /\ Acknowledged(s) /\ Orderly(s)
        /\ ~Asks(s) /\ AsksOnce(s) /\ OfLink(up, s) /\ Framed(s)
        /\ UNCHANGED <<up, fresh, faults>>
    BY DEF Received
  <1>3. Stream' /\ lines' \in Seq(Lines) /\ LinesJoin(up, lines, s, lines')
    BY <1>1, <1>2, MoreLines
  <1>4. Idle \in Chip /\ Idle.does = "nothing" BY NoUnitFields DEF Idle, Chip
  <1>5. chip.part \in Parts BY Types DEF Chip
  <1>6. TypeOK'
    <2>1. last' \in Parts BY <1>5, NoUnitFields DEF Received
    <2>2. torn' \in BOOLEAN /\ asked' \in BOOLEAN BY DEF Received
    <2> QED BY <1>1, <1>2, <1>3, <1>4, <2>1, <2>2 DEF IInv, TypeOK
  <1>7. /\ Prompted(lines') <=> Prompted(lines)
        /\ Acknowledged(lines')
        /\ Orderly(lines) /\ ~Acknowledged(lines) => Orderly(lines')
        /\ OfLink(up, lines) => OfLink(up, lines')
        /\ Asks(lines') <=> Asks(lines)
        /\ AsksOnce(lines) => AsksOnce(lines')
    BY <1>2, <1>3 DEF LinesJoin
  <1>8. (~cut => Exchange)'
    <2> SUFFICES ASSUME ~cut, Exchange PROVE Exchange' BY <1>1 DEF IInv, Holds
    <2> QED BY <1>1, <1>2, <1>4, <1>7 DEF Exchange
  <1>9. ASSUME Mine
        PROVE  OwnData /\ OneCommand /\ Order /\ flags.waitingToSend /\ text = NoPart
               /\ last' = chip.part /\ torn' = torn
    <2>1. OwnData /\ OneCommand /\ Order BY <1>9 DEF IInv, Holds, MineHolds
    <2>2. flags.waitingToSend /\ text = NoPart BY <1>2, <1>9 DEF IInv, Holds, Exchange, Mine
    <2>3. Follows(chip.part) BY <1>2, <2>1 DEF Order
    <2>4. last' = chip.part BY <1>9 DEF Received, Mine
    <2>5. torn' = torn BY <2>3 DEF Received, IInv, TypeOK
    <2> QED BY <2>1, <2>2, <2>4, <2>5
  <1>10. MineHolds'
    <2> SUFFICES ASSUME Mine' PROVE OwnData' /\ OneCommand' /\ Order' BY DEF MineHolds
    <2>1. Mine BY <1>1, <1>2 DEF Mine
    <2>2. /\ OwnData /\ OneCommand /\ Order /\ flags.waitingToSend /\ text = NoPart
          /\ last' = chip.part
      BY <1>9, <2>1
    <2>3. OwnData' BY <1>1, <1>2, <1>7, <2>2 DEF OwnData
    <2>4. ~Ends' /\ (Reading' <=> Reading) BY <1>1, <1>2, <1>4 DEF Ends, Reading
    <2>5. ~Ends /\ asked => asked'
      <3>1. chip.part.i = chip.part.n => Whole(chip.part) BY <1>5, PartFields DEF Whole
      <3> QED BY <1>2, <3>1 DEF Ends, Received
    <2>6. OneCommand' BY <1>1, <1>7, <2>2, <2>4, <2>5 DEF OneCommand
    <2>7. (InTurn(last))' BY <1>1, <1>2, <2>2 DEF Order, InTurn, Begun, Whole
    <2>8. Order' BY <1>1, <1>2, <1>4, <2>2, <2>7 DEF Order
    <2> QED BY <2>3, <2>6, <2>8
  <1>11. (Patient => PartsInOrder)'
    <2> SUFFICES ASSUME Patient PROVE ~torn' BY DEF PartsInOrder
    <2>1. ~torn BY DEF IInv, Holds, PartsInOrder
    <2>2. CASE fresh /\ ~cut
      <3>1. Mine BY <1>2, <2>2 DEF Mine
      <3> QED BY <1>9, <2>1, <3>1
    <2>3. CASE ~(fresh /\ ~cut) BY <2>1, <2>3 DEF Received
    <2> QED BY <2>2, <2>3
  <1>12. Holds' BY <1>1, <1>8, <1>10, <1>11 DEF IInv, Holds, TextAtPrompt
  <1> QED BY <1>1, <1>3, <1>6, <1>12 DEF IInv

LEMMA ChipAnswersHolds == ASSUME IInv, ChipAnswers PROVE IInv'
  <1>1. faults \in 0 .. MaxFaults /\ MaxFaults \in Nat BY EspAssumption DEF IInv, TypeOK
  <1>2. ASSUME NEW a \in {"OK", "ERROR"}, lines' = lines \o <<Line(a)>>, chip' = Idle,
               chip.does # "prompt", UNCHANGED <<fresh, last, torn>>, faults' \in 0 .. MaxFaults,
               (up' = up /\ asked' = asked) \/ (up' = None /\ asked' = FALSE)
        PROVE  IInv'
    <2> DEFINE s == <<Line(a)>>
    <2>1. /\ s \in Seq(Lines) /\ ~Prompted(s) /\ ~Acknowledged(s) /\ Orderly(s)
          /\ ~Asks(s) /\ AsksOnce(s) /\ OfLink(up, s) /\ Framed(s)
      BY OneAnswer DEF Answer
    <2> HIDE DEF s
    <2>2. lines' = lines \o s BY <1>2 DEF s
    <2>3. Ended(s) BY <1>2, <2>1, <2>2 DEF Ended
    <2> QED BY <2>3, EndedHolds
  <1>3. CASE chip.does = "AT" /\ Answers(<<Line("OK")>>) /\ UNCHANGED <<peerVars, faults, last, torn>>
    BY <1>1, <1>2, <1>3 DEF Answers, peerVars
  <1>4. CASE /\ chip.does = "CIPCLOSE"
             /\ up = None /\ \E a \in {"OK", "ERROR"} : Answers(<<Line(a)>>)
             /\ up' = None /\ asked' = FALSE /\ UNCHANGED <<fresh, faults, last, torn>>
    BY <1>1, <1>2, <1>4 DEF Answers
  <1>5. CASE /\ chip.does = "CIPCLOSE"
             /\ Answers(<<Line("Unlink"), Line("OK")>>)
             /\ up' = None /\ asked' = FALSE /\ UNCHANGED <<fresh, faults, last, torn>>
    <2> DEFINE s == <<Line("Unlink"), Line("OK")>>
    <2>1. /\ s \in Seq(Lines) /\ ~Prompted(s) /\ ~Acknowledged(s) /\ Orderly(s)
          /\ ~Asks(s) /\ AsksOnce(s) /\ OfLink(up, s) /\ Framed(s)
      BY TwoAnswers DEF Answer
    <2> HIDE DEF s
    <2>2. lines' = lines \o s /\ chip' = Idle BY <1>5 DEF s, Answers
    <2>3. Ended(s) BY <1>1, <1>5, <2>1, <2>2 DEF Ended
    <2> QED BY <2>3, EndedHolds
  <1>6. CASE /\ chip.does = "CIPSEND" /\ chip' = [chip EXCEPT !.does = "prompt"]
             /\ \/ lines' = lines \o <<Line("> ")>>
                \/ lines' = lines \o <<Line("OK"), Line("> ")>>
             /\ UNCHANGED <<peerVars, faults, last, torn>>
    <2>1. PICK s \in {<<Line("> ")>>, <<Line("OK"), Line("> ")>>} : lines' = lines \o s BY <1>6
    <2>2. /\ s \in Seq(Lines) /\ Prompted(s) /\ ~Acknowledged(s) /\ Orderly(s)
          /\ ~Asks(s) /\ AsksOnce(s) /\ OfLink(up, s) /\ Framed(s)
      <3>1. CASE s = <<Line("> ")>>
        <4>1. "> " \in Answer BY DEF Answer
        <4> QED BY <3>1, <4>1, OneAnswer
      <3>2. CASE s = <<Line("OK"), Line("> ")>>
        <4>1. "> " \in Answer /\ "OK" \in Answer BY DEF Answer
        <4> QED BY <3>2, <4>1, TwoAnswers
      <3> QED BY <3>1, <3>2
    <2>3. Prompting(s) BY <1>6, <2>1, <2>2 DEF Prompting
    <2> QED BY <2>3, PromptingHolds
  <1>7. CASE /\ chip.does \in {"CIPSEND", "failing"}
             /\ Answers(<<Line("ERROR")>>) /\ UNCHANGED <<peerVars, faults, last, torn>>
    BY <1>1, <1>2, <1>7 DEF Answers, peerVars
  <1>8. CASE /\ chip.does = "sending" /\ up # None
             /\ Answers(<<Line("SEND OK")>>)
             /\ last' = (IF fresh /\ ~cut THEN chip.part ELSE NoPart)
             /\ torn' = (torn \/ (fresh /\ ~cut /\ ~Follows(chip.part)))
             /\ asked' = (asked /\ ~(chip.part.of = up /\ chip.part.i = chip.part.n))
             /\ UNCHANGED <<up, fresh, faults>>
    <2> DEFINE s == <<Line("SEND OK")>>
    <2>1. /\ s \in Seq(Lines) /\ ~Prompted(s) /\ Acknowledged(s) /\ Orderly(s)
          /\ ~Asks(s) /\ AsksOnce(s) /\ OfLink(up, s) /\ Framed(s)
      <3>1. "SEND OK" \in Answer BY DEF Answer
      <3> QED BY <3>1, OneAnswer
    <2> HIDE DEF s
    <2>2. lines' = lines \o s /\ chip' = Idle BY <1>8 DEF s, Answers
    <2>3. Received(s) BY <1>8, <2>1, <2>2 DEF Received
    <2> QED BY <2>3, ReceivedHolds
  <1>9. CASE /\ chip.does \in {"sending", "CIPSEND"} /\ faults < MaxFaults
             /\ Answers(<<Line("ERROR")>>) /\ faults' = faults + 1
             /\ UNCHANGED <<peerVars, last, torn>>
    <2>1. faults' \in 0 .. MaxFaults BY <1>1, <1>9
    <2> QED BY <1>2, <1>9, <2>1 DEF Answers, peerVars
  <1> QED BY <1>3, <1>4, <1>5, <1>6, <1>7, <1>8, <1>9 DEF ChipAnswers

--------------------------------------------------------------------------------
(* The chip is set up.                                                       *)

\* A link that the driver has not heard of since the reset is not claimed to be new.
LEMMA Blank ==
    ASSUME ~garbled, torn' = torn, garbled' = garbled, (Patient => ~torn), ~fresh' \/ up' = None,
           chip' = Idle, lines' = <<>>, tx' = NoUnit, raw' = NoUnit, flags' = NoFlags,
           text' = NoPart
    PROVE  Holds'
  <1>1. UnitsFit(flags)' BY NoFlagsSet, NoUnitFields DEF UnitsFit
  <1>2. Exchange'
    <2>1. chip'.does = "nothing" BY DEF Idle
    <2>2. ~Prompted(lines') /\ ~Acknowledged(lines') /\ Orderly(lines') BY NoLines
    <2> QED BY <2>1, <2>2, NoFlagsSet DEF Exchange
  <1>3. ~Mine' BY DEF Mine
  <1> QED BY <1>1, <1>2, <1>3 DEF Holds, MineHolds, TextAtPrompt, PartsInOrder

LEMMA ResetTypes ==
    ASSUME IInv, ResetChip
    PROVE  /\ chip' = Idle /\ chip' \in Chip /\ lines' = <<>> /\ lines' \in Seq(Lines)
           /\ up' \in Clients \cup {None} /\ asked' \in BOOLEAN /\ fresh' = FALSE
  <1>1. Idle \in Chip BY NoUnitFields DEF Idle, Chip
  <1>2. up' \in Clients \cup {None} BY Types DEF ResetChip
  <1>3. asked' \in BOOLEAN BY DEF ResetChip
  <1> QED BY <1>1, <1>2, <1>3, EmptySeq DEF ResetChip

LEMMA initHolds == ASSUME IInv, init PROVE IInv'
  <1>1. /\ stage' = 1 /\ ResetChip /\ closing' = FALSE /\ linkConnected' = FALSE
        /\ rx' = <<>> /\ more' = "no" /\ tx' = NoUnit /\ raw' = NoUnit /\ flags' = NoFlags
        /\ newline' = TRUE /\ text' = NoPart /\ cut' = FALSE
        /\ UNCHANGED <<ready, station, faults, garbled, last, torn>>
    BY DEF init
  <1>2. /\ chip' = Idle /\ chip' \in Chip /\ lines' = <<>> /\ lines' \in Seq(Lines)
        /\ up' \in Clients \cup {None} /\ asked' \in BOOLEAN /\ fresh' = FALSE
    BY <1>1, ResetTypes
  <1>3. TypeOK'
    <2>1. 1 \in 0 .. Len(SetupCommands) BY DEF SetupCommands
    <2>2. rx' \in Seq(Rx) /\ Len(rx') <= 1 BY <1>1, EmptySeq
    <2> QED BY <1>1, <1>2, <2>1, <2>2, NoUnitFields, NoFlagsSet DEF IInv, TypeOK
  <1>4. Stream' BY <1>1, <1>2, NoLines DEF Stream
  <1>5. SetUp' BY <1>1, <1>2 DEF SetUp
  <1>6. Holds' BY <1>1, <1>2, Blank DEF IInv, Holds, TextAtPrompt, PartsInOrder
  <1> QED BY <1>3, <1>4, <1>5, <1>6 DEF IInv

LEMMA SetupHolds == ASSUME IInv, ESP8266_setup PROVE IInv'
  <1>1. /\ stage > 0 /\ UNCHANGED <<linkVars, sendVars, history>>
        /\ \/ SetupGoesOn
           \/ stage' = 1 /\ ResetChip /\ ready' = ready /\ station' \in {station, TRUE}
    BY DEF ESP8266_setup
  <1>2. UNCHANGED <<linkConnected, closing, rx, more, tx, raw, flags, text, newline, cut, garbled, last, torn>>
    BY <1>1 DEF linkVars, sendVars, history
  <1>3. /\ chip = Idle /\ lines = <<>> /\ rx = <<>> /\ more = "no"
        /\ flags = NoFlags /\ tx = NoUnit /\ raw = NoUnit /\ text = NoPart
        /\ ~cut /\ ~linkConnected /\ ~closing
    BY <1>1 DEF IInv, SetUp
  <1>4. stage \in 0 .. 10 /\ Len(SetupCommands) = 10 /\ stage # 0
    <2>1. Len(SetupCommands) = 10 BY DEF SetupCommands
    <2>2. stage \in 0 .. 10 BY <2>1 DEF IInv, TypeOK
    <2> QED BY <1>1, <2>1, <2>2
  <1>5. faults' \in 0 .. MaxFaults
    <2>1. faults \in 0 .. MaxFaults /\ MaxFaults \in Nat BY EspAssumption DEF IInv, TypeOK
    <2>2. faults' = faults \/ (faults' = faults + 1 /\ faults < MaxFaults) BY DEF ESP8266_setup
    <2> QED BY <2>1, <2>2
  <1>6. CASE SetupGoesOn
    <2>1. /\ stage' = IF stage = 10 THEN 0 ELSE stage + 1
          /\ ready' = (stage = 10)
          /\ up' \in {up, None} /\ asked' = (asked /\ up' # None)
          /\ UNCHANGED <<lines, chip, station, fresh>>
      BY <1>4, <1>6 DEF SetupGoesOn
    <2>2. stage' \in 0 .. 10 BY <1>4, <2>1
    <2>3. TypeOK'
      <3>1. up' \in Clients \cup {None} BY <2>1, Types
      <3>2. asked' \in BOOLEAN /\ ready' \in BOOLEAN BY <2>1
      <3> QED BY <1>2, <1>4, <1>5, <2>1, <2>2, <3>1, <3>2 DEF IInv, TypeOK
    <2>4. Stream' BY <1>2, <2>1 DEF IInv, Stream
    <2>5. SetUp' BY <1>2, <1>3, <2>1 DEF SetUp
    <2>6. Holds'
      <3>1. CASE up # None /\ up' = up
        <4>1. asked' = asked BY <2>1, <3>1 DEF IInv, TypeOK
        <4>2. ~Reading' BY <1>2, <1>3 DEF Reading
        <4> QED BY <1>2, <1>3, <2>1, <3>1, <4>1, <4>2, StillHolds DEF IInv
      <3>2. CASE up' = None
        BY <1>2, <1>3, <2>1, <3>2, Blank DEF IInv, Holds, TextAtPrompt, PartsInOrder
      <3> QED BY <2>1, <3>1, <3>2
    <2> QED BY <2>3, <2>4, <2>5, <2>6 DEF IInv
  <1>7. CASE /\ stage' = 1 /\ ResetChip /\ ready' = ready /\ station' \in {station, TRUE}
    <2>1. /\ chip' = Idle /\ chip' \in Chip /\ lines' = <<>> /\ lines' \in Seq(Lines)
          /\ up' \in Clients \cup {None} /\ asked' \in BOOLEAN /\ fresh' = FALSE
      BY <1>7, ResetTypes
    <2>2. TypeOK'
      <3>1. station' \in BOOLEAN
        <4>1. station \in BOOLEAN BY DEF IInv, TypeOK
        <4>2. station' = station \/ station' = TRUE BY <1>7
        <4> QED BY <4>1, <4>2
      <3>2. 1 \in 0 .. Len(SetupCommands) BY <1>4
      <3> QED BY <1>2, <1>5, <1>7, <2>1, <3>1, <3>2 DEF IInv, TypeOK
    <2>3. Stream' BY <1>2, <1>3, <2>1, NoLines DEF Stream
    <2>4. SetUp' BY <1>2, <1>3, <1>7, <2>1 DEF SetUp
    <2>5. Holds' BY <1>2, <1>3, <2>1, Blank DEF IInv, Holds, TextAtPrompt, PartsInOrder
    <2> QED BY <2>2, <2>3, <2>4, <2>5 DEF IInv
  <1> QED BY <1>1, <1>6, <1>7

--------------------------------------------------------------------------------
(* Every step keeps the invariant.                                           *)

LEMMA StepHolds == ASSUME IInv, [Next]_vars PROVE IInv'
  <1>1. CASE processEspLine
    BY <1>1, TakeDataHolds, TakeIPDHolds, TakePromptHolds, TakeErrorHolds, TakeOKHolds
    DEF processEspLine
  <1>2. CASE Program
    BY <1>2, ReadPartHolds, ReadCloseHolds, ReadCommandHolds, WriteRawDataHolds DEF Program
  <1>3. CASE AtExpires \/ OkExpires \/ init \/ ESP8266_setup \/ IdleExpires
    BY <1>3, AtExpiresHolds, OkExpiresHolds, initHolds, SetupHolds, IdleExpiresHolds
  <1>4. CASE ChipAnswers BY <1>4, ChipAnswersHolds
  <1>5. CASE Peers
    BY <1>5, ConnectHolds, SendCommandHolds, OtherLinkHolds, CloseLinkHolds DEF Peers
  <1>6. CASE UNCHANGED vars
    <2>1. UNCHANGED <<ready, stage, linkConnected, closing, rx, more, tx, raw, flags, text, newline,
                      lines, chip, station, up, asked, fresh, faults, cut, garbled, last, torn>>
      BY <1>6 DEF vars, linkVars, sendVars, peerVars, history
    <2>2. TypeOK' BY <2>1 DEF IInv, TypeOK
    <2>3. Stream' /\ SetUp' BY <2>1 DEF IInv, Stream, SetUp
    <2>4. rx' = rx /\ (Reading' <=> Reading) BY <2>1 DEF Reading
    <2>5. OwnData => (rx' # <<>> => Head(rx').of \in {up, None}) BY <2>1 DEF OwnData
    <2>6. AsksOnce(lines) /\ Reading' /\ Asks(lines') => Reading BY <2>4
    <2>7. Holds' BY <2>1, <2>4, <2>5, <2>6, StillHolds DEF IInv
    <2> QED BY <2>2, <2>3, <2>7 DEF IInv
  <1> QED BY <1>1, <1>2, <1>3, <1>4, <1>5, <1>6 DEF Next, Driver

LEMMA Invariance == Spec => []IInv
  <1>1. Init => IInv BY InitHolds
  <1>2. IInv /\ [Next]_vars => IInv' BY StepHolds
  <1> QED BY <1>1, <1>2, PTL DEF Spec

\* Every variable of the driver, of the chip and of the link keeps its type, for any
\* number of clients, of parts, of lines that wait and of failures of the chip.
THEOREM TypeCorrect == Spec => []TypeOK
  <1>1. IInv => TypeOK BY DEF IInv
  <1> QED BY <1>1, Invariance, PTL

\* A chip at its prompt gets the text of the part that was announced: from the AT+CIPSEND
\* of handleOK() to the SEND OK, waitingToSend and espTxMsg keep the driver from saying
\* anything else, unless the link is given up in between.
THEOREM PromptGetsItsText == Spec => []TextAtPrompt
  <1>1. IInv => TextAtPrompt BY DEF IInv, Holds
  <1> QED BY <1>1, Invariance, PTL

\* A client that waits for each response gets the parts of responses and of raw data
\* whole and in order: handleOK() begins neither while the other is begun, and a response
\* is not written over one of which a part is on its way.
THEOREM PartsComeInOrder == ASSUME Patient PROVE Spec => []PartsInOrder
  <1>1. IInv => PartsInOrder BY DEF IInv, Holds
  <1> QED BY <1>1, Invariance, PTL
================================================================================
