----------------------------- MODULE MCAccessPoint -----------------------------
(* AccessPoint on small instances.  The fields of a form are model values there:
   the conversions that make them are checked here first. *)
EXTENDS AccessPoint, Sequences

Conv == INSTANCE Conversions

\* All texts of at most n characters of C.
Strings(C, n) == UNION {[1 .. k -> C] : k \in 0 .. n}
Percent(text) == [i \in 1 .. 3 * Len(text) |->
                     IF i % 3 = 1 THEN 37 ELSE Conv!hexToAscii(text, 1000)[i - (i + 2) \div 3]]
Decimal == [n \in 0 .. 9 |-> <<48 + n>>] \* of 0 .. 9
Number(n) == IF n < 10 THEN Decimal[n]
             ELSE IF n < 100 THEN Decimal[n \div 10] \o Decimal[n % 10]
             ELSE Decimal[n \div 100] \o Decimal[(n \div 10) % 10] \o Decimal[n % 10]

\* handleConfig() decodes a field in place: the result is never longer than the field,
\* and what a browser wrote with "%" for every byte comes back.
ASSUME FieldsComeBack ==
    /\ \A src \in Strings({37, 43, 48, 65, 102, 103}, 5) : Len(Conv!urldecode2(src)) <= Len(src)
    /\ \A text \in Strings({1, 32, 37, 43, 65, 255}, 3) : Conv!urldecode2(Percent(text)) = text
    /\ Conv!urldecode2(<<65, 37, 48, 48, 66>>) = <<65>>

\* Numbers of eight bits come back, and wrap beyond them.
ASSUME NumbersComeBack ==
    /\ \A n \in 0 .. 127 : /\ Conv!parseLong(Number(n), 8) = n
                           /\ Conv!parseLong(<<45>> \o Number(n), 8) = -n
    /\ Conv!parseLong(Number(128), 8) = -128 /\ Conv!parseLong(Number(300), 8) = 44

\* Addresses come back, with either separator and blanks, and short ones end in 0.
ASSUME AddressesComeBack ==
    LET bytes == {0, 9, 10, 192, 255}
    IN  /\ \A a, b, c, d \in bytes, sep \in {<<46>>, <<44>>, <<44, 32>>} :
               Conv!ipStrToNum(Number(a) \o sep \o Number(b) \o sep \o Number(c) \o sep \o Number(d))
                   = <<a, b, c, d>>
        /\ Conv!ipStrToNum(Number(10) \o <<46>> \o Number(1)) = <<10, 1, 0, 0>>
================================================================================
