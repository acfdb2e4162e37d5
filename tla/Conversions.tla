------------------------------- MODULE Conversions -------------------------------
(***************************************************************************)
(* The conversions of texts that the sketches, the parser and the security *)
(* layer share: form fields, numbers, addresses, hexadecimal texts and     *)
(* passwords.  They keep no state, so each is an operator.  A text is a    *)
(* sequence of character codes without its null; a char has no sign on the *)
(* ESP8266.                                                                *)
(***************************************************************************)
EXTENDS Integers, Sequences, SequencesExt, FiniteSetsExt

Digit == 48 .. 57           \* '0' .. '9'
Upper == 65 .. 90           \* 'A' .. 'Z'
Lower == 97 .. 122          \* 'a' .. 'z'
Blank == 32

\* What a function that takes a C string sees of bytes: those before the first null.
CString(bytes) ==
    LET nulls == {i \in DOMAIN bytes : bytes[i] = 0}
    IN  IF nulls = {} THEN bytes ELSE SubSeq(bytes, 1, Min(nulls) - 1)

\* strncpy_safe()
strncpy_safe(src, maxLen) == SubSeq(src, 1, Min({Len(src), maxLen}))

\* isEmpty(): nothing but blanks and control characters.
isEmpty(str) == \A i \in DOMAIN str : str[i] <= Blank

--------------------------------------------------------------------------------
(* Fields of a form. *)

isxdigit(c) == c \in Digit \cup (65 .. 70) \cup (97 .. 102)
HexValue(c) == CASE c \in Digit -> c - 48 [] c \in Upper -> c - 55 [] c \in Lower -> c - 87

\* urldecode2(): "%" and two hexadecimal digits are one byte, "+" (43) is a blank, and
\* anything else, also a "%" (37) without its digits, stands for itself.
Escaped(src, i) ==
    src[i] = 37 /\ i + 2 <= Len(src) /\ isxdigit(src[i + 1]) /\ isxdigit(src[i + 2])
urldecode2(src) ==
    LET from[i \in 1 .. Len(src) + 1] ==
            CASE i > Len(src)    -> <<>>
              [] Escaped(src, i) ->
                     <<16 * HexValue(src[i + 1]) + HexValue(src[i + 2])>> \o from[i + 3]
              [] OTHER           -> <<IF src[i] = 43 THEN Blank ELSE src[i]>> \o from[i + 1]
    IN  CString(from[1])

\* parseLong(): every "-" (45) counts, wherever it stands, and a long has "width" bits.
Signed(n, width) == ((n + 2 ^ (width - 1)) % 2 ^ width) - 2 ^ (width - 1)
parseLong(str, width) ==
    LET add(n, c) == IF c = 45 THEN n ELSE Signed(10 * n + c - 48, width)
        n == FoldLeft(add, 0, str)
    IN  IF 45 \in ToSet(str) THEN Signed(-n, width) ELSE n

\* ipStrToNum(): numbers of one byte, each up to a "." (46) or "," (44), until four are
\* filled; what the text does not fill is 0.
ipStrToNum(ipStr) ==
    LET read(a, c) ==
            IF a.i = 4 \/ c = Blank THEN a
            ELSE IF c \in {44, 46}
                 THEN [bytes |-> [a.bytes EXCEPT ![a.i + 1] = a.num], i |-> a.i + 1, num |-> 0]
                 ELSE [a EXCEPT !.num = (10 * @ + c - 48) % 256]
        a == FoldLeft(read, [bytes |-> <<0, 0, 0, 0>>, i |-> 0, num |-> 0], ipStr)
    IN  IF a.i = 4 THEN a.bytes ELSE [a.bytes EXCEPT ![a.i + 1] = a.num]

--------------------------------------------------------------------------------
(* Hexadecimal texts and passwords. *)

\* isAllHex(): it takes every capital for a digit.
isAllHex(str) == \A i \in DOMAIN str : str[i] \in (97 .. 102) \cup Upper \cup Digit

\* asciiToHex(): two digits are a byte, at most maxHexLen; a last digit alone has a 0
\* behind it.
asciiToHex(str, maxHexLen) ==
    LET value(i) == IF i > Len(str) THEN 0
                    ELSE str[i] - (IF str[i] >= 97 THEN 87 ELSE IF str[i] >= 65 THEN 55 ELSE 48)
    IN  [j \in 1 .. Min({(Len(str) + 1) \div 2, maxHexLen}) |->
            (16 * value(2 * j - 1) + value(2 * j)) % 256]

\* hexToAscii(): the two digits of each byte, as far as they fit.
hexToAscii(hex, maxStrLen) ==
    [j \in 1 .. Min({2 * Len(hex), maxStrLen - 1}) |->
        LET byte == hex[(j + 1) \div 2]
            b == IF j % 2 = 1 THEN byte \div 16 ELSE byte % 16
        IN  IF b >= 10 THEN b + 55 ELSE b + 48]

\* byte64ToByte(): six bits of a character of a password; "(" is 40, ")" is 41.
byte64ToByte(b) ==
    CASE b \in Lower -> b - 97
      [] b \in Upper -> 26 + b - 65
      [] b = 40      -> 62
      [] b = 41      -> 63
      [] OTHER       -> (52 + b - 48) % 64

\* getBytesFromPassword() with decodePasswordBytes(): four characters are three bytes,
\* and what the password does not fill is 0.
getBytesFromPassword(key, keyMaxLen) ==
    LET six(k) == IF k <= Len(key) THEN byte64ToByte(key[k]) ELSE 0
        four(g) == 262144 * six(4 * g + 1) + 4096 * six(4 * g + 2) + 64 * six(4 * g + 3) + six(4 * g + 4)
    IN  [j \in 1 .. keyMaxLen |->
            (four((j - 1) \div 3) \div <<65536, 256, 1>>[((j - 1) % 3) + 1]) % 256]

\* connect(): the key of a password: blanks around it are dropped, before it is cut
\* in front and after it is cut behind, and it may be in hexadecimal.
KeyOf(password, maxKeySize) ==
    LET solid(str) == {i \in DOMAIN str : str[i] > Blank}
        front == IF solid(password) = {} THEN <<>>
                 ELSE SubSeq(password, Min(solid(password)), Len(password))
        cut == strncpy_safe(front, 2 * maxKeySize)
        key == IF solid(cut) = {} THEN <<>> ELSE SubSeq(cut, 1, Max(solid(cut)))
    IN  IF isAllHex(key) THEN asciiToHex(key, maxKeySize)
        ELSE getBytesFromPassword(key, maxKeySize)
================================================================================
