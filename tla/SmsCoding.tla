-------------------------------- MODULE SmsCoding --------------------------------
(***************************************************************************)
(* How pfodSMS_SIM900.cpp puts a text into SMS messages and takes one out  *)
(* of them: three bytes become four characters of six bits each, behind    *)
(* two characters for the number of the message and two for that of its    *)
(* connection.  Bytes and characters are numbers; a text is a sequence of  *)
(* them without its null.                                                  *)
(***************************************************************************)
EXTENDS Integers, Sequences

MAX_BYTES_TO_CONVERT == 117
SMS_RX_BUFFER_SIZE   == 267

Byte     == 0 .. 255
TextByte == 1 .. 255        \* what a text is made of: it has no null
Number   == 0 .. 4095        \* the numbers of messages and connections: twelve bits
Invalid  == 255             \* what decodeSMSChar() makes of another character

Blank  == 32                \* ' '
Plus   == 43                \* '+'
Digits == 48 .. 57          \* '0' .. '9'
Upper  == 65 .. 90          \* 'A' .. 'Z'
Lower  == 97 .. 122         \* 'a' .. 'z'

\* encodeSMSChar(): the character for the lower six bits of a number.
encodeSMSChar(c) ==
    LET s == c % 64
    IN  CASE s = 0       -> Blank
          [] s = 1       -> Plus
          [] s \in 2 .. 11  -> s - 2 + 48
          [] s \in 12 .. 37 -> s - 12 + 65
          [] OTHER       -> s - 38 + 97

\* decodeSMSChar(): the six bits of a character, or Invalid.
decodeSMSChar(c) ==
    CASE c \in Lower  -> c - 97 + 38
      [] c \in Upper  -> c - 65 + 12
      [] c \in Digits -> c - 48 + 2
      [] c = Plus     -> 1
      [] c = Blank    -> 0
      [] OTHER        -> Invalid

\* encodeInt() and decodeInt(): twelve bits in two characters.
encodeInt(n) == <<encodeSMSChar(n \div 64), encodeSMSChar(n)>>
decodeInt(chars, idx) ==
    LET high == decodeSMSChar(chars[idx + 1])
        low  == decodeSMSChar(chars[idx + 2])
    IN  IF high = Invalid \/ low = Invalid THEN 0 ELSE 64 * high + low

\* convertThree8Bytes(): the k-th of the characters for 24 bits, from 0.
SixBits == <<262144, 4096, 64, 1>>
convertThree8Bytes(three, k) == encodeSMSChar(three \div SixBits[k + 1])

--------------------------------------------------------------------------------
(* Sending. *)

\* How much of what is left of a text the next message takes.
Taken(left) ==
    CASE left > MAX_BYTES_TO_CONVERT -> MAX_BYTES_TO_CONVERT
      [] left = MAX_BYTES_TO_CONVERT -> MAX_BYTES_TO_CONVERT - 3
      [] OTHER                       -> left

\* The nulls behind it: a message with one of them is the last.
Padding(left) == IF left >= MAX_BYTES_TO_CONVERT THEN 0 ELSE 3 - (left % 3)

\* bytesToConvert: what the message for the text behind idx takes of it, and its size.
Size(left) == Taken(left) + Padding(left)
bytesToConvert(text, idx, i) == IF i <= Taken(Len(text) - idx) THEN text[idx + i] ELSE 0
three8Bytes(text, idx, g) ==
    65536 * bytesToConvert(text, idx, 3 * g + 1) + 256 * bytesToConvert(text, idx, 3 * g + 2)
        + bytesToConvert(text, idx, 3 * g + 3)

\* encodeSMS(): that message, and where the next one starts.
encodeSMS(connectionNo, msgNo, text, idx) ==
    LET left == Len(text) - idx
    IN  IF left = 0
        THEN [sms |-> <<>>, next |-> idx]
        ELSE [sms |-> encodeInt(msgNo) \o encodeInt(connectionNo) \o
                          [j \in 1 .. 4 * (Size(left) \div 3) |->
                              convertThree8Bytes(three8Bytes(text, idx, (j - 1) \div 4),
                                                 (j - 1) % 4)],
              next |-> idx + Taken(left)]

--------------------------------------------------------------------------------
(* Receiving. *)

\* validSMSmsgLen()
validSMSmsgLen(chars) == Len(chars) # 0 /\ Len(chars) % 4 = 0 /\ Len(chars) <= 160

\* The k-th character of the g-th four behind the numbers, decoded; both from 0.
Six(chars, g, k) == decodeSMSChar(chars[4 + 4 * g + k + 1])
Four(chars, g) ==
    262144 * (Six(chars, g, 0) % 64) + 4096 * (Six(chars, g, 1) % 64)
        + 64 * (Six(chars, g, 2) % 64) + (Six(chars, g, 3) % 64)
IsBad(chars, g) == \E k \in 0 .. 3 : Six(chars, g, k) = Invalid

\* The i-th byte of a message, from 1.
EightBits == <<65536, 256, 1>>
ByteAt(chars, i) == (Four(chars, (i - 1) \div 3) \div EightBits[((i - 1) % 3) + 1]) % 256

\* decodeSMScmd() reads no further: an invalid character, a null, or no room.
Ends(chars, length, i) ==
    \/ IsBad(chars, (i - 1) \div 3)
    \/ ByteAt(chars, i) = 0
    \/ length + i >= SMS_RX_BUFFER_SIZE

\* The bytes of a message, and where decodeSMScmd() stops: behind the last of them,
\* or at the first that ends it.
BytesIn(chars) == 3 * ((Len(chars) - 4) \div 4)
Stop(chars, length) ==
    CHOOSE i \in 1 .. BytesIn(chars) + 1 :
        /\ i <= BytesIn(chars) => Ends(chars, length, i)
        /\ \A j \in 1 .. i - 1 : ~Ends(chars, length, j)

\* decodeSMScmd(): what is read into a buffer that holds "length" bytes, the length
\* then, and whether "}" (125) was among it.  An invalid character undoes it all.
decodeSMScmd(chars, length) ==
    LET stop == Stop(chars, length)
        text == [i \in 1 .. stop - 1 |-> ByteAt(chars, i)]
        full == stop <= BytesIn(chars) /\ ByteAt(chars, stop) # 0
    IN  IF \/ ~validSMSmsgLen(chars)
           \/ stop <= BytesIn(chars) /\ IsBad(chars, (stop - 1) \div 3)
        THEN [text |-> <<>>, length |-> length, found |-> FALSE]
        ELSE [text   |-> text,
              length |-> length + stop - 1 + (IF full THEN 1 ELSE 0),
              found  |-> \E i \in DOMAIN text : text[i] = 125]
================================================================================
