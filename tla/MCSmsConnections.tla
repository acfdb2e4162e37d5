---------------------------- MODULE MCSmsConnections ----------------------------
(* SmsConnections with two phones: the numbers of one wrap, the other uses the
   number 0 and is forgotten by it.  A message is a record there: that its bytes
   come back from the coding of them is checked here first. *)
EXTENDS SmsConnections, TLC

CONSTANTS p, q
MCNumbers == p :> <<5, 1>> @@ q :> <<0>>

Coding == INSTANCE SmsCoding

\* Texts around one and two messages, with every byte but null.
Texts == {[i \in 1 .. n |-> ((n * 7 + i * 31) % 255) + 1] : n \in (1 .. 8) \cup (110 .. 122) \cup (228 .. 236)}

\* The messages of a text hold it, part by part, and a null ends the last one only.
ASSUME TextsComeBack ==
    \A text \in Texts : \A idx \in {0, 1, 2, 114, 117} \cap (0 .. Len(text) - 1) :
        LET part == Coding!encodeSMS(4095, 64 + idx, text, idx)
            read == Coding!decodeSMScmd(part.sms, 0)
        IN  /\ Coding!validSMSmsgLen(part.sms)
            /\ Coding!decodeInt(part.sms, 0) = 64 + idx /\ Coding!decodeInt(part.sms, 2) = 4095
            /\ read.text = SubSeq(text, idx + 1, part.next) /\ read.length = Len(read.text)
            /\ read.found <=> \E i \in idx + 1 .. part.next : text[i] = 125
            /\ (part.next = Len(text)) <=> (Coding!ByteAt(part.sms, 3 * ((Len(part.sms) - 4) \div 4)) = 0)

\* A character that is none of the coding undoes what was read before it.
ASSUME InvalidUndoes ==
    LET sms == Coding!encodeSMS(1, 0, [i \in 1 .. 20 |-> 65], 0).sms
    IN  \A i \in 5 .. Len(sms) :
            Coding!decodeSMScmd([sms EXCEPT ![i] = 36], 7) =
                [text |-> <<>>, length |-> 7, found |-> FALSE]
================================================================================
