----------------------------- MODULE MCPfodSession -----------------------------
(* PfodSession on small instances.  The state holds finitely many sessions:
   each takes a challenge, and the power cycles run out.  A hash and the key are
   values there: that their texts come back is checked here first. *)
EXTENDS PfodSession

Conv == INSTANCE Conversions
Sip  == INSTANCE SipHash

\* The key and the messages of the reference, 0, 1, 2 .., have the hashes of the
\* reference, around the end of a block: empty, one byte short of it, full, and the
\* example of the paper.
ASSUME ReferenceHashes ==
    LET count(n) == SubSeq(<<0, 1, 2, 3, 4, 5, 6, 7, 8, 9, 10, 11, 12, 13, 14, 15>>, 1, n)
        of(n) == Sip!SipHash24(count(16), count(n))
    IN  /\ of(0)  = <<114, 111, 219, 71, 221, 14, 14, 49>>
        /\ of(7)  = <<171, 2, 0, 245, 139, 1, 209, 55>>
        /\ of(8)  = <<147, 245, 245, 121, 154, 147, 36, 98>>
        /\ of(15) = <<161, 41, 202, 97, 73, 190, 69, 229>>

\* The hash of a message is sent as a hexadecimal text and read back as it was.
ASSUME HashesComeBack ==
    \A n \in 1 .. 3 : \A bytes \in [1 .. n -> {0, 9, 10, 15, 16, 160, 255}] :
        Conv!asciiToHex(Conv!hexToAscii(bytes, 2 * n + 1), n) = bytes

\* Two passwords have the same key only if they differ in "a" (97) at the end.
ASSUME PasswordsHaveKeys ==
    LET C == {97, 98, 122, 65, 90, 48, 57, 40, 41}
        key(password) == Conv!getBytesFromPassword(password, 3)
    IN  /\ Cardinality({key(p) : p \in [1 .. 4 -> C]}) = Cardinality([1 .. 4 -> C])
        /\ \A n \in 0 .. 3 : \A p \in [1 .. n -> C] : key(p) = key(Append(p, 97))

\* Blanks around a password do not count, and one with capitals and digits only is
\* read as hexadecimal, capitals behind "F" too: "G0" (71, 48) has the key of "00".
ASSUME BlanksAndCapitals ==
    /\ \A n \in 0 .. 3 : \A p \in [1 .. n -> {65, 98, 122}] :
           Conv!KeyOf(<<32, 9>> \o p \o <<32>>, 16) = Conv!KeyOf(p, 16)
    /\ Conv!KeyOf(<<71, 48>>, 16) = Conv!KeyOf(<<48, 48>>, 16)
    /\ Conv!KeyOf(<<32, 32>>, 16) = <<>>
================================================================================
