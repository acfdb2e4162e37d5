--------------------------------- MODULE SipHash ---------------------------------
(***************************************************************************)
(* SipHash_2_4.cpp: the hash behind the challenges and messages of a       *)
(* session, written for eight-bit processors.  A word of 64 bits is eight  *)
(* bytes, the first the highest; the state is the words v0 .. v3.          *)
(***************************************************************************)
EXTENDS Integers, Sequences, SequencesExt, Bitwise

\* A word, byte by byte.
Word(b(_)) == <<b(1), b(2), b(3), b(4), b(5), b(6), b(7), b(8)>>

XOR64(v, w) == Word(LAMBDA i : v[i] ^^ w[i])

\* The carry goes from the last byte to the first.
ADD64(v, s) ==
    LET carry[i \in 1 .. 9] == IF i = 9 THEN 0 ELSE (v[i] + s[i] + carry[i + 1]) \div 256
    IN  Word(LAMBDA i : (v[i] + s[i] + carry[i + 1]) % 256)

\* Rotation to the left by k bytes, and by x < 8 bits in either direction.
After(v, i, k) == v[((i - 1 + k) % 8) + 1]
ROTL64_Bytes(v, k) == Word(LAMBDA i : After(v, i, k))
ROTL64_xBITS(v, x) ==
    Word(LAMBDA i : ((v[i] * 2 ^ x) % 256) + (After(v, i, 1) \div 2 ^ (8 - x)))
ROTR64_xBITS(v, x) ==
    Word(LAMBDA i : (v[i] \div 2 ^ x) + ((After(v, i, 7) * 2 ^ (8 - x)) % 256))
ROL_17BITS(v) == ROTL64_xBITS(ROTL64_Bytes(v, 2), 1)
ROL_21BITS(v) == ROTL64_xBITS(ROTL64_Bytes(v, 2), 5)
ROL_13BITS(v) == ROTR64_xBITS(ROTL64_Bytes(v, 2), 3)

\* siphash_round(), in its two halves.
siphash_round(s) ==
    LET a0 == ADD64(s.v0, s.v1)
        a2 == ADD64(s.v2, s.v3)
        a1 == XOR64(ROL_13BITS(s.v1), a0)
        a3 == XOR64(ROTL64_Bytes(s.v3, 2), a2)
        b2 == ADD64(a2, a1)
        b0 == ADD64(ROTL64_Bytes(a0, 4), a3)
    IN  [v0 |-> b0,
         v1 |-> XOR64(ROL_17BITS(a1), b2),
         v2 |-> ROTL64_Bytes(b2, 4),
         v3 |-> XOR64(ROL_21BITS(a3), b0)]

\* hash(): eight bytes of the message, the first of them the lowest (Reverse).
hash(s, m) ==
    LET t == siphash_round(siphash_round([s EXCEPT !.v3 = XOR64(@, m)]))
    IN  [t EXCEPT !.v0 = XOR64(@, m)]

\* initFromRAM(): "somepseu", "dorandom", "lygenera" and "tedbytes" with the key.
initFromRAM(key) ==
    LET low  == Reverse(SubSeq(key, 1, 8))
        high == Reverse(SubSeq(key, 9, 16))
    IN  [v0 |-> XOR64(<<115, 111, 109, 101, 112, 115, 101, 117>>, low),
         v1 |-> XOR64(<<100, 111, 114, 97, 110, 100, 111, 109>>, high),
         v2 |-> XOR64(<<108, 121, 103, 101, 110, 101, 114, 97>>, low),
         v3 |-> XOR64(<<116, 101, 100, 98, 121, 116, 101, 115>>, high)]

\* finish(): the message is filled with zeros up to its length in the last byte.
Padded(msg) == msg \o [i \in 1 .. 7 - (Len(msg) % 8) |-> 0] \o <<Len(msg) % 256>>
finish(s) ==
    LET r == [s EXCEPT !.v2 = [@ EXCEPT ![8] = @ ^^ 255]]
        f == siphash_round(siphash_round(siphash_round(siphash_round(r))))
    IN  XOR64(XOR64(f.v0, f.v1), XOR64(f.v2, f.v3))

\* The result for a key of sixteen bytes and a message given byte by byte.
SipHash24(key, msg) ==
    LET bytes == Padded(msg)
        block(i) == Reverse(SubSeq(bytes, 8 * i - 7, 8 * i))
        blocks == [i \in 1 .. Len(bytes) \div 8 |-> block(i)]
    IN  finish(FoldLeft(hash, initFromRAM(key), blocks))
================================================================================
