------------------------------- MODULE Codec --------------------------------
(***************************************************************************)
(* base64.c, the hexadecimal form of clsHash and the mask of clsMask.      *)
(* Bytes are 0 .. 255; a Base64 symbol is its six bits, so the table       *)
(* basis_64 is the identity, and pr2six takes every other byte to 64.      *)
(***************************************************************************)
EXTENDS Integers, Sequences

Bytes8 == 0 .. 255
Pad == 64             \* '=', and whatever is not one of the 64 symbols

Base64encode_len_Short(n) == (n \div 3) * 4 + 1
Base64encode_len(n) == ((n + 2) \div 3) * 4 + 1

\* The symbols of three bytes; a missing one counts as zero.
Sextets(a, b, c) ==
  << a \div 4, (a % 4) * 16 + (b \div 16), (b % 16) * 4 + (c \div 64), c % 64 >>

Base64encode(bytes) ==
  LET n == Len(bytes)
      From[i \in 1 .. n + 3] ==
        IF i > n THEN <<>>
        ELSE IF i = n THEN SubSeq(Sextets(bytes[i], 0, 0), 1, 2) \o <<Pad, Pad>>
        ELSE IF i + 1 = n THEN SubSeq(Sextets(bytes[i], bytes[i + 1], 0), 1, 3) \o <<Pad>>
        ELSE Sextets(bytes[i], bytes[i + 1], bytes[i + 2]) \o From[i + 3]
  IN From[1]

\* The symbols before the first that is none.
Coded(text) ==
  LET n == {i \in DOMAIN text : \A j \in 1 .. i : text[j] < Pad}
  IN [i \in n |-> text[i]]

Base64decode_len(text) == ((Len(Coded(text)) + 3) \div 4) * 3 + 1

\* The bytes written to bufplain, without the closing '\0'; nbytesdecoded, which is
\* returned, is their number. A symbol left alone at the end gives no byte.
Base64decode(text) ==
  LET s == Coded(text)
      n == Len(s)
      Byte(k) ==     \* byte k of the plain text, from the symbols k and k + 1 touch
        LET q == (k - 1) \div 3
            at == 4 * q + ((k - 1) % 3) + 1
        IN CASE k % 3 = 1 -> (s[at] * 4 + (s[at + 1] \div 16)) % 256
             [] k % 3 = 2 -> (s[at] * 16 + (s[at + 1] \div 4)) % 256
             [] OTHER     -> (s[at] * 64 + s[at + 1]) % 256
      tail == IF n = 0 THEN 0 ELSE ((n - 1) % 4) + 1
      written == ((n - tail) \div 4) * 3 + (IF tail > 1 THEN tail - 1 ELSE 0)
  IN [k \in 1 .. written |-> Byte(k)]
nbytesdecoded(text) ==
  LET n == Len(Coded(text))
      left == IF n = 0 THEN 0 ELSE ((n - 1) % 4) + 1
  IN ((n + 3) \div 4) * 3 - ((4 - left) % 4)

\* hex_encode and hex_decode, a hexadecimal digit being its value.
hex_encode(bytes) ==
  [i \in 1 .. 2 * Len(bytes) |->
    LET b == bytes[(i + 1) \div 2] IN IF i % 2 = 1 THEN b \div 16 ELSE b % 16]
\* A text of odd length is read one character past its end: not modelled.
hex_decode(digits) ==
  [t \in 1 .. Len(digits) \div 2 |-> digits[2 * t - 1] * 16 + digits[2 * t]]

\* a ^ b for two bytes: the bits in which they differ.
Bit(b, k) == (b \div k) % 2
Xor(a, b) ==
  LET Differs(k) == ((Bit(a, k) + Bit(b, k)) % 2) * k
  IN Differs(1) + Differs(2) + Differs(4) + Differs(8)
       + Differs(16) + Differs(32) + Differs(64) + Differs(128)

\* Mask and UnMask count the key from its first byte in every call.
Mask(key, buffer) == [i \in DOMAIN buffer |-> Xor(buffer[i], key[((i - 1) % 4) + 1])]
\* The loop of SetNewDataMaskKey steps by three: bytes 0 and 3 change. 3 ^ q turns
\* the two lowest bits of q over.
SetNewDataMaskKey(key, length) ==
  LET q == length \div 4
      turned == (q \div 4) * 4 + (3 - (q % 4))
  IN [key EXCEPT ![1] = (@ + q) % 256, ![4] = (@ + turned - 3) % 256]

-----------------------------------------------------------------------------
\* Decoding what was encoded gives it back; the encoder fills exactly the buffer
\* its length function asks for and the decoder, on any text, stays in the buffer
\* Base64decode_len asks for and returns the number of bytes it wrote.
Base64Agrees(input) ==
  LET code == Base64encode(input)
  IN /\ Base64decode(code) = input
     /\ Len(code) + 1 = Base64encode_len(Len(input))
     /\ Len(Base64decode(input)) + 1 <= Base64decode_len(input)
     /\ nbytesdecoded(input) = Len(Base64decode(input))
     /\ hex_decode(hex_encode(input)) = input

\* Two ends that start with one key and change it after every message by the length
\* of the message understand each other, message after message, also when one end
\* unmasks a message in pieces, if every piece but the last is a multiple of the key.
MaskAgrees(key, messages) ==
  LET After[i \in 0 .. Len(messages)] ==
        IF i = 0 THEN key ELSE SetNewDataMaskKey(After[i - 1], Len(messages[i]))
  IN \A i \in DOMAIN messages :
       LET sent == Mask(After[i - 1], messages[i])
       IN \A cut \in 0 .. Len(sent) :
            (cut % 4 = 0) =>
              Mask(After[i - 1], SubSeq(sent, 1, cut))
                \o Mask(After[i - 1], SubSeq(sent, cut + 1, Len(sent))) = messages[i]
=============================================================================
