-------------------------------- MODULE Utf ---------------------------------
(***************************************************************************)
(* ConvertUTF.c, which SimpleIni converts text with. A conversion reads    *)
(* units from a source and writes units to a target of limited size; it    *)
(* stops at the end of either and can be called again for the rest.        *)
(***************************************************************************)
EXTENDS Integers, Sequences

UNI_SUR_HIGH_START == 55296     \* D800
UNI_SUR_HIGH_END == 56319       \* DBFF
UNI_SUR_LOW_START == 56320      \* DC00
UNI_SUR_LOW_END == 57343        \* DFFF
UNI_MAX_BMP == 65535            \* FFFF
UNI_MAX_LEGAL_UTF32 == 1114111  \* 10FFFF
UNI_REPLACEMENT_CHAR == 65533   \* FFFD
halfBase == 65536

HighSurrogate(u) == u >= UNI_SUR_HIGH_START /\ u <= UNI_SUR_HIGH_END
LowSurrogate(u) == u >= UNI_SUR_LOW_START /\ u <= UNI_SUR_LOW_END
Surrogate(u) == u >= UNI_SUR_HIGH_START /\ u <= UNI_SUR_LOW_END

(***************************************************************************)
(* One pass of a conversion loop: the units taken from the source, those   *)
(* for the target, and what becomes of the result. "ok" goes on; "bad" is  *)
(* sourceIllegal without a break; any other result ends the loop, with     *)
(* source and target where they stood. need is the place in the target     *)
(* that is tested before anything is decided.                              *)
(***************************************************************************)
Pass(n, put, need, result) == [used |-> n, put |-> put, need |-> need, result |-> result]
Take(n, put) == Pass(n, put, Len(put), "ok")
Bad(put) == Pass(1, put, 1, "bad")
Stop(need, result) == Pass(0, <<>>, need, result)

-----------------------------------------------------------------------------
Utf16Units(ch) ==
  IF ch <= UNI_MAX_BMP THEN <<ch>>
  ELSE << ((ch - halfBase) \div 1024) + UNI_SUR_HIGH_START,
          ((ch - halfBase) % 1024) + UNI_SUR_LOW_START >>

Mark(ch, k) == 128 + ((ch \div k) % 64)
UTF8Bytes(ch) ==
  IF ch < 128 THEN <<ch>>
  ELSE IF ch < 2048 THEN << 192 + (ch \div 64), Mark(ch, 1) >>
  ELSE IF ch < halfBase THEN << 224 + (ch \div 4096), Mark(ch, 64), Mark(ch, 1) >>
  ELSE << 240 + (ch \div 262144), Mark(ch, 4096), Mark(ch, 64), Mark(ch, 1) >>

\* A character in the units of an encoding.
Units(encoding, ch) ==
  CASE encoding = "utf8" -> UTF8Bytes(ch)
    [] encoding = "utf16" -> Utf16Units(ch)
    [] encoding = "utf32" -> <<ch>>

\* A surrogate in UTF-32 or UTF-8 text.
Unpaired(n, strict, need, lenient) ==
  IF strict THEN Stop(need, "sourceIllegal") ELSE Take(n, lenient)

StepUTF32toUTF16(s, strict) ==
  LET ch == s[1]
  IN IF Surrogate(ch) THEN Unpaired(1, strict, 1, <<UNI_REPLACEMENT_CHAR>>)
     ELSE IF ch > UNI_MAX_LEGAL_UTF32
       THEN IF strict THEN Bad(<<>>) ELSE Take(1, <<UNI_REPLACEMENT_CHAR>>)
     ELSE Take(1, Utf16Units(ch))

StepUTF32toUTF8(s, strict) ==
  LET ch == s[1]
  IN IF strict /\ Surrogate(ch) THEN Stop(0, "sourceIllegal")
     ELSE IF ch > UNI_MAX_LEGAL_UTF32 THEN Bad(UTF8Bytes(UNI_REPLACEMENT_CHAR))
     ELSE Take(1, UTF8Bytes(ch))

\* A surrogate pair, or one unit; to is the encoding of the target.
StepFromUTF16(to, s, strict) ==
  IF HighSurrogate(s[1])
    THEN IF Len(s) = 1 THEN Stop(0, "sourceExhausted")
         ELSE IF LowSurrogate(s[2])
           THEN Take(2, Units(to, (s[1] - UNI_SUR_HIGH_START) * 1024
                                + (s[2] - UNI_SUR_LOW_START) + halfBase))
         ELSE Unpaired(1, strict, 0, Units(to, s[1]))
  ELSE IF LowSurrogate(s[1]) THEN Unpaired(1, strict, 0, Units(to, s[1]))
  ELSE Take(1, Units(to, s[1]))

trailingBytesForUTF8(b) ==
  IF b < 192 THEN 0 ELSE IF b < 224 THEN 1 ELSE IF b < 240 THEN 2
  ELSE IF b < 248 THEN 3 ELSE IF b < 252 THEN 4 ELSE 5

\* After ED and F4 the second byte has an upper bound only.
isLegalUTF8(s) ==
  LET a == s[2]
  IN /\ Len(s) <= 4 /\ s[1] <= 244
     /\ ~(s[1] >= 128 /\ s[1] < 194)
     /\ \A i \in 3 .. Len(s) : s[i] \in 128 .. 191
     /\ Len(s) >= 2 => /\ a <= 191
                       /\ s[1] = 224 => a >= 160
                       /\ s[1] = 237 => a <= 159
                       /\ s[1] = 240 => a >= 144
                       /\ s[1] = 244 => a <= 143
                       /\ s[1] \notin {224, 237, 240, 244} => a >= 128

\* The bytes shifted together, less what the marks in them add up to.
offsetsFromUTF8 == << 0, 12416, 925824, 63447168 >>
Decoded(s) ==
  LET Sum[i \in 1 .. Len(s)] == IF i = 1 THEN s[1] ELSE Sum[i - 1] * 64 + s[i]
  IN Sum[Len(s)] - offsetsFromUTF8[Len(s)]

StepFromUTF8(to, s, strict) ==
  LET n == trailingBytesForUTF8(s[1]) + 1
      seq == SubSeq(s, 1, n)
  IN IF n > Len(s) THEN Stop(0, "sourceExhausted")
     ELSE IF ~isLegalUTF8(seq) THEN Stop(0, "sourceIllegal")
     ELSE LET ch == Decoded(seq)
          IN IF Surrogate(ch) THEN Unpaired(n, strict, 1, <<UNI_REPLACEMENT_CHAR>>)
             ELSE IF ch > UNI_MAX_LEGAL_UTF32
               THEN IF to = "utf16" THEN Unpaired(n, strict, 1, <<UNI_REPLACEMENT_CHAR>>)
                    ELSE Pass(n, <<UNI_REPLACEMENT_CHAR>>, 1, "bad")
             ELSE Take(n, Units(to, ch))

\* One pass over what is left of the source.
Step(from, to, s, strict) ==
  CASE from = "utf8" -> StepFromUTF8(to, s, strict)
    [] from = "utf16" -> StepFromUTF16(to, s, strict)
    [] from = "utf32" /\ to = "utf16" -> StepUTF32toUTF16(s, strict)
    [] from = "utf32" /\ to = "utf8" -> StepUTF32toUTF8(s, strict)

\* The loop.
Convert(from, to, source, size, strict) ==
  LET From[at \in Nat \X Nat] ==    \* the offset in the source, the room in the target
        LET i == at[1]
            room == at[2]
            pass == Step(from, to, SubSeq(source, i + 1, Len(source)), strict)
        IN IF i >= Len(source) THEN [used |-> i, out |-> <<>>, result |-> "conversionOK"]
           ELSE IF pass.need > room \/ Len(pass.put) > room
             THEN [used |-> i, out |-> <<>>, result |-> "targetExhausted"]
           ELSE IF pass.result \notin {"ok", "bad"}
             THEN [used |-> i, out |-> <<>>, result |-> pass.result]
           ELSE LET rest == From[<<i + pass.used, room - Len(pass.put)>>]
                IN [used |-> rest.used, out |-> pass.put \o rest.out,
                    result |-> IF pass.result = "bad" /\ rest.result = "conversionOK"
                                 THEN "sourceIllegal" ELSE rest.result]
  IN From[<<0, size>>]
ConvertUTF32toUTF16(source, size, strict) == Convert("utf32", "utf16", source, size, strict)
ConvertUTF32toUTF8(source, size, strict) == Convert("utf32", "utf8", source, size, strict)
ConvertUTF16toUTF32(source, size, strict) == Convert("utf16", "utf32", source, size, strict)
ConvertUTF16toUTF8(source, size, strict) == Convert("utf16", "utf8", source, size, strict)
ConvertUTF8toUTF32(source, size, strict) == Convert("utf8", "utf32", source, size, strict)
ConvertUTF8toUTF16(source, size, strict) == Convert("utf8", "utf16", source, size, strict)

-----------------------------------------------------------------------------
\* A conversion F that is given small targets, and is called again with the rest of
\* its source, writes what one call with a target that is large enough writes; no
\* call writes more than its target holds; a source that arrives in two parts, the
\* second joined to what was left of the first, is converted to the same text.
Resumes(F(_, _, _), source) ==
  \A strict \in BOOLEAN :
    LET whole == F(source, 4 * Len(source), strict)
    IN /\ \A size \in 0 .. Len(whole.out) :
            LET first == F(source, size, strict)
                second == F(SubSeq(source, first.used + 1, Len(source)),
                            4 * Len(source), strict)
            IN /\ Len(first.out) <= size
               /\ first.out \o second.out = whole.out
               /\ first.used + second.used = whole.used
       /\ \A cut \in 0 .. Len(source) :
            LET first == F(SubSeq(source, 1, cut), 4 * cut, strict)
                second == F(SubSeq(source, first.used + 1, Len(source)),
                            4 * Len(source), strict)
            IN first.out \o second.out = whole.out

\* What a strict conversion accepts comes back from the opposite conversion as it was.
RoundTrip(F(_, _, _), G(_, _, _), source) ==
  LET there == F(source, 4 * Len(source), TRUE)
      back == G(there.out, 4 * Len(there.out), TRUE)
  IN there.result = "conversionOK" => back.result = "conversionOK" /\ back.out = source

\* Bytes after ED and F4 that are trailing bytes: the others pass isLegalUTF8 too.
Trailed(s) ==
  \A i \in 1 .. Len(s) - 1 : s[i] \in {237, 244} => s[i + 1] >= 128

Utf8Agrees(s) ==
  /\ Resumes(ConvertUTF8toUTF16, s) /\ Resumes(ConvertUTF8toUTF32, s)
  /\ Trailed(s) => /\ RoundTrip(ConvertUTF8toUTF16, ConvertUTF16toUTF8, s)
                   /\ RoundTrip(ConvertUTF8toUTF32, ConvertUTF32toUTF8, s)
Utf16Agrees(s) ==
  /\ Resumes(ConvertUTF16toUTF8, s) /\ Resumes(ConvertUTF16toUTF32, s)
  /\ RoundTrip(ConvertUTF16toUTF8, ConvertUTF8toUTF16, s)
  /\ RoundTrip(ConvertUTF16toUTF32, ConvertUTF32toUTF16, s)
Utf32Agrees(s) ==
  /\ Resumes(ConvertUTF32toUTF8, s) /\ Resumes(ConvertUTF32toUTF16, s)
  /\ RoundTrip(ConvertUTF32toUTF8, ConvertUTF8toUTF32, s)
  /\ RoundTrip(ConvertUTF32toUTF16, ConvertUTF16toUTF32, s)
=============================================================================
