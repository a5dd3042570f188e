---------------------------- MODULE CStringText -----------------------------
(***************************************************************************)
(* The static text operations of clsCString, on texts without '\0'.        *)
(* Positions are the code's: offsets from 0.                               *)
(***************************************************************************)
EXTENDS Integers, Sequences

CONSTANTS
  SpaceChars, \* the characters isspace() accepts
  LowerOf     \* tolower(), a function on characters

\* n characters of s from offset p.
Part(s, p, n) == SubSeq(s, p + 1, p + n)

\* FindAt(Source + p, Len(Source), ch, p): -1 when ch does not follow. It compares
\* up to p characters behind the source; a hit there fails the caller's test.
FindAt(source, ch, p) ==
  LET hit == {i \in p .. Len(source) - 1 : source[i + 1] = ch}
  IN IF hit = {} THEN -1 ELSE CHOOSE i \in hit : \A j \in hit : i <= j

FindPostion_Skips(source, match) ==
  LET n == Len(match)
      From[p \in 0 .. Len(source)] ==
        LET q == FindAt(source, match[1], p)
        IN IF n = 0 \/ q < 0 \/ n + q > Len(source) THEN 0
           ELSE IF Part(source, q, n) = match THEN q + n
           ELSE From[q + n]
  IN From[0]
\* The offset behind the first match, 0 when there is none. An empty match looks
\* for the character '\0' and finds none.
FindPostion(source, match) ==
  LET n == Len(match)
      From[p \in 0 .. Len(source)] ==
        IF n = 0 \/ n + p > Len(source) THEN 0
        ELSE LET q == FindAt(source, match[1], p)
             IN IF q < 0 \/ n + q > Len(source) THEN 0
                ELSE IF Part(source, q, n) = match THEN q + n
                ELSE From[q + 1]
  IN From[0]

\* The first match replaced; an empty text when there is none.
ReplaceText(source, match, to) ==
  LET endAt == FindPostion(source, match)
      startAt == endAt - Len(match)
  IN IF endAt > 0
       THEN Part(source, 0, startAt) \o to \o Part(source, endAt, Len(source) - endAt)
       ELSE <<>>

\* What stands between match1 and match2. An end found right behind match1 is
\* the offset 0, which the code takes for no end.
SplitString(source, match1, match2) ==
  LET startAt == FindPostion(source, match1)
      rest == Len(source) - startAt
      found == FindPostion(Part(source, startAt, rest), match2)
      endAt == IF found > 0 THEN found - Len(match2) ELSE found
  IN IF startAt > 0
       THEN Part(source, startAt, IF endAt > 0 THEN endAt ELSE rest)
     ELSE IF match1 = <<>> /\ endAt > 0 THEN Part(source, 0, endAt)
     ELSE <<>>

\* target is not empty: the loop would not advance.
replaceAll(buff, target, to) ==
  LET From[index \in 0 .. Len(buff)] ==
        LET rest == Part(buff, index, Len(buff) - index)
            position == FindPostion(rest, target)
        IN IF position > 0
             THEN Part(rest, 0, position - Len(target)) \o to \o From[index + position]
             ELSE rest
  IN From[0]

trim(str) ==
  LET text == {i \in DOMAIN str : str[i] \notin SpaceChars}
  IN IF text = {} THEN <<>>
     ELSE SubSeq(str, CHOOSE i \in text : \A j \in text : i <= j,
                      CHOOSE i \in text : \A j \in text : j <= i)

toLower(str) == [i \in DOMAIN str |-> LowerOf[str[i]]]

itStartsWith(source, dest) ==
  /\ source # <<>> /\ dest # <<>>
  /\ Len(dest) <= Len(source)
  /\ Part(source, 0, Len(dest)) = dest

\* isCompare with lengths: a text equals no text when one of them is empty.
isCompare(source, dest) ==
  /\ source # <<>> /\ dest # <<>>
  /\ Len(source) = Len(dest)
  /\ \A i \in DOMAIN dest : source[i] = dest[i]

\* strstr and strcasestr.
isExist(text, content) ==
  \E p \in 0 .. Len(content) - Len(text) : Part(content, p, Len(text)) = text
isExistCase(text, content) == isExist(toLower(text), toLower(content))

-----------------------------------------------------------------------------
(***************************************************************************)
(* What a user of these operations relies on.                              *)
(***************************************************************************)

Occurs(s, p, match) == p + Len(match) <= Len(s) /\ Part(s, p, Len(match)) = match

\* FindPostion finds the first occurrence and every occurrence, also one that
\* begins inside a failed attempt, and agrees with the searches of isExist.
FindsFirst(s, match) ==
  LET at == {p \in 0 .. Len(s) : Occurs(s, p, match)}
      e == FindPostion(s, match)
  IN /\ e > 0 <=> at # {}
     /\ e > 0 => e - Len(match) \in at /\ \A p \in at : e - Len(match) <= p
     /\ e > 0 <=> isExist(match, s)
     /\ FindPostion(toLower(s), toLower(match)) > 0 <=> isExistCase(match, s)

\* replaceAll replaces the matches a scan from the left meets, and no other.
ReplacesEvery(s, match, to) ==
  LET Scan[i \in 0 .. Len(s)] ==
        IF i = Len(s) THEN <<>>
        ELSE IF Occurs(s, i, match) THEN to \o Scan[i + Len(match)]
        ELSE <<s[i + 1]>> \o Scan[i + 1]
  IN replaceAll(s, match, to) = Scan[0]

\* Split and join: what stands between two marks is found again, when it is not
\* empty; prefix, equality and trimming agree with each other on the pieces.
SplitsBetween(s, match1, match2) ==
  LET e == FindPostion(s, match1)
      piece == SplitString(s, match1, match2)
      behind == Part(s, e, Len(s) - e)
  IN e > 0 => /\ \/ piece = behind
                 \/ itStartsWith(behind, piece \o match2) /\ FindPostion(piece, match2) = 0
              /\ isCompare(behind, piece) <=> piece = behind /\ piece # <<>>
              /\ ReplaceText(s, match1, <<>>) = Part(s, 0, e - Len(match1)) \o behind
              /\ trim(trim(piece)) = trim(piece)
              /\ trim(piece) = <<>> \/ isExist(trim(piece), piece)
=============================================================================
