----------------------------- MODULE TextValue ------------------------------
(***************************************************************************)
(* What clsCString promises: objects that hold a text. Blocks, lengths and *)
(* reserves are not part of it, reserving memory is not seen.              *)
(***************************************************************************)
EXTENDS Integers, Sequences

CONSTANTS Strings, Texts, Chars,
  Blocks,   \* sizes of blocks an application reserves inside the text
  None,     \* the character they are filled with
  NoText    \* nothing is promised of the text
VARIABLE text

Become(s, t) == text' = [text EXCEPT ![s] = t]

Init == text = [s \in Strings |-> <<>>]

AppendLiteral(s, t) == Become(s, text[s] \o t)
AppendOther(s, r) == Become(s, text[s] \o text[r])
\* As a C string a text ends where a reserved block begins.
Visible(t) == LET n == {i \in 1 .. Len(t) : \A j \in 1 .. i : t[j] # None}
              IN [i \in n |-> t[i]]
AppendVisible(s, r) == Become(s, text[s] \o Visible(text[r]))
AssignLiteral(s, t) == Become(s, t)
AssignOther(s, r) == Become(s, text[r])
Clear(s) == Become(s, <<>>)
\* Room for n bytes at the end, which the caller fills in.
Extend(s, n) == Become(s, text[s] \o [i \in 1 .. n |-> None])
ReplaceChar(s, find, c) ==
  Become(s, [i \in 1 .. Len(text[s]) |->
    IF text[s][i] = find /\ i \in DOMAIN Visible(text[s]) THEN c ELSE text[s][i]])
Overwrite(s, at, t) ==
  /\ at + Len(t) <= Len(text[s])
  /\ Become(s, [i \in 1 .. Len(text[s]) |->
                  IF i > at /\ i <= at + Len(t) THEN t[i - at] ELSE text[s][i]])

\* The object is used in a way of which nothing is promised; a new text makes it good.
Lose(s) == Become(s, NoText)
Known(s) == text[s] # NoText

Next ==
  \E s \in Strings :
    \/ \E t \in Texts : AssignLiteral(s, t)
    \/ \E r \in Strings : Known(r) /\ AssignOther(s, r)
    \/ Clear(s) \/ Lose(s)
    \/ /\ Known(s)
       /\ \/ \E t \in Texts : \/ AppendLiteral(s, t)
                              \/ \E at \in 0 .. Len(text[s]) : Overwrite(s, at, t)
          \/ \E r \in Strings : Known(r) /\ (AppendOther(s, r) \/ AppendVisible(s, r))
          \/ \E n \in Blocks : Extend(s, n)
          \/ \E f, c \in Chars : ReplaceChar(s, f, c)

Spec == Init /\ [][Next]_text
=============================================================================
