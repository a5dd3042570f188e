------------------------------ MODULE CString -------------------------------
(***************************************************************************)
(* clsCString: a growing character buffer with a length and a reserve. The *)
(* memory behind Buffer is modelled byte by byte, the size of the block    *)
(* malloc returned included, because length, reserve and block are kept    *)
(* in step by hand in every method.                                        *)
(***************************************************************************)
EXTENDS Integers, Sequences

CONSTANTS
  Strings,         \* CString objects
  Texts,           \* what an application appends: non-empty sequences of characters
  Chars,           \* the characters in them
  Nul,             \* the byte '\0'
  Junk,            \* a byte nobody has written
  MaxSize          \* bound: no block is larger

ASSUME StringAssumption ==
  /\ MaxSize \in Nat \ {0}
  /\ Nul # Junk /\ Nul \notin Chars /\ Junk \notin Chars
  /\ \A t \in Texts : t \in Seq(Chars) /\ Len(t) > 0

VARIABLES
  mem,      \* mem[s][i]: byte i of the block Buffer points to
  alloc,    \* size of the block, 0: Buffer is NULL
  reserve,  \* m_ReserveSize
  len,      \* m_Lengh
  odd,      \* the strings in one of the six uses named below, and what was made of them
  wild      \* the strings a call of which has left its block

svars == <<mem, alloc, reserve, len, odd, wild>>

Bytes == 0 .. MaxSize
Blank == [i \in Bytes |-> Junk]

\* What the first bytes of a block spell.
Prefix(m, n) == [i \in 1 .. n |-> m[i - 1]]

\* memset and memcpy; bytes outside the block are not there to be written.
Fill(m, at, n, c) == [i \in Bytes |-> IF i >= at /\ i < at + n THEN c ELSE m[i]]
Write(m, at, t) ==
  [i \in Bytes |-> IF i >= at /\ i < at + Len(t) THEN t[i - at + 1] ELSE m[i]]
\* realloc: the bytes behind the old block are new.
Realloc(m, old) == [i \in Bytes |-> IF i < old THEN m[i] ELSE Junk]

-----------------------------------------------------------------------------
(***************************************************************************)
(* AddReserveSize. A string without text gets a new block of exactly the   *)
(* size asked for, whatever m_ReserveSize already counts.                  *)
(***************************************************************************)
GrownMem_Malloc(s, n) == Fill(Blank, len[s], n + 1, Nul)
GrownAlloc_NoMark(s, n) == IF len[s] > 0 THEN reserve[s] + n ELSE n
GrownMem(s, n) ==
  IF len[s] > 0 THEN Fill(Realloc(mem[s], alloc[s]), len[s], n + 1, Nul)
                ELSE Fill(Blank, 0, n + 1, Nul)
GrownAlloc(s, n) == IF len[s] > 0 THEN reserve[s] + n + 1 ELSE n + 1
GrowFits(s) == len[s] > 0 => len[s] <= reserve[s]

\* append(data, n): the guard compares with the reserve, not with the block.
Grows(s, n) == len[s] + n >= reserve[s]
Fits(s, n) == len[s] + n <= MaxSize /\ (Grows(s, n) => reserve[s] + n < MaxSize)

(***************************************************************************)
(* The six uses after which length, reserve and block need not agree, or   *)
(* which rely on an end mark nobody need have set: growing, or giving a    *)
(* block to, a string that is Bare; reserving a block or copying bytes up  *)
(* to the end of the reserve or past the text; growing, assigning or       *)
(* indexing a string that Borrows; looking for the end of a text that is   *)
(* not Marked; appending a string to itself. Every one of them is allowed. *)
(***************************************************************************)
Bare(s) == len[s] = 0 /\ reserve[s] > 0       \* a reserve and no text
Borrows(s) == len[s] > reserve[s]             \* the block of its caller
Marked(s) == len[s] > 0 /\ reserve[s] = len[s]

\* The object of a call, which is used in one of the six ways or leaves its block.
Leaves(s, oddly, outside) ==
  /\ odd' = IF oddly THEN odd \cup {s} ELSE odd
  /\ wild' = IF outside THEN wild \cup {s} ELSE wild

Append_(s, t, oddly, outside) ==
  LET n == Len(t)
      g == n > 0 /\ Grows(s, n)
      a == IF g THEN GrownAlloc(s, n) ELSE alloc[s]
  IN /\ mem' = [mem EXCEPT ![s] =
                  Write(IF g THEN GrownMem(s, n) ELSE @, len[s], t)]
     /\ alloc' = [alloc EXCEPT ![s] = a]
     /\ reserve' = [reserve EXCEPT ![s] = IF g THEN @ + n ELSE @]
     /\ len' = [len EXCEPT ![s] = @ + n]
     /\ Leaves(s, oddly \/ (g /\ (Bare(s) \/ Borrows(s))),
             outside \/ len[s] + n > a \/ (g /\ ~GrowFits(s)))

\* The first n bytes behind the Buffer of r; realloc has given back those of s itself.
AppendBytes(s, r, n, oddly, outside) ==
  LET freed == s = r /\ n > 0 /\ Grows(s, n)
  IN Append_(s, IF freed THEN [i \in 1 .. n |-> Junk] ELSE Prefix(mem[r], n),
             oddly \/ freed, outside \/ freed)

\* Free() or a constructor, followed by append on the emptied object.
Renew(s, t, oddly) ==
  LET n == Len(t)
  IN /\ n < MaxSize
     /\ mem' = [mem EXCEPT ![s] =
                  IF n = 0 THEN Blank ELSE Write(Fill(Blank, 0, n + 1, Nul), 0, t)]
     /\ alloc' = [alloc EXCEPT ![s] = IF n = 0 THEN 0 ELSE n + 1]
     /\ reserve' = [reserve EXCEPT ![s] = n]
     /\ len' = [len EXCEPT ![s] = n]
     /\ odd' = IF oddly THEN odd \cup {s} ELSE odd \ {s}

StringInit ==
  /\ mem = [s \in Strings |-> Blank]
  /\ alloc = [s \in Strings |-> 0]
  /\ reserve = [s \in Strings |-> 0]
  /\ len = [s \in Strings |-> 0]
  /\ odd = {} /\ wild = {}

\* Where the '\0' is: a text that is not terminated is read past its block.
Ends(s) == {n \in 0 .. alloc[s] - 1 : mem[s][n] = Nul}
IsEnd(s, n) == IF Ends(s) = {} THEN n = alloc[s]
               ELSE n \in Ends(s) /\ \A i \in Ends(s) : n <= i

\* append(const char*), append(data, n), append(number), <<, +=, + of a literal.
AppendText(s, t) == Fits(s, Len(t)) /\ Append_(s, t, FALSE, FALSE)

\* append(const CString&), append(const CString*), += of a string.
AppendString(s, r) ==
  /\ len[r] > 0 /\ Fits(s, len[r])
  /\ AppendBytes(s, r, len[r], r \in odd, len[r] > alloc[r])

\* operator+(const CString&) and (const CString*) append Data() up to its '\0'.
PlusString(s, r) ==
  /\ alloc[r] > 0
  /\ \E n \in Bytes : /\ IsEnd(r, n) /\ Fits(s, n)
                      /\ AppendBytes(s, r, n, r \in odd \/ ~Marked(r), Ends(r) = {})

\* Replace(find, replac) walks to the '\0'.
ReplaceChar(s, find, replac) ==
  /\ len[s] > 0
  /\ \E n \in Bytes : /\ IsEnd(s, n)
                      /\ mem' = [mem EXCEPT ![s] = [i \in Bytes |->
                           IF i < n /\ @[i] = find THEN replac ELSE @[i]]]
  /\ Leaves(s, ~Marked(s), Ends(s) = {})
  /\ UNCHANGED <<alloc, reserve, len>>

\* operator=(const CString&) copies the reserve, and as many bytes as it counts.
Assign(s, r) ==
  /\ s # r
  /\ mem' = [mem EXCEPT ![s] =
       [i \in Bytes |-> IF i < reserve[r] THEN mem[r][i]
                        ELSE IF i = len[r] THEN Nul ELSE Junk]]
  /\ alloc' = [alloc EXCEPT ![s] = reserve[r] + 1]
  /\ reserve' = [reserve EXCEPT ![s] = reserve[r]]
  /\ len' = [len EXCEPT ![s] = len[r]]
  /\ odd' = IF r \in odd \/ Borrows(r) THEN odd \cup {s} ELSE odd \ {s}
  /\ wild' = IF len[r] > reserve[r] \/ reserve[r] > alloc[r] THEN wild \cup {s} ELSE wild

\* operator=(const CString*) and the copy constructor of a fresh object.
AssignPointer(s, r) ==
  /\ s # r /\ Renew(s, Prefix(mem[r], len[r]), r \in odd)
  /\ wild' = IF len[r] > alloc[r] THEN wild \cup {s} ELSE wild

\* operator=(const char*), operator=(int), and the constructors from them.
AssignText(s, t) == Renew(s, t, FALSE) /\ UNCHANGED wild

\* Clear(), and the destructor followed by CString().
Clear(s) == Renew(s, <<>>, FALSE) /\ UNCHANGED wild

AddReserveSize(s, n) ==
  /\ n > 0 /\ reserve[s] + n < MaxSize
  /\ mem' = [mem EXCEPT ![s] = GrownMem(s, n)]
  /\ alloc' = [alloc EXCEPT ![s] = GrownAlloc(s, n)]
  /\ reserve' = [reserve EXCEPT ![s] = @ + n]
  /\ Leaves(s, Bare(s) \/ Borrows(s), ~GrowFits(s))
  /\ UNCHANGED len

\* ReserveBlock(n, true): its test cannot fail for a string within its reserve.
ReserveBlock(s, n) ==
  /\ n > 0 /\ len[s] + n <= MaxSize
  /\ reserve[s] + n >= len[s]
  /\ mem' = [mem EXCEPT ![s] = Fill(@, len[s], n, Nul)]
  /\ len' = [len EXCEPT ![s] = @ + n]
  /\ Leaves(s, len[s] + n >= reserve[s], len[s] + n > alloc[s])
  /\ UNCHANGED <<alloc, reserve>>

\* Reset keeps block and reserve, and the old bytes unless it is asked to clear
\* them; without a block memset must not be asked for more than nothing.
Reset(s, setZeroBuffer) ==
  /\ len' = [len EXCEPT ![s] = 0]
  /\ mem' = IF setZeroBuffer THEN [mem EXCEPT ![s] = Fill(@, 0, reserve[s], Nul)]
                             ELSE mem
  /\ Leaves(s, FALSE, setZeroBuffer /\ reserve[s] > alloc[s])
  /\ UNCHANGED <<alloc, reserve>>

\* Copy(index, source, size): only the index is compared, and with the reserve.
Copy(s, at, t) ==
  /\ at <= reserve[s] /\ at + Len(t) <= MaxSize
  /\ mem' = [mem EXCEPT ![s] = Write(@, at, t)]
  /\ Leaves(s, at + Len(t) > len[s], at + Len(t) > alloc[s])
  /\ UNCHANGED <<alloc, reserve, len>>

\* SetDataWithNewPointer: the caller's block, which ends with the text. Free(),
\* which forgets the reserve, is called for a string with text only.
SetDataWithNewPointer(s, t) ==
  /\ Len(t) <= MaxSize
  /\ mem' = [mem EXCEPT ![s] = Write(Blank, 0, t)]
  /\ alloc' = [alloc EXCEPT ![s] = Len(t)]
  /\ reserve' = IF len[s] > 0 THEN [reserve EXCEPT ![s] = 0] ELSE reserve
  /\ len' = [len EXCEPT ![s] = Len(t)]
  /\ Leaves(s, Bare(s), FALSE)

\* ReadFile appends the file; when less than its length is read the object is
\* cleared, what it held before included.
ReadFile(s, t) ==
  /\ reserve[s] + Len(t) < MaxSize /\ len[s] + Len(t) <= MaxSize
  /\ \/ /\ mem' = [mem EXCEPT ![s] = Write(GrownMem(s, Len(t)), len[s], t)]
        /\ alloc' = [alloc EXCEPT ![s] = GrownAlloc(s, Len(t))]
        /\ reserve' = [reserve EXCEPT ![s] = @ + Len(t)]
        /\ len' = [len EXCEPT ![s] = @ + Len(t)]
        /\ Leaves(s, Bare(s) \/ Borrows(s),
                len[s] + Len(t) > GrownAlloc(s, Len(t)) \/ ~GrowFits(s))
     \/ GrowFits(s) /\ Clear(s)

\* at(p) counts the end mark in and the first character out; SaveFile writes the
\* text. Both only read.
At(s, p) ==
  /\ p > 0 /\ p <= len[s]
  /\ Leaves(s, Borrows(s), p >= alloc[s])
  /\ UNCHANGED <<mem, alloc, reserve, len>>
SaveFile(s) ==
  /\ Leaves(s, FALSE, len[s] > alloc[s])
  /\ UNCHANGED <<mem, alloc, reserve, len>>

\* What the program does after it has left a block nobody knows.
StringNext ==
  /\ wild = {}
  /\ \E s \in Strings :
       \/ \E t \in Texts : \/ AppendText(s, t) \/ AssignText(s, t) \/ ReadFile(s, t)
                           \/ SetDataWithNewPointer(s, t)
                           \/ \E at \in Bytes : Copy(s, at, t)
       \/ \E r \in Strings : \/ AppendString(s, r) \/ PlusString(s, r)
                             \/ Assign(s, r) \/ AssignPointer(s, r)
       \/ \E n \in Bytes : AddReserveSize(s, n) \/ ReserveBlock(s, n) \/ At(s, n)
       \/ \E z \in BOOLEAN : Reset(s, z)
       \/ \E f, c \in Chars : ReplaceChar(s, f, c)
       \/ Clear(s) \/ SaveFile(s)

StringSpec == StringInit /\ [][StringNext]_svars

-----------------------------------------------------------------------------
StringTypeOK ==
  /\ mem \in [Strings -> [Bytes -> Chars \cup {Nul, Junk}]]
  /\ alloc \in [Strings -> 0 .. MaxSize]
  /\ reserve \in [Strings -> 0 .. MaxSize]
  /\ len \in [Strings -> 0 .. MaxSize]
  /\ odd \subseteq Strings /\ wild \subseteq Strings

\* The first call that reads or writes outside the block behind Buffer is a call on a
\* string that has been used in one of the six ways, or was made of one, since it was last
\* cleared or given a text: in any other use the lengths that append, AddReserveSize,
\* operator=, ReadFile, Reset and ReserveBlock compare (m_Lengh, m_ReserveSize) bound the
\* size that was allocated, however the calls are mixed.
StringFits == wild \subseteq odd

\* The text of the object is the text its calls ask for: no growth, assignment or
\* reservation loses, reorders or invents a character, except in a string that has been
\* used in one of the six ways or was made of one, and in it until it is given a new text.
NoText == [i \in {0} |-> Junk]
text == [s \in Strings |-> IF s \in odd THEN NoText ELSE Prefix(mem[s], len[s])]
Value == INSTANCE TextValue WITH None <- Nul, Blocks <- Bytes
StringValue == Value!Spec
=============================================================================
