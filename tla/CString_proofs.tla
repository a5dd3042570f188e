---------------------------- MODULE CString_proofs ----------------------------
(***************************************************************************)
(* Theorems about CString, for every set of objects, texts and characters  *)
(* and every bound of the blocks: only a string that was used in one of    *)
(* the six ways of CString is led out of its block, and of every other the *)
(* application sees the text that TextValue describes.                     *)
(***************************************************************************)
EXTENDS CString, TLAPS

-----------------------------------------------------------------------------
(***************************************************************************)
(* The inductive invariant.                                                *)
(***************************************************************************)
ByteValues == Chars \cup {Nul, Junk}

\* A string without a block; one whose block holds the reserve and an end mark; one
\* that took its caller's block, which ends with the text.
Empty(s) == alloc[s] = 0 /\ reserve[s] = 0 /\ len[s] = 0
Reserved(s) == len[s] <= reserve[s] /\ reserve[s] < alloc[s]
Taken(s) == reserve[s] = 0 /\ len[s] > 0 /\ alloc[s] = len[s]

\* A text that fills its reserve is terminated: ReplaceChar and PlusString rely on it.
EndMarked(s) == len[s] > 0 /\ reserve[s] = len[s] => mem[s][len[s]] = Nul

Sound(s) == (Empty(s) \/ Reserved(s) \/ Taken(s)) /\ EndMarked(s)

StringInv ==
  /\ StringTypeOK
  /\ \A s \in Strings : reserve[s] < MaxSize
  /\ wild \subseteq odd
  /\ \A s \in Strings \ odd : Sound(s)

-----------------------------------------------------------------------------
(***************************************************************************)
(* Sequences cut out of a block.                                           *)
(***************************************************************************)
\* A prefix of a block is a sequence of that length over the bytes in it.
LEMMA PrefixSeq ==
  ASSUME NEW S, NEW n \in Bytes, NEW b \in [Bytes -> S]
  PROVE  /\ Prefix(b, n) \in Seq(S) /\ Len(Prefix(b, n)) = n
         /\ DOMAIN Prefix(b, n) = 1 .. n
         /\ \A i \in 1 .. n : Prefix(b, n)[i] = b[i - 1]
  <1>1. n \in Nat /\ \A i \in 1 .. n : i - 1 \in Bytes
    BY StringAssumption DEF Bytes
  <1>2. Prefix(b, n) \in [1 .. n -> S]
    BY <1>1 DEF Prefix
  <1> QED
    BY <1>1, <1>2 DEF Prefix

\* What memset leaves in a block are bytes,
LEMMA FillType ==
  ASSUME NEW c \in [Bytes -> ByteValues], NEW at \in Int, NEW n \in Int
  PROVE  Fill(c, at, n, Nul) \in [Bytes -> ByteValues]
  BY DEF Fill, ByteValues

\* and what memcpy leaves,
LEMMA WriteType ==
  ASSUME NEW c \in [Bytes -> ByteValues], NEW at \in Int, NEW t \in Seq(ByteValues)
  PROVE  Write(c, at, t) \in [Bytes -> ByteValues]
  <1>1. \A i \in Bytes : i >= at /\ i < at + Len(t) => t[i - at + 1] \in ByteValues
    BY DEF Bytes
  <1> QED
    BY <1>1 DEF Write

\* and what a block that has grown holds.
LEMMA GrownType ==
  ASSUME StringTypeOK, NEW s \in Strings, NEW n \in Nat
  PROVE  GrownMem(s, n) \in [Bytes -> ByteValues]
  <1>1. Blank \in [Bytes -> ByteValues]
    BY DEF Blank, ByteValues
  <1>2. Realloc(mem[s], alloc[s]) \in [Bytes -> ByteValues] /\ len[s] \in Int
    BY DEF StringTypeOK, Realloc, ByteValues
  <1>3. n + 1 \in Int /\ 0 \in Int
    OBVIOUS
  <1> QED
    BY <1>1, <1>2, <1>3, FillType DEF GrownMem

-----------------------------------------------------------------------------
(***************************************************************************)
(* The steps stay inside the blocks.                                       *)
(***************************************************************************)
\* The types of one object, with the numbers they are about,
LEMMA Types ==
  ASSUME StringInv, NEW s \in Strings
  PROVE  /\ mem[s] \in [Bytes -> ByteValues]
         /\ alloc[s] \in 0 .. MaxSize /\ reserve[s] \in 0 .. MaxSize /\ len[s] \in 0 .. MaxSize
         /\ reserve[s] < MaxSize
         /\ alloc[s] \in Nat /\ reserve[s] \in Nat /\ len[s] \in Nat
         /\ 0 \in Bytes /\ MaxSize \in Nat /\ MaxSize > 0
  BY StringAssumption DEF StringInv, StringTypeOK, ByteValues, Bytes

\* and what the invariant says of one that was used in none of the six ways.
LEMMA Sizes ==
  ASSUME StringInv, NEW s \in Strings, s \notin odd
  PROVE  /\ Sound(s)
         /\ len[s] <= alloc[s] /\ reserve[s] <= alloc[s]
         /\ ~Borrows(s) => Empty(s) \/ Reserved(s)
         /\ ~Borrows(s) => len[s] <= reserve[s]
         /\ ~Bare(s) => (len[s] = 0 => reserve[s] = 0)
  <1>1. Sound(s)
    BY DEF StringInv
  <1> QED
    BY <1>1, Types DEF Sound, Empty, Reserved, Taken, Borrows, Bare

\* The record of the uses and of the accesses changes for one object only.
Records(s) == wild' \subseteq {s} /\ odd' \in {odd \cup {s}, odd, odd \ {s}}

\* A step that touches one object keeps the invariant when it keeps it of that object, and
\* when only an object used in one of the six ways leaves its block.
LEMMA OneObject ==
  ASSUME StringInv, wild = {}, NEW s \in Strings,
         NEW b \in [Bytes -> ByteValues], NEW a \in 0 .. MaxSize, NEW r \in 0 .. MaxSize,
         NEW n \in 0 .. MaxSize, r < MaxSize,
         mem' = [mem EXCEPT ![s] = b], alloc' = [alloc EXCEPT ![s] = a],
         reserve' = [reserve EXCEPT ![s] = r], len' = [len EXCEPT ![s] = n],
         Records(s),
         s \notin odd' =>
           /\ wild' = {}
           /\ \/ a = 0 /\ r = 0 /\ n = 0
              \/ n <= r /\ r < a
              \/ r = 0 /\ n > 0 /\ a = n
           /\ n > 0 /\ r = n => b[n] = Nul
  PROVE  StringInv'
  <1>1. StringTypeOK' /\ \A q \in Strings : reserve'[q] < MaxSize
    <2>1. odd' \subseteq Strings /\ wild' \subseteq Strings
      BY DEF Records, StringInv, StringTypeOK
    <2>2. \A q \in Strings : reserve'[q] < MaxSize
      BY DEF StringInv, StringTypeOK
    <2> QED
      BY <2>1, <2>2 DEF StringInv, StringTypeOK, ByteValues
  <1>2. wild' \subseteq odd'
    BY DEF Records
  <1>5. \A q \in Strings : q # s /\ q \notin odd' => q \notin odd
    BY DEF Records
  <1>3. ASSUME NEW q \in Strings, q \notin odd', q # s
        PROVE  Sound(q)'
    <2>1. Sound(q)
      BY <1>3, <1>5 DEF StringInv
    <2>2. mem'[q] = mem[q] /\ alloc'[q] = alloc[q] /\ reserve'[q] = reserve[q] /\ len'[q] = len[q]
      BY <1>3 DEF StringInv, StringTypeOK
    <2> QED
      BY <2>1, <2>2 DEF Sound, Empty, Reserved, Taken, EndMarked
  <1>4. ASSUME s \notin odd' PROVE Sound(s)'
    <2>1. mem'[s] = b /\ alloc'[s] = a /\ reserve'[s] = r /\ len'[s] = n
      BY DEF StringInv, StringTypeOK
    <2> QED
      BY <1>4, <2>1 DEF Sound, Empty, Reserved, Taken, EndMarked
  <1> QED
    BY <1>1, <1>2, <1>3, <1>4 DEF StringInv

\* What the record of the uses and of the accesses becomes.
LEMMA Recorded ==
  ASSUME wild = {}, NEW s, NEW oddly \in BOOLEAN, NEW outside \in BOOLEAN,
         Leaves(s, oddly, outside), outside => oddly \/ s \in odd
  PROVE  /\ Records(s)
         /\ s \notin odd' => wild' = {} /\ ~oddly /\ ~outside /\ s \notin odd
  BY DEF Leaves, Records

\* Growing a string whose text is within its reserve, and whose reserve is empty when its
\* text is: the new block holds the old reserve, the new bytes and an end mark.
LEMMA GrowStep ==
  ASSUME StringInv, NEW s \in Strings, s \notin odd, ~Bare(s), ~Borrows(s),
         NEW n \in Nat, reserve[s] + n < MaxSize
  PROVE  /\ GrownMem(s, n) \in [Bytes -> ByteValues]
         /\ GrownAlloc(s, n) = reserve[s] + n + 1
         /\ GrowFits(s)
         /\ \A i \in len[s] .. len[s] + n : GrownMem(s, n)[i] = Nul
         /\ \A i \in 0 .. len[s] - 1 : GrownMem(s, n)[i] = mem[s][i]
  <1>1. /\ mem[s] \in [Bytes -> ByteValues]
        /\ alloc[s] \in Nat /\ reserve[s] \in Nat /\ len[s] \in Nat
        /\ len[s] <= alloc[s] /\ MaxSize \in Nat /\ StringTypeOK
        /\ len[s] <= reserve[s] /\ (len[s] = 0 => reserve[s] = 0)
    BY Types, Sizes DEF StringInv
  <1>2. GrownMem(s, n) \in [Bytes -> ByteValues]
    BY <1>1, GrownType
  <1>3. GrownAlloc(s, n) = reserve[s] + n + 1 /\ GrowFits(s)
    BY <1>1 DEF GrownAlloc, GrowFits
  <1>6. \A i \in 0 .. len[s] + n : i \in Bytes
    BY <1>1 DEF Bytes
  <1>4. ASSUME NEW i \in len[s] .. len[s] + n PROVE GrownMem(s, n)[i] = Nul
    <2>1. i \in 0 .. len[s] + n /\ i \in Nat /\ i >= len[s] /\ i < len[s] + (n + 1)
      BY <1>1
    <2>2. i \in Bytes
      BY <1>6, <2>1
    <2>3. CASE len[s] > 0
      BY <2>1, <2>2, <2>3 DEF GrownMem, Fill
    <2>4. CASE ~(len[s] > 0)
      <3>1. len[s] = 0
        BY <1>1, <2>4
      <3> QED
        BY <1>1, <2>1, <2>2, <3>1 DEF GrownMem, Fill
    <2> QED
      BY <2>3, <2>4
  <1>5. ASSUME NEW i \in 0 .. len[s] - 1 PROVE GrownMem(s, n)[i] = mem[s][i]
    <2>1. i \in 0 .. len[s] + n /\ i \in Nat /\ ~(i >= len[s]) /\ i < alloc[s] /\ len[s] > 0
      BY <1>1
    <2>2. i \in Bytes
      BY <1>6, <2>1
    <2> QED
      BY <2>1, <2>2 DEF GrownMem, Fill, Realloc
  <1> QED
    BY <1>2, <1>3, <1>4, <1>5

\* A block that has grown is a block, whatever the string was used for.
LEMMA GrownSize ==
  ASSUME StringInv, NEW s \in Strings, NEW n \in Nat, reserve[s] + n < MaxSize
  PROVE  /\ GrownAlloc(s, n) \in 0 .. MaxSize /\ reserve[s] + n \in 0 .. MaxSize
         /\ GrowFits(s) \in BOOLEAN
  BY Types DEF GrownAlloc, GrowFits

\* What is behind a text that was written.
LEMMA BehindText ==
  ASSUME NEW c, NEW at \in Nat, NEW t \in Seq(ByteValues), at + Len(t) \in Bytes
  PROVE  Write(c, at, t)[at + Len(t)] = c[at + Len(t)]
  <1>1. \A i \in Bytes : ~(i < at + Len(t)) => Write(c, at, t)[i] = c[i]
    BY DEF Write
  <1>2. PICK i \in Bytes : i = at + Len(t)
    OBVIOUS
  <1> QED
    BY <1>1, <1>2

\* append keeps the invariant: a block that is not grown has room for the new text.
LEMMA AppendStep ==
  ASSUME StringInv, wild = {}, NEW s \in Strings, NEW t \in Seq(ByteValues), Fits(s, Len(t)),
         NEW oddly \in BOOLEAN, NEW outside \in BOOLEAN, outside => oddly \/ s \in odd,
         Append_(s, t, oddly, outside)
  PROVE  StringInv'
  <1> DEFINE n == Len(t)
             g == n > 0 /\ Grows(s, n)
             b == IF g THEN GrownMem(s, n) ELSE mem[s]
             a == IF g THEN GrownAlloc(s, n) ELSE alloc[s]
             r == IF g THEN reserve[s] + n ELSE reserve[s]
             o == oddly \/ (g /\ (Bare(s) \/ Borrows(s)))
             w == outside \/ len[s] + n > a \/ (g /\ ~GrowFits(s))
  <1>1. n \in Nat /\ len[s] + n <= MaxSize /\ (g => reserve[s] + n < MaxSize)
    BY DEF Fits
  <1>2. /\ mem[s] \in [Bytes -> ByteValues] /\ alloc[s] \in 0 .. MaxSize
        /\ reserve[s] \in 0 .. MaxSize /\ len[s] \in 0 .. MaxSize /\ reserve[s] < MaxSize
        /\ MaxSize \in Nat /\ StringTypeOK /\ alloc[s] \in Nat /\ reserve[s] \in Nat
        /\ len[s] \in Nat
    BY Types DEF StringInv
  <1>3. /\ mem' = [mem EXCEPT ![s] = Write(b, len[s], t)]
        /\ alloc' = [alloc EXCEPT ![s] = a]
        /\ reserve' = [reserve EXCEPT ![s] = r]
        /\ len' = [len EXCEPT ![s] = len[s] + n]
        /\ Leaves(s, o, w)
    BY <1>2 DEF Append_, StringTypeOK
  <1>4. Write(b, len[s], t) \in [Bytes -> ByteValues]
    <2>1. b \in [Bytes -> ByteValues] /\ len[s] \in Int
      BY <1>1, <1>2, GrownType
    <2> HIDE DEF b
    <2> QED
      BY <2>1, WriteType
  <1>5. a \in 0 .. MaxSize /\ r \in 0 .. MaxSize /\ r < MaxSize /\ len[s] + n \in 0 .. MaxSize
    <2>1. g => GrownAlloc(s, n) \in 0 .. MaxSize /\ reserve[s] + n \in 0 .. MaxSize
      BY <1>1, GrownSize
    <2>2. len[s] + n \in 0 .. MaxSize
      BY <1>1, <1>2
    <2> HIDE DEF g, n
    <2> QED
      BY <1>1, <1>2, <2>1, <2>2
  <1>10. Write(b, len[s], t)[len[s] + n] = b[len[s] + n] /\ len[s] + n \in Bytes
    <2>1. len[s] + n \in Bytes
      BY <1>5 DEF Bytes
    <2> HIDE DEF b
    <2> QED
      BY <1>2, <2>1, BehindText
  <1>11. \A l, k, v \in Nat : l <= v =>
           /\ l + k <= v + k /\ v + k < v + k + 1 /\ ~(l + k > v + k + 1) /\ l + k \in l .. l + k
           /\ (~(k > 0) => k = 0)
    OBVIOUS
  <1>6. ASSUME s \notin odd, ~o
        PROVE  /\ ~(len[s] + n > a) /\ (g => GrowFits(s))
               /\ \/ a = 0 /\ r = 0 /\ len[s] + n = 0
                  \/ len[s] + n <= r /\ r < a
                  \/ r = 0 /\ len[s] + n > 0 /\ a = len[s] + n
               /\ len[s] + n > 0 /\ r = len[s] + n => Write(b, len[s], t)[len[s] + n] = Nul
    <2>0. /\ Sound(s) /\ len[s] <= alloc[s]
          /\ ~Borrows(s) => len[s] <= reserve[s] /\ (Empty(s) \/ Reserved(s))
      BY <1>6, Sizes
    <2>1. CASE g
      <3>1. ~Bare(s) /\ ~Borrows(s)
        BY <1>6, <2>1
      <3>2. /\ a = reserve[s] + n + 1 /\ GrowFits(s) /\ r = reserve[s] + n
            /\ b = GrownMem(s, n)
            /\ \A i \in len[s] .. len[s] + n : GrownMem(s, n)[i] = Nul
        BY <1>1, <1>6, <2>1, <3>1, GrowStep
      <3> HIDE DEF a, b, n, g, r, o, w
      <3>3. /\ len[s] + n <= r /\ r < a /\ ~(len[s] + n > a)
            /\ len[s] + n \in len[s] .. len[s] + n
        BY <1>1, <1>2, <1>11, <2>0, <3>1, <3>2
      <3>4. b[len[s] + n] = Nul
        BY <3>2, <3>3
      <3>5. Write(b, len[s], t)[len[s] + n] = Nul
        BY <1>10, <3>4
      <3> QED
        BY <3>2, <3>3, <3>5
    <2>2. CASE ~g
      <3>0. a = alloc[s] /\ r = reserve[s] /\ b = mem[s]
        BY <2>2
      <3>1. CASE n = 0
        <4> HIDE DEF a, b, n, g, r, o, w
        <4>1. len[s] + n = len[s]
          BY <1>2, <3>1
        <4>2. /\ len[s] > 0 /\ reserve[s] = len[s] => mem[s][len[s]] = Nul
              /\ Empty(s) \/ Reserved(s) \/ Taken(s)
          BY <2>0 DEF Sound, EndMarked
        <4>3. r = len[s] + n => b[len[s] + n] = mem[s][len[s]]
          BY <3>0, <4>1
        <4>4. len[s] + n > 0 /\ r = len[s] + n => Write(b, len[s], t)[len[s] + n] = Nul
          BY <1>10, <3>0, <4>1, <4>2, <4>3
        <4>5. ~(len[s] + n > a)
          BY <1>2, <2>0, <3>0, <4>1
        <4>6. \/ a = 0 /\ r = 0 /\ len[s] + n = 0
              \/ len[s] + n <= r /\ r < a
              \/ r = 0 /\ len[s] + n > 0 /\ a = len[s] + n
          BY <3>0, <4>1, <4>2 DEF Empty, Reserved, Taken
        <4> QED
          BY <2>2, <4>4, <4>5, <4>6
      <3>2. CASE n > 0
        <4>1. ~(len[s] + n >= reserve[s])
          BY <2>2, <3>2 DEF Grows
        <4> HIDE DEF a, b, n, g, r, o, w
        <4>2. len[s] + n < reserve[s]
          BY <1>1, <1>2, <4>1
        <4>3. reserve[s] < alloc[s]
          BY <1>1, <1>2, <2>0, <4>2 DEF Sound, Empty, Reserved, Taken
        <4>4. \A l, v, z \in Nat : l < v /\ v < z => ~(l > z) /\ l <= v /\ v # l
          OBVIOUS
        <4>5. len[s] + n \in Nat
          BY <1>1, <1>2
        <4> QED
          BY <1>2, <2>2, <3>0, <4>2, <4>3, <4>4, <4>5
      <3>3. ~(n > 0) => n = 0
        <4> HIDE DEF n
        <4> QED
          BY <1>1
      <3> QED
        BY <3>1, <3>2, <3>3
    <2> QED
      BY <2>1, <2>2
  <1>7. o \in BOOLEAN /\ w \in BOOLEAN
    <2>1. g \in BOOLEAN /\ Bare(s) \in BOOLEAN /\ Borrows(s) \in BOOLEAN
          /\ (len[s] + n > a) \in BOOLEAN /\ GrowFits(s) \in BOOLEAN
      BY DEF Bare, Borrows, GrowFits
    <2> HIDE DEF g, n, a
    <2> QED
      BY <2>1
  <1>8. w => o \/ s \in odd
    <2> SUFFICES ASSUME s \notin odd, ~o PROVE ~w
      OBVIOUS
    <2>1. ~oddly
      OBVIOUS
    <2>2. ~outside
      BY <2>1
    <2>3. ~(len[s] + n > a) /\ (g => GrowFits(s))
      BY <1>6
    <2> HIDE DEF a, n, g
    <2> QED
      BY <2>2, <2>3, Zenon
  <1>9. Records(s) /\ (s \notin odd' => wild' = {} /\ ~o /\ s \notin odd)
    <2>1. Leaves(s, o, w)
      BY <1>3
    <2> HIDE DEF o, w
    <2> QED
      BY <1>7, <1>8, <2>1, Recorded
  <1> HIDE DEF a, b, n, g, r, o, w
  <1> QED
    BY <1>3, <1>4, <1>5, <1>6, <1>9, OneObject

\* The bytes of a block: no more than it has, and of the values that bytes have.
LEMMA BytesTaken ==
  ASSUME StringInv, wild = {}, NEW s \in Strings, NEW r \in Strings, NEW n \in Bytes, Fits(s, n),
         NEW oddly \in BOOLEAN, NEW outside \in BOOLEAN, outside => oddly,
         AppendBytes(s, r, n, oddly, outside)
  PROVE  /\ StringInv'
         /\ s \notin odd' => /\ s \notin odd /\ ~oddly
                             /\ Append_(s, Prefix(mem[r], n), oddly, outside)
  <1> DEFINE freed == s = r /\ n > 0 /\ Grows(s, n)
             u == IF freed THEN [i \in 1 .. n |-> Junk] ELSE Prefix(mem[r], n)
             o == oddly \/ freed
             w == outside \/ freed
  <1>1. Append_(s, u, o, w)
    BY DEF AppendBytes
  <1>2. u \in Seq(ByteValues) /\ Len(u) = n
    <2>1. n \in Nat
      BY StringAssumption DEF Bytes
    <2>2. [i \in 1 .. n |-> Junk] \in [1 .. n -> ByteValues]
      BY DEF ByteValues
    <2>3. [i \in 1 .. n |-> Junk] \in Seq(ByteValues) /\ Len([i \in 1 .. n |-> Junk]) = n
      BY <2>1, <2>2
    <2>4. Prefix(mem[r], n) \in Seq(ByteValues) /\ Len(Prefix(mem[r], n)) = n
      BY PrefixSeq, Types
    <2> QED
      BY <2>3, <2>4
  <1>3. o \in BOOLEAN /\ w \in BOOLEAN /\ (w => o \/ s \in odd)
    OBVIOUS
  <1>4. s \notin odd' => s \notin odd /\ ~o
    <2> HIDE DEF u, o, w
    <2> QED
      BY <1>1 DEF Append_, Leaves
  <1>5. StringInv'
    <2> HIDE DEF u, o, w
    <2> QED
      BY <1>1, <1>2, <1>3, AppendStep
  <1> QED
    BY <1>1, <1>4, <1>5

\* A string that is built anew has a block for its text and an end mark.
LEMMA RenewStep ==
  ASSUME StringInv, wild = {}, NEW s \in Strings, NEW t \in Seq(ByteValues),
         NEW oddly \in BOOLEAN, Renew(s, t, oddly), wild' \subseteq {s}, wild' # {} => oddly
  PROVE  StringInv'
  <1> DEFINE n == Len(t)
             b == IF n = 0 THEN Blank ELSE Write(Fill(Blank, 0, n + 1, Nul), 0, t)
             a == IF n = 0 THEN 0 ELSE n + 1
  <1>1. n \in Nat /\ n < MaxSize /\ MaxSize \in Nat
    BY StringAssumption DEF Renew
  <1>2. Blank \in [Bytes -> ByteValues]
    BY DEF Blank, ByteValues
  <1>3. b \in [Bytes -> ByteValues]
    <2>1. Fill(Blank, 0, n + 1, Nul) \in [Bytes -> ByteValues]
      BY <1>1, <1>2, FillType, n + 1 \in Int
    <2> QED
      BY <1>2, <2>1, WriteType
  <1>4. n > 0 => b[n] = Nul
    <2>1. ASSUME n > 0 PROVE b[n] = Fill(Blank, 0, n + 1, Nul)[n]
      BY <1>1, <2>1 DEF Write, Bytes
    <2>2. Fill(Blank, 0, n + 1, Nul)[n] = Nul
      BY <1>1 DEF Fill, Bytes
    <2> QED
      BY <2>1, <2>2
  <1>5. /\ a \in 0 .. MaxSize /\ n \in 0 .. MaxSize
        /\ (a = 0 /\ n = 0 /\ n = 0) \/ (n <= n /\ n < a) \/ (n = 0 /\ n > 0 /\ a = n)
    BY <1>1
  <1>6. /\ mem' = [mem EXCEPT ![s] = b] /\ alloc' = [alloc EXCEPT ![s] = a]
        /\ reserve' = [reserve EXCEPT ![s] = n] /\ len' = [len EXCEPT ![s] = n]
    BY DEF Renew
  <1>7. Records(s) /\ (s \notin odd' => wild' = {})
    BY DEF Renew, Records
  <1> HIDE DEF a, b, n
  <1> QED
    BY <1>1, <1>3, <1>4, <1>5, <1>6, <1>7, OneObject

\* The texts of the objects, and those an application gives, are sequences of bytes.
LEMMA TextTypes ==
  ASSUME StringInv
  PROVE  /\ \A t \in Texts : t \in Seq(ByteValues) /\ Len(t) \in Nat \ {0}
         /\ \A s \in Strings, n \in Bytes :
              Prefix(mem[s], n) \in Seq(ByteValues) /\ Len(Prefix(mem[s], n)) = n
         /\ \A s \in Strings : len[s] \in Bytes /\ alloc[s] \in Bytes
         /\ << >> \in Seq(ByteValues)
  <1>1. ASSUME NEW t \in Texts
        PROVE  t \in Seq(ByteValues) /\ Len(t) \in Nat \ {0}
    BY StringAssumption DEF ByteValues
  <1>2. ASSUME NEW s \in Strings, NEW n \in Bytes
        PROVE  Prefix(mem[s], n) \in Seq(ByteValues) /\ Len(Prefix(mem[s], n)) = n
    BY PrefixSeq, Types
  <1>3. ASSUME NEW s \in Strings PROVE len[s] \in Bytes /\ alloc[s] \in Bytes
    BY Types DEF Bytes
  <1> QED
    BY <1>1, <1>2, <1>3

\* Where a text that fills its reserve ends: in its block, at its length or before.
LEMMA EndOfText ==
  ASSUME StringInv, NEW s \in Strings, s \notin odd, Marked(s)
  PROVE  /\ Reserved(s) /\ len[s] \in Ends(s) /\ Ends(s) # {}
         /\ \A n \in Bytes : IsEnd(s, n) => n <= len[s]
  <1>1. len[s] > 0 /\ reserve[s] = len[s] /\ EndMarked(s) /\ Sound(s)
    BY Sizes DEF Marked, Sound
  <1>2. Reserved(s)
    BY <1>1, Types DEF Sound, Empty, Taken
  <1>3. len[s] \in Ends(s)
    BY <1>1, <1>2, Types DEF Ends, EndMarked, Reserved
  <1> QED
    BY <1>2, <1>3 DEF IsEnd

\* Writing bytes into the block of a string keeps the invariant.
LEMMA WriteInside ==
  ASSUME StringInv, wild = {}, NEW s \in Strings, NEW b \in [Bytes -> ByteValues],
         mem' = [mem EXCEPT ![s] = b], UNCHANGED <<alloc, reserve, len>>, Records(s),
         s \notin odd' => /\ s \notin odd /\ wild' = {}
                          /\ len[s] > 0 /\ reserve[s] = len[s] => b[len[s]] = mem[s][len[s]]
  PROVE  StringInv'
  <1>1. /\ alloc[s] \in 0 .. MaxSize /\ reserve[s] \in 0 .. MaxSize
        /\ len[s] \in 0 .. MaxSize /\ reserve[s] < MaxSize
    BY Types
  <1>2. /\ alloc' = [alloc EXCEPT ![s] = alloc[s]]
        /\ reserve' = [reserve EXCEPT ![s] = reserve[s]]
        /\ len' = [len EXCEPT ![s] = len[s]]
    BY DEF StringInv, StringTypeOK
  <1>3. ASSUME s \notin odd'
        PROVE  /\ \/ alloc[s] = 0 /\ reserve[s] = 0 /\ len[s] = 0
                  \/ len[s] <= reserve[s] /\ reserve[s] < alloc[s]
                  \/ reserve[s] = 0 /\ len[s] > 0 /\ alloc[s] = len[s]
               /\ len[s] > 0 /\ reserve[s] = len[s] => b[len[s]] = Nul
               /\ wild' = {}
    <2>0. s \notin odd /\ wild' = {}
      BY <1>3
    <2>1. Sound(s) /\ wild' = {}
      BY <2>0 DEF StringInv
    <2>2. len[s] > 0 /\ reserve[s] = len[s] => b[len[s]] = Nul
      <3>1. len[s] > 0 /\ reserve[s] = len[s] => b[len[s]] = mem[s][len[s]]
        BY <1>3
      <3>2. len[s] > 0 /\ reserve[s] = len[s] => mem[s][len[s]] = Nul
        BY <2>1 DEF Sound, EndMarked
      <3> QED
        BY <3>1, <3>2
    <2> QED
      BY <2>1, <2>2 DEF Sound, Empty, Reserved, Taken
  <1>4. \A a, r, n \in 0 .. MaxSize :
          a = alloc[s] /\ r = reserve[s] /\ n = len[s] => StringInv'
    BY <1>1, <1>2, <1>3, OneObject
  <1> QED
    BY <1>1, <1>4

\* A call that only reads.
LEMMA ReadStep ==
  ASSUME StringInv, wild = {}, NEW s \in Strings, UNCHANGED <<mem, alloc, reserve, len>>,
         Records(s), s \notin odd' => s \notin odd /\ wild' = {}
  PROVE  StringInv'
  <1>1. mem[s] \in [Bytes -> ByteValues]
    BY Types
  <1>2. mem' = [mem EXCEPT ![s] = mem[s]]
    BY DEF StringInv, StringTypeOK
  <1> QED
    BY <1>1, <1>2, WriteInside

\* AddReserveSize, and ReadFile, which writes behind the text that is there.
LEMMA ReserveStep ==
  ASSUME StringInv, wild = {}, NEW s \in Strings, NEW n \in Nat, n > 0, reserve[s] + n < MaxSize,
         NEW t \in Seq(ByteValues), Len(t) \in {0, n}, len[s] + Len(t) <= MaxSize,
         mem' = [mem EXCEPT ![s] = Write(GrownMem(s, n), len[s], t)],
         alloc' = [alloc EXCEPT ![s] = GrownAlloc(s, n)],
         reserve' = [reserve EXCEPT ![s] = reserve[s] + n],
         len' = [len EXCEPT ![s] = len[s] + Len(t)],
         Leaves(s, Bare(s) \/ Borrows(s), len[s] + Len(t) > GrownAlloc(s, n) \/ ~GrowFits(s))
  PROVE  StringInv'
  <1> DEFINE k == Len(t)
             o == Bare(s) \/ Borrows(s)
             w == len[s] + k > GrownAlloc(s, n) \/ ~GrowFits(s)
             b == Write(GrownMem(s, n), len[s], t)
  <1>1. /\ k \in Nat /\ k \in {0, n} /\ len[s] \in Nat /\ reserve[s] \in Nat /\ StringTypeOK
        /\ alloc[s] \in Nat /\ MaxSize \in Nat
    BY Types DEF StringInv
  <1>2. /\ GrownAlloc(s, n) \in 0 .. MaxSize /\ reserve[s] + n \in 0 .. MaxSize
        /\ GrowFits(s) \in BOOLEAN
    BY GrownSize
  <1>3. len[s] + k \in 0 .. MaxSize /\ len[s] + k \in Bytes
    <2>1. len[s] + k <= MaxSize
      OBVIOUS
    <2> HIDE DEF k
    <2> QED
      BY <1>1, <2>1 DEF Bytes
  <1>4. b \in [Bytes -> ByteValues] /\ b[len[s] + k] = GrownMem(s, n)[len[s] + k]
    <2>1. GrownMem(s, n) \in [Bytes -> ByteValues] /\ len[s] \in Int
      BY <1>1, GrownType
    <2> QED
      BY <1>1, <1>3, <2>1, WriteType, BehindText
  <1>5. ASSUME s \notin odd, ~o
        PROVE  /\ ~w /\ len[s] + k <= reserve[s] + n /\ reserve[s] + n < GrownAlloc(s, n)
               /\ len[s] + k > 0 /\ reserve[s] + n = len[s] + k => b[len[s] + k] = Nul
    <2>1. /\ GrownAlloc(s, n) = reserve[s] + n + 1 /\ GrowFits(s) /\ len[s] <= reserve[s]
          /\ \A i \in len[s] .. len[s] + n : GrownMem(s, n)[i] = Nul
      BY <1>5, GrowStep, Sizes
    <2>2. len[s] + k \in len[s] .. len[s] + n
      <3> HIDE DEF k
      <3> QED
        BY <1>1
    <2>3. b[len[s] + k] = Nul
      <3> HIDE DEF b, k
      <3> QED
        BY <1>4, <2>1, <2>2
    <2>4. /\ len[s] + k <= reserve[s] + n /\ reserve[s] + n < GrownAlloc(s, n)
          /\ ~(len[s] + k > GrownAlloc(s, n))
      <3> HIDE DEF b, k, o, w
      <3> QED
        BY <1>1, <2>1
    <2> HIDE DEF b, k, o
    <2> QED
      BY <2>1, <2>3, <2>4
  <1>6. o \in BOOLEAN /\ w \in BOOLEAN /\ Leaves(s, o, w)
    BY <1>2 DEF Bare, Borrows
  <1>7. w => o \/ s \in odd
    BY <1>5
  <1>8. Records(s) /\ (s \notin odd' => wild' = {} /\ ~o /\ s \notin odd)
    <2> HIDE DEF o, w
    <2> QED
      BY <1>6, <1>7, Recorded
  <1> HIDE DEF k, b, o, w
  <1>9. /\ mem' = [mem EXCEPT ![s] = b] /\ len' = [len EXCEPT ![s] = len[s] + k]
    BY DEF k, b
  <1> QED
    BY <1>2, <1>3, <1>4, <1>5, <1>8, <1>9, OneObject

\* Every step keeps the invariant.
LEMMA StringStep ==
  ASSUME StringInv, StringNext
  PROVE  StringInv'
  <1>0. /\ wild = {} /\ StringTypeOK /\ MaxSize \in Nat
        /\ \A s \in Strings : /\ mem[s] \in [Bytes -> ByteValues]
                              /\ alloc[s] \in Nat /\ reserve[s] \in Nat /\ len[s] \in Nat
                              /\ alloc[s] <= MaxSize /\ len[s] <= MaxSize
        /\ \A i \in Bytes : i \in Nat /\ i <= MaxSize
    <2>1. MaxSize \in Nat /\ wild = {}
      BY StringAssumption DEF StringNext
    <2>2. ASSUME NEW s \in Strings
          PROVE  /\ mem[s] \in [Bytes -> ByteValues]
                 /\ alloc[s] \in Nat /\ reserve[s] \in Nat /\ len[s] \in Nat
                 /\ alloc[s] <= MaxSize /\ len[s] <= MaxSize
      BY Types
    <2> QED
      BY <2>1, <2>2 DEF StringInv, Bytes
  <1>1. ASSUME NEW s \in Strings, NEW t \in Texts, AppendText(s, t)
        PROVE  StringInv'
    <2>1. t \in Seq(ByteValues) /\ FALSE \in BOOLEAN
      BY TextTypes
    <2>2. Fits(s, Len(t)) /\ Append_(s, t, FALSE, FALSE)
      BY <1>1 DEF AppendText
    <2> QED
      BY <1>0, <2>1, <2>2, AppendStep
  <1>2. ASSUME NEW s \in Strings, NEW t \in Seq(ByteValues), Renew(s, t, FALSE), UNCHANGED wild
        PROVE  StringInv'
    <2>1. wild' \subseteq {s} /\ (wild' # {} => FALSE) /\ FALSE \in BOOLEAN
      BY <1>0, <1>2
    <2> QED
      BY <1>0, <1>2, <2>1, RenewStep
  <1>3. ASSUME NEW s \in Strings, NEW t \in Texts, ReadFile(s, t)
        PROVE  StringInv'
    <2> DEFINE n == Len(t)
    <2>0. t \in Seq(ByteValues) /\ n \in Nat /\ n > 0 /\ << >> \in Seq(ByteValues)
      BY TextTypes
    <2>1. CASE Clear(s)
      BY <1>2, <2>0, <2>1 DEF Clear
    <2>2. CASE ~Clear(s)
      <3>1. /\ mem' = [mem EXCEPT ![s] = Write(GrownMem(s, n), len[s], t)]
            /\ alloc' = [alloc EXCEPT ![s] = GrownAlloc(s, n)]
            /\ reserve' = [reserve EXCEPT ![s] = reserve[s] + n]
            /\ len' = [len EXCEPT ![s] = len[s] + Len(t)]
            /\ Leaves(s, Bare(s) \/ Borrows(s),
                      len[s] + Len(t) > GrownAlloc(s, n) \/ ~GrowFits(s))
            /\ reserve[s] + n < MaxSize /\ len[s] + Len(t) <= MaxSize /\ Len(t) \in {0, n}
        BY <1>0, <1>3, <2>2 DEF ReadFile, StringTypeOK
      <3> HIDE DEF n
      <3> QED
        BY <1>0, <2>0, <3>1, ReserveStep
    <2> QED
      BY <2>1, <2>2
  <1>4. ASSUME NEW s \in Strings, NEW t \in Texts, SetDataWithNewPointer(s, t)
        PROVE  StringInv'
    <2> DEFINE n == Len(t)
               b == Write(Blank, 0, t)
               r == IF len[s] > 0 THEN 0 ELSE reserve[s]
    <2>1. t \in Seq(ByteValues) /\ n \in Nat \ {0} /\ n <= MaxSize
      BY <1>4, TextTypes DEF SetDataWithNewPointer
    <2>2. b \in [Bytes -> ByteValues]
      <3>1. Blank \in [Bytes -> ByteValues]
        BY DEF Blank, ByteValues
      <3> QED
        BY <2>1, <3>1, WriteType
    <2>3. r \in 0 .. MaxSize /\ r < MaxSize
      BY Types
    <2>4. /\ mem' = [mem EXCEPT ![s] = b] /\ alloc' = [alloc EXCEPT ![s] = n]
          /\ reserve' = [reserve EXCEPT ![s] = r] /\ len' = [len EXCEPT ![s] = n]
          /\ Leaves(s, Bare(s), FALSE)
      BY <1>0, <1>4 DEF SetDataWithNewPointer, StringTypeOK
    <2>5. Records(s) /\ (s \notin odd' => wild' = {} /\ ~Bare(s) /\ s \notin odd)
      <3>1. Bare(s) \in BOOLEAN
        BY DEF Bare
      <3> QED
        BY <1>0, <2>4, <3>1, Recorded
    <2>6. s \notin odd' => r = 0
      BY <1>0, <2>5 DEF Bare
    <2>7. n \in 0 .. MaxSize /\ n > 0 /\ n # 0
      <3> HIDE DEF n
      <3> QED
        BY <1>0, <2>1
    <2> HIDE DEF n, b, r
    <2> QED
      BY <1>0, <2>2, <2>3, <2>4, <2>5, <2>6, <2>7, OneObject
  <1>5. ASSUME NEW s \in Strings, NEW t \in Texts, NEW at \in Bytes, Copy(s, at, t)
        PROVE  StringInv'
    <2> DEFINE o == at + Len(t) > len[s]
               w == at + Len(t) > alloc[s]
               b == Write(mem[s], at, t)
    <2>1. t \in Seq(ByteValues) /\ Len(t) \in Nat /\ at \in Nat
      BY <1>0, TextTypes
    <2>2. /\ mem' = [mem EXCEPT ![s] = b] /\ UNCHANGED <<alloc, reserve, len>>
          /\ Leaves(s, o, w)
      BY <1>5 DEF Copy
    <2>3. b \in [Bytes -> ByteValues]
      BY <1>0, <2>1, WriteType
    <2>4. w => o \/ s \in odd
      <3> SUFFICES ASSUME s \notin odd, ~o PROVE ~w
        OBVIOUS
      <3>1. len[s] <= alloc[s]
        BY Sizes
      <3>2. \A k \in Nat : ~(k > len[s]) => ~(k > alloc[s])
        BY <1>0, <3>1
      <3>3. at + Len(t) \in Nat
        BY <2>1
      <3> QED
        BY <3>2, <3>3
    <2>5. Records(s) /\ (s \notin odd' => wild' = {} /\ ~o /\ s \notin odd)
      <3>1. o \in BOOLEAN /\ w \in BOOLEAN
        OBVIOUS
      <3> HIDE DEF o, w, b
      <3> QED
        BY <1>0, <2>2, <2>4, <3>1, Recorded
    <2>6. ~o => b[len[s]] = mem[s][len[s]]
      <3>1. len[s] \in Bytes
        BY TextTypes
      <3> QED
        BY <3>1 DEF Write
    <2> HIDE DEF o, w, b
    <2> QED
      BY <1>0, <2>2, <2>3, <2>5, <2>6, WriteInside
  <1>6. ASSUME NEW s \in Strings, NEW r \in Strings, AppendString(s, r)
        PROVE  StringInv'
    <2> DEFINE o == r \in odd
               w == len[r] > alloc[r]
    <2>1. w => o
      BY <1>0, Sizes
    <2>2. /\ o \in BOOLEAN /\ w \in BOOLEAN /\ len[r] \in Bytes /\ Fits(s, len[r])
          /\ AppendBytes(s, r, len[r], o, w)
      BY <1>6, TextTypes DEF AppendString
    <2> HIDE DEF o, w
    <2> QED
      BY <1>0, <2>1, <2>2, BytesTaken
  <1>7. ASSUME NEW s \in Strings, NEW r \in Strings, PlusString(s, r)
        PROVE  StringInv'
    <2> DEFINE o == r \in odd \/ ~Marked(r)
               w == Ends(r) = {}
    <2>1. PICK n \in Bytes : IsEnd(r, n) /\ Fits(s, n) /\ AppendBytes(s, r, n, o, w)
      BY <1>7 DEF PlusString
    <2>2. (w => o) /\ o \in BOOLEAN /\ w \in BOOLEAN
      BY EndOfText DEF Marked
    <2> HIDE DEF o, w
    <2> QED
      BY <1>0, <2>1, <2>2, BytesTaken
  <1>8. ASSUME NEW s \in Strings, NEW r \in Strings, Assign(s, r)
        PROVE  StringInv'
    <2> DEFINE b == [i \in Bytes |-> IF i < reserve[r] THEN mem[r][i]
                                     ELSE IF i = len[r] THEN Nul ELSE Junk]
    <2>1. /\ reserve[r] \in 0 .. MaxSize /\ reserve[r] + 1 \in 0 .. MaxSize
          /\ len[r] \in 0 .. MaxSize /\ reserve[r] < reserve[r] + 1 /\ reserve[r] < MaxSize
      BY <1>0, Types
    <2>2. b \in [Bytes -> ByteValues]
      BY <1>0 DEF ByteValues
    <2>3. len[r] > 0 /\ reserve[r] = len[r] => b[len[r]] = Nul
      BY <1>0, TextTypes
    <2>4. /\ mem' = [mem EXCEPT ![s] = b] /\ alloc' = [alloc EXCEPT ![s] = reserve[r] + 1]
          /\ reserve' = [reserve EXCEPT ![s] = reserve[r]]
          /\ len' = [len EXCEPT ![s] = len[r]]
      BY <1>8 DEF Assign
    <2>5. Records(s)
      BY <1>0, <1>8 DEF Assign, Records
    <2>6. ASSUME s \notin odd'
          PROVE  wild' = {} /\ len[r] <= reserve[r]
      <3>1. r \notin odd /\ ~Borrows(r)
        BY <1>8, <2>6 DEF Assign
      <3>2. len[r] <= reserve[r] /\ reserve[r] <= alloc[r]
        BY <3>1, Sizes
      <3>3. ~(len[r] > reserve[r]) /\ ~(reserve[r] > alloc[r])
        BY <1>0, <3>2
      <3> QED
        BY <1>0, <1>8, <3>2, <3>3 DEF Assign
    <2> HIDE DEF b
    <2> QED
      BY <1>0, <2>1, <2>2, <2>3, <2>4, <2>5, <2>6, OneObject
  <1>9. ASSUME NEW s \in Strings, NEW r \in Strings, AssignPointer(s, r)
        PROVE  StringInv'
    <2>1. /\ Renew(s, Prefix(mem[r], len[r]), r \in odd) /\ (r \in odd) \in BOOLEAN
          /\ Prefix(mem[r], len[r]) \in Seq(ByteValues) /\ wild' \subseteq {s}
      BY <1>0, <1>9, TextTypes DEF AssignPointer
    <2>2. wild' # {} => r \in odd
      BY <1>0, <1>9, Sizes DEF AssignPointer
    <2> QED
      BY <1>0, <2>1, <2>2, RenewStep
  <1>10. ASSUME NEW s \in Strings, NEW n \in Bytes, AddReserveSize(s, n)
         PROVE  StringInv'
    <2>1. /\ n \in Nat /\ n > 0 /\ reserve[s] + n < MaxSize
          /\ << >> \in Seq(ByteValues) /\ Len(<< >>) \in {0, n}
          /\ len[s] + Len(<< >>) <= MaxSize /\ len[s] + Len(<< >>) = len[s]
      BY <1>0, <1>10, TextTypes DEF AddReserveSize
    <2>2. Write(GrownMem(s, n), len[s], << >>) = GrownMem(s, n)
      <3>1. GrownMem(s, n) \in [Bytes -> ByteValues]
        BY <2>1, GrownType DEF StringInv
      <3>2. \A i \in Bytes : ~(i >= len[s] /\ i < len[s] + 0)
        BY <1>0
      <3> QED
        BY <2>1, <3>1, <3>2 DEF Write
    <2>3. GrowFits(s) => ~(len[s] > GrownAlloc(s, n))
      <3>1. CASE len[s] > 0
        BY <1>0, <2>1, <3>1 DEF GrownAlloc, GrowFits
      <3>2. CASE len[s] = 0
        BY <1>0, <2>1, <3>2 DEF GrownAlloc
      <3> QED
        BY <1>0, <3>1, <3>2
    <2>4. Leaves(s, Bare(s) \/ Borrows(s),
                 len[s] + Len(<< >>) > GrownAlloc(s, n) \/ ~GrowFits(s))
      <3>1. (len[s] + Len(<< >>) > GrownAlloc(s, n) \/ ~GrowFits(s)) <=> ~GrowFits(s)
        BY <2>1, <2>3
      <3>2. Leaves(s, Bare(s) \/ Borrows(s), ~GrowFits(s))
        BY <1>10 DEF AddReserveSize
      <3> QED
        BY <3>1, <3>2 DEF Leaves
    <2>5. /\ mem' = [mem EXCEPT ![s] = Write(GrownMem(s, n), len[s], << >>)]
          /\ alloc' = [alloc EXCEPT ![s] = GrownAlloc(s, n)]
          /\ reserve' = [reserve EXCEPT ![s] = reserve[s] + n]
          /\ len' = [len EXCEPT ![s] = len[s] + Len(<< >>)]
      BY <1>0, <1>10, <2>1, <2>2 DEF AddReserveSize, StringTypeOK
    <2> QED
      BY <1>0, <2>1, <2>4, <2>5, ReserveStep
  <1>11. ASSUME NEW s \in Strings, NEW n \in Bytes, ReserveBlock(s, n)
         PROVE  StringInv'
    <2> DEFINE o == len[s] + n >= reserve[s]
               w == len[s] + n > alloc[s]
               b == Fill(mem[s], len[s], n, Nul)
    <2>1. /\ n \in Nat /\ n > 0 /\ len[s] + n \in 0 .. MaxSize
          /\ alloc[s] \in 0 .. MaxSize /\ reserve[s] \in 0 .. MaxSize /\ reserve[s] < MaxSize
      BY <1>0, <1>11, Types DEF ReserveBlock
    <2>2. b \in [Bytes -> ByteValues]
      <3>1. len[s] \in Int /\ n \in Int
        BY <1>0, <2>1
      <3> QED
        BY <1>0, <3>1, FillType
    <2>3. /\ mem' = [mem EXCEPT ![s] = b]
          /\ alloc' = [alloc EXCEPT ![s] = alloc[s]]
          /\ reserve' = [reserve EXCEPT ![s] = reserve[s]]
          /\ len' = [len EXCEPT ![s] = len[s] + n]
          /\ Leaves(s, o, w)
      BY <1>0, <1>11 DEF ReserveBlock, StringTypeOK
    <2>4. ASSUME s \notin odd, ~o
          PROVE  /\ len[s] + n <= reserve[s] /\ reserve[s] < alloc[s] /\ reserve[s] # len[s] + n
                 /\ ~w
      <3>1. len[s] + n < reserve[s]
        BY <1>0, <2>1, <2>4
      <3>2. reserve[s] < alloc[s]
        BY <1>0, <2>1, <2>4, <3>1, Sizes DEF Sound, Empty, Reserved, Taken
      <3> QED
        BY <1>0, <2>1, <3>1, <3>2
    <2>5. Records(s) /\ (s \notin odd' => wild' = {} /\ ~o /\ s \notin odd)
      <3>1. o \in BOOLEAN /\ w \in BOOLEAN /\ (w => o \/ s \in odd)
        BY <2>4
      <3> HIDE DEF o, w, b
      <3> QED
        BY <1>0, <2>3, <3>1, Recorded
    <2> HIDE DEF o, w, b
    <2> QED
      BY <1>0, <2>1, <2>2, <2>3, <2>4, <2>5, OneObject
  <1>12. ASSUME NEW s \in Strings, NEW n \in Bytes, At(s, n)
         PROVE  StringInv'
    <2> DEFINE w == n >= alloc[s]
    <2>1. Leaves(s, Borrows(s), w) /\ n <= len[s] /\ n > 0 /\ n \in Nat
          /\ UNCHANGED <<mem, alloc, reserve, len>>
      BY <1>0, <1>12 DEF At
    <2>2. w => Borrows(s) \/ s \in odd
      BY <1>0, <2>1, Sizes DEF Empty, Reserved
    <2>3. w \in BOOLEAN /\ Borrows(s) \in BOOLEAN
      BY DEF Borrows
    <2> HIDE DEF w
    <2>4. Records(s) /\ (s \notin odd' => wild' = {} /\ s \notin odd)
      BY <1>0, <2>1, <2>2, <2>3, Recorded
    <2> QED
      BY <1>0, <2>1, <2>4, ReadStep
  <1>13. ASSUME NEW s \in Strings, NEW z \in BOOLEAN, Reset(s, z)
         PROVE  StringInv'
    <2> DEFINE b == IF z THEN Fill(mem[s], 0, reserve[s], Nul) ELSE mem[s]
               w == z /\ reserve[s] > alloc[s]
    <2>1. b \in [Bytes -> ByteValues]
      <3>1. reserve[s] \in Int /\ 0 \in Int
        BY <1>0
      <3> QED
        BY <1>0, <3>1, FillType
    <2>2. /\ alloc[s] \in 0 .. MaxSize /\ reserve[s] \in 0 .. MaxSize /\ 0 \in 0 .. MaxSize
          /\ reserve[s] < MaxSize
      BY <1>0, Types
    <2>3. /\ mem' = [mem EXCEPT ![s] = b]
          /\ alloc' = [alloc EXCEPT ![s] = alloc[s]]
          /\ reserve' = [reserve EXCEPT ![s] = reserve[s]]
          /\ len' = [len EXCEPT ![s] = 0]
          /\ Leaves(s, FALSE, w)
      BY <1>0, <1>13 DEF Reset, StringTypeOK
    <2>4. ASSUME s \notin odd
          PROVE  /\ ~w
                 /\ \/ alloc[s] = 0 /\ reserve[s] = 0 /\ 0 = 0
                    \/ 0 <= reserve[s] /\ reserve[s] < alloc[s]
      <3>1. Sound(s) /\ reserve[s] <= alloc[s]
        BY <2>4, Sizes
      <3>2. ~(reserve[s] > alloc[s])
        BY <1>0, <3>1
      <3>3. \/ alloc[s] = 0 /\ reserve[s] = 0 /\ 0 = 0
            \/ 0 <= reserve[s] /\ reserve[s] < alloc[s]
        BY <1>0, <3>1 DEF Sound, Empty, Reserved, Taken
      <3> QED
        BY <3>2, <3>3
    <2>5. Records(s) /\ (s \notin odd' => wild' = {} /\ s \notin odd)
      <3>1. w \in BOOLEAN /\ FALSE \in BOOLEAN /\ (w => FALSE \/ s \in odd)
        BY <2>4
      <3> HIDE DEF w, b
      <3> QED
        BY <1>0, <2>3, <3>1, Recorded
    <2>6. ~(0 > 0)
      OBVIOUS
    <2> HIDE DEF b, w
    <2> QED
      BY <1>0, <2>1, <2>2, <2>3, <2>4, <2>5, <2>6, OneObject
  <1>14. ASSUME NEW s \in Strings, NEW f \in Chars, NEW c \in Chars, ReplaceChar(s, f, c)
         PROVE  StringInv'
    <2>1. PICK n \in Bytes :
            /\ IsEnd(s, n)
            /\ mem' = [mem EXCEPT ![s] = [i \in Bytes |->
                          IF i < n /\ @[i] = f THEN c ELSE @[i]]]
      BY <1>14 DEF ReplaceChar
    <2> DEFINE b == [i \in Bytes |-> IF i < n /\ mem[s][i] = f THEN c ELSE mem[s][i]]
               o == ~Marked(s)
               w == Ends(s) = {}
    <2>2. b \in [Bytes -> ByteValues] /\ mem' = [mem EXCEPT ![s] = b]
      BY <1>0, <2>1 DEF ByteValues, StringTypeOK
    <2>3. UNCHANGED <<alloc, reserve, len>> /\ Leaves(s, o, w)
      BY <1>14 DEF ReplaceChar
    <2>4. ASSUME s \notin odd, ~o
          PROVE  ~w /\ b[len[s]] = mem[s][len[s]]
      <3>1. n <= len[s] /\ Ends(s) # {} /\ len[s] \in Bytes
        BY <2>1, <2>4, EndOfText, TextTypes
      <3>2. ~(len[s] < n)
        BY <1>0, <3>1
      <3> QED
        BY <3>1, <3>2
    <2>5. Records(s) /\ (s \notin odd' => wild' = {} /\ ~o /\ s \notin odd)
      <3>1. o \in BOOLEAN /\ w \in BOOLEAN /\ (w => o \/ s \in odd)
        BY <2>4 DEF Marked
      <3> HIDE DEF w, b, o
      <3> QED
        BY <1>0, <2>3, <3>1, Recorded
    <2> HIDE DEF b, o, w
    <2> QED
      BY <1>0, <2>2, <2>3, <2>4, <2>5, WriteInside
  <1>16. ASSUME NEW s \in Strings, SaveFile(s)
         PROVE  StringInv'
    <2> DEFINE w == len[s] > alloc[s]
    <2>1. Leaves(s, FALSE, w) /\ UNCHANGED <<mem, alloc, reserve, len>>
      BY <1>16 DEF SaveFile
    <2>2. w \in BOOLEAN /\ FALSE \in BOOLEAN /\ (w => FALSE \/ s \in odd)
      BY <1>0, Sizes
    <2> HIDE DEF w
    <2>3. Records(s) /\ (s \notin odd' => wild' = {} /\ s \notin odd)
      BY <1>0, <2>1, <2>2, Recorded
    <2> QED
      BY <1>0, <2>1, <2>3, ReadStep
  <1>17. ASSUME NEW s \in Strings, NEW t \in Texts, AssignText(s, t)
         PROVE  StringInv'
    BY <1>2, <1>17, TextTypes DEF AssignText
  <1>18. ASSUME NEW s \in Strings, Clear(s)
         PROVE  StringInv'
    BY <1>2, <1>18, TextTypes DEF Clear
  <1>19. PICK s \in Strings :
           \/ \E t \in Texts : \/ AppendText(s, t) \/ AssignText(s, t) \/ ReadFile(s, t)
                               \/ SetDataWithNewPointer(s, t)
                               \/ \E at \in Bytes : Copy(s, at, t)
           \/ \E r \in Strings : \/ AppendString(s, r) \/ PlusString(s, r)
                                 \/ Assign(s, r) \/ AssignPointer(s, r)
           \/ \E n \in Bytes : AddReserveSize(s, n) \/ ReserveBlock(s, n) \/ At(s, n)
           \/ \E z \in BOOLEAN : Reset(s, z)
           \/ \E f, c \in Chars : ReplaceChar(s, f, c)
           \/ Clear(s) \/ SaveFile(s)
    BY Zenon DEF StringNext
  <1> QED
    BY <1>1, <1>3, <1>4, <1>5, <1>6, <1>7, <1>8, <1>9, <1>10, <1>11, <1>12, <1>13,
       <1>14, <1>16, <1>17, <1>18, <1>19


\* No object has a block at first.
LEMMA StringInitInv == StringInit => StringInv /\ wild = {} /\ odd = {}
  <1> SUFFICES ASSUME StringInit PROVE StringInv /\ wild = {} /\ odd = {}
    OBVIOUS
  <1>1. MaxSize \in Nat /\ MaxSize > 0 /\ 0 \in 0 .. MaxSize
    BY StringAssumption
  <1>2. StringTypeOK
    BY <1>1 DEF StringInit, StringTypeOK, Blank
  <1>3. ASSUME NEW s \in Strings PROVE reserve[s] < MaxSize /\ Sound(s)
    <2>1. alloc[s] = 0 /\ reserve[s] = 0 /\ len[s] = 0
      BY DEF StringInit
    <2>2. ~(0 > 0) /\ 0 < MaxSize
      BY <1>1
    <2> QED
      BY <2>1, <2>2 DEF Sound, Empty, EndMarked
  <1> QED
    BY <1>2, <1>3 DEF StringInit, StringInv

LEMMA StringInvariant == StringSpec => []StringInv
  <1>1. StringInit => StringInv
    BY StringInitInv
  <1>2. StringInv /\ [StringNext]_svars => StringInv'
    <2>1. CASE UNCHANGED svars
      BY <2>1 DEF svars, StringInv, StringTypeOK, Sound, Empty, Reserved, Taken, EndMarked
    <2> QED
      BY <2>1, StringStep
  <1> QED
    BY <1>1, <1>2, PTL DEF StringSpec

\* The type of every variable, whatever the calls, their order and their number.
THEOREM StringTypeCorrect == StringSpec => []StringTypeOK
  <1>1. StringInv => StringTypeOK
    BY DEF StringInv
  <1> QED
    BY <1>1, StringInvariant, PTL

\* Whatever calls of clsCString an application makes, on whatever objects and in whatever
\* order, the first that reads or writes outside the block behind Buffer is on a string
\* that was used in one of the six ways of CString or was made of one (append,
\* AddReserveSize, operator=, Copy, ReserveBlock, Reset, Replace, at, ReadFile, SaveFile).
THEOREM StaysInBlock == StringSpec => []StringFits
  <1>1. StringInv => StringFits
    BY DEF StringInv, StringFits
  <1> QED
    BY <1>1, StringInvariant, PTL

-----------------------------------------------------------------------------
(***************************************************************************)
(* The steps are steps of TextValue.                                       *)
(***************************************************************************)
\* A call changes one object, and what is promised of one.
Touches(s) ==
  \A q \in Strings \ {s} : mem'[q] = mem[q] /\ len'[q] = len[q] /\ (q \in odd' <=> q \in odd)

LEMMA OneTouched ==
  ASSUME StringTypeOK, NEW s \in Strings, NEW b, NEW n,
         mem' = [mem EXCEPT ![s] = b], len' = [len EXCEPT ![s] = n],
         odd' \in {odd \cup {s}, odd, odd \ {s}}
  PROVE  Touches(s)
  BY DEF StringTypeOK, Touches

\* An object nothing is promised of any more: TextValue loses its text.
LEMMA Lost ==
  ASSUME NEW s \in Strings, Touches(s), s \in odd'
  PROVE  Value!Next
  <1>1. text' = [q \in Strings |-> IF q \in odd' THEN NoText ELSE Prefix(mem'[q], len'[q])]
    BY DEF text, NoText
  <1>2. text' = [text EXCEPT ![s] = NoText]
    BY <1>1 DEF Touches, text
  <1> QED
    BY <1>2 DEF Value!Next, Value!Lose, Value!Become

\* A step that touches one object changes its text to what its bytes then spell.
LEMMA Spells ==
  ASSUME NEW s \in Strings, s \notin odd', Touches(s), NEW u \in Seq(ByteValues),
         len'[s] = Len(u), \A i \in 1 .. Len(u) : mem'[s][i - 1] = u[i]
  PROVE  text' = [text EXCEPT ![s] = u]
  <1>1. Prefix(mem'[s], len'[s]) = u
    BY DEF Prefix
  <1>2. text' = [q \in Strings |-> IF q \in odd' THEN NoText ELSE Prefix(mem'[q], len'[q])]
    BY DEF text, NoText
  <1> QED
    BY <1>1, <1>2 DEF text, Touches

\* The text of an object, byte by byte.
LEMMA TextBytes ==
  ASSUME StringInv, NEW s \in Strings, s \notin odd
  PROVE  /\ text[s] \in Seq(ByteValues) /\ Len(text[s]) = len[s]
         /\ \A i \in 1 .. len[s] : text[s][i] = mem[s][i - 1]
         /\ text[s] = Prefix(mem[s], len[s])
         /\ Value!Known(s)
  <1>1. len[s] \in Bytes /\ mem[s] \in [Bytes -> ByteValues] /\ len[s] \in Nat
    BY Types DEF Bytes
  <1>2. text[s] = Prefix(mem[s], len[s])
    BY DEF text
  <1>4. /\ Prefix(mem[s], len[s]) \in Seq(ByteValues)
        /\ Len(Prefix(mem[s], len[s])) = len[s]
        /\ DOMAIN Prefix(mem[s], len[s]) = 1 .. len[s]
        /\ \A i \in 1 .. len[s] : Prefix(mem[s], len[s])[i] = mem[s][i - 1]
    BY <1>1, PrefixSeq
  <1>5. text[s] \in Seq(ByteValues) /\ Len(text[s]) = len[s]
    BY <1>2, <1>4
  <1>6. \A i \in 1 .. len[s] : text[s][i] = mem[s][i - 1]
    BY <1>2, <1>4
  <1>7. text[s] # NoText
    <2>1. 0 \in DOMAIN NoText
      BY DEF NoText
    <2>2. 0 \notin 1 .. len[s]
      BY <1>1
    <2> QED
      BY <1>2, <1>4, <2>1, <2>2
  <1> QED
    BY <1>2, <1>5, <1>6, <1>7 DEF Value!Known

\* Writing t behind a text that is kept appends it.
LEMMA WriteSpells ==
  ASSUME StringInv, StringInv', NEW s \in Strings, s \notin odd, s \notin odd', Touches(s),
         NEW t \in Seq(ByteValues), NEW b,
         \A i \in 0 .. len[s] - 1 : b[i] = mem[s][i],
         mem' = [mem EXCEPT ![s] = Write(b, len[s], t)],
         len' = [len EXCEPT ![s] = len[s] + Len(t)]
  PROVE  text' = [text EXCEPT ![s] = text[s] \o t]
  <1> DEFINE n == Len(t)
             u == text[s] \o t
  <1>1. n \in Nat /\ len[s] \in Nat /\ MaxSize \in Nat /\ StringTypeOK
    BY Types DEF StringInv
  <1>2. /\ text[s] \in Seq(ByteValues) /\ Len(text[s]) = len[s]
        /\ \A i \in 1 .. len[s] : text[s][i] = mem[s][i - 1]
    BY TextBytes
  <1>3. len[s] + n <= MaxSize
    <2>1. len' \in [Strings -> 0 .. MaxSize]
      BY DEF StringInv, StringTypeOK
    <2>2. len'[s] = len[s] + n
      BY <1>1 DEF StringTypeOK
    <2> QED
      BY <1>1, <2>1, <2>2
  <1>4. u \in Seq(ByteValues) /\ Len(u) = len[s] + n
    BY <1>1, <1>2
  <1>5. \A i \in 1 .. Len(u) : mem'[s][i - 1] = u[i]
    <2> SUFFICES ASSUME NEW i \in 1 .. len[s] + n
                 PROVE  Write(b, len[s], t)[i - 1] = u[i]
      BY <1>1, <1>4 DEF StringTypeOK
    <2>1. i - 1 \in Bytes /\ i \in Nat
      BY <1>1, <1>3 DEF Bytes
    <2>2. CASE i <= len[s]
      <3>1. u[i] = text[s][i]
        BY <1>1, <1>2, <2>2
      <3>2. Write(b, len[s], t)[i - 1] = b[i - 1]
        BY <1>1, <2>1, <2>2 DEF Write
      <3> QED
        BY <1>1, <1>2, <2>1, <2>2, <3>1, <3>2
    <2>3. CASE i > len[s]
      <3>1. u[i] = t[i - len[s]]
        BY <1>1, <1>2, <2>3
      <3>2. Write(b, len[s], t)[i - 1] = t[(i - 1) - len[s] + 1]
        BY <1>1, <2>1, <2>3 DEF Write
      <3>3. (i - 1) - len[s] + 1 = i - len[s]
        BY <1>1, <2>1
      <3> QED
        BY <3>1, <3>2, <3>3
    <2>4. i <= len[s] \/ i > len[s]
      BY <1>1, <2>1
    <2> QED
      BY <2>2, <2>3, <2>4
  <1>6. len'[s] = Len(u)
    BY <1>1, <1>4 DEF StringTypeOK
  <1> HIDE DEF n, u
  <1>7. text' = [text EXCEPT ![s] = u]
    BY <1>4, <1>5, <1>6, Spells
  <1> QED
    BY <1>7 DEF u

\* What append does to the text of a string it does not use oddly.
LEMMA AppendSpells ==
  ASSUME StringInv, StringInv', NEW s \in Strings, s \notin odd', NEW t \in Seq(ByteValues),
         NEW oddly, NEW outside, Fits(s, Len(t)), Append_(s, t, oddly, outside)
  PROVE  text' = [text EXCEPT ![s] = text[s] \o t]
  <1> DEFINE n == Len(t)
             g == n > 0 /\ Grows(s, n)
             b == IF g THEN GrownMem(s, n) ELSE mem[s]
  <1>2. n \in Nat /\ StringTypeOK
    BY DEF StringInv
  <1>3. s \notin odd /\ (g => ~Bare(s) /\ ~Borrows(s) /\ reserve[s] + n < MaxSize)
    BY DEF Append_, Leaves, Fits
  <1>4. /\ mem' = [mem EXCEPT ![s] = Write(b, len[s], t)]
        /\ len' = [len EXCEPT ![s] = len[s] + n]
    BY <1>2 DEF Append_, StringTypeOK
  <1>5. \A i \in 0 .. len[s] - 1 : b[i] = mem[s][i]
    BY <1>2, <1>3, GrowStep
  <1>6. Touches(s)
    <2>1. odd' \in {odd \cup {s}, odd, odd \ {s}}
      BY DEF Append_, Leaves
    <2> HIDE DEF b, n
    <2> QED
      BY <1>2, <1>4, <2>1, OneTouched
  <1> HIDE DEF b
  <1> QED
    BY <1>3, <1>4, <1>5, <1>6, WriteSpells

\* append changes one object.
LEMMA AppendTouches ==
  ASSUME StringInv, NEW s \in Strings, NEW t \in Seq(ByteValues), NEW oddly, NEW outside,
         Append_(s, t, oddly, outside)
  PROVE  Touches(s)
  <1>1. odd' \in {odd \cup {s}, odd, odd \ {s}}
    BY DEF Append_, Leaves
  <1>2. /\ \A q \in Strings \ {s} : mem'[q] = mem[q] /\ len'[q] = len[q]
    BY DEF Append_, StringInv, StringTypeOK
  <1> QED
    BY <1>1, <1>2 DEF Touches

\* What a constructor or an assignment of a text does.
LEMMA RenewSpells ==
  ASSUME StringInv, NEW s \in Strings, s \notin odd', NEW t \in Seq(ByteValues), NEW oddly,
         Renew(s, t, oddly)
  PROVE  text' = [text EXCEPT ![s] = t]
  <1>1. StringTypeOK
    BY DEF StringInv
  <1>2. Len(t) \in Nat /\ Len(t) < MaxSize /\ MaxSize \in Nat
    BY StringAssumption DEF Renew
  <1>3. Touches(s) /\ len'[s] = Len(t)
    BY <1>1 DEF Renew, StringTypeOK, Touches
  <1>4. \A i \in 1 .. Len(t) : mem'[s][i - 1] = t[i]
    <2> SUFFICES ASSUME NEW i \in 1 .. Len(t) PROVE mem'[s][i - 1] = t[i]
      OBVIOUS
    <2>1. Len(t) # 0 /\ i - 1 \in Bytes /\ i - 1 >= 0 /\ i - 1 < 0 + Len(t)
          /\ i - 1 - 0 + 1 = i
      BY <1>2 DEF Bytes
    <2>2. mem'[s] = Write(Fill(Blank, 0, Len(t) + 1, Nul), 0, t)
      BY <1>1, <2>1 DEF Renew, StringTypeOK
    <2> QED
      BY <2>1, <2>2 DEF Write
  <1> QED
    BY <1>3, <1>4, Spells

\* A call that keeps the length and the bytes of a text, and what is promised of it.
LEMMA TextKept ==
  ASSUME StringInv, NEW s \in Strings, s \notin odd, s \notin odd', Touches(s),
         len'[s] = len[s], \A i \in 0 .. len[s] - 1 : mem'[s][i] = mem[s][i]
  PROVE  text' = text
  <1>1. Prefix(mem'[s], len'[s]) = Prefix(mem[s], len[s])
    BY Types DEF Prefix
  <1>2. text' = [q \in Strings |-> IF q \in odd' THEN NoText ELSE Prefix(mem'[q], len'[q])]
    BY DEF text, NoText
  <1> QED
    BY <1>1, <1>2 DEF text, Touches

\* What a C string shows of a text that fills its reserve: the bytes before the first end
\* mark of the block.
LEMMA VisiblePrefix ==
  ASSUME StringInv, NEW s \in Strings, s \notin odd, NEW n \in Bytes, IsEnd(s, n),
         Ends(s) # {}, n <= len[s]
  PROVE  Prefix(mem[s], n) = Value!Visible(text[s])
  <1>1. /\ n \in Nat /\ len[s] \in Nat /\ len[s] <= alloc[s] /\ alloc[s] \in Nat
        /\ n \in Ends(s) /\ \A i \in Ends(s) : n <= i
    BY Types, Sizes DEF IsEnd, Bytes
  <1>2. /\ Len(text[s]) = len[s]
        /\ \A i \in 1 .. len[s] : text[s][i] = mem[s][i - 1]
    BY TextBytes
  <1>3. mem[s][n] = Nul
    BY <1>1 DEF Ends
  <1>4. ASSUME NEW i \in 1 .. n
        PROVE  i \in 1 .. len[s] /\ mem[s][i - 1] # Nul
    <2>1. i - 1 < n /\ i - 1 \in 0 .. alloc[s] - 1
      BY <1>1
    <2> QED
      BY <1>1, <2>1 DEF Ends
  <1>5. {i \in 1 .. Len(text[s]) : \A j \in 1 .. i : text[s][j] # Nul} = 1 .. n
    <2>1. ASSUME NEW i \in 1 .. len[s], \A j \in 1 .. i : text[s][j] # Nul
          PROVE  i \in 1 .. n
      <3>1. SUFFICES ASSUME i > n PROVE FALSE
        BY <1>1
      <3>2. n + 1 \in 1 .. i /\ n + 1 \in 1 .. len[s] /\ (n + 1) - 1 = n
        BY <1>1, <3>1
      <3> QED
        BY <1>2, <1>3, <2>1, <3>2
    <2>2. ASSUME NEW i \in 1 .. n, NEW j \in 1 .. i
          PROVE  text[s][j] # Nul
      <3>1. j \in 1 .. n
        BY <1>1
      <3> QED
        BY <1>2, <1>4, <3>1
    <2>3. \A i \in 1 .. n : i \in 1 .. len[s]
      BY <1>1
    <2> QED
      BY <1>2, <2>1, <2>2, <2>3
  <1>6. \A i \in 1 .. n : text[s][i] = mem[s][i - 1]
    BY <1>2, <1>4
  <1> QED
    BY <1>5, <1>6 DEF Value!Visible, Prefix


\* What the two appends of another string have in common.
AppendsBytes(s, r, n) ==
  \E oddly, outside \in BOOLEAN : AppendBytes(s, r, n, oddly, outside)

LEMMA BytesTouch ==
  ASSUME StringInv, NEW s \in Strings, NEW r \in Strings, NEW n \in Bytes, AppendsBytes(s, r, n)
  PROVE  Touches(s)
  <1>1. PICK oddly, outside \in BOOLEAN : AppendBytes(s, r, n, oddly, outside)
    BY DEF AppendsBytes
  <1>2. ASSUME NEW u, NEW o, NEW w, Append_(s, u, o, w), u \in Seq(ByteValues) PROVE Touches(s)
    BY <1>2, AppendTouches
  <1>3. n \in Nat
    BY StringAssumption DEF Bytes
  <1>4. [i \in 1 .. n |-> Junk] \in Seq(ByteValues)
    <2>1. [i \in 1 .. n |-> Junk] \in [1 .. n -> ByteValues]
      BY DEF ByteValues
    <2> QED
      BY <1>3, <2>1
  <1>5. Prefix(mem[r], n) \in Seq(ByteValues)
    BY TextTypes
  <1> QED
    BY <1>1, <1>2, <1>4, <1>5 DEF AppendBytes

LEMMA BytesSpell ==
  ASSUME StringInv, StringInv', NEW s \in Strings, s \notin odd', NEW r \in Strings,
         NEW n \in Bytes, Fits(s, n), NEW oddly, NEW outside, AppendBytes(s, r, n, oddly, outside)
  PROVE  /\ s \notin odd /\ ~oddly
         /\ text' = [text EXCEPT ![s] = text[s] \o Prefix(mem[r], n)]
  <1> DEFINE freed == s = r /\ n > 0 /\ Grows(s, n)
             u == IF freed THEN [i \in 1 .. n |-> Junk] ELSE Prefix(mem[r], n)
             o == oddly \/ freed
             w == outside \/ freed
  <1>1. Append_(s, u, o, w)
    BY DEF AppendBytes
  <1>2. s \notin odd /\ ~o
    <2> HIDE DEF u, o, w
    <2> QED
      BY <1>1 DEF Append_, Leaves
  <1>3. u = Prefix(mem[r], n)
    BY <1>2
  <1>4. Prefix(mem[r], n) \in Seq(ByteValues) /\ Len(Prefix(mem[r], n)) = n
    BY TextTypes
  <1>5. Append_(s, Prefix(mem[r], n), o, w)
    BY <1>1, <1>3
  <1>6. text' = [text EXCEPT ![s] = text[s] \o Prefix(mem[r], n)]
    <2> HIDE DEF o, w
    <2> QED
      BY <1>4, <1>5, AppendSpells
  <1> QED
    BY <1>2, <1>6

\* A call that only looks at a string.
LEMMA Looked ==
  ASSUME StringInv, NEW s \in Strings, NEW oddly, NEW outside, Leaves(s, oddly, outside),
         UNCHANGED <<mem, len>>
  PROVE  Value!Next \/ text' = text
  <1>1. Touches(s)
    BY DEF Leaves, Touches
  <1>2. s \notin odd' => s \notin odd
    BY DEF Leaves
  <1> QED
    BY <1>1, <1>2, Lost, TextKept

\* Every object starts with the empty text.
LEMMA StringInitValue == StringInit => Value!Init
  <1> SUFFICES ASSUME StringInit PROVE Value!Init
    OBVIOUS
  <1>1. odd = {} /\ \A s \in Strings : Prefix(mem[s], len[s]) = << >>
    <2> SUFFICES ASSUME NEW s \in Strings PROVE Prefix(mem[s], len[s]) = << >>
      BY StringInitInv
    <2>1. len[s] = 0 /\ 0 \in Bytes /\ mem[s] \in [Bytes -> ByteValues]
      BY StringInitInv, Types DEF StringInit
    <2>2. Prefix(mem[s], len[s]) \in Seq(ByteValues) /\ Len(Prefix(mem[s], len[s])) = 0
      BY <2>1, PrefixSeq
    <2> QED
      BY <2>2
  <1> QED
    BY <1>1 DEF text, Value!Init

\* Every call is a step of TextValue, or leaves the texts as they are: a call on a string
\* that is used oddly by it loses the text, any other does what TextValue says.
LEMMA StringStepValue ==
  ASSUME StringInv, StringInv', [StringNext]_svars
  PROVE  [Value!Next]_text
  <1>0. /\ StringTypeOK /\ MaxSize \in Nat /\ << >> \in Seq(ByteValues)
        /\ \A s \in Strings : len[s] \in Nat /\ len[s] \in Bytes
    <2>1. MaxSize \in Nat
      BY StringAssumption
    <2>2. \A s \in Strings : len[s] \in Nat /\ len[s] \in Bytes
      BY Types DEF Bytes
    <2>3. << >> \in Seq(ByteValues) /\ StringTypeOK
      BY DEF StringInv
    <2> QED
      BY <2>1, <2>2, <2>3
  <1>1. ASSUME NEW s \in Strings, NEW t \in Texts, AppendText(s, t)
        PROVE  Value!Next
    <2>1. /\ t \in Seq(ByteValues) /\ Fits(s, Len(t)) /\ Append_(s, t, FALSE, FALSE)
      BY <1>1, TextTypes DEF AppendText
    <2>2. CASE s \in odd'
      BY <2>1, <2>2, Lost, AppendTouches
    <2>3. CASE s \notin odd'
      <3>1. s \notin odd
        BY <2>1, <2>3 DEF Append_, Leaves
      <3>2. text' = [text EXCEPT ![s] = text[s] \o t]
        BY <2>1, <2>3, AppendSpells
      <3> QED
        BY <3>1, <3>2, TextBytes DEF Value!Next, Value!AppendLiteral, Value!Become
    <2> QED
      BY <2>2, <2>3
  <1>2. ASSUME NEW s \in Strings, NEW t \in Texts, AssignText(s, t)
        PROVE  Value!Next
    <2>1. s \notin odd' => text' = [text EXCEPT ![s] = t]
      BY <1>2, TextTypes, RenewSpells DEF AssignText
    <2>2. s \notin odd'
      BY <1>2 DEF AssignText, Renew
    <2> QED
      BY <2>1, <2>2 DEF Value!Next, Value!AssignLiteral, Value!Become
  <1>15. ASSUME NEW s \in Strings, Clear(s)
         PROVE  Value!Next
    <2>1. s \notin odd' => text' = [text EXCEPT ![s] = << >>]
      BY <1>0, <1>15, RenewSpells DEF Clear
    <2>2. s \notin odd'
      BY <1>15 DEF Clear, Renew
    <2> QED
      BY <2>1, <2>2 DEF Value!Next, Value!Clear, Value!Become
  <1>3. ASSUME NEW s \in Strings, NEW t \in Texts, ReadFile(s, t)
        PROVE  Value!Next
    <2>1. CASE Clear(s)
      BY <1>15, <2>1
    <2>2. CASE ~Clear(s)
      <3>1. /\ t \in Seq(ByteValues) /\ Len(t) \in Nat
            /\ reserve[s] + Len(t) < MaxSize
        BY <1>3, TextTypes DEF ReadFile
      <3>2. /\ mem' = [mem EXCEPT ![s] = Write(GrownMem(s, Len(t)), len[s], t)]
            /\ len' = [len EXCEPT ![s] = len[s] + Len(t)]
            /\ Leaves(s, Bare(s) \/ Borrows(s),
                      len[s] + Len(t) > GrownAlloc(s, Len(t)) \/ ~GrowFits(s))
        BY <1>0, <1>3, <2>2 DEF ReadFile, StringTypeOK
      <3>3. Touches(s)
        <4>1. odd' \in {odd \cup {s}, odd, odd \ {s}}
          BY <3>2 DEF Leaves
        <4> QED
          BY <1>0, <3>2, <4>1, OneTouched
      <3>4. CASE s \in odd'
        BY <3>3, <3>4, Lost
      <3>5. CASE s \notin odd'
        <4>1. s \notin odd /\ ~Bare(s) /\ ~Borrows(s)
          BY <3>2, <3>5 DEF Leaves
        <4>2. \A i \in 0 .. len[s] - 1 : GrownMem(s, Len(t))[i] = mem[s][i]
          BY <3>1, <4>1, GrowStep
        <4>3. text' = [text EXCEPT ![s] = text[s] \o t]
          BY <1>0, <3>1, <3>2, <3>3, <3>5, <4>1, <4>2, WriteSpells
        <4> QED
          BY <4>1, <4>3, TextBytes DEF Value!Next, Value!AppendLiteral, Value!Become
      <3> QED
        BY <3>4, <3>5
    <2> QED
      BY <2>1, <2>2
  <1>4. ASSUME NEW s \in Strings, NEW t \in Texts, SetDataWithNewPointer(s, t)
        PROVE  Value!Next
    <2>1. /\ t \in Seq(ByteValues) /\ Len(t) \in Nat /\ Len(t) <= MaxSize
          /\ mem' = [mem EXCEPT ![s] = Write(Blank, 0, t)]
          /\ len' = [len EXCEPT ![s] = Len(t)] /\ Leaves(s, Bare(s), FALSE)
      BY <1>4, TextTypes DEF SetDataWithNewPointer
    <2>3. Touches(s) /\ len'[s] = Len(t)
      <3>1. odd' \in {odd \cup {s}, odd, odd \ {s}}
        BY <2>1 DEF Leaves
      <3>2. Touches(s)
        BY <1>0, <2>1, <3>1, OneTouched
      <3> QED
        BY <1>0, <2>1, <3>2 DEF StringTypeOK
    <2>2. \A i \in 1 .. Len(t) : mem'[s][i - 1] = t[i]
      <3> SUFFICES ASSUME NEW i \in 1 .. Len(t) PROVE mem'[s][i - 1] = t[i]
        OBVIOUS
      <3>1. /\ i - 1 \in Bytes /\ i - 1 >= 0 /\ i - 1 < 0 + Len(t)
            /\ i - 1 - 0 + 1 = i
        BY <1>0, <2>1 DEF Bytes
      <3>2. mem'[s] = Write(Blank, 0, t)
        BY <1>0, <2>1 DEF StringTypeOK
      <3> QED
        BY <3>1, <3>2 DEF Write
    <2>4. CASE s \in odd'
      BY <2>3, <2>4, Lost
    <2>5. CASE s \notin odd'
      <3>1. text' = [text EXCEPT ![s] = t]
        BY <2>1, <2>2, <2>3, <2>5, Spells
      <3> QED
        BY <3>1 DEF Value!Next, Value!AssignLiteral, Value!Become
    <2> QED
      BY <2>4, <2>5
  <1>5. ASSUME NEW s \in Strings, NEW t \in Texts, NEW at \in Bytes, Copy(s, at, t)
        PROVE  Value!Next
    <2>1. /\ t \in Seq(ByteValues) /\ Len(t) \in Nat /\ at \in Nat
          /\ mem' = [mem EXCEPT ![s] = Write(mem[s], at, t)] /\ UNCHANGED len
          /\ Leaves(s, at + Len(t) > len[s], at + Len(t) > alloc[s])
      BY <1>0, <1>5, TextTypes DEF Copy, Bytes
    <2>2. Touches(s)
      <3>1. odd' \in {odd \cup {s}, odd, odd \ {s}} /\ len' = [len EXCEPT ![s] = len[s]]
        BY <1>0, <2>1 DEF Leaves, StringTypeOK
      <3> QED
        BY <1>0, <2>1, <3>1, OneTouched
    <2>3. CASE s \in odd'
      BY <2>2, <2>3, Lost
    <2>4. CASE s \notin odd'
      <3>1. s \notin odd /\ ~(at + Len(t) > len[s])
        BY <2>1, <2>4 DEF Leaves
      <3>2. at + Len(t) <= len[s]
        <4>1. at + Len(t) \in Nat
          BY <2>1
        <4>2. \A k, l \in Nat : ~(k > l) => k <= l
          OBVIOUS
        <4> QED
          BY <1>0, <3>1, <4>1, <4>2
      <3>3. /\ text[s] \in Seq(ByteValues) /\ Len(text[s]) = len[s] /\ Value!Known(s)
            /\ \A i \in 1 .. len[s] : text[s][i] = mem[s][i - 1]
        BY <3>1, TextBytes
      <3> DEFINE u == [i \in 1 .. len[s] |->
                         IF i > at /\ i <= at + Len(t) THEN t[i - at] ELSE text[s][i]]
      <3>4. u \in Seq(ByteValues) /\ Len(u) = len[s]
        <4>1. \A i \in 1 .. len[s] : i > at /\ i <= at + Len(t) => t[i - at] \in ByteValues
          BY <1>0, <2>1
        <4>2. \A i \in 1 .. len[s] : text[s][i] \in ByteValues
          BY <1>0, <3>3
        <4>3. u \in [1 .. len[s] -> ByteValues]
          BY <4>1, <4>2
        <4> HIDE DEF u
        <4> QED
          BY <1>0, <4>3
      <3>5. \A i \in 1 .. Len(u) : mem'[s][i - 1] = u[i]
        <4> SUFFICES ASSUME NEW i \in 1 .. len[s]
                     PROVE  Write(mem[s], at, t)[i - 1] = u[i]
          BY <1>0, <2>1, <3>4 DEF StringTypeOK
        <4>1. i - 1 \in Bytes /\ (i - 1) - at + 1 = i - at
          BY <1>0, <2>1 DEF Bytes
        <4>2. i - 1 >= at /\ i - 1 < at + Len(t) <=> i > at /\ i <= at + Len(t)
          BY <1>0, <2>1
        <4> QED
          BY <3>3, <4>1, <4>2 DEF Write
      <3>6. text' = [text EXCEPT ![s] = u]
        <4> HIDE DEF u
        <4> QED
          BY <2>1, <2>2, <2>4, <3>4, <3>5, Spells
      <3>7. at \in 0 .. Len(text[s]) /\ at + Len(t) <= Len(text[s])
        <4>1. at <= len[s]
          BY <1>0, <2>1, <3>2
        <4> QED
          BY <1>0, <2>1, <3>2, <3>3, <4>1
      <3>8. Value!Overwrite(s, at, t)
        BY <3>3, <3>6, <3>7 DEF Value!Overwrite, Value!Become
      <3> QED
        BY <3>3, <3>7, <3>8 DEF Value!Next
    <2> QED
      BY <2>3, <2>4
  <1>6. ASSUME NEW s \in Strings, NEW r \in Strings, AppendString(s, r)
        PROVE  Value!Next
    <2> DEFINE o == r \in odd
               w == len[r] > alloc[r]
    <2>1. len[r] \in Bytes /\ Fits(s, len[r]) /\ AppendBytes(s, r, len[r], o, w)
      BY <1>0, <1>6 DEF AppendString
    <2>2. AppendsBytes(s, r, len[r]) /\ o \in BOOLEAN /\ w \in BOOLEAN
      <3>1. o \in BOOLEAN /\ w \in BOOLEAN
        OBVIOUS
      <3> HIDE DEF o, w
      <3> QED
        BY <2>1, <3>1 DEF AppendsBytes
    <2> HIDE DEF o, w
    <2>3. CASE s \in odd'
      BY <2>1, <2>2, <2>3, BytesTouch, Lost
    <2>4. CASE s \notin odd'
      <3>1. /\ s \notin odd /\ ~o /\ text' = [text EXCEPT ![s] = text[s] \o Prefix(mem[r], len[r])]
        BY <2>1, <2>4, BytesSpell
      <3>2. r \notin odd
        BY <3>1 DEF o
      <3> QED
        BY <3>1, <3>2, TextBytes DEF Value!Next, Value!AppendOther, Value!Become
    <2> QED
      BY <2>3, <2>4
  <1>7. ASSUME NEW s \in Strings, NEW r \in Strings, PlusString(s, r)
        PROVE  Value!Next
    <2> DEFINE o == r \in odd \/ ~Marked(r)
               w == Ends(r) = {}
    <2>1. PICK n \in Bytes : IsEnd(r, n) /\ Fits(s, n) /\ AppendBytes(s, r, n, o, w)
      BY <1>7 DEF PlusString
    <2>2. AppendsBytes(s, r, n) /\ o \in BOOLEAN /\ w \in BOOLEAN
      <3>1. o \in BOOLEAN /\ w \in BOOLEAN
        BY DEF Marked
      <3> HIDE DEF o, w
      <3> QED
        BY <2>1, <3>1 DEF AppendsBytes
    <2> HIDE DEF o, w
    <2>3. CASE s \in odd'
      BY <2>2, <2>3, BytesTouch, Lost
    <2>4. CASE s \notin odd'
      <3>1. /\ s \notin odd /\ ~o /\ text' = [text EXCEPT ![s] = text[s] \o Prefix(mem[r], n)]
        BY <2>1, <2>4, BytesSpell
      <3>2. r \notin odd /\ Ends(r) # {} /\ n <= len[r]
        <4>1. r \notin odd /\ Marked(r)
          BY <3>1 DEF o
        <4> QED
          BY <2>1, <4>1, EndOfText
      <3>3. Prefix(mem[r], n) = Value!Visible(text[r])
        BY <2>1, <3>2, VisiblePrefix
      <3> QED
        BY <3>1, <3>2, <3>3, TextBytes DEF Value!Next, Value!AppendVisible, Value!Become
    <2> QED
      BY <2>3, <2>4
  <1>8. ASSUME NEW s \in Strings, NEW r \in Strings, Assign(s, r)
        PROVE  Value!Next
    <2>1. /\ len' = [len EXCEPT ![s] = len[r]]
          /\ mem' = [mem EXCEPT ![s] =
               [i \in Bytes |-> IF i < reserve[r] THEN mem[r][i]
                                ELSE IF i = len[r] THEN Nul ELSE Junk]]
          /\ odd' \in {odd \cup {s}, odd, odd \ {s}}
      BY <1>8 DEF Assign
    <2>2. Touches(s)
      BY <1>0, <2>1, OneTouched
    <2>3. CASE s \in odd'
      BY <2>2, <2>3, Lost
    <2>4. CASE s \notin odd'
      <3>1. r \notin odd /\ ~Borrows(r)
        BY <1>8, <2>4 DEF Assign
      <3>2. /\ text[r] \in Seq(ByteValues) /\ Len(text[r]) = len[r] /\ Value!Known(r)
            /\ \A i \in 1 .. len[r] : text[r][i] = mem[r][i - 1]
        BY <3>1, TextBytes
      <3>3. len[r] <= reserve[r] /\ reserve[r] <= MaxSize /\ reserve[r] \in Nat
        BY <3>1, Sizes, Types
      <3>4. \A i \in 1 .. len[r] : mem'[s][i - 1] = mem[r][i - 1]
        <4> SUFFICES ASSUME NEW i \in 1 .. len[r] PROVE mem'[s][i - 1] = mem[r][i - 1]
          OBVIOUS
        <4>1. i - 1 \in Bytes /\ i - 1 < reserve[r]
          BY <1>0, <3>3 DEF Bytes
        <4> QED
          BY <1>0, <2>1, <4>1 DEF StringTypeOK
      <3>5. len'[s] = Len(text[r])
        BY <1>0, <2>1, <3>2 DEF StringTypeOK
      <3>6. \A i \in 1 .. Len(text[r]) : mem'[s][i - 1] = text[r][i]
        BY <3>2, <3>4
      <3>7. text' = [text EXCEPT ![s] = text[r]]
        BY <2>2, <2>4, <3>2, <3>5, <3>6, Spells
      <3> QED
        BY <3>2, <3>7 DEF Value!Next, Value!AssignOther, Value!Become
    <2> QED
      BY <2>3, <2>4
  <1>9. ASSUME NEW s \in Strings, NEW r \in Strings, AssignPointer(s, r)
        PROVE  Value!Next
    <2>1. /\ Renew(s, Prefix(mem[r], len[r]), r \in odd) /\ Prefix(mem[r], len[r]) \in Seq(ByteValues)
      BY <1>0, <1>9, TextTypes DEF AssignPointer
    <2>2. CASE s \in odd'
      <3>1. Touches(s)
        BY <1>0, <2>1 DEF Renew, StringTypeOK, Touches
      <3> QED
        BY <2>2, <3>1, Lost
    <2>3. CASE s \notin odd'
      <3>1. r \notin odd
        BY <2>1, <2>3 DEF Renew
      <3>2. text' = [text EXCEPT ![s] = Prefix(mem[r], len[r])]
        BY <2>1, <2>3, RenewSpells
      <3> QED
        BY <3>1, <3>2, TextBytes DEF Value!Next, Value!AssignOther, Value!Become
    <2> QED
      BY <2>2, <2>3
  <1>10. ASSUME NEW s \in Strings, NEW n \in Bytes, AddReserveSize(s, n)
         PROVE  Value!Next \/ text' = text
    <2>1. /\ n \in Nat /\ reserve[s] + n < MaxSize
          /\ mem' = [mem EXCEPT ![s] = GrownMem(s, n)] /\ UNCHANGED len
          /\ Leaves(s, Bare(s) \/ Borrows(s), ~GrowFits(s))
      BY <1>10 DEF AddReserveSize, Bytes
    <2>2. Touches(s)
      <3>1. odd' \in {odd \cup {s}, odd, odd \ {s}} /\ len' = [len EXCEPT ![s] = len[s]]
        BY <1>0, <2>1 DEF Leaves, StringTypeOK
      <3> QED
        BY <1>0, <2>1, <3>1, OneTouched
    <2>3. CASE s \in odd'
      BY <2>2, <2>3, Lost
    <2>4. CASE s \notin odd'
      <3>1. s \notin odd /\ ~Bare(s) /\ ~Borrows(s)
        BY <2>1, <2>4 DEF Leaves
      <3>2. \A i \in 0 .. len[s] - 1 : GrownMem(s, n)[i] = mem[s][i]
        BY <2>1, <3>1, GrowStep
      <3>3. mem'[s] = GrownMem(s, n) /\ len'[s] = len[s]
        BY <1>0, <2>1 DEF StringTypeOK
      <3> QED
        BY <2>2, <2>4, <3>1, <3>2, <3>3, TextKept
    <2> QED
      BY <2>3, <2>4
  <1>11. ASSUME NEW s \in Strings, NEW n \in Bytes, ReserveBlock(s, n)
         PROVE  Value!Next
    <2> DEFINE t == [i \in 1 .. n |-> Nul]
    <2>1. /\ n \in Nat /\ len[s] + n <= MaxSize
          /\ mem' = [mem EXCEPT ![s] = Fill(mem[s], len[s], n, Nul)]
          /\ len' = [len EXCEPT ![s] = len[s] + n]
          /\ Leaves(s, len[s] + n >= reserve[s], len[s] + n > alloc[s])
      BY <1>0, <1>11 DEF ReserveBlock, Bytes, StringTypeOK
    <2>2. Touches(s)
      <3>1. odd' \in {odd \cup {s}, odd, odd \ {s}}
        BY <2>1 DEF Leaves
      <3> QED
        BY <1>0, <2>1, <3>1, OneTouched
    <2>3. CASE s \in odd'
      BY <2>2, <2>3, Lost
    <2>4. CASE s \notin odd'
      <3>1. s \notin odd
        BY <2>1, <2>4 DEF Leaves
      <3>2. t \in Seq(ByteValues) /\ Len(t) = n /\ \A i \in 1 .. n : t[i] = Nul
        <4>1. t \in [1 .. n -> ByteValues]
          BY DEF ByteValues
        <4> QED
          BY <2>1, <4>1
      <3>3. Fill(mem[s], len[s], n, Nul) = Write(mem[s], len[s], t)
        <4>1. \A i \in Bytes : i >= len[s] /\ i < len[s] + n => t[i - len[s] + 1] = Nul
          BY <1>0, <2>1, <3>2 DEF Bytes
        <4> HIDE DEF t
        <4> QED
          BY <3>2, <4>1 DEF Fill, Write
      <3>4. /\ mem' = [mem EXCEPT ![s] = Write(mem[s], len[s], t)]
            /\ len' = [len EXCEPT ![s] = len[s] + Len(t)]
        BY <2>1, <3>2, <3>3
      <3>5. text' = [text EXCEPT ![s] = text[s] \o t]
        <4> HIDE DEF t
        <4> QED
          BY <1>0, <2>2, <2>4, <3>1, <3>2, <3>4, WriteSpells
      <3> QED
        BY <3>1, <3>5, TextBytes DEF Value!Next, Value!Extend, Value!Become
    <2> QED
      BY <2>3, <2>4
  <1>12. ASSUME NEW s \in Strings, NEW n \in Bytes, At(s, n)
         PROVE  Value!Next \/ text' = text
    <2>1. Leaves(s, Borrows(s), n >= alloc[s]) /\ UNCHANGED <<mem, len>>
      BY <1>12 DEF At
    <2> QED
      BY <2>1, Looked
  <1>13. ASSUME NEW s \in Strings, NEW z \in BOOLEAN, Reset(s, z)
         PROVE  Value!Next
    <2> DEFINE b == IF z THEN Fill(mem[s], 0, reserve[s], Nul) ELSE mem[s]
    <2>1. /\ len' = [len EXCEPT ![s] = 0] /\ mem' = [mem EXCEPT ![s] = b]
          /\ Leaves(s, FALSE, z /\ reserve[s] > alloc[s])
      BY <1>0, <1>13 DEF Reset, StringTypeOK
    <2>2. Touches(s) /\ len'[s] = Len(<< >>)
      <3>1. odd' \in {odd \cup {s}, odd, odd \ {s}}
        BY <2>1 DEF Leaves
      <3>2. Touches(s)
        <4> HIDE DEF b
        <4> QED
          BY <1>0, <2>1, <3>1, OneTouched
      <3> QED
        BY <1>0, <2>1, <3>2 DEF StringTypeOK
    <2>3. CASE s \in odd'
      BY <2>2, <2>3, Lost
    <2>4. CASE s \notin odd'
      <3>1. \A i \in 1 .. Len(<< >>) : mem'[s][i - 1] = << >>[i]
        OBVIOUS
      <3>2. text' = [text EXCEPT ![s] = << >>]
        BY <1>0, <2>2, <2>4, <3>1, Spells
      <3> QED
        BY <3>2 DEF Value!Next, Value!Clear, Value!Become
    <2> QED
      BY <2>3, <2>4
  <1>14. ASSUME NEW s \in Strings, NEW f \in Chars, NEW c \in Chars, ReplaceChar(s, f, c)
         PROVE  Value!Next
    <2>1. PICK n \in Bytes :
            /\ IsEnd(s, n)
            /\ mem' = [mem EXCEPT ![s] = [i \in Bytes |->
                          IF i < n /\ @[i] = f THEN c ELSE @[i]]]
      BY <1>14 DEF ReplaceChar
    <2>2. UNCHANGED len /\ Leaves(s, ~Marked(s), Ends(s) = {})
      BY <1>14 DEF ReplaceChar
    <2>3. Touches(s)
      <3>1. odd' \in {odd \cup {s}, odd, odd \ {s}} /\ len' = [len EXCEPT ![s] = len[s]]
        BY <1>0, <2>2 DEF Leaves, StringTypeOK
      <3> QED
        BY <1>0, <2>1, <3>1, OneTouched
    <2>4. CASE s \in odd'
      BY <2>3, <2>4, Lost
    <2>5. CASE s \notin odd'
      <3>1. s \notin odd /\ Marked(s)
        BY <2>2, <2>5 DEF Leaves
      <3>2. Ends(s) # {} /\ n <= len[s] /\ n \in Nat
        BY <2>1, <3>1, EndOfText DEF Bytes
      <3>3. /\ Prefix(mem[s], n) = Value!Visible(text[s])
            /\ DOMAIN Prefix(mem[s], n) = 1 .. n
        BY <2>1, <3>1, <3>2, VisiblePrefix DEF Prefix
      <3>4. /\ text[s] \in Seq(ByteValues) /\ Len(text[s]) = len[s] /\ Value!Known(s)
            /\ \A i \in 1 .. len[s] : text[s][i] = mem[s][i - 1]
        BY <3>1, TextBytes
      <3> DEFINE u == [i \in 1 .. Len(text[s]) |->
                    IF text[s][i] = f /\ i \in DOMAIN Value!Visible(text[s]) THEN c
                    ELSE text[s][i]]
      <3>5. u \in Seq(ByteValues) /\ Len(u) = len[s]
        <4>1. \A i \in 1 .. len[s] : text[s][i] \in ByteValues /\ c \in ByteValues
          BY <1>0, <3>4 DEF ByteValues
        <4>2. u \in [1 .. len[s] -> ByteValues]
          BY <3>4, <4>1
        <4> HIDE DEF u
        <4> QED
          BY <1>0, <4>2
      <3>6. \A i \in 1 .. Len(u) : mem'[s][i - 1] = u[i]
        <4> SUFFICES ASSUME NEW i \in 1 .. len[s] PROVE mem'[s][i - 1] = u[i]
          BY <3>5
        <4>1. i - 1 \in Bytes /\ i \in 1 .. Len(text[s])
          BY <1>0, <3>4 DEF Bytes
        <4>2. i - 1 < n <=> i \in DOMAIN Value!Visible(text[s])
          BY <3>2, <3>3
        <4>3. mem'[s][i - 1] = IF i - 1 < n /\ mem[s][i - 1] = f THEN c ELSE mem[s][i - 1]
          BY <1>0, <2>1, <4>1 DEF StringTypeOK
        <4>4. text[s][i] = mem[s][i - 1]
          BY <3>4
        <4> QED
          BY <4>1, <4>2, <4>3, <4>4
      <3>7. text' = [text EXCEPT ![s] = u]
        <4>1. len'[s] = Len(u)
          BY <2>2, <3>5
        <4> HIDE DEF u
        <4> QED
          BY <2>3, <2>5, <3>5, <3>6, <4>1, Spells
      <3> QED
        BY <3>4, <3>7 DEF Value!Next, Value!ReplaceChar, Value!Become
    <2> QED
      BY <2>4, <2>5
  <1>16. ASSUME NEW s \in Strings, SaveFile(s)
         PROVE  Value!Next \/ text' = text
    <2>1. Leaves(s, FALSE, len[s] > alloc[s]) /\ UNCHANGED <<mem, len>>
      BY <1>16 DEF SaveFile
    <2> QED
      BY <2>1, Looked
  <1>17. CASE UNCHANGED svars
    BY <1>17 DEF svars, text
  <1>18. CASE StringNext
    <2>1. PICK s \in Strings :
           \/ \E t \in Texts : \/ AppendText(s, t) \/ AssignText(s, t) \/ ReadFile(s, t)
                               \/ SetDataWithNewPointer(s, t)
                               \/ \E at \in Bytes : Copy(s, at, t)
           \/ \E r \in Strings : \/ AppendString(s, r) \/ PlusString(s, r)
                                 \/ Assign(s, r) \/ AssignPointer(s, r)
           \/ \E n \in Bytes : AddReserveSize(s, n) \/ ReserveBlock(s, n) \/ At(s, n)
           \/ \E z \in BOOLEAN : Reset(s, z)
           \/ \E f, c \in Chars : ReplaceChar(s, f, c)
           \/ Clear(s) \/ SaveFile(s)
      BY <1>18, Zenon DEF StringNext
    <2> QED
      BY <1>1, <1>2, <1>3, <1>4, <1>5, <1>6, <1>7, <1>8, <1>9, <1>10, <1>11, <1>12, <1>13,
         <1>14, <1>15, <1>16, <2>1
  <1> QED
    BY <1>17, <1>18

\* clsCString implements TextValue: growing, copying and reserving memory is not seen in the
\* texts of the objects, whatever the calls (append, +, +=, operator=, Replace, Copy,
\* ReadFile, ReserveBlock, Reset, Clear); only a string that is used in one of the six ways,
\* or made of such a one, loses its text, until it is given another.
THEOREM TextsAreValues == StringSpec => StringValue
  <1>1. StringInit => Value!Init
    BY StringInitValue
  <1>2. StringInv /\ StringInv' /\ [StringNext]_svars => [Value!Next]_text
    BY StringStepValue
  <1> QED
    BY <1>1, <1>2, StringInvariant, PTL DEF StringSpec, StringValue, Value!Spec
=============================================================================
