-------------------------- MODULE HashStream_proofs --------------------------
(***************************************************************************)
(* The proof that the streaming hashes feed the blocks of the padded       *)
(* message, for every block and word size, every cut of the message into   *)
(* chunks and every length of it. The argument: a context that has seen a  *)
(* message m holds the whole blocks of m and, at the front of its buffer,  *)
(* what is left of it (Feeds); an update keeps that (the lemmas ...Fed),   *)
(* since the rest stands in front of the new bytes (Grown); the final      *)
(* functions then write the one or two last blocks of the padded message   *)
(* (OneTail, TwoTail). The counters are digits in base Word.               *)
(***************************************************************************)
EXTENDS HashStream, TLAPS, SequenceTheorems

\* Division with rest, in the forms the arithmetic below needs.
LEMMA DivMod ==
  ASSUME NEW a \in Nat, NEW n \in Nat \ {0}
  PROVE  /\ a \div n \in Nat /\ a % n \in 0 .. n - 1
         /\ a = ((a \div n) * n) + (a % n)
  <1>1. a \div n \in Nat
    OBVIOUS
  <1>2. a % n \in 0 .. n - 1
    OBVIOUS
  <1>3. a = ((a \div n) * n) + (a % n)
    OBVIOUS
  <1> QED BY <1>1, <1>2, <1>3

\* The same with the bounds of each part.
LEMMA DivParts ==
  ASSUME NEW a \in Nat, NEW n \in Nat \ {0}
  PROVE  /\ a \div n \in Nat /\ (a \div n) * n \in 0 .. a /\ (a \div n) * n <= a
         /\ (a \div n) * n \in Nat
         /\ a % n \in Nat /\ a % n <= n - 1 /\ a % n <= a
         /\ a = ((a \div n) * n) + (a % n)
         /\ a - ((a \div n) * n) = a % n
  <1> DEFINE q == a \div n
             r == a % n
  <1>1. q \in Nat /\ r \in 0 .. n - 1 /\ a = (q * n) + r
    BY DivMod
  <1> HIDE DEF q, r
  <1>2. q * n \in Nat
    BY <1>1
  <1> DEFINE p == q * n
  <1> HIDE DEF p
  <1>3. p \in Nat /\ p \in 0 .. a /\ p <= a /\ a - p = r /\ a = p + r
        /\ r \in Nat /\ r <= n - 1 /\ r <= a
    BY <1>1, <1>2 DEF p
  <1> QED BY <1>1, <1>3 DEF p, q, r

\* The quotient and the rest are the only ones.
LEMMA DivUnique ==
  ASSUME NEW q \in Nat, NEW n \in Nat \ {0}, NEW r \in 0 .. n - 1
  PROVE  ((q * n) + r) \div n = q /\ ((q * n) + r) % n = r
  OBVIOUS

\* Multiples of n add to the quotient alone.
LEMMA DivSum ==
  ASSUME NEW q \in Nat, NEW n \in Nat \ {0}, NEW a \in Nat
  PROVE  ((q * n) + a) \div n = q + (a \div n) /\ ((q * n) + a) % n = a % n
  <1> DEFINE p == a \div n
             r == a % n
  <1>1. p \in Nat /\ r \in 0 .. n - 1 /\ a = (p * n) + r
    BY DivMod
  <1>2. q + p \in Nat /\ (q * n) + a = ((q + p) * n) + r
    BY <1>1
  <1> HIDE DEF p, r
  <1>3. (((q + p) * n) + r) \div n = q + p /\ (((q + p) * n) + r) % n = r
    BY <1>1, <1>2, DivUnique
  <1> QED BY <1>2, <1>3 DEF p, r

\* A byte of the model is a position, a padding byte or a counter word.
Bytes == Seq(Int)

\* A length is a natural number.
LEMMA LenNat ==
  ASSUME NEW s \in Bytes
  PROVE  Len(s) \in Nat
  BY DEF Bytes

\* What Zeros returns.
LEMMA ZerosSeq ==
  ASSUME NEW n \in Nat
  PROVE  /\ Zeros(n) \in Bytes /\ Len(Zeros(n)) = n
         /\ \A i \in 1 .. n : Zeros(n)[i] = 0
  BY DEF Zeros, Bytes

\* What Chunk returns.
LEMMA ChunkSeq ==
  ASSUME NEW a \in Nat, NEW n \in Nat
  PROVE  /\ Chunk(a, n) \in Bytes /\ Len(Chunk(a, n)) = n
         /\ \A i \in 1 .. n : Chunk(a, n)[i] = a + i
  BY DEF Chunk, Bytes

\* What Put returns.
LEMMA PutSeq ==
  ASSUME NEW b \in Bytes, NEW at \in Nat, NEW d \in Bytes
  PROVE  /\ Put(b, at, d) \in Bytes /\ Len(Put(b, at, d)) = Len(b)
         /\ \A i \in 1 .. Len(b) :
              Put(b, at, d)[i] = IF i > at /\ i <= at + Len(d) THEN d[i - at] ELSE b[i]
  <1>1. DOMAIN b = 1 .. Len(b) /\ Len(b) \in Nat /\ Len(d) \in Nat
    BY DEF Bytes
  <1>2. \A i \in 1 .. Len(b) : b[i] \in Int
    BY ElementOfSeq DEF Bytes
  <1>3. \A i \in 1 .. Len(d) : d[i] \in Int
    BY ElementOfSeq DEF Bytes
  <1>4. \A i \in 1 .. Len(b) : i > at /\ i <= at + Len(d) => i - at \in 1 .. Len(d)
    BY <1>1
  <1> QED BY <1>1, <1>2, <1>3, <1>4 DEF Put, Bytes

\* What Drop returns.
LEMMA DropSeq ==
  ASSUME NEW s \in Bytes, NEW n \in 0 .. Len(s)
  PROVE  /\ Drop(s, n) \in Bytes /\ Len(Drop(s, n)) = Len(s) - n
         /\ \A i \in 1 .. Len(s) - n : Drop(s, n)[i] = s[n + i]
  <1>1. Len(s) \in Nat /\ \A i \in 1 .. Len(s) : s[i] \in Int
    BY ElementOfSeq DEF Bytes
  <1>2. /\ SubSeq(s, n + 1, Len(s)) \in Seq(Int)
        /\ Len(SubSeq(s, n + 1, Len(s)))
             = IF n + 1 <= Len(s) THEN Len(s) - (n + 1) + 1 ELSE 0
        /\ \A i \in 1 .. Len(s) - (n + 1) + 1 :
             SubSeq(s, n + 1, Len(s))[i] = s[(n + 1) + i - 1]
    BY <1>1, SubSeqProperties
  <1> QED BY <1>1, <1>2 DEF Drop, Bytes

\* What SubSeq returns.
LEMMA SubSeqSeq ==
  ASSUME NEW s \in Bytes, NEW m \in 1 .. Len(s) + 1, NEW n \in m - 1 .. Len(s)
  PROVE  /\ SubSeq(s, m, n) \in Bytes /\ Len(SubSeq(s, m, n)) = n - m + 1
         /\ \A i \in 1 .. n - m + 1 : SubSeq(s, m, n)[i] = s[(m - 1) + i]
  <1>1. Len(s) \in Nat /\ \A i \in 1 .. Len(s) : s[i] \in Int
    BY ElementOfSeq DEF Bytes
  <1>2. /\ SubSeq(s, m, n) \in Seq(Int)
        /\ Len(SubSeq(s, m, n)) = IF m <= n THEN n - m + 1 ELSE 0
        /\ \A i \in 1 .. n - m + 1 : SubSeq(s, m, n)[i] = s[m + i - 1]
    BY <1>1, SubSeqProperties
  <1> QED BY <1>1, <1>2 DEF Bytes

\* What a concatenation returns.
LEMMA ConcatSeq ==
  ASSUME NEW s \in Bytes, NEW t \in Bytes
  PROVE  /\ s \o t \in Bytes /\ Len(s \o t) = Len(s) + Len(t)
         /\ \A i \in 1 .. Len(s) : (s \o t)[i] = s[i]
         /\ \A i \in 1 .. Len(t) : (s \o t)[Len(s) + i] = t[i]
  BY ConcatProperties DEF Bytes

\* Sequences are equal if their lengths and elements are.
LEMMA SameBytes ==
  ASSUME NEW s \in Bytes, NEW t \in Bytes, Len(s) = Len(t),
         \A i \in 1 .. Len(s) : s[i] = t[i]
  PROVE  s = t
  BY SeqEqual DEF Bytes

\* x is the n bytes of s behind the first c.
Piece(x, s, c, n) ==
  x \in Bytes /\ Len(x) = n /\ \A i \in 1 .. n : x[i] = s[c + i]

\* A piece of a sequence is determined by its place and its length.
LEMMA SamePiece ==
  ASSUME NEW x, NEW y, NEW s, NEW c, NEW n, Piece(x, s, c, n), Piece(y, s, c, n)
  PROVE  x = y
  <1>1. x \in Bytes /\ y \in Bytes /\ Len(x) = n /\ Len(y) = n /\ \A i \in 1 .. n : x[i] = y[i]
    BY Zenon DEF Piece
  <1> QED BY <1>1, SameBytes

\* SubSeq returns a piece.
LEMMA PieceSeq ==
  ASSUME NEW s \in Bytes, NEW c \in Nat, NEW n \in Nat, c + n <= Len(s)
  PROVE  Piece(SubSeq(s, c + 1, c + n), s, c, n)
  <1>1. Len(s) \in Nat
    BY DEF Bytes
  <1>2. c + 1 \in 1 .. Len(s) + 1 /\ c + n \in (c + 1) - 1 .. Len(s)
        /\ (c + n) - (c + 1) + 1 = n /\ (c + 1) - 1 = c
    BY <1>1
  <1>3. PICK x : x = SubSeq(s, c + 1, c + n)
    OBVIOUS
  <1>4. /\ x \in Bytes /\ Len(x) = (c + n) - (c + 1) + 1
        /\ \A i \in 1 .. (c + n) - (c + 1) + 1 : x[i] = s[((c + 1) - 1) + i]
    BY <1>2, <1>3, SubSeqSeq, Zenon
  <1>5. x \in Bytes /\ Len(x) = n /\ \A i \in 1 .. n : x[i] = s[c + i]
    BY <1>2, <1>4, Zenon
  <1> QED BY <1>3, <1>5, Zenon DEF Piece

\* The k-th block of n.
LEMMA BlockSeq ==
  ASSUME NEW s \in Bytes, NEW n \in Nat \ {0}, NEW k \in Nat \ {0}, k * n <= Len(s)
  PROVE  Piece(SubSeq(s, ((k - 1) * n) + 1, k * n), s, (k - 1) * n, n)
  <1>1. (k - 1) * n \in Nat /\ k * n = ((k - 1) * n) + n
    OBVIOUS
  <1>2. PICK c : c = (k - 1) * n
    OBVIOUS
  <1>3. PICK z : z = k * n
    OBVIOUS
  <1>4. c \in Nat /\ z = c + n /\ c + n <= Len(s)
    BY <1>1, <1>2, <1>3
  <1>5. Piece(SubSeq(s, c + 1, c + n), s, c, n)
    BY <1>4, PieceSeq
  <1> QED BY <1>2, <1>3, <1>4, <1>5

\* What Cut returns.
IsCut(u, s, n, q) ==
  /\ u \in Seq(Bytes) /\ Len(u) = q
  /\ \A k \in 1 .. q : Piece(u[k], s, (k - 1) * n, n)

\* Cut returns the blocks of a sequence.
LEMMA CutSeq ==
  ASSUME NEW s \in Bytes, NEW n \in Nat \ {0}
  PROVE  /\ IsCut(Cut(s, n), s, n, Len(s) \div n) /\ Cut(s, n) \in Seq(Bytes)
         /\ Len(Cut(s, n)) = Len(s) \div n
  <1>0. Len(s) \in Nat
    BY DEF Bytes
  <1> PICK q : q = Len(s) \div n
    OBVIOUS
  <1>1. q \in Nat /\ q * n <= Len(s)
    BY <1>0, DivParts
  <1> DEFINE B(k) == SubSeq(s, ((k - 1) * n) + 1, k * n)
  <1>2. ASSUME NEW k \in 1 .. q
        PROVE  B(k) \in Bytes /\ Piece(B(k), s, (k - 1) * n, n)
    <2>1. k \in Nat \ {0} /\ k * n <= Len(s)
      BY <1>0, <1>1
    <2>2. Piece(B(k), s, (k - 1) * n, n)
      BY <2>1, BlockSeq
    <2> HIDE DEF B
    <2> QED BY <2>2 DEF Piece
  <1>3. Cut(s, n) = [k \in 1 .. q |-> B(k)]
    BY DEF Cut
  <1> HIDE DEF B
  <1>4. /\ Cut(s, n) \in Seq(Bytes) /\ Len(Cut(s, n)) = q
        /\ \A k \in 1 .. q : Cut(s, n)[k] = B(k)
    <2>1. [k \in 1 .. q |-> B(k)] \in [1 .. q -> Bytes]
      BY <1>2
    <2>2. [k \in 1 .. q |-> B(k)] \in Seq(Bytes)
      BY <1>1, <2>1
    <2>3. Len([k \in 1 .. q |-> B(k)]) = q
      BY <1>1
    <2> QED BY <1>3, <2>2, <2>3
  <1>5. \A k \in 1 .. q : Piece(Cut(s, n)[k], s, (k - 1) * n, n)
    BY <1>2, <1>4
  <1> QED BY <1>4, <1>5 DEF IsCut

\* Rest returns the piece behind them.
LEMMA RestSeq ==
  ASSUME NEW s \in Bytes, NEW n \in Nat \ {0}
  PROVE  /\ Piece(Rest(s, n), s, (Len(s) \div n) * n, Len(s) % n)
         /\ Rest(s, n) \in Bytes /\ Len(Rest(s, n)) = Len(s) % n
  <1>0. Len(s) \in Nat
    BY DEF Bytes
  <1>1. PICK a : a = (Len(s) \div n) * n
    OBVIOUS
  <1>2. PICK r : r = Len(s) % n
    OBVIOUS
  <1>3. a \in 0 .. Len(s) /\ Len(s) - a = r
    BY <1>0, <1>1, <1>2, DivParts
  <1>4. /\ Drop(s, a) \in Bytes /\ Len(Drop(s, a)) = r
        /\ \A i \in 1 .. r : Drop(s, a)[i] = s[a + i]
    BY <1>0, <1>3, DropSeq
  <1> QED BY <1>1, <1>2, <1>4 DEF Rest, Piece

\* Pieces of sequences that agree in a place.
LEMMA MovedPiece ==
  ASSUME NEW x, NEW s, NEW t, NEW c, NEW d, NEW n,
         Piece(x, s, c, n), \A i \in 1 .. n : s[c + i] = t[d + i]
  PROVE  Piece(x, t, d, n)
  BY Zenon DEF Piece

\* The blocks of a sequence are determined.
LEMMA SameCut ==
  ASSUME NEW u, NEW v, NEW s, NEW n, NEW q, IsCut(u, s, n, q), IsCut(v, s, n, q)
  PROVE  u = v
  <1>1. \A k \in 1 .. q : u[k] = v[k]
    <2> SUFFICES ASSUME NEW k \in 1 .. q PROVE u[k] = v[k]
      OBVIOUS
    <2>1. Piece(u[k], s, (k - 1) * n, n) /\ Piece(v[k], s, (k - 1) * n, n)
      BY Zenon DEF IsCut
    <2> QED BY <2>1, SamePiece, Zenon
  <1>2. u \in Seq(Bytes) /\ v \in Seq(Bytes) /\ Len(u) = q /\ Len(v) = q
    BY DEF IsCut
  <1> QED BY <1>1, <1>2, SeqEqual

\* A sequence is what stands in front of a place and what stands behind it.
LEMMA SplitAt ==
  ASSUME NEW s \in Bytes, NEW a \in 0 .. Len(s)
  PROVE  /\ SubSeq(s, 1, a) \in Bytes /\ Len(SubSeq(s, 1, a)) = a
         /\ \A i \in 1 .. a : SubSeq(s, 1, a)[i] = s[i]
         /\ s = SubSeq(s, 1, a) \o Drop(s, a)
  <1>1. Len(s) \in Nat /\ s \in Seq(Int)
    BY DEF Bytes
  <1>2. SubSeq(s, 1, a) \o SubSeq(s, a + 1, Len(s)) = SubSeq(s, 1, Len(s))
    <2>1. 1 \in 1 .. Len(s) + 1 /\ a \in 1 - 1 .. Len(s) /\ Len(s) \in a .. Len(s)
      BY <1>1
    <2> QED BY <1>1, <2>1, ConcatAdjacentSubSeq, Zenon
  <1>3. SubSeq(s, 1, Len(s)) = s
    BY <1>1, SubSeqFull
  <1>4. /\ SubSeq(s, 1, a) \in Bytes /\ Len(SubSeq(s, 1, a)) = a
        /\ \A i \in 1 .. a : SubSeq(s, 1, a)[i] = s[i]
    <2>1. a - 1 + 1 = a /\ \A i \in 1 .. a : (1 - 1) + i = i
      BY <1>1
    <2> QED BY <1>1, <2>1, SubSeqSeq
  <1> QED BY <1>2, <1>3, <1>4 DEF Drop

\* The k-th of q blocks lies within them.
LEMMA BlockPlace ==
  ASSUME NEW n \in Nat \ {0}, NEW q \in Nat, NEW k \in 1 .. q
  PROVE  (k - 1) * n \in Nat /\ ((k - 1) * n) + n <= q * n
  OBVIOUS

\* The place of a block behind p others.
LEMMA PlaceSum ==
  ASSUME NEW n \in Nat, NEW p \in Int, NEW q \in Int
  PROVE  (p + q) * n = (p * n) + (q * n)
  OBVIOUS

\* Sequences with the same first bytes have the same first blocks.
LEMMA CutFront ==
  ASSUME NEW s \in Bytes, NEW t \in Bytes, NEW n \in Nat \ {0}, NEW q \in Nat, NEW u,
         IsCut(u, s, n, q), \A i \in 1 .. q * n : s[i] = t[i]
  PROVE  IsCut(u, t, n, q)
  <1> SUFFICES ASSUME NEW k \in 1 .. q PROVE Piece(u[k], t, (k - 1) * n, n)
    BY DEF IsCut
  <1>1. Piece(u[k], s, (k - 1) * n, n)
    BY DEF IsCut
  <1>2. ASSUME NEW i \in 1 .. n PROVE s[((k - 1) * n) + i] = t[((k - 1) * n) + i]
    <2>1. (k - 1) * n \in Nat /\ ((k - 1) * n) + n <= q * n /\ q * n \in Nat
      BY BlockPlace
    <2>2. ((k - 1) * n) + i \in 1 .. q * n
      BY <2>1
    <2> QED BY <2>2
  <1> QED BY <1>1, <1>2, MovedPiece, Zenon

\* The blocks of a sequence are those of its whole part.
Whole(s, n) == SubSeq(s, 1, (Len(s) \div n) * n)

\* A sequence is its whole blocks and the rest.
LEMMA WholeAndRest ==
  ASSUME NEW s \in Bytes, NEW n \in Nat \ {0}
  PROVE  /\ Whole(s, n) \in Bytes /\ Len(Whole(s, n)) % n = 0
         /\ s = Whole(s, n) \o Rest(s, n)
         /\ Cut(Whole(s, n), n) = Cut(s, n)
  <1>0. Len(s) \in Nat
    BY DEF Bytes
  <1>1. PICK q : q = Len(s) \div n
    OBVIOUS
  <1>2. q \in Nat /\ q * n \in 0 .. Len(s) /\ q * n \in Nat
    BY <1>0, <1>1, DivParts
  <1>3. PICK w : w = SubSeq(s, 1, q * n)
    OBVIOUS
  <1>4. /\ w \in Bytes /\ Len(w) = q * n /\ s = w \o Drop(s, q * n)
        /\ \A i \in 1 .. q * n : w[i] = s[i]
    BY <1>2, <1>3, SplitAt, Zenon
  <1>5. Len(w) % n = 0 /\ Len(w) \div n = q
    <2>1. ((q * n) + 0) \div n = q /\ ((q * n) + 0) % n = 0
      <3>1. 0 \in 0 .. n - 1
        OBVIOUS
      <3> QED BY <1>2, <3>1, DivUnique, Zenon
    <2>2. (q * n) + 0 = Len(w)
      BY <1>2, <1>4
    <2> QED BY <2>1, <2>2
  <1>6. Cut(w, n) = Cut(s, n)
    <2>1. IsCut(Cut(w, n), w, n, q)
      <3>1. IsCut(Cut(w, n), w, n, Len(w) \div n)
        BY <1>4, CutSeq
      <3> QED BY <1>5, <3>1
    <2>2. IsCut(Cut(s, n), s, n, q)
      BY <1>1, CutSeq
    <2>3. IsCut(Cut(w, n), s, n, q)
      BY <1>2, <1>4, <2>1, CutFront, Zenon
    <2> QED BY <2>2, <2>3, SameCut
  <1> QED BY <1>1, <1>3, <1>4, <1>5, <1>6 DEF Whole, Rest

\* Pieces that lie in the first or in the second part of a concatenation.
LEMMA FrontPiece ==
  ASSUME NEW a \in Bytes, NEW b \in Bytes, NEW x, NEW c \in Nat, NEW n \in Nat,
         Piece(x, a, c, n), c + n <= Len(a)
  PROVE  Piece(x, a \o b, c, n)
  <1>1. Len(a) \in Nat /\ \A i \in 1 .. Len(a) : (a \o b)[i] = a[i]
    BY ConcatSeq DEF Bytes
  <1>2. ASSUME NEW i \in 1 .. n PROVE a[c + i] = (a \o b)[c + i]
    <2>1. c + i \in 1 .. Len(a)
      BY <1>1
    <2> QED BY <1>1, <2>1
  <1> QED BY <1>2, MovedPiece, Zenon

\* The same for the second part.
LEMMA BackPiece ==
  ASSUME NEW a \in Bytes, NEW b \in Bytes, NEW x, NEW c \in Nat, NEW d \in Nat, NEW n \in Nat,
         Piece(x, b, c, n), c + n <= Len(b), d = Len(a) + c
  PROVE  Piece(x, a \o b, d, n)
  <1>1. Len(a) \in Nat /\ Len(b) \in Nat /\ \A i \in 1 .. Len(b) : (a \o b)[Len(a) + i] = b[i]
    BY ConcatSeq DEF Bytes
  <1>2. ASSUME NEW i \in 1 .. n PROVE b[c + i] = (a \o b)[d + i]
    <2>1. c + i \in 1 .. Len(b) /\ d + i = Len(a) + (c + i)
      BY <1>1
    <2> QED BY <1>1, <2>1
  <1> QED BY <1>2, MovedPiece, Zenon

\* The lengths of two sequences, the first one of whole blocks.
LEMMA BlockCounts ==
  ASSUME NEW n \in Nat \ {0}, NEW l \in Nat, NEW m \in Nat, l % n = 0
  PROVE  /\ (l + m) \div n = (l \div n) + (m \div n) /\ (l + m) % n = m % n
         /\ l = (l \div n) * n
  <1>1. PICK p : p = l \div n
    OBVIOUS
  <1>2. p \in Nat /\ l = (p * n) + 0
    BY <1>1, DivMod
  <1>3. p * n \in Nat
    BY <1>2
  <1>4. l = p * n
    BY <1>2, <1>3
  <1>5. ((p * n) + m) \div n = p + (m \div n) /\ ((p * n) + m) % n = m % n
    BY <1>2, DivSum, Zenon
  <1> QED BY <1>1, <1>4, <1>5

\* The k-th block of the second part.
LEMMA PlaceBehind ==
  ASSUME NEW n \in Nat \ {0}, NEW p \in Nat, NEW k \in Nat, NEW j \in Nat, k = p + j
  PROVE  (k - 1) * n = (p * n) + ((j - 1) * n)
  <1>1. k - 1 = p + (j - 1)
    OBVIOUS
  <1>2. (p + (j - 1)) * n = (p * n) + ((j - 1) * n)
    BY PlaceSum
  <1> QED BY <1>1, <1>2

\* The blocks of a message of p whole blocks in front of those of another one.
LEMMA JoinedCut ==
  ASSUME NEW a \in Bytes, NEW b \in Bytes, NEW n \in Nat \ {0}, NEW p \in Nat, NEW q \in Nat,
         NEW u, NEW v, IsCut(u, a, n, p), IsCut(v, b, n, q), Len(a) = p * n, q * n <= Len(b)
  PROVE  IsCut(u \o v, a \o b, n, p + q)
  <1>1. /\ u \in Seq(Bytes) /\ Len(u) = p /\ v \in Seq(Bytes) /\ Len(v) = q
        /\ \A k \in 1 .. p : Piece(u[k], a, (k - 1) * n, n)
        /\ \A k \in 1 .. q : Piece(v[k], b, (k - 1) * n, n)
    BY Zenon DEF IsCut
  <1>2. /\ u \o v \in Seq(Bytes) /\ Len(u \o v) = p + q
        /\ \A k \in 1 .. p + q : (u \o v)[k] = IF k <= p THEN u[k] ELSE v[k - p]
    BY <1>1, ConcatProperties, ZenonT(60)
  <1>3. ASSUME NEW k \in 1 .. p + q PROVE Piece((u \o v)[k], a \o b, (k - 1) * n, n)
    <2>1. CASE k <= p
      <3>1. k \in 1 .. p /\ n \in Nat /\ (u \o v)[k] = u[k]
        BY <1>2, <2>1
      <3>2. (k - 1) * n \in Nat /\ ((k - 1) * n) + n <= Len(a)
        BY <3>1, BlockPlace
      <3>3. Piece(u[k], a, (k - 1) * n, n)
        BY <1>1, <3>1, Zenon
      <3>4. Piece(u[k], a \o b, (k - 1) * n, n)
        BY <3>1, <3>2, <3>3, FrontPiece, Zenon
      <3> QED BY <3>1, <3>4, Zenon
    <2>2. CASE ~(k <= p)
      <3>1. PICK j : j = k - p
        OBVIOUS
      <3>2. j \in 1 .. q /\ n \in Nat /\ k \in Nat /\ j \in Nat /\ k = p + j /\ (u \o v)[k] = v[j]
        BY <1>2, <2>2, <3>1
      <3>3. (j - 1) * n \in Nat /\ ((j - 1) * n) + n <= q * n
        BY <3>2, BlockPlace, Zenon
      <3>4. (k - 1) * n = Len(a) + ((j - 1) * n)
        <4>1. (k - 1) * n = (p * n) + ((j - 1) * n)
          BY <3>2, PlaceBehind
        <4> QED BY <4>1
      <3>5. Len(a) \in Nat /\ Len(b) \in Nat /\ q * n \in Nat
        BY DEF Bytes
      <3>6. (k - 1) * n \in Nat /\ ((j - 1) * n) + n <= Len(b)
        BY <3>3, <3>4, <3>5
      <3>7. Piece(v[j], b, (j - 1) * n, n)
        BY <1>1, <3>2, Zenon
      <3>8. Piece(v[j], a \o b, (k - 1) * n, n)
        BY <3>2, <3>3, <3>4, <3>6, <3>7, BackPiece, Zenon
      <3> QED BY <3>2, <3>8, Zenon
    <2> QED BY <2>1, <2>2
  <1> QED BY <1>2, <1>3, Zenon DEF IsCut

\* Behind whole blocks the blocks of a concatenation are those of its parts.
LEMMA CutConcat ==
  ASSUME NEW a \in Bytes, NEW b \in Bytes, NEW n \in Nat \ {0}, Len(a) % n = 0
  PROVE  /\ Cut(a \o b, n) = Cut(a, n) \o Cut(b, n)
         /\ Rest(a \o b, n) = Rest(b, n)
         /\ Len(a \o b) % n = Len(b) % n
  <1>0. Len(a) \in Nat /\ Len(b) \in Nat /\ Len(a \o b) = Len(a) + Len(b) /\ a \o b \in Bytes
    BY ConcatSeq DEF Bytes
  <1>1. PICK p : p = Len(a) \div n
    OBVIOUS
  <1>2. PICK q : q = Len(b) \div n
    OBVIOUS
  <1>3. PICK r : r = Len(b) % n
    OBVIOUS
  <1>4. /\ Len(a \o b) \div n = p + q /\ Len(a \o b) % n = r /\ Len(a) = p * n
    <2>1. /\ (Len(a) + Len(b)) \div n = (Len(a) \div n) + (Len(b) \div n)
          /\ (Len(a) + Len(b)) % n = Len(b) % n /\ Len(a) = (Len(a) \div n) * n
      BY <1>0, BlockCounts, Zenon
    <2> QED BY <1>0, <1>1, <1>2, <1>3, <2>1
  <1>5. p \in Nat /\ q \in Nat /\ r \in Nat /\ q * n \in Nat /\ Len(b) = (q * n) + r
    BY <1>0, <1>1, <1>2, <1>3, DivParts
  <1>6. q * n <= Len(b) /\ (q * n) + r <= Len(b) /\ Len(a) + (q * n) \in Nat
    BY <1>0, <1>5
  <1>7. IsCut(Cut(a, n), a, n, p) /\ IsCut(Cut(b, n), b, n, q)
    BY <1>1, <1>2, CutSeq
  <1>8. IsCut(Cut(a, n) \o Cut(b, n), a \o b, n, p + q)
    BY <1>4, <1>5, <1>6, <1>7, JoinedCut, Zenon
  <1>9. PICK s : s = a \o b
    OBVIOUS
  <1>10. s \in Bytes /\ Len(s) \div n = p + q /\ Len(s) % n = r
    BY <1>0, <1>4, <1>9
  <1>11. IsCut(Cut(s, n), s, n, p + q)
    BY <1>10, CutSeq
  <1>12. Piece(Rest(s, n), s, (p + q) * n, r)
    BY <1>10, RestSeq
  <1>13. Cut(s, n) = Cut(a, n) \o Cut(b, n)
    BY <1>8, <1>9, <1>11, SameCut
  <1>14. Rest(s, n) = Rest(b, n)
    <2>1. Piece(Rest(b, n), b, q * n, r)
      BY <1>2, <1>3, RestSeq
    <2>2. Piece(Rest(b, n), a \o b, Len(a) + (q * n), r)
      BY <1>5, <1>6, <2>1, BackPiece, Zenon
    <2>3. (p + q) * n = Len(a) + (q * n)
      BY <1>4, <1>5, PlaceSum
    <2> QED BY <1>9, <1>12, <2>2, <2>3, SamePiece
  <1> QED BY <1>3, <1>4, <1>9, <1>13, <1>14

\* A sequence is a piece of itself.
LEMMA WholePiece ==
  ASSUME NEW s \in Bytes, NEW n \in Nat, Len(s) = n
  PROVE  Piece(s, s, 0, n)
  BY DEF Piece

\* A sequence shorter than a block, one of one block, one of two blocks.
LEMMA CutShort ==
  ASSUME NEW s \in Bytes, NEW n \in Nat \ {0}, Len(s) < n
  PROVE  Cut(s, n) = <<>> /\ Rest(s, n) = s /\ Len(s) % n = Len(s)
  <1>0. Len(s) \in Nat
    BY DEF Bytes
  <1>1. Len(s) \div n = 0 /\ Len(s) % n = Len(s)
    <2>1. Len(s) \in 0 .. n - 1 /\ (0 * n) + Len(s) = Len(s)
      BY <1>0
    <2> QED BY <2>1, DivUnique
  <1>2. Piece(Rest(s, n), s, 0, Len(s))
    <2>1. 0 * n = 0
      OBVIOUS
    <2> QED BY <1>1, <2>1, RestSeq
  <1>3. Piece(s, s, 0, Len(s))
    BY <1>0, WholePiece
  <1>4. Cut(s, n) \in Seq(Bytes) /\ Len(Cut(s, n)) = 0
    BY <1>1, CutSeq
  <1>5. Cut(s, n) = <<>>
    BY <1>4, EmptySeq
  <1> QED BY <1>1, <1>2, <1>3, <1>5, SamePiece

\* A sequence of one block.
LEMMA CutOne ==
  ASSUME NEW s \in Bytes, NEW n \in Nat \ {0}, NEW x, Len(s) = n, Piece(x, s, 0, n)
  PROVE  Cut(s, n) = <<x>> /\ Len(s) % n = 0
  <1>1. Len(s) \div n = 1 /\ Len(s) % n = 0
    <2>1. 0 \in 0 .. n - 1 /\ (1 * n) + 0 = Len(s)
      OBVIOUS
    <2> QED BY <2>1, DivUnique
  <1>2. x \in Bytes
    BY DEF Piece
  <1>3. IsCut(<<x>>, s, n, 1)
    <2>1. <<x>> \in Seq(Bytes) /\ Len(<<x>>) = 1 /\ <<x>>[1] = x
      BY <1>2
    <2>2. \A k \in 1 .. 1 : Piece(<<x>>[k], s, (k - 1) * n, n)
      <3>1. (1 - 1) * n = 0 /\ \A k \in 1 .. 1 : k = 1
        OBVIOUS
      <3> QED BY <2>1, <3>1
    <2> QED BY <2>1, <2>2 DEF IsCut
  <1>4. IsCut(Cut(s, n), s, n, 1)
    BY <1>1, CutSeq
  <1> QED BY <1>1, <1>3, <1>4, SameCut

\* A sequence of two blocks.
LEMMA CutTwo ==
  ASSUME NEW s \in Bytes, NEW n \in Nat \ {0}, NEW x, NEW y, Len(s) = 2 * n,
         Piece(x, s, 0, n), Piece(y, s, n, n)
  PROVE  Cut(s, n) = <<x, y>> /\ Len(s) % n = 0
  <1>1. Len(s) \div n = 2 /\ Len(s) % n = 0
    <2>1. 0 \in 0 .. n - 1 /\ (2 * n) + 0 = Len(s) /\ 2 \in Nat
      OBVIOUS
    <2>2. ((2 * n) + 0) \div n = 2 /\ ((2 * n) + 0) % n = 0
      BY <2>1, DivUnique, Zenon
    <2> QED BY <2>1, <2>2
  <1>2. x \in Bytes /\ y \in Bytes
    BY DEF Piece
  <1>3. IsCut(<<x, y>>, s, n, 2)
    <2>1. <<x, y>> \in Seq(Bytes) /\ Len(<<x, y>>) = 2 /\ <<x, y>>[1] = x /\ <<x, y>>[2] = y
      BY <1>2
    <2>2. \A k \in 1 .. 2 : Piece(<<x, y>>[k], s, (k - 1) * n, n)
      <3>1. (1 - 1) * n = 0 /\ (2 - 1) * n = n /\ \A k \in 1 .. 2 : k = 1 \/ k = 2
        OBVIOUS
      <3> QED BY <2>1, <3>1
    <2> QED BY <2>1, <2>2 DEF IsCut
  <1>4. IsCut(Cut(s, n), s, n, 2)
    BY <1>1, CutSeq
  <1> QED BY <1>1, <1>3, <1>4, SameCut

\* Concatenation is associative.
LEMMA ConcatAssoc ==
  ASSUME NEW s \in Bytes, NEW t \in Bytes, NEW u \in Bytes
  PROVE  (s \o t) \o u = s \o (t \o u)
  BY ConcatAssociative, SMTT(60) DEF Bytes

\* A message that grows: the rest of what came before stands in front of what is new.
LEMMA Grown ==
  ASSUME NEW m \in Bytes, NEW d \in Bytes, NEW n \in Nat \ {0}
  PROVE  /\ Cut(m \o d, n) = Cut(m, n) \o Cut(Rest(m, n) \o d, n)
         /\ Rest(m \o d, n) = Rest(Rest(m, n) \o d, n)
         /\ Len(m \o d) % n = Len(Rest(m, n) \o d) % n
         /\ Rest(m, n) \o d \in Bytes /\ Len(Rest(m, n) \o d) = (Len(m) % n) + Len(d)
  <1>1. PICK w : w = Whole(m, n)
    OBVIOUS
  <1>2. PICK t : t = Rest(m, n)
    OBVIOUS
  <1>3. w \in Bytes /\ Len(w) % n = 0 /\ m = w \o t /\ Cut(w, n) = Cut(m, n)
    BY <1>1, <1>2, WholeAndRest
  <1>4. t \in Bytes /\ Len(t) = Len(m) % n
    BY <1>2, RestSeq
  <1>5. t \o d \in Bytes /\ Len(t \o d) = Len(t) + Len(d)
    BY <1>4, ConcatSeq
  <1>6. m \o d = w \o (t \o d)
    <2>1. (w \o t) \o d = w \o (t \o d)
      BY <1>3, <1>4, ConcatAssoc, ZenonT(60)
    <2> QED BY <1>3, <2>1, Zenon
  <1>7. /\ Cut(w \o (t \o d), n) = Cut(w, n) \o Cut(t \o d, n)
        /\ Rest(w \o (t \o d), n) = Rest(t \o d, n)
        /\ Len(w \o (t \o d)) % n = Len(t \o d) % n
    BY <1>3, <1>5, CutConcat, Zenon
  <1>8. /\ Cut(m \o d, n) = Cut(m, n) \o Cut(t \o d, n)
        /\ Rest(m \o d, n) = Rest(t \o d, n)
        /\ Len(m \o d) % n = Len(t \o d) % n
    BY <1>3, <1>6, <1>7, Zenon
  <1> QED BY <1>2, <1>4, <1>5, <1>8, Zenon

\* Bytes put behind the first ones of a buffer.
LEMMA PutBehind ==
  ASSUME NEW t \in Bytes, NEW d \in Bytes, NEW buffer \in Bytes, NEW r \in Nat, Len(t) = r,
         Piece(t, buffer, 0, r), r + Len(d) <= Len(buffer)
  PROVE  Piece(t \o d, Put(buffer, r, d), 0, r + Len(d))
  <1>0. Len(d) \in Nat /\ Len(buffer) \in Nat
    BY DEF Bytes
  <1>1. \A i \in 1 .. Len(buffer) :
          Put(buffer, r, d)[i] = IF i > r /\ i <= r + Len(d) THEN d[i - r] ELSE buffer[i]
    BY PutSeq
  <1>2. /\ t \o d \in Bytes /\ Len(t \o d) = r + Len(d)
        /\ \A i \in 1 .. r : (t \o d)[i] = t[i]
        /\ \A i \in 1 .. Len(d) : (t \o d)[r + i] = d[i]
    BY ConcatSeq
  <1>3. \A i \in 1 .. r : t[i] = buffer[0 + i]
    BY DEF Piece
  <1>4. ASSUME NEW i \in 1 .. r + Len(d) PROVE (t \o d)[i] = Put(buffer, r, d)[0 + i]
    <2>1. i \in 1 .. Len(buffer) /\ 0 + i = i
      BY <1>0
    <2>2. CASE i <= r
      <3>1. i \in 1 .. r /\ Put(buffer, r, d)[i] = buffer[i]
        BY <1>0, <1>1, <2>1, <2>2
      <3> QED BY <1>2, <1>3, <2>1, <3>1
    <2>3. CASE i > r
      <3>1. PICK j : j = i - r
        OBVIOUS
      <3>2. j \in 1 .. Len(d) /\ i = r + j
        BY <1>0, <2>3, <3>1
      <3>3. Put(buffer, r, d)[i] = d[j]
        BY <1>0, <1>1, <2>1, <2>3, <3>1
      <3> QED BY <1>2, <2>1, <3>2, <3>3
    <2> QED BY <2>1, <2>2, <2>3
  <1> QED BY <1>2, <1>4 DEF Piece

\* A buffer of which all bytes are s is s.
LEMMA FullPiece ==
  ASSUME NEW s, NEW b \in Bytes, NEW n \in Nat, Len(b) = n, Piece(s, b, 0, n)
  PROVE  s = b
  BY WholePiece, SamePiece

\* A context that has seen m: its blocks are those of m, its buffer begins with the rest.
Feeds(digest, buffer, m, n) ==
  /\ digest = Cut(m, n)
  /\ buffer \in Bytes /\ Len(buffer) = n
  /\ Piece(Rest(m, n), buffer, 0, Len(m) % n)

\* The bytes d are added to the buffer and do not fill it.
LEMMA FeedPart ==
  ASSUME NEW m \in Bytes, NEW d \in Bytes, NEW n \in Nat \ {0}, NEW digest, NEW buffer,
         Feeds(digest, buffer, m, n), (Len(m) % n) + Len(d) < n
  PROVE  Feeds(digest, Put(buffer, Len(m) % n, d), m \o d, n)
  <1>1. PICK r : r = Len(m) % n
    OBVIOUS
  <1>2. r \in Nat
    BY <1>1, DivParts DEF Bytes
  <1>3. PICK e : e = Rest(m, n) \o d
    OBVIOUS
  <1>4. e \in Bytes /\ Len(e) = r + Len(d) /\ Len(e) < n
    BY <1>1, <1>3, Grown
  <1>5. Cut(e, n) = <<>> /\ Rest(e, n) = e /\ Len(e) % n = Len(e)
    BY <1>4, CutShort
  <1>6. Cut(m \o d, n) = Cut(m, n)
    <2>1. Cut(m \o d, n) = Cut(m, n) \o <<>>
      <3>1. Cut(m \o d, n) = Cut(m, n) \o Cut(Rest(m, n) \o d, n)
        BY Grown, Zenon
      <3> QED BY <1>3, <1>5, <3>1, Zenon
    <2>2. Cut(m, n) \in Seq(Bytes)
      BY CutSeq
    <2> QED BY <2>1, <2>2, ConcatEmptySeq
  <1>7. Rest(m \o d, n) = e /\ Len(m \o d) % n = Len(e)
    BY <1>3, <1>5, Grown
  <1>8. /\ buffer \in Bytes /\ Len(buffer) = n /\ Put(buffer, r, d) \in Bytes
        /\ Len(Put(buffer, r, d)) = n
        /\ \A i \in 1 .. n :
             Put(buffer, r, d)[i] = IF i > r /\ i <= r + Len(d) THEN d[i - r] ELSE buffer[i]
    BY <1>2, PutSeq DEF Feeds
  <1>9. Piece(e, Put(buffer, r, d), 0, Len(e))
    <2>1. PICK t : t = Rest(m, n)
      OBVIOUS
    <2>2. t \in Bytes /\ Len(t) = r /\ Piece(t, buffer, 0, r) /\ e = t \o d
      BY <1>1, <1>3, <2>1 DEF Feeds, Piece
    <2>3. r + Len(d) <= Len(buffer)
      BY <1>4, <1>8
    <2>4. Piece(t \o d, Put(buffer, r, d), 0, r + Len(d))
      BY <1>2, <1>8, <2>2, <2>3, PutBehind
    <2> QED BY <1>4, <2>2, <2>4
  <1> QED BY <1>1, <1>6, <1>7, <1>8, <1>9 DEF Feeds

\* The bytes d fill the buffer: it is the next block.
LEMMA FeedBlock ==
  ASSUME NEW m \in Bytes, NEW d \in Bytes, NEW n \in Nat \ {0}, NEW digest, NEW buffer,
         Feeds(digest, buffer, m, n), (Len(m) % n) + Len(d) = n
  PROVE  /\ Cut(m \o d, n) = Cut(m, n) \o <<Put(buffer, Len(m) % n, d)>>
         /\ Len(m \o d) % n = 0
         /\ Put(buffer, Len(m) % n, d) \in Bytes /\ Len(Put(buffer, Len(m) % n, d)) = n
  <1>1. PICK r : r = Len(m) % n
    OBVIOUS
  <1>2. r \in Nat
    BY <1>1, DivParts DEF Bytes
  <1>3. PICK t : t = Rest(m, n)
    OBVIOUS
  <1>4. t \in Bytes /\ Len(t) = r /\ Piece(t, buffer, 0, r)
    BY <1>1, <1>3 DEF Feeds, Piece
  <1>5. t \o d \in Bytes /\ Len(t \o d) = n
    <2>1. t \o d \in Bytes /\ Len(t \o d) = Len(t) + Len(d)
      BY <1>4, ConcatSeq, Zenon
    <2> QED BY <1>1, <1>4, <2>1
  <1>6. PICK x : x = Put(buffer, r, d)
    OBVIOUS
  <1>7. buffer \in Bytes /\ Len(buffer) = n /\ x \in Bytes /\ Len(x) = n
    BY <1>2, <1>6, PutSeq DEF Feeds
  <1>8. t \o d = x
    <2>1. Piece(t \o d, x, 0, n)
      <3>1. r + Len(d) <= Len(buffer) /\ r + Len(d) = n
        BY <1>1, <1>7
      <3> QED BY <1>2, <1>4, <1>6, <1>7, <3>1, PutBehind
    <2> QED BY <1>7, <2>1, FullPiece
  <1>9. Cut(t \o d, n) = <<x>> /\ Len(t \o d) % n = 0
    <2>1. Piece(x, x, 0, n)
      BY <1>7, WholePiece
    <2> QED BY <1>7, <1>8, <2>1, CutOne
  <1>10. Cut(m \o d, n) = Cut(m, n) \o Cut(t \o d, n) /\ Len(m \o d) % n = Len(t \o d) % n
    BY <1>3, Grown, Zenon
  <1> QED BY <1>1, <1>6, <1>7, <1>9, <1>10, Zenon

\* The bytes d behind whole blocks: their blocks are the next ones, what is left over
\* goes to the front of the buffer.
LEMMA FeedWhole ==
  ASSUME NEW m \in Bytes, NEW d \in Bytes, NEW n \in Nat \ {0}, NEW buffer \in Bytes,
         Len(buffer) = n, Len(m) % n = 0
  PROVE  Feeds(Cut(m, n) \o Cut(d, n), Put(buffer, 0, Rest(d, n)), m \o d, n)
  <1>1. /\ Cut(m \o d, n) = Cut(m, n) \o Cut(d, n) /\ Rest(m \o d, n) = Rest(d, n)
        /\ Len(m \o d) % n = Len(d) % n
    BY CutConcat
  <1>2. PICK t : t = Rest(d, n)
    OBVIOUS
  <1>3. PICK r : r = Len(d) % n
    OBVIOUS
  <1>4. t \in Bytes /\ Len(t) = r /\ r \in Nat /\ r <= n
    <2>1. Len(d) \in Nat
      BY DEF Bytes
    <2>2. r \in Nat /\ r <= n - 1
      BY <1>3, <2>1, DivParts
    <2> QED BY <1>2, <1>3, <2>2, RestSeq
  <1>5. Put(buffer, 0, t) \in Bytes /\ Len(Put(buffer, 0, t)) = n
    BY <1>4, PutSeq
  <1>6. Piece(t, Put(buffer, 0, t), 0, r)
    <2>1. <<>> \in Bytes /\ Len(<<>>) = 0 /\ Piece(<<>>, buffer, 0, 0)
      BY DEF Bytes, Piece
    <2>2. Piece(<<>> \o t, Put(buffer, 0, t), 0, 0 + Len(t))
      <3>1. 0 + Len(t) <= Len(buffer) /\ 0 \in Nat
        BY <1>4
      <3> QED BY <1>4, <2>1, <3>1, PutBehind
    <2>3. <<>> \o t = t /\ 0 + Len(t) = r
      BY <1>4, ConcatEmptySeq DEF Bytes
    <2> QED BY <2>2, <2>3
  <1> QED BY <1>1, <1>2, <1>3, <1>5, <1>6 DEF Feeds

\* An update in general: the bytes fill the buffer up first, if it has some.
LEMMA FeedThrough ==
  ASSUME NEW m \in Bytes, NEW d \in Bytes, NEW n \in Nat \ {0}, NEW digest, NEW buffer,
         Feeds(digest, buffer, m, n), (Len(m) % n) + Len(d) >= n,
         NEW room, room = n - (Len(m) % n), NEW under \in Bytes, Len(under) = n
  PROVE  /\ Feeds((digest \o <<Put(buffer, Len(m) % n, SubSeq(d, 1, room))>>)
                    \o Cut(Drop(d, room), n),
                  Put(under, 0, Rest(Drop(d, room), n)), m \o d, n)
         /\ Drop(d, room) \in Bytes
         /\ Put(buffer, Len(m) % n, SubSeq(d, 1, room)) \in Bytes
         /\ Len(Put(buffer, Len(m) % n, SubSeq(d, 1, room))) = n
  <1>1. PICK r : r = Len(m) % n
    OBVIOUS
  <1>2. r \in Nat /\ r <= n - 1
    <2>1. Len(m) \in Nat
      BY DEF Bytes
    <2> QED BY <1>1, <2>1, DivParts
  <1>3. room \in 0 .. Len(d)
    <2>1. Len(d) \in Nat
      BY DEF Bytes
    <2> QED BY <1>1, <1>2, <2>1
  <1>4. PICK a : a = SubSeq(d, 1, room)
    OBVIOUS
  <1>5. PICK b : b = Drop(d, room)
    OBVIOUS
  <1>6. a \in Bytes /\ Len(a) = room /\ b \in Bytes /\ d = a \o b
    <2>1. /\ SubSeq(d, 1, room) \in Bytes /\ Len(SubSeq(d, 1, room)) = room
          /\ d = SubSeq(d, 1, room) \o Drop(d, room)
      BY <1>3, SplitAt, Zenon
    <2>2. Drop(d, room) \in Bytes
      BY <1>3, DropSeq, Zenon
    <2> QED BY <1>4, <1>5, <2>1, <2>2, Zenon
  <1>7. r + Len(a) = n
    BY <1>1, <1>2, <1>6
  <1>8. PICK x : x = Put(buffer, r, a)
    OBVIOUS
  <1>9. Cut(m \o a, n) = Cut(m, n) \o <<x>> /\ Len(m \o a) % n = 0 /\ x \in Bytes /\ Len(x) = n
    BY <1>1, <1>6, <1>7, <1>8, FeedBlock
  <1>10. m \o a \in Bytes /\ (m \o a) \o b = m \o d
    <2>1. (m \o a) \o b = m \o (a \o b)
      BY <1>6, ConcatAssoc, ZenonT(60)
    <2>2. m \o a \in Bytes
      BY <1>6, ConcatSeq, Zenon
    <2> QED BY <1>6, <2>1, <2>2, Zenon
  <1>11. Feeds(Cut(m \o a, n) \o Cut(b, n), Put(under, 0, Rest(b, n)), (m \o a) \o b, n)
    BY <1>6, <1>9, <1>10, FeedWhole
  <1>12. digest = Cut(m, n)
    BY DEF Feeds
  <1>13. Feeds((digest \o <<x>>) \o Cut(b, n), Put(under, 0, Rest(b, n)), m \o d, n)
    BY <1>9, <1>10, <1>11, <1>12, Zenon
  <1> QED BY <1>1, <1>4, <1>5, <1>6, <1>8, <1>9, <1>13, Zenon

-----------------------------------------------------------------------------
\* The rest of a sum.
LEMMA ModAdd ==
  ASSUME NEW a \in Nat, NEW b \in Nat, NEW w \in Nat \ {0}
  PROVE  ((a % w) + b) % w = (a + b) % w
  <1>1. PICK q : q = a \div w
    OBVIOUS
  <1>2. PICK t : t = a % w
    OBVIOUS
  <1>3. q \in Nat /\ t \in Nat /\ a = (q * w) + t
    BY <1>1, <1>2, DivMod
  <1>4. ((q * w) + (t + b)) % w = (t + b) % w
    <2>1. t + b \in Nat
      BY <1>3
    <2> QED BY <1>3, <2>1, DivSum, ZenonT(60)
  <1>5. a + b = (q * w) + (t + b)
    BY <1>3
  <1> QED BY <1>2, <1>4, <1>5

\* A rest modulo a multiple of n keeps the rest modulo n.
LEMMA ModMod ==
  ASSUME NEW a \in Nat, NEW n \in Nat \ {0}, NEW w \in Nat \ {0}, w % n = 0
  PROVE  (a % w) % n = a % n
  <1>1. PICK q : q = a \div w
    OBVIOUS
  <1>2. PICK t : t = a % w
    OBVIOUS
  <1>3. PICK j : j = w \div n
    OBVIOUS
  <1>4. q \in Nat /\ t \in Nat /\ a = (q * w) + t
    BY <1>1, <1>2, DivMod
  <1>5. j \in Nat /\ w = j * n
    <2>1. j \in Nat /\ w = (j * n) + 0
      BY <1>3, DivMod
    <2>2. j * n \in Nat
      BY <2>1
    <2> QED BY <2>1, <2>2
  <1>6. q * w = (q * j) * n /\ q * j \in Nat
    BY <1>4, <1>5
  <1>7. (((q * j) * n) + t) % n = t % n
    <2>1. PICK p : p = q * j
      OBVIOUS
    <2>2. ((p * n) + t) % n = t % n
      BY <1>4, <1>6, <2>1, DivSum
    <2> QED BY <2>1, <2>2
  <1> QED BY <1>2, <1>4, <1>6, <1>7

\* What divides without rest is a factor.
LEMMA Multiple ==
  ASSUME NEW n \in Nat \ {0}, NEW w \in Nat \ {0}, w % n = 0
  PROVE  \E j \in Nat \ {0} : w = j * n
  <1>1. PICK j : j = w \div n
    OBVIOUS
  <1>2. j \in Nat /\ w = (j * n) + 0
    BY <1>1, DivMod
  <1>3. j * n \in Nat /\ (j = 0 => j * n = 0)
    BY <1>2
  <1>4. w = j * n /\ j # 0
    BY <1>2, <1>3
  <1> QED BY <1>2, <1>4

\* A counter word holds whole blocks, also when it counts bits.
LEMMA WordParts ==
  \E v \in Nat \ {0} : Word = 8 * v /\ Word \div 8 = v /\ v % Block = 0 /\ Word % Block = 0
  <1>1. Block \in Nat \ {0} /\ 8 * Block \in Nat \ {0} /\ Word \in Nat \ {0}
        /\ Word % (8 * Block) = 0
    BY HashAssumption DEF HashAssumption
  <1>2. PICK k \in Nat \ {0} : Word = k * (8 * Block)
    <2>1. PICK b : b = 8 * Block
      OBVIOUS
    <2>2. \E k \in Nat \ {0} : Word = k * b
      BY <1>1, <2>1, Multiple
    <2> QED BY <2>1, <2>2
  <1>3. PICK v : v = k * Block
    OBVIOUS
  <1>4. v \in Nat \ {0} /\ Word = (v * 8) + 0 /\ Word = 8 * v /\ Word = (8 * k) * Block
    BY <1>1, <1>2, <1>3
  <1>5. Word \div 8 = v
    BY <1>4
  <1>6. (v % Block) = 0 /\ (Word % Block) = 0
    <2>1. 0 \in 0 .. Block - 1 /\ k \in Nat /\ 8 * k \in Nat
      BY <1>1
    <2>2. ((k * Block) + 0) % Block = 0
      BY <1>1, <2>1, DivUnique, Zenon
    <2>3. (((8 * k) * Block) + 0) % Block = 0
      BY <1>1, <2>1, DivUnique, Zenon
    <2>4. (k * Block) + 0 = v /\ ((8 * k) * Block) + 0 = Word
      BY <1>1, <1>3, <1>4
    <2> QED BY <2>2, <2>3, <2>4
  <1> QED BY <1>4, <1>5, <1>6

\* Bytes counted in bits.
LEMMA BitsOfBytes ==
  ASSUME NEW n \in Nat, NEW v \in Nat \ {0}, NEW w, w = 8 * v
  PROVE  /\ (8 * n) % w = 8 * (n % v) /\ (8 * n) \div w = n \div v
         /\ ((8 * n) % w) \div 8 = n % v
  <1>1. PICK q : q = n \div v
    OBVIOUS
  <1>2. PICK s : s = n % v
    OBVIOUS
  <1>3. q \in Nat /\ s \in 0 .. v - 1 /\ n = (q * v) + s
    BY <1>1, <1>2, DivMod
  <1>4. w \in Nat \ {0} /\ 8 * s \in 0 .. w - 1
    BY <1>3
  <1>5. 8 * n = (q * w) + (8 * s)
    BY <1>3
  <1>6. ((q * w) + (8 * s)) \div w = q /\ ((q * w) + (8 * s)) % w = 8 * s
    <2>1. PICK e : e = 8 * s
      OBVIOUS
    <2>2. e \in 0 .. w - 1
      BY <1>4, <2>1
    <2>3. ((q * w) + e) \div w = q /\ ((q * w) + e) % w = e
      BY <1>3, <1>4, <2>2, DivUnique, ZenonT(60)
    <2> QED BY <2>1, <2>3, Zenon
  <1>7. (8 * s) \div 8 = s
    BY <1>3
  <1> QED BY <1>1, <1>2, <1>5, <1>6, <1>7

\* The carry out of a word, from the digits that are added.
LEMMA CarryOfDigits ==
  ASSUME NEW t \in Nat, NEW s \in Nat, NEW w \in Nat \ {0}, t + s < 2 * w
  PROVE  IF t + s < w THEN (t + s) \div w = 0 /\ (t + s) % w = t + s
                      ELSE (t + s) \div w = 1 /\ (t + s) % w = (t + s) - w
  <1>1. CASE t + s < w
    <2>1. t + s \in 0 .. w - 1 /\ (0 * w) + (t + s) = t + s /\ 0 \in Nat
      BY <1>1
    <2>2. ((0 * w) + (t + s)) \div w = 0 /\ ((0 * w) + (t + s)) % w = t + s
      BY <2>1, DivUnique, Zenon
    <2> QED BY <1>1, <2>1, <2>2
  <1>2. CASE ~(t + s < w)
    <2>1. (t + s) - w \in 0 .. w - 1 /\ (1 * w) + ((t + s) - w) = t + s /\ 1 \in Nat
      BY <1>2
    <2>2. /\ ((1 * w) + ((t + s) - w)) \div w = 1
          /\ ((1 * w) + ((t + s) - w)) % w = (t + s) - w
      BY <2>1, DivUnique, ZenonT(60)
    <2> QED BY <1>2, <2>1, <2>2
  <1> QED BY <1>1, <1>2

\* sha1.c sees the carry as a sum smaller than what was added.
LEMMA ByteCarry ==
  ASSUME NEW a \in Nat, NEW b \in Nat, NEW w \in Nat \ {0}, (a % w) + b < 2 * w
  PROVE  (a + b) \div w = (a \div w) + (IF ((a % w) + b) % w < b THEN 1 ELSE 0)
  <1>1. PICK q : q = a \div w
    OBVIOUS
  <1>2. PICK t : t = a % w
    OBVIOUS
  <1>3. q \in Nat /\ t \in 0 .. w - 1 /\ a = (q * w) + t
    BY <1>1, <1>2, DivMod
  <1>4. ((q * w) + (t + b)) \div w = q + ((t + b) \div w)
    <2>1. t + b \in Nat
      BY <1>3
    <2> QED BY <1>3, <2>1, DivSum, Zenon
  <1>5. (q * w) + (t + b) = a + b
    BY <1>3
  <1>6. IF t + b < w THEN (t + b) \div w = 0 /\ (t + b) % w = t + b
                     ELSE (t + b) \div w = 1 /\ (t + b) % w = (t + b) - w
    <2>1. t \in Nat /\ t + b < 2 * w
      BY <1>2, <1>3
    <2> QED BY <2>1, CarryOfDigits, Zenon
  <1>7. (t + b) \div w = IF (t + b) % w < b THEN 1 ELSE 0
    BY <1>3, <1>6
  <1> QED BY <1>1, <1>2, <1>4, <1>5, <1>7

\* md5.c sees it as a sum smaller than the digit before, and adds the high part itself.
LEMMA BitCarry ==
  ASSUME NEW a \in Nat, NEW b \in Nat, NEW w \in Nat \ {0}
  PROVE  (a + b) \div w = (a \div w) + (IF ((a % w) + b) % w < a % w THEN 1 ELSE 0) + (b \div w)
  <1>1. PICK q : q = a \div w
    OBVIOUS
  <1>2. PICK t : t = a % w
    OBVIOUS
  <1>3. PICK p : p = b \div w
    OBVIOUS
  <1>4. PICK s : s = b % w
    OBVIOUS
  <1>5. q \in Nat /\ t \in 0 .. w - 1 /\ a = (q * w) + t
    BY <1>1, <1>2, DivMod
  <1>6. p \in Nat /\ s \in 0 .. w - 1 /\ b = (p * w) + s
    BY <1>3, <1>4, DivMod
  <1>7. /\ q + p \in Nat /\ t + s \in Nat
        /\ a + b = ((q + p) * w) + (t + s) /\ t + b = (p * w) + (t + s)
    BY <1>5, <1>6
  <1>8. (((q + p) * w) + (t + s)) \div w = (q + p) + ((t + s) \div w)
    BY <1>7, DivSum, Zenon
  <1>9. ((p * w) + (t + s)) % w = (t + s) % w
    BY <1>6, <1>7, DivSum, Zenon
  <1>10. IF t + s < w THEN (t + s) \div w = 0 /\ (t + s) % w = t + s
                      ELSE (t + s) \div w = 1 /\ (t + s) % w = (t + s) - w
    BY <1>5, <1>6, CarryOfDigits
  <1>11. (t + s) \div w = IF (t + s) % w < t THEN 1 ELSE 0
    BY <1>5, <1>6, <1>10
  <1>12. (a + b) \div w = (q + p) + (IF (t + b) % w < t THEN 1 ELSE 0)
    BY <1>7, <1>8, <1>9, <1>11, Zenon
  <1> QED BY <1>1, <1>2, <1>3, <1>5, <1>6, <1>12

-----------------------------------------------------------------------------
\* What an update of SHA-1 does in its three cases.
LEMMA Sha1Nothing ==
  ASSUME NEW c, NEW d, Len(d) = 0
  PROVE  sha1_update(c, d) = c
  BY DEF sha1_update

\* The counter of the context.
LEMMA Sha1Total ==
  ASSUME NEW c, NEW d \in Bytes, Len(d) # 0
  PROVE  sha1_update(c, d).total
           = LET low == (c.total[1] + Len(d)) % Word
             IN <<low, IF low < Len(d) THEN (c.total[2] + 1) % Word ELSE c.total[2]>>
  BY DEF sha1_update

\* The bytes fill the buffer up.
LEMMA Sha1Full ==
  ASSUME NEW c, NEW d \in Bytes, NEW r \in Nat \ {0}, r = c.total[1] % Block,
         NEW room \in Nat, room = Block - r, Len(d) >= room, Len(d) # 0
  PROVE  /\ sha1_update(c, d).digest
              = (c.digest \o <<Put(c.buffer, r, SubSeq(d, 1, room))>>)
                  \o Cut(Drop(d, room), Block)
         /\ sha1_update(c, d).buffer
              = Put(Put(c.buffer, r, SubSeq(d, 1, room)), 0, Rest(Drop(d, room), Block))
  <1>1. r > 0
    OBVIOUS
  <1> QED BY <1>1 DEF sha1_update

\* The buffer is empty.
LEMMA Sha1Aligned ==
  ASSUME NEW c, NEW d \in Bytes, c.total[1] % Block = 0, Len(d) # 0,
         c.digest \in Seq(Bytes)
  PROVE  /\ sha1_update(c, d).digest = c.digest \o Cut(d, Block)
         /\ sha1_update(c, d).buffer = Put(c.buffer, 0, Rest(d, Block))
  <1>1. c.digest \o <<>> = c.digest
    BY ConcatEmptySeq
  <1>2. ~(0 > 0)
    OBVIOUS
  <1> QED BY <1>1, <1>2 DEF sha1_update

\* The bytes do not fill the buffer.
LEMMA Sha1Short ==
  ASSUME NEW c, NEW d \in Bytes, NEW r \in Nat \ {0}, r = c.total[1] % Block,
         Len(d) < Block - r, Block \in Nat, Len(d) # 0, c.digest \in Seq(Bytes)
  PROVE  /\ sha1_update(c, d).digest = c.digest
         /\ sha1_update(c, d).buffer = Put(c.buffer, r, d)
  <1>1. c.digest \o <<>> = c.digest
    BY ConcatEmptySeq
  <1>2. ~(Len(d) >= Block - r) /\ r # 0
    <2>1. Len(d) \in Nat
      BY DEF Bytes
    <2> QED BY <2>1
  <1> QED BY <1>1, <1>2 DEF sha1_update

\* The constants of MD5, SHA-1 and SHA-256.
LEMMA BlockTypes ==
  /\ Block \in Nat \ {0} /\ Word \in Nat \ {0} /\ Block \in Nat /\ Word \in Nat /\ 2 < Block
  /\ Word % Block = 0
  BY HashAssumption, WordParts DEF HashAssumption

\* A context of SHA-1 that has seen m, whatever it counts beyond the place in the block.
Sha1Feeds(c, m) ==
  /\ Feeds(c.digest, c.buffer, m, Block)
  /\ c.total[1] \in Nat /\ c.total[1] % Block = Len(m) % Block

\* The parts of a context that has seen m.
LEMMA FeedsTypes ==
  ASSUME NEW m \in Bytes, NEW n \in Nat \ {0}, NEW digest, NEW buffer, Feeds(digest, buffer, m, n)
  PROVE  /\ digest = Cut(m, n) /\ digest \in Seq(Bytes) /\ buffer \in Bytes /\ Len(buffer) = n
         /\ Len(m) \in Nat /\ Len(m) % n \in Nat /\ Len(m) % n <= n - 1
  <1>1. digest = Cut(m, n) /\ buffer \in Bytes /\ Len(buffer) = n
    BY Zenon DEF Feeds
  <1>2. Cut(m, n) \in Seq(Bytes)
    BY CutSeq, Zenon
  <1>3. Len(m) \in Nat
    BY DEF Bytes
  <1>4. Len(m) % n \in Nat /\ Len(m) % n <= n - 1
    BY <1>3, DivParts, Zenon
  <1> QED BY <1>1, <1>2, <1>3, <1>4, Zenon

\* sha1_update feeds its bytes, whatever the counter says beyond the place.
LEMMA Sha1UpdateFeeds ==
  ASSUME NEW m \in Bytes, NEW d \in Bytes, NEW c, Sha1Feeds(c, m)
  PROVE  Sha1Feeds(sha1_update(c, d), m \o d)
  <1>0. Len(d) \in Nat /\ Len(m) \in Nat /\ Len(m \o d) = Len(m) + Len(d)
    BY ConcatSeq DEF Bytes
  <1>1. CASE Len(d) = 0
    <2>1. d = <<>>
      BY <1>1, EmptySeq DEF Bytes
    <2>2. m \o d = m
      BY <2>1, ConcatEmptySeq DEF Bytes
    <2> QED BY <1>1, <2>2, Sha1Nothing
  <1>2. CASE Len(d) # 0
    <2>1. PICK r : r = Len(m) % Block
      OBVIOUS
    <2>2. /\ Feeds(c.digest, c.buffer, m, Block) /\ c.total[1] \in Nat /\ c.total[1] % Block = r
      BY <2>1 DEF Sha1Feeds
    <2>3. /\ c.digest = Cut(m, Block) /\ c.digest \in Seq(Bytes)
          /\ c.buffer \in Bytes /\ Len(c.buffer) = Block /\ r \in Nat /\ r <= Block - 1
      BY <2>1, <2>2, BlockTypes, FeedsTypes
    <2>4. Feeds(sha1_update(c, d).digest, sha1_update(c, d).buffer, m \o d, Block)
      <3>1. CASE r + Len(d) >= Block /\ r # 0
        <4>1. PICK room : room = Block - r
          OBVIOUS
        <4>2. r \in Nat \ {0} /\ room \in Nat /\ Len(d) >= room
          BY <1>0, <2>3, <3>1, <4>1, BlockTypes
        <4>3. PICK x : x = Put(c.buffer, r, SubSeq(d, 1, room))
          OBVIOUS
        <4>4. /\ sha1_update(c, d).digest = (c.digest \o <<x>>) \o Cut(Drop(d, room), Block)
              /\ sha1_update(c, d).buffer = Put(x, 0, Rest(Drop(d, room), Block))
          BY <1>2, <2>2, <4>1, <4>2, <4>3, Sha1Full, ZenonT(60)
        <4>5. x \in Bytes /\ Len(x) = Block
          <5>1. room \in 0 .. Len(d)
            BY <1>0, <4>2
          <5>2. SubSeq(d, 1, room) \in Bytes
            BY <5>1, SplitAt, Zenon
          <5> QED BY <2>3, <4>3, <5>2, PutSeq
        <4>6. Feeds((c.digest \o <<x>>) \o Cut(Drop(d, room), Block),
                    Put(x, 0, Rest(Drop(d, room), Block)), m \o d, Block)
          <5>1. (Len(m) % Block) + Len(d) >= Block /\ room = Block - (Len(m) % Block)
            BY <2>1, <3>1, <4>1
          <5>2. Feeds((c.digest \o <<Put(c.buffer, Len(m) % Block, SubSeq(d, 1, room))>>)
                        \o Cut(Drop(d, room), Block),
                      Put(x, 0, Rest(Drop(d, room), Block)), m \o d, Block)
            BY <2>2, <4>5, <5>1, BlockTypes, FeedThrough, Zenon
          <5> QED BY <2>1, <4>3, <5>2, Zenon
        <4> QED BY <4>4, <4>6
      <3>2. CASE r = 0
        <4>1. /\ sha1_update(c, d).digest = c.digest \o Cut(d, Block)
              /\ sha1_update(c, d).buffer = Put(c.buffer, 0, Rest(d, Block))
          BY <1>2, <2>2, <2>3, <3>2, Sha1Aligned
        <4>2. Feeds(Cut(m, Block) \o Cut(d, Block), Put(c.buffer, 0, Rest(d, Block)), m \o d, Block)
          BY <2>1, <2>3, <3>2, BlockTypes, FeedWhole
        <4> QED BY <2>3, <4>1, <4>2
      <3>3. CASE r # 0 /\ r + Len(d) < Block
        <4>1. r \in Nat \ {0} /\ Len(d) < Block - r
          BY <1>0, <2>3, <3>3, BlockTypes
        <4>2. sha1_update(c, d).digest = c.digest /\ sha1_update(c, d).buffer = Put(c.buffer, r, d)
          BY <1>2, <2>2, <2>3, <4>1, BlockTypes, Sha1Short
        <4>3. Feeds(c.digest, Put(c.buffer, r, d), m \o d, Block)
          BY <2>1, <2>2, <3>3, BlockTypes, FeedPart
        <4> QED BY <4>2, <4>3
      <3>4. r + Len(d) >= Block \/ r + Len(d) < Block
        BY <1>0, <2>3, BlockTypes
      <3> QED BY <3>1, <3>2, <3>3, <3>4
    <2>5. sha1_update(c, d).total[1] = (c.total[1] + Len(d)) % Word
      BY <1>2, Sha1Total
    <2>6. c.total[1] + Len(d) \in Nat /\ Len(m) + Len(d) \in Nat
      BY <1>0, <2>2
    <2>7. (c.total[1] + Len(d)) % Word \in Nat
      BY <2>6, BlockTypes, DivParts
    <2>8. ((c.total[1] + Len(d)) % Word) % Block = (c.total[1] + Len(d)) % Block
      BY <2>6, BlockTypes, ModMod, Zenon
    <2>9. (c.total[1] + Len(d)) % Block = (r + Len(d)) % Block
      <3>1. ((c.total[1] % Block) + Len(d)) % Block = (c.total[1] + Len(d)) % Block
        BY <1>0, <2>2, BlockTypes, ModAdd, Zenon
      <3> QED BY <2>2, <3>1, Zenon
    <2>10. (Len(m) + Len(d)) % Block = (r + Len(d)) % Block
      <3>1. ((Len(m) % Block) + Len(d)) % Block = (Len(m) + Len(d)) % Block
        BY <1>0, BlockTypes, ModAdd, Zenon
      <3> QED BY <2>1, <3>1, Zenon
    <2> QED BY <1>0, <2>4, <2>5, <2>7, <2>8, <2>9, <2>10, Zenon DEF Sha1Feeds
  <1> QED BY <1>1, <1>2

-----------------------------------------------------------------------------
\* The last block, or nothing.
LEMMA LastBlock ==
  ASSUME NEW s \in Bytes, NEW n \in Nat \ {0}, NEW other \in Bytes, Len(other) = n, NEW x,
         x = IF Cut(s, n) # <<>> THEN Cut(s, n)[Len(Cut(s, n))] ELSE other
  PROVE  x \in Bytes /\ Len(x) = n
  <1>1. CASE Cut(s, n) = <<>>
    BY <1>1
  <1>2. CASE Cut(s, n) # <<>>
    <2>1. PICK u : u = Cut(s, n)
      OBVIOUS
    <2>2. PICK q : q = Len(s) \div n
      OBVIOUS
    <2>3. IsCut(u, s, n, q) /\ u # <<>>
      BY <1>2, <2>1, <2>2, CutSeq
    <2>4. u \in Seq(Bytes) /\ Len(u) = q /\ \A k \in 1 .. q : Piece(u[k], s, (k - 1) * n, n)
      BY <2>3, Zenon DEF IsCut
    <2>5. q \in 1 .. q
      BY <2>3, <2>4, EmptySeq
    <2>6. Piece(u[q], s, (q - 1) * n, n)
      BY <2>4, <2>5, Zenon
    <2>7. x = u[q]
      BY <1>2, <2>1, <2>4
    <2> QED BY <2>6, <2>7 DEF Piece
  <1> QED BY <1>1, <1>2

\* A context is the record of its fields.
MD5Shape(c) == c = [bits |-> c.bits, in |-> c.in, digest |-> c.digest]

\* The counter of bits after MD5Update.
LEMMA MD5Bits ==
  ASSUME NEW c, NEW d \in Bytes, MD5Shape(c)
  PROVE  /\ MD5Shape(MD5Update(c, d))
         /\ MD5Update(c, d).bits
              = LET low == (c.bits[1] + 8 * Len(d)) % Word
                IN <<low, (c.bits[2] + (IF low < c.bits[1] THEN 1 ELSE 0)
                             + (8 * Len(d)) \div Word) % Word>>
  <1>1. CASE (c.bits[1] \div 8) % Block > 0 /\ Len(d) < Block - ((c.bits[1] \div 8) % Block)
    BY <1>1 DEF MD5Update, MD5Shape
  <1>2. CASE ~((c.bits[1] \div 8) % Block > 0 /\ Len(d) < Block - ((c.bits[1] \div 8) % Block))
    BY <1>2 DEF MD5Update, MD5Shape
  <1> QED BY <1>1, <1>2

\* The bytes do not fill the buffer.
LEMMA MD5Short ==
  ASSUME NEW c, NEW d \in Bytes, NEW r \in Nat \ {0}, r = (c.bits[1] \div 8) % Block,
         MD5Shape(c), Len(d) < Block - r
  PROVE  MD5Update(c, d).digest = c.digest /\ MD5Update(c, d).in = Put(c.in, r, d)
  <1>1. r > 0
    OBVIOUS
  <1> QED BY <1>1 DEF MD5Update, MD5Shape

\* The bytes fill the buffer up.
LEMMA MD5Full ==
  ASSUME NEW c, NEW d \in Bytes, NEW r \in Nat \ {0}, r = (c.bits[1] \div 8) % Block,
         NEW room \in Nat, room = Block - r, Len(d) >= room
  PROVE  LET x == Put(c.in, r, SubSeq(d, 1, room))
             all == Cut(Drop(d, room), Block)
         IN /\ MD5Update(c, d).digest = (c.digest \o <<x>>) \o all
            /\ MD5Update(c, d).in = Put(IF all # <<>> THEN all[Len(all)] ELSE x, 0,
                                        Rest(Drop(d, room), Block))
  <1>1. r > 0 /\ ~(Len(d) < room)
    <2>1. Len(d) \in Nat
      BY DEF Bytes
    <2> QED BY <2>1
  <1> QED BY <1>1 DEF MD5Update

\* The buffer is empty.
LEMMA MD5Aligned ==
  ASSUME NEW c, NEW d \in Bytes, (c.bits[1] \div 8) % Block = 0, c.digest \in Seq(Bytes),
         NEW all, all = Cut(d, Block)
  PROVE  /\ MD5Update(c, d).digest = c.digest \o all
         /\ MD5Update(c, d).in = Put(IF all # <<>> THEN all[Len(all)] ELSE c.in, 0,
                                     Rest(d, Block))
  <1>1. c.digest \o <<>> = c.digest
    BY ConcatEmptySeq
  <1>2. ~(0 > 0)
    OBVIOUS
  <1> QED BY <1>1, <1>2 DEF MD5Update

\* A context of MD5 that has seen m.
MD5Fed(c, m) ==
  /\ MD5Shape(c) /\ Feeds(c.digest, c.in, m, Block)
  /\ c.bits = <<(8 * Len(m)) % Word, ((8 * Len(m)) \div Word) % Word>>

\* The place in the block, from a counter of bits.
LEMMA PlaceOfBits ==
  ASSUME NEW l \in Nat
  PROVE  (((8 * l) % Word) \div 8) % Block = l % Block
  <1>1. PICK v \in Nat \ {0} : Word = 8 * v /\ v % Block = 0
    BY WordParts
  <1>2. ((8 * l) % Word) \div 8 = l % v
    <2>1. \A w : w = 8 * v => ((8 * l) % w) \div 8 = l % v
      BY BitsOfBytes
    <2> QED BY <1>1, <2>1, Zenon
  <1>3. (l % v) % Block = l % Block
    BY <1>1, BlockTypes, ModMod, Zenon
  <1> QED BY <1>2, <1>3, Zenon

\* The two words of a counter after an addition.
LEMMA BitsAdded ==
  ASSUME NEW a \in Nat, NEW b \in Nat, NEW w \in Nat \ {0}
  PROVE  /\ ((a % w) + b) % w = (a + b) % w
         /\ ((((a \div w) % w) + (IF ((a % w) + b) % w < a % w THEN 1 ELSE 0)) + (b \div w)) % w
              = ((a + b) \div w) % w
  <1>1. ((a % w) + b) % w = (a + b) % w
    BY ModAdd
  <1>2. PICK q : q = a \div w
    OBVIOUS
  <1>3. PICK p : p = b \div w
    OBVIOUS
  <1>4. PICK e : e = IF ((a % w) + b) % w < a % w THEN 1 ELSE 0
    OBVIOUS
  <1>5. q \in Nat /\ p \in Nat /\ e \in Nat
    BY <1>2, <1>3, <1>4, DivMod
  <1>6. (a + b) \div w = (q + e) + p
    BY <1>2, <1>3, <1>4, BitCarry, Zenon
  <1>7. ((q % w) + (e + p)) % w = (q + (e + p)) % w
    <2>1. e + p \in Nat
      BY <1>5
    <2> QED BY <1>5, <2>1, ModAdd, ZenonT(60)
  <1>8. ((q % w) + e) + p = (q % w) + (e + p) /\ (q + e) + p = q + (e + p)
    <2>1. q % w \in Nat
      BY <1>5, DivParts
    <2> QED BY <1>5, <2>1
  <1>9. (((q % w) + e) + p) % w = ((a + b) \div w) % w
    BY <1>6, <1>7, <1>8, Zenon
  <1> QED BY <1>1, <1>2, <1>3, <1>4, <1>9, Zenon

\* MD5Update feeds its bytes and counts them.
LEMMA MD5UpdateFed ==
  ASSUME NEW m \in Bytes, NEW d \in Bytes, NEW c, MD5Fed(c, m)
  PROVE  MD5Fed(MD5Update(c, d), m \o d)
  <1>0. Len(d) \in Nat /\ Len(m) \in Nat /\ Len(m \o d) = Len(m) + Len(d)
    BY ConcatSeq DEF Bytes
  <1>1. PICK r : r = Len(m) % Block
    OBVIOUS
  <1>2. PICK b : b = MD5Update(c, d)
    OBVIOUS
  <1>3. /\ MD5Shape(c) /\ Feeds(c.digest, c.in, m, Block)
        /\ c.bits = <<(8 * Len(m)) % Word, ((8 * Len(m)) \div Word) % Word>>
    BY Zenon DEF MD5Fed
  <1>4. c.bits[1] = (8 * Len(m)) % Word /\ c.bits[2] = ((8 * Len(m)) \div Word) % Word
    BY <1>3
  <1>5. (c.bits[1] \div 8) % Block = r
    BY <1>0, <1>1, <1>4, PlaceOfBits, Zenon
  <1>6. /\ c.digest = Cut(m, Block) /\ c.digest \in Seq(Bytes)
        /\ c.in \in Bytes /\ Len(c.in) = Block /\ r \in Nat /\ r <= Block - 1
    BY <1>1, <1>3, BlockTypes, FeedsTypes
  <1>7. Feeds(b.digest, b.in, m \o d, Block)
    <2>1. CASE r + Len(d) >= Block /\ r # 0
      <3>1. PICK room : room = Block - r
        OBVIOUS
      <3>2. r \in Nat \ {0} /\ room \in Nat /\ Len(d) >= room /\ room \in 0 .. Len(d)
        BY <1>0, <1>6, <2>1, <3>1, BlockTypes
      <3>3. PICK x : x = Put(c.in, r, SubSeq(d, 1, room))
        OBVIOUS
      <3>4. PICK all : all = Cut(Drop(d, room), Block)
        OBVIOUS
      <3>5. PICK under : under = IF all # <<>> THEN all[Len(all)] ELSE x
        OBVIOUS
      <3>6. /\ b.digest = (c.digest \o <<x>>) \o all
            /\ b.in = Put(under, 0, Rest(Drop(d, room), Block))
        <4>1. r = (c.bits[1] \div 8) % Block
          BY <1>5
        <4>2. /\ MD5Update(c, d).digest = (c.digest \o <<x>>) \o all
              /\ MD5Update(c, d).in = Put(IF all # <<>> THEN all[Len(all)] ELSE x, 0,
                                          Rest(Drop(d, room), Block))
          BY <3>1, <3>2, <3>3, <3>4, <4>1, MD5Full, ZenonT(60)
        <4> QED BY <1>2, <3>5, <4>2, Zenon
      <3>7. SubSeq(d, 1, room) \in Bytes /\ Drop(d, room) \in Bytes
        BY <3>2, SplitAt, DropSeq
      <3>8. x \in Bytes /\ Len(x) = Block
        BY <1>6, <3>3, <3>7, PutSeq
      <3>9. under \in Bytes /\ Len(under) = Block
        BY <3>4, <3>5, <3>7, <3>8, BlockTypes, LastBlock
      <3>10. (Len(m) % Block) + Len(d) >= Block /\ room = Block - (Len(m) % Block)
        BY <1>1, <2>1, <3>1
      <3>11. Feeds((c.digest \o <<Put(c.in, Len(m) % Block, SubSeq(d, 1, room))>>)
                     \o Cut(Drop(d, room), Block),
                   Put(under, 0, Rest(Drop(d, room), Block)), m \o d, Block)
        BY <1>3, <3>9, <3>10, BlockTypes, FeedThrough, Zenon
      <3> QED BY <1>1, <3>3, <3>4, <3>6, <3>11, Zenon
    <2>2. CASE r = 0
      <3>1. PICK all : all = Cut(d, Block)
        OBVIOUS
      <3>2. PICK under : under = IF all # <<>> THEN all[Len(all)] ELSE c.in
        OBVIOUS
      <3>3. b.digest = c.digest \o all /\ b.in = Put(under, 0, Rest(d, Block))
        BY <1>2, <1>5, <1>6, <2>2, <3>1, <3>2, MD5Aligned
      <3>4. under \in Bytes /\ Len(under) = Block
        BY <1>6, <3>1, <3>2, BlockTypes, LastBlock
      <3>5. Feeds(Cut(m, Block) \o Cut(d, Block), Put(under, 0, Rest(d, Block)), m \o d, Block)
        BY <1>1, <2>2, <3>4, BlockTypes, FeedWhole
      <3> QED BY <1>6, <3>1, <3>3, <3>5
    <2>3. CASE r # 0 /\ r + Len(d) < Block
      <3>1. r \in Nat \ {0} /\ Len(d) < Block - r
        BY <1>0, <1>6, <2>3, BlockTypes
      <3>2. b.digest = c.digest /\ b.in = Put(c.in, r, d)
        BY <1>2, <1>3, <1>5, <3>1, MD5Short
      <3>3. Feeds(c.digest, Put(c.in, r, d), m \o d, Block)
        BY <1>1, <1>3, <2>3, BlockTypes, FeedPart
      <3> QED BY <3>2, <3>3
    <2>4. r + Len(d) >= Block \/ r + Len(d) < Block
      BY <1>0, <1>6, BlockTypes
    <2> QED BY <2>1, <2>2, <2>3, <2>4
  <1>8. b.bits = <<(8 * Len(m \o d)) % Word, ((8 * Len(m \o d)) \div Word) % Word>>
    <2>1. PICK a : a = 8 * Len(m)
      OBVIOUS
    <2>2. PICK e : e = 8 * Len(d)
      OBVIOUS
    <2>3. a \in Nat /\ e \in Nat /\ 8 * Len(m \o d) = a + e
      BY <1>0, <2>1, <2>2
    <2>4. c.bits[1] = a % Word /\ c.bits[2] = (a \div Word) % Word
      BY <1>4, <2>1, Zenon
    <2>5. b.bits = <<((a % Word) + e) % Word,
                     ((((a \div Word) % Word)
                         + (IF ((a % Word) + e) % Word < a % Word THEN 1 ELSE 0))
                        + (e \div Word)) % Word>>
      BY <1>2, <1>3, <2>2, <2>4, MD5Bits
    <2>6. /\ ((a % Word) + e) % Word = (a + e) % Word
          /\ ((((a \div Word) % Word)
                 + (IF ((a % Word) + e) % Word < a % Word THEN 1 ELSE 0))
                + (e \div Word)) % Word = ((a + e) \div Word) % Word
      BY <2>3, BlockTypes, BitsAdded, Zenon
    <2> QED BY <2>3, <2>5, <2>6, Zenon
  <1>9. MD5Shape(b)
    BY <1>2, <1>3, MD5Bits
  <1> QED BY <1>2, <1>7, <1>8, <1>9, Zenon DEF MD5Fed

-----------------------------------------------------------------------------
\* The constants of SHA-512.
LEMMA LongTypes ==
  /\ LongSize \in Nat \ {0} /\ LongSize \in Nat /\ LongWord \in Nat \ {0} /\ LongBlock \in Nat
  /\ (LongBlock - 1) * LongWord = LongSize - LongWord
  /\ (LongBlock - 2) * LongWord = LongSize - (2 * LongWord)
  /\ 3 * LongWord <= LongSize
  BY HashAssumption DEF HashAssumption, LongSize

\* The type of a block of SHA-512 alone.
LEMMA LongSizeType == LongSize \in Nat \ {0} /\ LongSize \in Nat
  BY LongTypes

\* What lies under the leftovers of rhash_sha512_update.
LEMMA LastUnder ==
  ASSUME NEW s \in Bytes, NEW n \in Nat \ {0}, NEW other \in Bytes, Len(other) = n,
         NEW aligned \in BOOLEAN, NEW all, all = Cut(s, n), NEW x,
         x = IF all # <<>> /\ ~aligned THEN all[Len(all)] ELSE other
  PROVE  x \in Bytes /\ Len(x) = n
  <1>1. PICK y : y = IF Cut(s, n) # <<>> THEN Cut(s, n)[Len(Cut(s, n))] ELSE other
    OBVIOUS
  <1>2. y \in Bytes /\ Len(y) = n
    BY <1>1, LastBlock
  <1>3. x = y \/ x = other
    BY <1>1
  <1> QED BY <1>2, <1>3

\* A context is the record of its fields.
SHA512Shape(c) == c = [length |-> c.length, message |-> c.message, digest |-> c.digest]

\* The counter after rhash_sha512_update.
LEMMA SHA512Length ==
  ASSUME NEW c, NEW d \in Bytes, NEW aligned \in BOOLEAN, SHA512Shape(c)
  PROVE  /\ SHA512Shape(rhash_sha512_update(c, d, aligned))
         /\ rhash_sha512_update(c, d, aligned).length = c.length + Len(d)
  <1>1. CASE c.length % LongSize > 0 /\ Len(d) < LongSize - (c.length % LongSize)
    BY <1>1 DEF rhash_sha512_update, SHA512Shape
  <1>2. CASE ~(c.length % LongSize > 0 /\ Len(d) < LongSize - (c.length % LongSize))
    BY <1>2 DEF rhash_sha512_update, SHA512Shape
  <1> QED BY <1>1, <1>2

\* The bytes do not fill the buffer.
LEMMA SHA512Short ==
  ASSUME NEW c, NEW d \in Bytes, NEW aligned \in BOOLEAN, NEW r \in Nat \ {0},
         r = c.length % LongSize, SHA512Shape(c), Len(d) < LongSize - r
  PROVE  /\ rhash_sha512_update(c, d, aligned).digest = c.digest
         /\ rhash_sha512_update(c, d, aligned).message = Put(c.message, r, d)
  <1>1. r > 0
    OBVIOUS
  <1> QED BY <1>1 DEF rhash_sha512_update, SHA512Shape

\* A context of SHA-512 that has seen m.
SHA512Fed(c, m) ==
  SHA512Shape(c) /\ Feeds(c.digest, c.message, m, LongSize) /\ c.length = Len(m)

\* rhash_sha512_update feeds its bytes and counts them.
LEMMA SHA512UpdateFed ==
  ASSUME NEW m \in Bytes, NEW d \in Bytes, NEW c, NEW aligned \in BOOLEAN, SHA512Fed(c, m)
  PROVE  SHA512Fed(rhash_sha512_update(c, d, aligned), m \o d)
  <1>0. Len(d) \in Nat /\ Len(m) \in Nat /\ Len(m \o d) = Len(m) + Len(d)
    BY ConcatSeq DEF Bytes
  <1>1. PICK r : r = Len(m) % LongSize
    OBVIOUS
  <1>2. PICK b : b = rhash_sha512_update(c, d, aligned)
    OBVIOUS
  <1>3. SHA512Shape(c) /\ Feeds(c.digest, c.message, m, LongSize) /\ c.length = Len(m)
    BY Zenon DEF SHA512Fed
  <1>5. c.length % LongSize = r
    BY <1>1, <1>3, Zenon
  <1>6. /\ c.digest = Cut(m, LongSize) /\ c.digest \in Seq(Bytes)
        /\ c.message \in Bytes /\ Len(c.message) = LongSize /\ r \in Nat /\ r <= LongSize - 1
    BY <1>1, <1>3, LongSizeType, FeedsTypes
  <1>7. Feeds(b.digest, b.message, m \o d, LongSize)
    <2>1. CASE r + Len(d) >= LongSize /\ r # 0
      <3>1. PICK room : room = LongSize - r
        OBVIOUS
      <3>2. r \in Nat \ {0} /\ room \in Nat /\ Len(d) >= room /\ room \in 0 .. Len(d)
        BY <1>0, <1>6, <2>1, <3>1, LongSizeType
      <3>3. PICK x : x = Put(c.message, r, SubSeq(d, 1, room))
        OBVIOUS
      <3>4. PICK all : all = Cut(Drop(d, room), LongSize)
        OBVIOUS
      <3>5. PICK under : under = IF all # <<>> /\ ~aligned THEN all[Len(all)] ELSE x
        OBVIOUS
      <3>6. /\ b.digest = (c.digest \o <<x>>) \o all
            /\ b.message = Put(under, 0, Rest(Drop(d, room), LongSize))
        <4>1. r = c.length % LongSize
          BY <1>5
        <4>2. /\ rhash_sha512_update(c, d, aligned).digest = (c.digest \o <<x>>) \o all
              /\ rhash_sha512_update(c, d, aligned).message
                   = Put(IF all # <<>> /\ ~aligned THEN all[Len(all)] ELSE x, 0,
                         Rest(Drop(d, room), LongSize))
          <5>1. r > 0 /\ ~(Len(d) < room)
            BY <1>0, <3>2
          <5> QED BY <3>1, <3>3, <3>4, <4>1, <5>1 DEF rhash_sha512_update
        <4> QED BY <1>2, <3>5, <4>2, Zenon
      <3>7. SubSeq(d, 1, room) \in Bytes /\ Drop(d, room) \in Bytes
        BY <3>2, SplitAt, DropSeq
      <3>8. x \in Bytes /\ Len(x) = LongSize
        BY <1>6, <3>3, <3>7, PutSeq
      <3>9. under \in Bytes /\ Len(under) = LongSize
        BY <3>4, <3>5, <3>7, <3>8, LongSizeType, LastUnder
      <3>10. (Len(m) % LongSize) + Len(d) >= LongSize /\ room = LongSize - (Len(m) % LongSize)
        BY <1>1, <2>1, <3>1
      <3>11. Feeds((c.digest \o <<Put(c.message, Len(m) % LongSize, SubSeq(d, 1, room))>>)
                     \o Cut(Drop(d, room), LongSize),
                   Put(under, 0, Rest(Drop(d, room), LongSize)), m \o d, LongSize)
        BY <1>3, <3>9, <3>10, LongSizeType, FeedThrough, Zenon
      <3> QED BY <1>1, <3>3, <3>4, <3>6, <3>11, Zenon
    <2>2. CASE r = 0
      <3>1. PICK all : all = Cut(d, LongSize)
        OBVIOUS
      <3>2. PICK under : under = IF all # <<>> /\ ~aligned THEN all[Len(all)] ELSE c.message
        OBVIOUS
      <3>3. b.digest = c.digest \o all /\ b.message = Put(under, 0, Rest(d, LongSize))
        <4>1. c.digest \o <<>> = c.digest /\ ~(0 > 0) /\ c.length % LongSize = 0
          BY <1>5, <1>6, <2>2, ConcatEmptySeq
        <4> QED BY <1>2, <3>1, <3>2, <4>1 DEF rhash_sha512_update
      <3>4. under \in Bytes /\ Len(under) = LongSize
        BY <1>6, <3>1, <3>2, LongSizeType, LastUnder
      <3>5. Feeds(Cut(m, LongSize) \o Cut(d, LongSize), Put(under, 0, Rest(d, LongSize)),
                  m \o d, LongSize)
        BY <1>1, <2>2, <3>4, LongSizeType, FeedWhole
      <3> QED BY <1>6, <3>1, <3>3, <3>5
    <2>3. CASE r # 0 /\ r + Len(d) < LongSize
      <3>1. r \in Nat \ {0} /\ Len(d) < LongSize - r
        BY <1>0, <1>6, <2>3, LongSizeType
      <3>2. b.digest = c.digest /\ b.message = Put(c.message, r, d)
        BY <1>2, <1>3, <1>5, <3>1, SHA512Short
      <3>3. Feeds(c.digest, Put(c.message, r, d), m \o d, LongSize)
        BY <1>1, <1>3, <2>3, LongSizeType, FeedPart
      <3> QED BY <3>2, <3>3
    <2>4. r + Len(d) >= LongSize \/ r + Len(d) < LongSize
      BY <1>0, <1>6, LongSizeType
    <2> QED BY <2>1, <2>2, <2>3, <2>4
  <1>8. SHA512Shape(b) /\ b.length = Len(m \o d)
    BY <1>0, <1>2, <1>3, SHA512Length
  <1> QED BY <1>2, <1>7, <1>8, Zenon DEF SHA512Fed

-----------------------------------------------------------------------------
\* The marking byte.
LEMMA OneByte ==
  <<One>> \in Bytes /\ Len(<<One>>) = 1 /\ <<One>>[1] = One
  BY DEF Bytes, One

\* The zeros that Padded asks for, from the place in the block where the message ends.
PadZeros(r, e, n) == IF r + 1 + e <= n THEN n - (r + 1 + e) ELSE 2 * n - (r + 1 + e)

\* They, from the length of the message, as Padded writes it.
PadLengthOf(l, e, n) ==
  LET short == (l + 1 + e) % n IN IF short = 0 THEN 0 ELSE n - short

\* The zeros of Padded, from the place in the block.
LEMMA PadLength ==
  ASSUME NEW l \in Nat, NEW e \in Nat, NEW n \in Nat \ {0}, e + 1 <= n
  PROVE  PadLengthOf(l, e, n) = PadZeros(l % n, e, n) /\ PadZeros(l % n, e, n) \in Nat
  <1>0. PICK r : r = l % n
    OBVIOUS
  <1>1. r \in Nat /\ r <= n - 1
    BY <1>0, DivParts
  <1>2. PICK short : short = (l + 1 + e) % n
    OBVIOUS
  <1>3. short = (r + (1 + e)) % n
    <2>1. ((l % n) + (1 + e)) % n = (l + (1 + e)) % n
      <3>1. 1 + e \in Nat
        OBVIOUS
      <3> QED BY <3>1, ModAdd, Zenon
    <2>2. l + (1 + e) = l + 1 + e
      OBVIOUS
    <2> QED BY <1>0, <1>2, <2>1, <2>2
  <1>4. IF r + (1 + e) < n THEN short = r + (1 + e) ELSE short = (r + (1 + e)) - n
    <2>1. 1 + e \in Nat /\ r + (1 + e) < 2 * n
      BY <1>1
    <2>2. IF r + (1 + e) < n THEN (r + (1 + e)) % n = r + (1 + e)
                             ELSE (r + (1 + e)) % n = (r + (1 + e)) - n
      BY <1>1, <2>1, CarryOfDigits, Zenon
    <2> QED BY <1>3, <2>2, Zenon
  <1>5. PadZeros(r, e, n) = IF r + 1 + e <= n THEN n - (r + 1 + e) ELSE 2 * n - (r + 1 + e)
    BY DEF PadZeros
  <1>6. (IF short = 0 THEN 0 ELSE n - short) = PadZeros(r, e, n) /\ PadZeros(r, e, n) \in Nat
    BY <1>1, <1>4, <1>5
  <1>7. PadLengthOf(l, e, n) = IF short = 0 THEN 0 ELSE n - short
    BY <1>2 DEF PadLengthOf
  <1> QED BY <1>0, <1>6, <1>7, Zenon

\* The bytes behind the whole blocks of the padded message.
Tail3(t, z, ending) == ((t \o <<One>>) \o Zeros(z)) \o ending

\* The padded message: the blocks of the message, then those of the tail.
LEMMA PaddedIs ==
  ASSUME NEW m \in Bytes, NEW n \in Nat \ {0}, NEW ending \in Bytes, Len(ending) + 1 <= n,
         NEW z, z = PadZeros(Len(m) % n, Len(ending), n)
  PROVE  /\ Padded(m, n, ending) = Cut((m \o (<<One>> \o Zeros(z))) \o ending, n)
         /\ Padded(m, n, ending) = Cut(m, n) \o Cut(Tail3(Rest(m, n), z, ending), n)
         /\ z \in Nat
  <1>0. Len(m) \in Nat /\ Len(ending) \in Nat
    BY LenNat, Zenon
  <1>2. PadLengthOf(Len(m), Len(ending), n) = z /\ z \in Nat
    BY <1>0, PadLength, Zenon
  <1>3. Zeros(z) \in Bytes /\ <<One>> \in Bytes
    BY <1>2, ZerosSeq, OneByte
  <1>4. Padded(m, n, ending) = Cut(((m \o <<One>>) \o Zeros(z)) \o ending, n)
    BY <1>2 DEF Padded, PadLengthOf
  <1>5. (m \o <<One>>) \o Zeros(z) = m \o (<<One>> \o Zeros(z))
    BY <1>3, ConcatAssoc, Zenon
  <1>6. PICK p : p = <<One>> \o Zeros(z)
    OBVIOUS
  <1>7. p \in Bytes
    BY <1>3, <1>6, ConcatSeq
  <1>8. (m \o p) \o ending = m \o (p \o ending)
    BY <1>7, ConcatAssoc, Zenon
  <1>9. p \o ending \in Bytes
    BY <1>7, ConcatSeq
  <1>10. Cut(m \o (p \o ending), n) = Cut(m, n) \o Cut(Rest(m, n) \o (p \o ending), n)
    BY <1>9, Grown, Zenon
  <1>11. Rest(m, n) \o (p \o ending) = Tail3(Rest(m, n), z, ending)
    <2>1. PICK t : t = Rest(m, n)
      OBVIOUS
    <2>2. t \in Bytes
      BY <2>1, RestSeq
    <2>3. (t \o p) \o ending = t \o (p \o ending)
      BY <1>7, <2>2, ConcatAssoc, Zenon
    <2>4. (t \o <<One>>) \o Zeros(z) = t \o p
      BY <1>3, <1>6, <2>2, ConcatAssoc, Zenon
    <2> QED BY <2>1, <2>3, <2>4, Zenon DEF Tail3
  <1>12. Padded(m, n, ending) = Cut((m \o p) \o ending, n)
    BY <1>4, <1>5, <1>6, Zenon
  <1>13. Padded(m, n, ending) = Cut(m, n) \o Cut(Tail3(Rest(m, n), z, ending), n)
    BY <1>8, <1>10, <1>11, <1>12, Zenon
  <1> QED BY <1>2, <1>6, <1>12, <1>13, Zenon

\* The same without a name for the zeros.
LEMMA PaddedTail ==
  ASSUME NEW m \in Bytes, NEW n \in Nat \ {0}, NEW ending \in Bytes, Len(ending) + 1 <= n
  PROVE  Padded(m, n, ending)
           = Cut(m, n)
               \o Cut(Tail3(Rest(m, n), PadZeros(Len(m) % n, Len(ending), n), ending), n)
  BY PaddedIs

\* Its parts by their places.
IsTail3(s, t, r, z, ending, e) ==
  /\ s \in Bytes /\ Len(s) = r + 1 + z + e
  /\ \A i \in 1 .. r : s[i] = t[i]
  /\ s[r + 1] = One
  /\ \A i \in 1 .. z : s[r + 1 + i] = 0
  /\ \A i \in 1 .. e : s[r + 1 + z + i] = ending[i]

\* What stands in the tail.
LEMMA Tail3Bytes ==
  ASSUME NEW t \in Bytes, NEW z \in Nat, NEW ending \in Bytes, NEW r \in Nat, Len(t) = r,
         NEW e \in Nat, Len(ending) = e
  PROVE  IsTail3(Tail3(t, z, ending), t, r, z, ending, e)
  <1>1. PICK a : a = t \o <<One>>
    OBVIOUS
  <1>2. PICK b : b = a \o Zeros(z)
    OBVIOUS
  <1>3. /\ a \in Bytes /\ Len(a) = r + 1 /\ \A i \in 1 .. r : a[i] = t[i]
        /\ a[r + 1] = One
    <2>1. 1 \in 1 .. Len(<<One>>)
      BY OneByte
    <2> QED BY <1>1, <2>1, OneByte, ConcatSeq, ZenonT(60)
  <1>4. /\ Zeros(z) \in Bytes /\ Len(Zeros(z)) = z /\ \A i \in 1 .. z : Zeros(z)[i] = 0
    BY ZerosSeq
  <1>5. /\ b \in Bytes /\ Len(b) = r + 1 + z /\ \A i \in 1 .. r + 1 : b[i] = a[i]
        /\ \A i \in 1 .. z : b[r + 1 + i] = 0
    <2>1. /\ b \in Bytes /\ Len(b) = Len(a) + Len(Zeros(z))
          /\ \A i \in 1 .. Len(a) : b[i] = a[i]
          /\ \A i \in 1 .. Len(Zeros(z)) : b[Len(a) + i] = Zeros(z)[i]
      <3>1. PICK y : y = Zeros(z)
        OBVIOUS
      <3>2. a \in Bytes /\ y \in Bytes /\ b = a \o y
        BY <1>2, <1>3, <1>4, <3>1
      <3> QED BY <3>1, <3>2, ConcatSeq
    <2> QED BY <1>3, <1>4, <2>1
  <1>6. PICK s : s = b \o ending
    OBVIOUS
  <1>7. /\ s \in Bytes /\ Len(s) = r + 1 + z + Len(ending)
        /\ \A i \in 1 .. r + 1 + z : s[i] = b[i]
        /\ \A i \in 1 .. Len(ending) : s[r + 1 + z + i] = ending[i]
    <2>1. /\ s \in Bytes /\ Len(s) = Len(b) + Len(ending)
          /\ \A i \in 1 .. Len(b) : s[i] = b[i]
          /\ \A i \in 1 .. Len(ending) : s[Len(b) + i] = ending[i]
      BY <1>5, <1>6, ConcatSeq
    <2> QED BY <1>5, <2>1, LenNat
  <1>8. s = Tail3(t, z, ending)
    BY <1>1, <1>2, <1>6 DEF Tail3
  <1>9. \A i \in 1 .. r : s[i] = t[i]
    <2>1. \A i \in 1 .. r : i \in 1 .. r + 1 /\ i \in 1 .. r + 1 + z
      OBVIOUS
    <2> QED BY <1>3, <1>5, <1>7, <2>1
  <1>10. s[r + 1] = One
    <2>1. r + 1 \in 1 .. r + 1 /\ r + 1 \in 1 .. r + 1 + z
      OBVIOUS
    <2> QED BY <1>3, <1>5, <1>7, <2>1
  <1>11. \A i \in 1 .. z : s[r + 1 + i] = 0
    <2>1. \A i \in 1 .. z : r + 1 + i \in 1 .. r + 1 + z
      OBVIOUS
    <2> QED BY <1>5, <1>7, <2>1
  <1>12. IsTail3(s, t, r, z, ending, e)
    BY <1>7, <1>9, <1>10, <1>11 DEF IsTail3
  <1> QED BY <1>8, <1>12

\* A block x begins with the r bytes of t, 0x80 and zeros up to place l.
Begins(x, t, r, l, n) ==
  /\ x \in Bytes /\ Len(x) = n
  /\ \A i \in 1 .. r : x[i] = t[i]
  /\ x[r + 1] = One
  /\ \A i \in r + 2 .. l : x[i] = 0
\* It ends with the e bytes of ending.
Ends(x, ending, e, n) ==
  x \in Bytes /\ Len(x) = n /\ \A i \in 1 .. e : x[n - e + i] = ending[i]

\* A block that begins and ends right is the tail.
LEMMA OneTailBytes ==
  ASSUME NEW t \in Bytes, NEW z \in Nat, NEW ending \in Bytes, NEW r \in Nat, NEW e \in Nat,
         NEW n \in Nat, Len(t) = r, Len(ending) = e, r + 1 + z = n - e,
         NEW x, Begins(x, t, r, n - e, n), Ends(x, ending, e, n)
  PROVE  /\ Tail3(t, z, ending) \in Bytes /\ Len(Tail3(t, z, ending)) = n
         /\ Piece(x, Tail3(t, z, ending), 0, n)
  <1>0. /\ x \in Bytes /\ Len(x) = n /\ x[r + 1] = One
        /\ \A i \in 1 .. r : x[i] = t[i]
        /\ \A i \in r + 2 .. n - e : x[i] = 0
        /\ \A i \in 1 .. e : x[n - e + i] = ending[i]
    BY Zenon DEF Begins, Ends
  <1>1. PICK s : s = Tail3(t, z, ending)
    OBVIOUS
  <1>2. /\ s \in Bytes /\ Len(s) = r + 1 + z + e
        /\ \A i \in 1 .. r : s[i] = t[i]
        /\ s[r + 1] = One
        /\ \A i \in 1 .. z : s[r + 1 + i] = 0
        /\ \A i \in 1 .. e : s[r + 1 + z + i] = ending[i]
    <2>1. IsTail3(Tail3(t, z, ending), t, r, z, ending, e)
      BY Tail3Bytes
    <2> QED BY <1>1, <2>1, Zenon DEF IsTail3
  <1>3. ASSUME NEW i \in 1 .. n PROVE x[i] = s[0 + i]
    <2>0. 0 + i = i
      OBVIOUS
    <2>1. CASE i \in 1 .. r
      BY <1>0, <1>2, <2>0, <2>1
    <2>2. CASE i = r + 1
      BY <1>0, <1>2, <2>0, <2>2
    <2>3. CASE i \in r + 2 .. n - e
      <3>1. PICK j : j = i - (r + 1)
        OBVIOUS
      <3>2. j \in 1 .. z /\ i = r + 1 + j
        BY <2>3, <3>1
      <3>3. s[r + 1 + j] = 0 /\ x[i] = 0
        BY <1>0, <1>2, <2>3, <3>2, Zenon
      <3> QED BY <2>0, <3>2, <3>3, Zenon
    <2>4. CASE i > n - e
      <3>1. PICK j : j = i - (n - e)
        OBVIOUS
      <3>2. j \in 1 .. e /\ i = n - e + j /\ i = r + 1 + z + j
        BY <2>4, <3>1
      <3>3. s[r + 1 + z + j] = ending[j] /\ x[n - e + j] = ending[j]
        BY <1>0, <1>2, <3>2, Zenon
      <3> QED BY <2>0, <3>2, <3>3, Zenon
    <2>5. i \in 1 .. r \/ i = r + 1 \/ i \in r + 2 .. n - e \/ i > n - e
      OBVIOUS
    <2> QED BY <2>1, <2>2, <2>3, <2>4, <2>5
  <1>4. Piece(x, s, 0, n)
    BY <1>0, <1>3 DEF Piece
  <1>5. Len(s) = n
    BY <1>2
  <1> QED BY <1>1, <1>2, <1>4, <1>5, Zenon

\* So are two blocks.
LEMMA TwoTailBytes ==
  ASSUME NEW t \in Bytes, NEW z \in Nat, NEW ending \in Bytes, NEW r \in Nat, NEW e \in Nat,
         NEW n \in Nat, Len(t) = r, Len(ending) = e, r + 1 + z + e = 2 * n, r < n, e < n,
         NEW x, Begins(x, t, r, n, n),
         NEW y, \A i \in 1 .. n - e : y[i] = 0, Ends(y, ending, e, n)
  PROVE  /\ Tail3(t, z, ending) \in Bytes /\ Len(Tail3(t, z, ending)) = 2 * n
         /\ Piece(x, Tail3(t, z, ending), 0, n) /\ Piece(y, Tail3(t, z, ending), n, n)
  <1>0. /\ x \in Bytes /\ Len(x) = n /\ x[r + 1] = One
        /\ \A i \in 1 .. r : x[i] = t[i]
        /\ \A i \in r + 2 .. n : x[i] = 0
        /\ y \in Bytes /\ Len(y) = n
        /\ \A i \in 1 .. e : y[n - e + i] = ending[i]
    BY Zenon DEF Begins, Ends
  <1>1. PICK s : s = Tail3(t, z, ending)
    OBVIOUS
  <1>2. /\ s \in Bytes /\ Len(s) = r + 1 + z + e
        /\ \A i \in 1 .. r : s[i] = t[i]
        /\ s[r + 1] = One
        /\ \A i \in 1 .. z : s[r + 1 + i] = 0
        /\ \A i \in 1 .. e : s[r + 1 + z + i] = ending[i]
    <2>1. IsTail3(Tail3(t, z, ending), t, r, z, ending, e)
      BY Tail3Bytes
    <2> QED BY <1>1, <2>1, Zenon DEF IsTail3
  <1>3. ASSUME NEW i \in 1 .. n PROVE x[i] = s[0 + i]
    <2>0. 0 + i = i
      OBVIOUS
    <2>1. CASE i \in 1 .. r
      BY <1>0, <1>2, <2>0, <2>1
    <2>2. CASE i = r + 1
      BY <1>0, <1>2, <2>0, <2>2
    <2>3. CASE i \in r + 2 .. n
      <3>1. PICK j : j = i - (r + 1)
        OBVIOUS
      <3>2. j \in 1 .. z /\ i = r + 1 + j
        BY <2>3, <3>1
      <3>3. s[r + 1 + j] = 0 /\ x[i] = 0
        BY <1>0, <1>2, <2>3, <3>2, Zenon
      <3> QED BY <2>0, <3>2, <3>3, Zenon
    <2>4. i \in 1 .. r \/ i = r + 1 \/ i \in r + 2 .. n
      OBVIOUS
    <2> QED BY <2>1, <2>2, <2>3, <2>4
  <1>4. ASSUME NEW i \in 1 .. n PROVE y[i] = s[n + i]
    <2>1. CASE i \in 1 .. n - e
      <3>1. PICK j : j = n + i - (r + 1)
        OBVIOUS
      <3>2. j \in 1 .. z /\ n + i = r + 1 + j
        BY <2>1, <3>1
      <3>3. s[r + 1 + j] = 0 /\ y[i] = 0
        BY <1>0, <1>2, <2>1, <3>2, Zenon
      <3> QED BY <3>2, <3>3, Zenon
    <2>2. CASE i > n - e
      <3>1. PICK j : j = i - (n - e)
        OBVIOUS
      <3>2. j \in 1 .. e /\ i = n - e + j /\ n + i = r + 1 + z + j
        BY <2>2, <3>1
      <3>3. s[r + 1 + z + j] = ending[j] /\ y[n - e + j] = ending[j]
        BY <1>0, <1>2, <3>2, Zenon
      <3> QED BY <3>2, <3>3, Zenon
    <2>3. i \in 1 .. n - e \/ i > n - e
      OBVIOUS
    <2> QED BY <2>1, <2>2, <2>3
  <1>5. Len(s) = 2 * n
    BY <1>0, <1>2
  <1>6. Piece(x, s, 0, n)
    BY <1>0, <1>3 DEF Piece
  <1>7. Piece(y, s, n, n)
    BY <1>0, <1>4 DEF Piece
  <1> QED BY <1>1, <1>2, <1>5, <1>6, <1>7, Zenon

\* The message's rest, as an update left it in the buffer.
IsRest(t, r, m, n, digest, buffer) ==
  /\ t = Rest(m, n) /\ r = Len(m) % n /\ digest = Cut(m, n)
  /\ t \in Bytes /\ Len(t) = r /\ r \in Nat /\ r < n
  /\ buffer \in Bytes /\ Len(buffer) = n
  /\ \A i \in 1 .. r : t[i] = buffer[i]

\* The rest of the message, of a context that has seen it.
LEMMA RestOf ==
  ASSUME NEW m \in Bytes, NEW n \in Nat \ {0}, NEW digest, NEW buffer,
         Feeds(digest, buffer, m, n)
  PROVE  IsRest(Rest(m, n), Len(m) % n, m, n, digest, buffer)
  <1>1. PICK r : r = Len(m) % n
    OBVIOUS
  <1>2. PICK t : t = Rest(m, n)
    OBVIOUS
  <1>3. r \in Nat /\ r < n
    <2>1. Len(m) % n \in Nat /\ Len(m) % n <= n - 1
      BY LenNat, DivParts, Zenon
    <2> QED BY <1>1, <2>1
  <1>4. Piece(t, buffer, 0, r) /\ digest = Cut(m, n) /\ buffer \in Bytes /\ Len(buffer) = n
    BY <1>1, <1>2 DEF Feeds
  <1>5. t \in Bytes /\ Len(t) = r /\ \A i \in 1 .. r : t[i] = buffer[i]
    BY <1>3, <1>4 DEF Piece
  <1>6. IsRest(t, r, m, n, digest, buffer)
    BY <1>1, <1>2, <1>3, <1>4, <1>5, Zenon DEF IsRest
  <1> QED BY <1>1, <1>2, <1>6, Zenon

\* The padding fits into the block the message ends in.
LEMMA OneTail ==
  ASSUME NEW m \in Bytes, NEW n \in Nat \ {0}, NEW ending \in Bytes, NEW digest, NEW buffer,
         NEW t, NEW r, IsRest(t, r, m, n, digest, buffer), NEW e \in Nat, Len(ending) = e,
         r + 1 + e <= n, NEW x, Begins(x, buffer, r, n - e, n), Ends(x, ending, e, n)
  PROVE  Padded(m, n, ending) = digest \o <<x>>
  <1>1. /\ t = Rest(m, n) /\ r = Len(m) % n /\ digest = Cut(m, n)
        /\ t \in Bytes /\ Len(t) = r /\ r \in Nat /\ n \in Nat
        /\ \A i \in 1 .. r : t[i] = buffer[i]
    BY DEF IsRest
  <1>2. PICK z : z = PadZeros(r, e, n)
    OBVIOUS
  <1>3. z \in Nat /\ e + 1 <= n /\ r + 1 + z = n - e
    <2>1. z = n - (r + 1 + e)
      BY <1>2 DEF PadZeros
    <2>2. r \in Nat /\ n \in Nat
      BY <1>1
    <2> QED BY <2>1, <2>2
  <1>4. Padded(m, n, ending) = Cut(m, n) \o Cut(Tail3(t, z, ending), n)
    <2>1. Len(ending) + 1 <= n
      BY <1>3
    <2>2. Padded(m, n, ending)
            = Cut(m, n)
                \o Cut(Tail3(Rest(m, n), PadZeros(Len(m) % n, Len(ending), n), ending), n)
      BY <2>1, PaddedTail, Zenon
    <2> QED BY <1>1, <1>2, <2>2, Zenon
  <1>5. Begins(x, t, r, n - e, n)
    BY <1>1, Zenon DEF Begins
  <1>6. /\ Tail3(t, z, ending) \in Bytes /\ Len(Tail3(t, z, ending)) = n
        /\ Piece(x, Tail3(t, z, ending), 0, n)
    <2>1. t \in Bytes /\ Len(t) = r /\ r \in Nat /\ n \in Nat
      BY <1>1
    <2> QED BY <1>3, <1>5, <2>1, OneTailBytes, Zenon
  <1>7. Cut(Tail3(t, z, ending), n) = <<x>>
    BY <1>6, CutOne, Zenon
  <1> QED BY <1>1, <1>4, <1>7, Zenon

\* It needs a further block, which is clear up to its ending.
Spills(r, e, n) == e < n /\ ~(r + 1 + e <= n)
Clear(y, l) == \A i \in 1 .. l : y[i] = 0

LEMMA TwoTail ==
  ASSUME NEW m \in Bytes, NEW n \in Nat \ {0}, NEW ending \in Bytes, NEW digest, NEW buffer,
         NEW t, NEW r, IsRest(t, r, m, n, digest, buffer), NEW e \in Nat, Len(ending) = e,
         Spills(r, e, n), NEW x, Begins(x, buffer, r, n, n),
         NEW y, Clear(y, n - e), Ends(y, ending, e, n)
  PROVE  Padded(m, n, ending) = digest \o <<x, y>>
  <1>1. /\ t = Rest(m, n) /\ r = Len(m) % n /\ digest = Cut(m, n)
        /\ t \in Bytes /\ Len(t) = r /\ r \in Nat /\ r < n /\ n \in Nat
        /\ \A i \in 1 .. r : t[i] = buffer[i]
    BY DEF IsRest
  <1>2. PICK z : z = PadZeros(r, e, n)
    OBVIOUS
  <1>3. z \in Nat /\ e + 1 <= n /\ r + 1 + z + e = 2 * n
    <2>1. z = 2 * n - (r + 1 + e)
      BY <1>2 DEF PadZeros, Spills
    <2>2. r \in Nat /\ n \in Nat /\ r < n
      BY <1>1
    <2> QED BY <2>1, <2>2 DEF Spills
  <1>4. Padded(m, n, ending) = Cut(m, n) \o Cut(Tail3(t, z, ending), n)
    <2>1. Len(ending) + 1 <= n
      BY <1>3
    <2>2. Padded(m, n, ending)
            = Cut(m, n)
                \o Cut(Tail3(Rest(m, n), PadZeros(Len(m) % n, Len(ending), n), ending), n)
      BY <2>1, PaddedTail, Zenon
    <2> QED BY <1>1, <1>2, <2>2, Zenon
  <1>5. Begins(x, t, r, n, n)
    BY <1>1, Zenon DEF Begins
  <1>6. /\ Tail3(t, z, ending) \in Bytes /\ Len(Tail3(t, z, ending)) = 2 * n
        /\ Piece(x, Tail3(t, z, ending), 0, n) /\ Piece(y, Tail3(t, z, ending), n, n)
    <2>1. t \in Bytes /\ Len(t) = r /\ r \in Nat /\ n \in Nat /\ r < n
      BY <1>1
    <2>2. e < n /\ \A i \in 1 .. n - e : y[i] = 0
      BY Zenon DEF Spills, Clear
    <2> QED BY <1>3, <1>5, <2>1, <2>2, TwoTailBytes, Zenon
  <1>7. Cut(Tail3(t, z, ending), n) = <<x, y>>
    BY <1>6, CutTwo
  <1> QED BY <1>1, <1>4, <1>7, Zenon

-----------------------------------------------------------------------------
\* What stands in a buffer after bytes were put into it.
IsPut(x, b, at, d, l, n) ==
  /\ x \in Bytes /\ Len(x) = n
  /\ \A i \in 1 .. n : i <= at \/ i > at + l => x[i] = b[i]
  /\ \A i \in 1 .. l : x[at + i] = d[i]

\* What Put leaves and what it writes.
LEMMA PutIs ==
  ASSUME NEW b \in Bytes, NEW n \in Nat, Len(b) = n, NEW at \in Nat, NEW d \in Bytes,
         NEW l \in Nat, Len(d) = l, at + l <= n
  PROVE  IsPut(Put(b, at, d), b, at, d, l, n)
  <1>1. PICK x : x = Put(b, at, d)
    OBVIOUS
  <1>2. /\ x \in Bytes /\ Len(x) = n
        /\ \A i \in 1 .. n : x[i] = IF i > at /\ i <= at + l THEN d[i - at] ELSE b[i]
    BY <1>1, PutSeq
  <1>3. ASSUME NEW i \in 1 .. l PROVE x[at + i] = d[i]
    <2>1. PICK k : k = at + i
      OBVIOUS
    <2>2. k \in 1 .. n /\ k > at /\ k <= at + l /\ k - at = i
      BY <2>1
    <2>3. x[k] = d[i]
      BY <1>2, <2>2
    <2> QED BY <2>1, <2>3
  <1>4. ASSUME NEW i \in 1 .. n, i <= at \/ i > at + l PROVE x[i] = b[i]
    <2>1. ~(i > at /\ i <= at + l)
      BY <1>4
    <2> QED BY <1>2, <2>1
  <1> QED BY <1>1, <1>2, <1>3, <1>4 DEF IsPut

\* A pair of bytes.
LEMMA TwoBytes ==
  ASSUME NEW a \in Int, NEW b \in Int
  PROVE  <<a, b>> \in Bytes /\ Len(<<a, b>>) = 2 /\ <<a, b>>[1] = a /\ <<a, b>>[2] = b
  BY DEF Bytes

\* The three ways a last block is made.
LEMMA PutOne ==
  ASSUME NEW b \in Bytes, NEW n \in Nat, Len(b) = n, NEW r \in Nat, r < n
  PROVE  Begins(Put(b, r, <<One>>), b, r, r + 1, n)
  <1>1. PICK x : x = Put(b, r, <<One>>)
    OBVIOUS
  <1>2. IsPut(x, b, r, <<One>>, 1, n)
    <2>1. r + 1 <= n
      OBVIOUS
    <2> QED BY <1>1, <2>1, OneByte, PutIs
  <1>3. /\ x \in Bytes /\ Len(x) = n
        /\ \A i \in 1 .. n : i <= r \/ i > r + 1 => x[i] = b[i]
        /\ \A i \in 1 .. 1 : x[r + i] = <<One>>[i]
    BY <1>2, Zenon DEF IsPut
  <1>4. \A i \in 1 .. r : x[i] = b[i]
    BY <1>3
  <1>5. x[r + 1] = One
    <2>1. 1 \in 1 .. 1
      OBVIOUS
    <2> QED BY <1>3, <2>1, OneByte
  <1>6. \A i \in r + 2 .. r + 1 : x[i] = 0
    OBVIOUS
  <1>7. Begins(x, b, r, r + 1, n)
    BY <1>3, <1>4, <1>5, <1>6 DEF Begins
  <1> QED BY <1>1, <1>7, Zenon

\* Zeros behind what is there: l bytes were right, l + k are.
LEMMA PutZeros ==
  ASSUME NEW b, NEW x, NEW n \in Nat, NEW r \in Nat, NEW l \in Nat, NEW k \in Nat,
         Begins(x, b, r, l, n), r < l, l + k <= n
  PROVE  Begins(Put(x, l, Zeros(k)), b, r, l + k, n)
  <1>1. PICK y : y = Put(x, l, Zeros(k))
    OBVIOUS
  <1>2. /\ x \in Bytes /\ Len(x) = n /\ \A i \in 1 .. r : x[i] = b[i]
        /\ x[r + 1] = One /\ \A i \in r + 2 .. l : x[i] = 0
    BY DEF Begins
  <1>3. IsPut(y, x, l, Zeros(k), k, n)
    BY <1>1, <1>2, ZerosSeq, PutIs
  <1>4. /\ y \in Bytes /\ Len(y) = n
        /\ \A i \in 1 .. n : i <= l \/ i > l + k => y[i] = x[i]
        /\ \A i \in 1 .. k : y[l + i] = 0
    BY <1>3, ZerosSeq DEF IsPut
  <1>5. \A i \in 1 .. r : y[i] = b[i]
    BY <1>2, <1>4
  <1>6. y[r + 1] = One
    BY <1>2, <1>4
  <1>7. ASSUME NEW i \in r + 2 .. l + k PROVE y[i] = 0
    <2>1. CASE i <= l
      <3>1. i \in r + 2 .. l /\ i \in 1 .. n
        BY <2>1
      <3> QED BY <1>2, <1>4, <2>1, <3>1
    <2>2. CASE i > l
      <3>1. PICK j : j = i - l
        OBVIOUS
      <3>2. j \in 1 .. k /\ i = l + j
        BY <2>2, <3>1
      <3> QED BY <1>4, <3>2
    <2> QED BY <2>1, <2>2
  <1>8. Begins(y, b, r, l + k, n)
    BY <1>4, <1>5, <1>6, <1>7 DEF Begins
  <1> QED BY <1>1, <1>8, Zenon

\* The count of the message at the end of the block.
LEMMA PutEnding ==
  ASSUME NEW b, NEW x, NEW n \in Nat, NEW r \in Nat, NEW l \in Nat, NEW e \in Nat,
         NEW ending \in Bytes, Len(ending) = e,
         Begins(x, b, r, l, n), r < l, l = n - e
  PROVE  Begins(Put(x, l, ending), b, r, n - e, n) /\ Ends(Put(x, l, ending), ending, e, n)
  <1>1. PICK y : y = Put(x, l, ending)
    OBVIOUS
  <1>2. /\ x \in Bytes /\ Len(x) = n /\ \A i \in 1 .. r : x[i] = b[i]
        /\ x[r + 1] = One /\ \A i \in r + 2 .. l : x[i] = 0
    BY DEF Begins
  <1>3. IsPut(y, x, l, ending, e, n)
    <2>1. l + e <= n
      OBVIOUS
    <2> QED BY <1>1, <1>2, <2>1, PutIs
  <1>4. /\ y \in Bytes /\ Len(y) = n
        /\ \A i \in 1 .. n : i <= l \/ i > l + e => y[i] = x[i]
        /\ \A i \in 1 .. e : y[l + i] = ending[i]
    BY <1>3 DEF IsPut
  <1>5. \A i \in 1 .. r : y[i] = b[i]
    BY <1>2, <1>4
  <1>6. y[r + 1] = One
    BY <1>2, <1>4
  <1>7. \A i \in r + 2 .. n - e : y[i] = 0
    BY <1>2, <1>4
  <1>8. Begins(y, b, r, n - e, n)
    BY <1>4, <1>5, <1>6, <1>7 DEF Begins
  <1>9. Ends(y, ending, e, n)
    BY <1>4 DEF Ends
  <1> QED BY <1>1, <1>8, <1>9, Zenon

\* A block of zeros and the count.
LEMMA ZerosThen ==
  ASSUME NEW k \in Nat, NEW ending \in Bytes, NEW e \in Nat, Len(ending) = e
  PROVE  /\ Ends(Zeros(k) \o ending, ending, e, k + e)
         /\ \A i \in 1 .. k : (Zeros(k) \o ending)[i] = 0
  <1>1. PICK z : z = Zeros(k)
    OBVIOUS
  <1>2. z \in Bytes /\ Len(z) = k /\ \A i \in 1 .. k : z[i] = 0
    BY <1>1, ZerosSeq
  <1>3. PICK y : y = z \o ending
    OBVIOUS
  <1>4. /\ y \in Bytes /\ Len(y) = k + e
        /\ \A i \in 1 .. k : y[i] = z[i]
        /\ \A i \in 1 .. e : y[k + i] = ending[i]
    BY <1>2, <1>3, ConcatSeq
  <1>5. \A i \in 1 .. k : y[i] = 0
    BY <1>2, <1>4
  <1>6. Ends(y, ending, e, k + e)
    <2>1. k + e - e = k
      OBVIOUS
    <2> QED BY <1>4, <2>1 DEF Ends
  <1> QED BY <1>1, <1>3, <1>5, <1>6, Zenon

\* A counter word is a byte of the model.
LEMMA CountBytes ==
  ASSUME NEW v \in Nat, NEW w \in Nat \ {0}
  PROVE  Count(v % w) \in Int /\ Count(v) \in Int
  <1>1. v % w \in Nat
    BY DivParts
  <1> QED BY <1>1 DEF Count

\* The count at the end of the padded message.
LEMMA BitCountBytes ==
  ASSUME NEW l \in Nat
  PROVE  /\ BitCount(l) \in Bytes /\ Len(BitCount(l)) = 2
         /\ BigEndian(BitCount(l)) \in Bytes /\ Len(BigEndian(BitCount(l))) = 2
         /\ BigEndian(BitCount(l))
              = <<Count(((8 * l) \div Word) % Word), Count((8 * l) % Word)>>
  <1>1. PICK a : a = Count((8 * l) % Word)
    OBVIOUS
  <1>2. PICK b : b = Count(((8 * l) \div Word) % Word)
    OBVIOUS
  <1>3. 8 * l \in Nat /\ (8 * l) \div Word \in Nat
    <2>1. 8 * l \in Nat
      OBVIOUS
    <2> QED BY <2>1, BlockTypes, DivParts
  <1>4. a \in Int /\ b \in Int
    BY <1>1, <1>2, <1>3, BlockTypes, CountBytes
  <1>5. BitCount(l) = <<a, b>>
    BY <1>1, <1>2 DEF BitCount
  <1>6. BigEndian(BitCount(l)) = <<b, a>>
    BY <1>5 DEF BigEndian
  <1> QED BY <1>1, <1>2, <1>4, <1>5, <1>6, TwoBytes

\* MD5Final compresses the padded message.
LEMMA MD5FinalPadded ==
  ASSUME NEW m \in Bytes, NEW c, MD5Fed(c, m)
  PROVE  MD5Final(c) = Padded(m, Block, BitCount(Len(m)))
  <1>1. PICK ending : ending = BitCount(Len(m))
    OBVIOUS
  <1>0. PICK e : e = 2
    OBVIOUS
  <1>2. ending \in Bytes /\ Len(ending) = e /\ e \in Nat
    BY <1>0, <1>1, LenNat, BitCountBytes
  <1>3. MD5Shape(c) /\ Feeds(c.digest, c.in, m, Block)
    BY DEF MD5Fed
  <1>4. PICK r : r = Len(m) % Block
    OBVIOUS
  <1>5. PICK t : t = Rest(m, Block)
    OBVIOUS
  <1>6. IsRest(t, r, m, Block, c.digest, c.in)
    BY <1>3, <1>4, <1>5, BlockTypes, RestOf
  <1>7. r \in Nat /\ r < Block /\ c.in \in Bytes /\ Len(c.in) = Block /\ c.digest \in Seq(Bytes)
    <2>1. c.digest = Cut(m, Block)
      BY <1>6 DEF IsRest
    <2>2. Cut(m, Block) \in Seq(Bytes)
      BY BlockTypes, CutSeq
    <2> QED BY <1>6, <2>1, <2>2, Zenon DEF IsRest
  <1>8. (c.bits[1] \div 8) % Block = r /\ <<Count(c.bits[1]), Count(c.bits[2])>> = ending
    <2>1. c.bits = <<(8 * Len(m)) % Word, ((8 * Len(m)) \div Word) % Word>>
      BY DEF MD5Fed
    <2>2. c.bits[1] = (8 * Len(m)) % Word /\ c.bits[2] = ((8 * Len(m)) \div Word) % Word
      BY <2>1
    <2>3. (((8 * Len(m)) % Word) \div 8) % Block = Len(m) % Block
      BY LenNat, PlaceOfBits, Zenon
    <2> QED BY <1>1, <1>4, <2>2, <2>3, Zenon DEF BitCount
  <1>9. PICK marked : marked = Put(c.in, r, <<One>>)
    OBVIOUS
  <1>10. Begins(marked, c.in, r, r + 1, Block)
    BY <1>7, <1>9, BlockTypes, PutOne
  <1>11. PICK left : left = Block - 1 - r
    OBVIOUS
  <1>12. left \in Nat
    BY <1>7, <1>11, BlockTypes
  <1>13. CASE left < 2
    <2>1. PICK x : x = Put(marked, r + 1, Zeros(left))
      OBVIOUS
    <2>2. PICK y : y = Zeros(Block - 2) \o ending
      OBVIOUS
    <2>3. MD5Final(c) = c.digest \o <<x, y>>
      BY <1>8, <1>9, <1>11, <1>13, <2>1, <2>2 DEF MD5Final
    <2>4. Begins(x, c.in, r, Block, Block)
      <3>1. r + 1 \in Nat /\ r < r + 1 /\ (r + 1) + left <= Block /\ (r + 1) + left = Block
        BY <1>7, <1>11, BlockTypes
      <3>2. Begins(x, c.in, r, (r + 1) + left, Block)
        BY <1>7, <1>10, <1>12, <2>1, <3>1, BlockTypes, PutZeros
      <3> QED BY <3>1, <3>2
    <2>5. Ends(y, ending, e, Block) /\ Clear(y, Block - e)
      <3>1. PICK k : k = Block - 2
        OBVIOUS
      <3>2. k \in Nat /\ k = Block - e /\ k + e = Block /\ y = Zeros(k) \o ending
        BY <1>0, <2>2, <3>1, BlockTypes
      <3>3. /\ Ends(Zeros(k) \o ending, ending, e, k + e)
            /\ \A i \in 1 .. k : (Zeros(k) \o ending)[i] = 0
        BY <1>2, <3>2, ZerosThen
      <3> QED BY <3>2, <3>3 DEF Clear
    <2>6. Spills(r, e, Block) /\ Block \in Nat \ {0}
      BY <1>0, <1>7, <1>11, <1>13, BlockTypes DEF Spills
    <2>7. Padded(m, Block, ending) = c.digest \o <<x, y>>
      BY <1>2, <1>6, <2>4, <2>5, <2>6, TwoTail
    <2> QED BY <1>1, <2>3, <2>7
  <1>14. CASE ~(left < 2)
    <2>1. PICK y : y = Put(marked, r + 1, Zeros(left - 2))
      OBVIOUS
    <2>2. PICK x : x = Put(y, Block - 2, ending)
      OBVIOUS
    <2>3. MD5Final(c) = Append(c.digest, x)
      BY <1>8, <1>9, <1>11, <1>14, <2>1, <2>2 DEF MD5Final
    <2>4. Begins(y, c.in, r, Block - 2, Block)
      <3>1. /\ r + 1 \in Nat /\ r < r + 1 /\ left - 2 \in Nat
            /\ (r + 1) + (left - 2) <= Block /\ (r + 1) + (left - 2) = Block - 2
        BY <1>7, <1>11, <1>12, <1>14, BlockTypes
      <3>2. Begins(y, c.in, r, (r + 1) + (left - 2), Block)
        BY <1>7, <1>10, <2>1, <3>1, BlockTypes, PutZeros
      <3> QED BY <3>1, <3>2
    <2>5. Begins(x, c.in, r, Block - e, Block) /\ Ends(x, ending, e, Block)
      <3>1. PICK l : l = Block - 2
        OBVIOUS
      <3>2. l \in Nat /\ r < l /\ l = Block - e
        BY <1>0, <1>7, <1>11, <1>14, <3>1, BlockTypes
      <3>3. Begins(y, c.in, r, l, Block) /\ x = Put(y, l, ending)
        BY <2>2, <2>4, <3>1
      <3> QED BY <1>2, <1>7, <3>2, <3>3, BlockTypes, PutEnding
    <2>6. r + 1 + e <= Block
      BY <1>0, <1>7, <1>11, <1>14, BlockTypes
    <2>7. Padded(m, Block, ending) = c.digest \o <<x>>
      BY <1>2, <1>3, <1>6, <2>5, <2>6, BlockTypes, OneTail
    <2>8. Append(c.digest, x) = c.digest \o <<x>>
      <3>1. x \in Bytes
        BY <2>5 DEF Ends
      <3> QED BY <1>7, <3>1, AppendIsConcat
    <2> QED BY <1>1, <2>3, <2>7, <2>8
  <1> QED BY <1>13, <1>14

-----------------------------------------------------------------------------
\* A context of SHA-1 and SHA-256 that has seen m, with the right counter.
Sha1Fed(c, m) ==
  /\ Feeds(c.digest, c.buffer, m, Block)
  /\ c.total = <<Len(m) % Word, (Len(m) \div Word) % Word>>

\* With the right counter the place in the block is right.
LEMMA Sha1FedFeeds ==
  ASSUME NEW m \in Bytes, NEW c, Sha1Fed(c, m)
  PROVE  Sha1Feeds(c, m)
  <1>1. c.total = <<Len(m) % Word, (Len(m) \div Word) % Word>>
        /\ Feeds(c.digest, c.buffer, m, Block)
    BY DEF Sha1Fed
  <1>2. c.total[1] = Len(m) % Word
    BY <1>1
  <1>3. Len(m) % Word \in Nat
    BY LenNat, BlockTypes, DivParts, Zenon
  <1>4. (Len(m) % Word) % Block = Len(m) % Block
    BY LenNat, BlockTypes, ModMod, Zenon
  <1> QED BY <1>1, <1>2, <1>3, <1>4, Zenon DEF Sha1Feeds

\* The two words of a counter of bytes after an addition.
SecondWord(low, high, b, w) == IF low < b THEN (high + 1) % w ELSE high

\* They are the two words of the sum.
LEMMA BytesAdded ==
  ASSUME NEW a \in Nat, NEW b \in Nat, NEW w \in Nat \ {0}, (a % w) + b < 2 * w
  PROVE  SecondWord((a + b) % w, (a \div w) % w, b, w) = ((a + b) \div w) % w
  <1>1. PICK low : low = (a + b) % w
    OBVIOUS
  <1>2. PICK q : q = a \div w
    OBVIOUS
  <1>3. q \in Nat
    BY <1>2, DivMod
  <1>4. (a + b) \div w = q + (IF low < b THEN 1 ELSE 0)
    <2>1. (a + b) \div w = (a \div w) + (IF ((a % w) + b) % w < b THEN 1 ELSE 0)
      BY ByteCarry
    <2>2. ((a % w) + b) % w = (a + b) % w
      BY ModAdd
    <2> QED BY <1>1, <1>2, <2>1, <2>2
  <1>5. ((q % w) + 1) % w = (q + 1) % w /\ q + 0 = q
    <2>1. 1 \in Nat
      OBVIOUS
    <2>2. ((q % w) + 1) % w = (q + 1) % w
      BY <1>3, <2>1, ModAdd
    <2> QED BY <1>3, <2>2
  <1>6. SecondWord(low, q % w, b, w) = (q + (IF low < b THEN 1 ELSE 0)) % w
    <2>1. CASE low < b
      BY <1>5, <2>1 DEF SecondWord
    <2>2. CASE ~(low < b)
      BY <1>5, <2>2 DEF SecondWord
    <2> QED BY <2>1, <2>2
  <1> QED BY <1>1, <1>2, <1>4, <1>6, Zenon

\* sha1_update counts the bytes too, the carry being at most one.
LEMMA Sha1UpdateFed ==
  ASSUME NEW m \in Bytes, NEW d \in Bytes, NEW c, Sha1Fed(c, m),
         (Len(m) % Word) + Len(d) < 2 * Word
  PROVE  Sha1Fed(sha1_update(c, d), m \o d)
  <1>1. Sha1Feeds(sha1_update(c, d), m \o d)
    BY Sha1FedFeeds, Sha1UpdateFeeds
  <1>2. Feeds(sha1_update(c, d).digest, sha1_update(c, d).buffer, m \o d, Block)
    BY <1>1 DEF Sha1Feeds
  <1>3. c.total = <<Len(m) % Word, (Len(m) \div Word) % Word>>
    BY DEF Sha1Fed
  <1>4. Len(m \o d) = Len(m) + Len(d) /\ Len(m) \in Nat /\ Len(d) \in Nat
    BY ConcatSeq, LenNat
  <1>5. sha1_update(c, d).total = <<Len(m \o d) % Word, (Len(m \o d) \div Word) % Word>>
    <2>1. CASE Len(d) = 0
      <3>1. Len(m \o d) = Len(m)
        BY <1>4, <2>1
      <3>2. sha1_update(c, d) = c
        BY <2>1, Sha1Nothing
      <3> QED BY <1>3, <3>1, <3>2, Zenon
    <2>2. CASE Len(d) # 0
      <3>1. PICK low : low = (Len(m) + Len(d)) % Word
        OBVIOUS
      <3>2. PICK high : high = (Len(m) \div Word) % Word
        OBVIOUS
      <3>3. ((Len(m) % Word) + Len(d)) % Word = low
        BY <1>4, <3>1, BlockTypes, ModAdd
      <3>4. sha1_update(c, d).total = <<low, SecondWord(low, high, Len(d), Word)>>
        <4>1. c.total[1] = Len(m) % Word /\ c.total[2] = high
          BY <1>3, <3>2
        <4> QED BY <2>2, <3>3, <4>1, Sha1Total DEF SecondWord
      <3>5. SecondWord(low, high, Len(d), Word) = ((Len(m) + Len(d)) \div Word) % Word
        <4>1. SecondWord((Len(m) + Len(d)) % Word, (Len(m) \div Word) % Word, Len(d), Word)
                = ((Len(m) + Len(d)) \div Word) % Word
          BY <1>4, BlockTypes, BytesAdded
        <4> QED BY <3>1, <3>2, <4>1, Zenon
      <3> QED BY <1>4, <3>1, <3>4, <3>5, Zenon
    <2> QED BY <2>1, <2>2
  <1> QED BY <1>2, <1>5 DEF Sha1Fed

\* The count of bits in two words, from the count of bytes.
LEMMA BitsFromBytes ==
  ASSUME NEW l \in Nat
  PROVE  /\ ((l % Word) \div (Word \div 8) + ((l \div Word) % Word) * 8) % Word
              = ((8 * l) \div Word) % Word
         /\ ((l % Word) * 8) % Word = (8 * l) % Word
  <1>1. PICK v \in Nat \ {0} : Word = 8 * v /\ Word \div 8 = v
    BY WordParts
  <1>2. PICK q : q = l \div Word
    OBVIOUS
  <1>3. PICK t : t = l % Word
    OBVIOUS
  <1>4. q \in Nat /\ t \in Nat /\ t < Word /\ l = (q * Word) + t
    BY <1>2, <1>3, BlockTypes, DivMod
  <1>5. PICK a : a = 8 * q
    OBVIOUS
  <1>6. PICK b : b = 8 * t
    OBVIOUS
  <1>7. a \in Nat /\ b \in Nat
    BY <1>4, <1>5, <1>6
  <1>8. 8 * l = (a * Word) + b
    BY <1>4, <1>5, <1>6, BlockTypes
  <1>9. (8 * l) \div Word = a + (b \div Word) /\ (8 * l) % Word = b % Word
    <2>1. ((a * Word) + b) \div Word = a + (b \div Word) /\ ((a * Word) + b) % Word = b % Word
      BY <1>7, BlockTypes, DivSum, ZenonT(60)
    <2> QED BY <1>8, <2>1, Zenon
  <1>10. b \div Word = t \div v /\ t \div v \in Nat
    <2>1. \A w : w = 8 * v => (8 * t) \div w = t \div v
      BY <1>4, BitsOfBytes
    <2>2. (8 * t) \div Word = t \div v
      BY <1>1, <2>1, Zenon
    <2>3. t \div v \in Nat
      BY <1>4, DivParts
    <2> QED BY <1>6, <2>2, <2>3, Zenon
  <1>11. PICK p : p = t \div v
    OBVIOUS
  <1>12. ((q % Word) * 8 + p) % Word = (a + p) % Word
    <2>1. PICK s : s = q % Word
      OBVIOUS
    <2>2. PICK k : k = q \div Word
      OBVIOUS
    <2>3. s \in Nat /\ k \in Nat /\ q = (k * Word) + s
      BY <1>4, <2>1, <2>2, BlockTypes, DivMod
    <2>4. PICK j : j = 8 * k
      OBVIOUS
    <2>5. PICK e : e = (s * 8) + p
      OBVIOUS
    <2>6. j \in Nat /\ e \in Nat
      BY <1>10, <1>11, <2>3, <2>4, <2>5
    <2>7. a + p = (j * Word) + e
      BY <1>5, <1>10, <1>11, <2>3, <2>4, <2>5, BlockTypes
    <2>8. ((j * Word) + e) % Word = e % Word
      BY <2>6, BlockTypes, DivSum, ZenonT(60)
    <2> QED BY <2>1, <2>5, <2>7, <2>8, Zenon
  <1>13. PICK u : u = (q % Word) * 8
    OBVIOUS
  <1>14. u \in Nat
    <2>1. q % Word \in Nat
      BY <1>4, BlockTypes, DivParts
    <2> QED BY <1>13, <2>1
  <1>15. p + u = u + p
    BY <1>10, <1>11, <1>14
  <1>16. (p + ((q % Word) * 8)) % Word = (a + p) % Word
    BY <1>12, <1>13, <1>15, Zenon
  <1>17. t * 8 = b
    BY <1>4, <1>6
  <1> QED BY <1>1, <1>2, <1>3, <1>9, <1>10, <1>11, <1>16, <1>17, Zenon

\* The padding that is passed to the update: 0x80 and the zeros.
LEMMA PaddingPart ==
  ASSUME NEW z \in Nat, z + 1 <= Block
  PROVE  SubSeq(sha1_padding, 1, z + 1) = <<One>> \o Zeros(z)
  <1>1. PICK k : k = Block - 1
    OBVIOUS
  <1>2. k \in Nat /\ z <= k /\ z + 1 <= k + 1
    BY <1>1, BlockTypes
  <1>3. PICK o : o = <<One>>
    OBVIOUS
  <1>4. o \in Bytes /\ Len(o) = 1 /\ o[1] = One
    BY <1>3, OneByte
  <1>5. PICK p : p = o \o Zeros(k)
    OBVIOUS
  <1>6. /\ p \in Bytes /\ Len(p) = 1 + k /\ p[1] = One
        /\ \A i \in 1 .. k : p[1 + i] = 0
    <2>1. Zeros(k) \in Bytes /\ Len(Zeros(k)) = k /\ \A i \in 1 .. k : Zeros(k)[i] = 0
      BY <1>2, ZerosSeq
    <2>2. /\ p \in Bytes /\ Len(p) = Len(o) + Len(Zeros(k))
          /\ \A i \in 1 .. Len(o) : p[i] = o[i]
          /\ \A i \in 1 .. Len(Zeros(k)) : p[Len(o) + i] = Zeros(k)[i]
      BY <1>4, <1>5, <2>1, ConcatSeq
    <2> QED BY <1>4, <2>1, <2>2
  <1>7. PICK a : a = SubSeq(p, 1, z + 1)
    OBVIOUS
  <1>8. a \in Bytes /\ Len(a) = z + 1 /\ \A i \in 1 .. z + 1 : a[i] = p[i]
    <2>1. 1 \in 1 .. Len(p) + 1 /\ z + 1 \in 1 - 1 .. Len(p)
      BY <1>2, <1>6
    <2>2. /\ a \in Bytes /\ Len(a) = (z + 1) - 1 + 1
          /\ \A i \in 1 .. (z + 1) - 1 + 1 : a[i] = p[(1 - 1) + i]
      BY <1>6, <1>7, <2>1, SubSeqSeq
    <2> QED BY <2>2
  <1>9. PICK b : b = o \o Zeros(z)
    OBVIOUS
  <1>10. /\ b \in Bytes /\ Len(b) = 1 + z /\ b[1] = One
         /\ \A i \in 1 .. z : b[1 + i] = 0
    <2>1. Zeros(z) \in Bytes /\ Len(Zeros(z)) = z /\ \A i \in 1 .. z : Zeros(z)[i] = 0
      BY ZerosSeq
    <2>2. /\ b \in Bytes /\ Len(b) = Len(o) + Len(Zeros(z))
          /\ \A i \in 1 .. Len(o) : b[i] = o[i]
          /\ \A i \in 1 .. Len(Zeros(z)) : b[Len(o) + i] = Zeros(z)[i]
      BY <1>4, <1>9, <2>1, ConcatSeq
    <2>3. b[1] = o[1] /\ Len(b) = 1 + z
      BY <1>4, <2>1, <2>2
    <2>4. \A i \in 1 .. z : b[1 + i] = 0
      BY <1>4, <2>1, <2>2
    <2> QED BY <1>4, <2>2, <2>3, <2>4
  <1>11. ASSUME NEW i \in 1 .. z + 1 PROVE a[i] = b[i]
    <2>1. CASE i = 1
      BY <1>6, <1>8, <1>10, <2>1
    <2>2. CASE i # 1
      <3>1. PICK j : j = i - 1
        OBVIOUS
      <3>2. j \in 1 .. z /\ j \in 1 .. k /\ i = 1 + j
        BY <1>2, <2>2, <3>1
      <3>3. p[1 + j] = 0 /\ b[1 + j] = 0
        BY <1>6, <1>10, <3>2, Zenon
      <3> QED BY <1>8, <3>2, <3>3
    <2> QED BY <2>1, <2>2
  <1>12. a = b
    BY <1>8, <1>10, <1>11, SameBytes
  <1> QED BY <1>1, <1>3, <1>5, <1>7, <1>9, <1>12 DEF sha1_padding

\* sha1_finish compresses the padded message.
LEMMA Sha1FinishPadded ==
  ASSUME NEW m \in Bytes, NEW c, Sha1Fed(c, m)
  PROVE  sha1_finish(c) = Padded(m, Block, BigEndian(BitCount(Len(m))))
  <1>1. PICK ending : ending = BigEndian(BitCount(Len(m)))
    OBVIOUS
  <1>2. ending \in Bytes /\ Len(ending) = 2
        /\ ending = <<Count(((8 * Len(m)) \div Word) % Word), Count((8 * Len(m)) % Word)>>
    BY <1>1, LenNat, BitCountBytes
  <1>3. PICK r : r = Len(m) % Block
    OBVIOUS
  <1>4. r \in Nat /\ r <= Block - 1
    BY <1>3, LenNat, BlockTypes, DivParts, Zenon
  <1>5. PICK z : z = PadZeros(r, Len(ending), Block)
    OBVIOUS
  <1>6. z = (IF r + 3 <= Block THEN Block - (r + 3) ELSE 2 * Block - (r + 3))
    <2>1. r + 1 + 2 = r + 3
      BY <1>4
    <2> QED BY <1>2, <1>5, <2>1 DEF PadZeros
  <1>7. z \in Nat /\ z + 1 <= Block
        /\ z + 1 = (IF r < Block - 2 THEN Block - 2 - r ELSE 2 * Block - 2 - r)
    BY <1>4, <1>6, BlockTypes
  <1>8. Padded(m, Block, ending) = Cut((m \o (<<One>> \o Zeros(z))) \o ending, Block)
    <2>1. Len(ending) + 1 <= Block
      BY <1>2, BlockTypes
    <2>2. z = PadZeros(Len(m) % Block, Len(ending), Block)
      BY <1>3, <1>5, Zenon
    <2>3. ASSUME NEW y, y = PadZeros(Len(m) % Block, Len(ending), Block)
          PROVE  Padded(m, Block, ending) = Cut((m \o (<<One>> \o Zeros(y))) \o ending, Block)
      <3>1. ending \in Bytes /\ Block \in Nat \ {0}
        BY <1>2, BlockTypes
      <3> QED BY <2>1, <2>3, <3>1, PaddedIs, ZenonT(60)
    <2> QED BY <2>2, <2>3, Zenon
  <1>9. PICK pad : pad = <<One>> \o Zeros(z)
    OBVIOUS
  <1>10. pad \in Bytes /\ pad = SubSeq(sha1_padding, 1, z + 1)
    BY <1>7, <1>9, PaddingPart, ZerosSeq, OneByte, ConcatSeq
  <1>11. PICK a : a = sha1_update(c, pad)
    OBVIOUS
  <1>12. Sha1Feeds(a, m \o pad) /\ m \o pad \in Bytes
    <2>1. Sha1Feeds(sha1_update(c, pad), m \o pad)
      BY <1>10, Sha1FedFeeds, Sha1UpdateFeeds
    <2> QED BY <1>10, <1>11, <2>1, ConcatSeq
  <1>13. Sha1Feeds(sha1_update(a, ending), (m \o pad) \o ending)
    BY <1>2, <1>12, Sha1UpdateFeeds
  <1>14. sha1_update(a, ending).digest = Cut((m \o pad) \o ending, Block)
    BY <1>13 DEF Sha1Feeds, Feeds
  <1>15. sha1_finish(c) = sha1_update(a, ending).digest
    <2>1. c.total = <<Len(m) % Word, (Len(m) \div Word) % Word>>
      BY DEF Sha1Fed
    <2>2. c.total[1] = Len(m) % Word /\ c.total[2] = (Len(m) \div Word) % Word
      BY <2>1
    <2>3. c.total[1] % Block = r
      <3>1. (Len(m) % Word) % Block = Len(m) % Block
        BY LenNat, BlockTypes, ModMod, Zenon
      <3> QED BY <1>3, <2>2, <3>1, Zenon
    <2>4. (c.total[1] \div (Word \div 8) + c.total[2] * 8) % Word
            = ((8 * Len(m)) \div Word) % Word
          /\ (c.total[1] * 8) % Word = (8 * Len(m)) % Word
      BY <2>2, LenNat, BitsFromBytes, Zenon
    <2>5. PICK padn : padn = IF r < Block - 2 THEN Block - 2 - r ELSE 2 * Block - 2 - r
      OBVIOUS
    <2>6. padn = z + 1
      BY <1>7, <2>5, Zenon
    <2>7. pad = SubSeq(sha1_padding, 1, padn)
      BY <1>10, <2>6, Zenon
    <2> QED BY <1>2, <1>11, <2>3, <2>4, <2>5, <2>7, Zenon DEF sha1_finish
  <1> QED BY <1>1, <1>8, <1>9, <1>14, <1>15, Zenon

-----------------------------------------------------------------------------
\* A product grows with its factor.
LEMMA Scaled ==
  ASSUME NEW a \in Nat, NEW b \in Nat, NEW w \in Nat \ {0}
  PROVE  /\ a <= b <=> a * w <= b * w
         /\ a = b <=> a * w = b * w
         /\ a < b => (a * w) + w <= b * w
  <1>1. a * w \in Nat /\ b * w \in Nat
    OBVIOUS
  <1>2. ASSUME NEW x \in Nat, NEW y \in Nat, x < y PROVE (x * w) + w <= y * w
    <2>1. PICK k \in Nat : y = x + 1 + k
      <3>1. y - (x + 1) \in Nat /\ y = x + 1 + (y - (x + 1))
        BY <1>2
      <3> QED BY <3>1
    <2>2. y * w = (x * w) + w + (k * w)
      BY <2>1
    <2>3. PICK p : p = x * w
      OBVIOUS
    <2>4. PICK s : s = k * w
      OBVIOUS
    <2>5. p \in Nat /\ s \in Nat /\ y * w = p + w + s
      BY <2>2, <2>3, <2>4
    <2> QED BY <2>3, <2>5
  <1>3. a < b => (a * w) + w <= b * w
    BY <1>2
  <1>4. b < a => (b * w) + w <= a * w
    BY <1>2
  <1>5. a < b \/ b < a \/ a = b
    OBVIOUS
  <1>6. PICK p : p = a * w
    OBVIOUS
  <1>7. PICK q : q = b * w
    OBVIOUS
  <1>8. p \in Nat /\ q \in Nat /\ (a < b => p + w <= q) /\ (b < a => q + w <= p) /\ (a = b => p = q)
    BY <1>1, <1>3, <1>4, <1>6, <1>7
  <1>9. (a <= b <=> p <= q) /\ (a = b <=> p = q) /\ (a < b => p + w <= q)
    BY <1>5, <1>8
  <1> QED BY <1>6, <1>7, <1>9

\* The end I of the word in which the marking byte stands, index the number of words.
LEMMA IndexPlace ==
  ASSUME NEW r \in Nat, r < LongSize
  PROVE  LET index == r \div LongWord + 1
             I == index * LongWord
         IN /\ index \in Nat /\ I \in Nat /\ r + 1 <= I /\ I <= r + LongWord /\ I <= LongSize
            /\ index >= LongBlock - 1 <=> I >= LongSize - LongWord
            /\ index = LongBlock - 1 <=> I = LongSize - LongWord
            /\ index < LongBlock - 1 => /\ I <= LongSize - (2 * LongWord)
                                        /\ (LongBlock - 1 - index) * LongWord
                                             = LongSize - LongWord - I
            /\ index > LongBlock - 1 => I = LongSize
  <1>1. PICK q : q = r \div LongWord
    OBVIOUS
  <1>2. PICK s : s = r % LongWord
    OBVIOUS
  <1>3. q \in Nat /\ s \in 0 .. LongWord - 1 /\ r = (q * LongWord) + s
    BY <1>1, <1>2, LongTypes, DivMod
  <1>4. PICK index : index = q + 1
    OBVIOUS
  <1>5. PICK I : I = index * LongWord
    OBVIOUS
  <1>6. index \in Nat
    BY <1>3, <1>4
  <1>7. I = (q * LongWord) + LongWord
    BY <1>3, <1>4, <1>5, LongTypes
  <1>8. I = r - s + LongWord /\ I \in Nat
    <2>1. PICK p : p = q * LongWord
      OBVIOUS
    <2>2. p \in Nat
      BY <1>3, <2>1, LongTypes
    <2> QED BY <1>3, <1>7, <2>1, <2>2, LongTypes
  <1>9. r + 1 <= I /\ I <= r + LongWord
    BY <1>3, <1>8, LongTypes
  <1>10. PICK b : b = LongBlock - 1
    OBVIOUS
  <1>11. b \in Nat /\ b = LongBlock - 1 /\ b * LongWord = LongSize - LongWord
         /\ LongBlock \in Nat
    BY <1>10, LongTypes, HashAssumption DEF HashAssumption
  <1>12. LongSize = LongBlock * LongWord
    BY DEF LongSize
  <1>13. /\ index <= b <=> I <= LongSize - LongWord
         /\ index = b <=> I = LongSize - LongWord
         /\ index < b => I + LongWord <= LongSize - LongWord
         /\ b < index => (LongSize - LongWord) + LongWord <= I
    <2>1. /\ index <= b <=> index * LongWord <= b * LongWord
          /\ index = b <=> index * LongWord = b * LongWord
          /\ index < b => (index * LongWord) + LongWord <= b * LongWord
      BY <1>6, <1>11, LongTypes, Scaled
    <2>2. b < index => (b * LongWord) + LongWord <= index * LongWord
      BY <1>6, <1>11, LongTypes, Scaled
    <2> QED BY <1>5, <1>11, <2>1, <2>2
  <1>14. I <= LongSize
    <2>1. /\ LongBlock <= q <=> LongBlock * LongWord <= q * LongWord
          /\ index <= LongBlock <=> index * LongWord <= LongBlock * LongWord
      BY <1>3, <1>6, <1>11, LongTypes, Scaled
    <2>2. PICK p : p = q * LongWord
      OBVIOUS
    <2>3. p \in Nat /\ p <= r
      BY <1>3, <2>2, LongTypes
    <2>4. ~(LongBlock <= q)
      BY <1>12, <2>1, <2>2, <2>3, LongTypes
    <2>5. index <= LongBlock
      BY <1>3, <1>4, <1>11, <2>4
    <2> QED BY <1>5, <1>12, <2>1, <2>5
  <1>15. index < b => (b - index) * LongWord = LongSize - LongWord - I
    <2>1. (b - index) * LongWord = (b * LongWord) - (index * LongWord)
      BY <1>6, <1>11, LongTypes
    <2> QED BY <1>5, <1>11, <2>1
  <1>16. index < b => I <= LongSize - (2 * LongWord)
    BY <1>8, <1>13, LongTypes
  <1>17. b < index => I = LongSize
    BY <1>8, <1>13, <1>14, LongTypes
  <1>18. index >= b <=> I >= LongSize - LongWord
    BY <1>6, <1>8, <1>11, <1>13, LongTypes
  <1> QED BY <1>1, <1>4, <1>5, <1>6, <1>8, <1>9, <1>10, <1>13, <1>14, <1>15, <1>16, <1>17, <1>18

\* The marking byte and the zeros to the end of its word, in one step.
LEMMA PutMark ==
  ASSUME NEW b \in Bytes, NEW n \in Nat, Len(b) = n, NEW r \in Nat, NEW k \in Nat, r + 1 + k <= n
  PROVE  Begins(Put(b, r, <<One>> \o Zeros(k)), b, r, r + 1 + k, n)
  <1>1. PICK d : d = <<One>> \o Zeros(k)
    OBVIOUS
  <1>2. d \in Bytes /\ Len(d) = 1 + k /\ d[1] = One /\ \A i \in 1 .. k : d[1 + i] = 0
    <2>1. Zeros(k) \in Bytes /\ Len(Zeros(k)) = k /\ \A i \in 1 .. k : Zeros(k)[i] = 0
      BY ZerosSeq
    <2>2. PICK o : o = <<One>>
      OBVIOUS
    <2>3. o \in Bytes /\ Len(o) = 1 /\ o[1] = One
      BY <2>2, OneByte
    <2>4. /\ d \in Bytes /\ Len(d) = Len(o) + Len(Zeros(k))
          /\ \A i \in 1 .. Len(o) : d[i] = o[i]
          /\ \A i \in 1 .. Len(Zeros(k)) : d[Len(o) + i] = Zeros(k)[i]
      BY <1>1, <2>1, <2>2, <2>3, ConcatSeq
    <2>5. d[1] = o[1] /\ Len(d) = 1 + k
      BY <2>1, <2>3, <2>4
    <2>6. \A i \in 1 .. k : d[1 + i] = 0
      BY <2>1, <2>3, <2>4
    <2> QED BY <2>3, <2>4, <2>5, <2>6
  <1>3. PICK x : x = Put(b, r, d)
    OBVIOUS
  <1>4. IsPut(x, b, r, d, 1 + k, n)
    BY <1>2, <1>3, PutIs
  <1>5. /\ x \in Bytes /\ Len(x) = n
        /\ \A i \in 1 .. n : i <= r \/ i > r + (1 + k) => x[i] = b[i]
        /\ \A i \in 1 .. 1 + k : x[r + i] = d[i]
    BY <1>4, Zenon DEF IsPut
  <1>6. \A i \in 1 .. r : x[i] = b[i]
    BY <1>5
  <1>7. x[r + 1] = One
    BY <1>2, <1>5
  <1>8. ASSUME NEW i \in r + 2 .. r + 1 + k PROVE x[i] = 0
    <2>1. PICK j : j = i - (r + 1)
      OBVIOUS
    <2>2. j \in 1 .. k /\ 1 + j \in 1 .. 1 + k /\ i = r + (1 + j)
      BY <2>1
    <2>3. x[r + (1 + j)] = d[1 + j] /\ d[1 + j] = 0
      BY <1>2, <1>5, <2>2, Zenon
    <2> QED BY <2>2, <2>3
  <1>9. Begins(x, b, r, r + 1 + k, n)
    BY <1>5, <1>6, <1>7, <1>8 DEF Begins
  <1> QED BY <1>1, <1>3, <1>9, Zenon

\* The count in the last word, and in the last two: the word before it is zero.
LastWord(v) == Zeros(LongWord - 1) \o <<Count(v)>>
LastWords(v) == Zeros(2 * LongWord - 1) \o <<Count(v)>>

\* What stands in the last word.
LEMMA LastWordBytes ==
  ASSUME NEW v \in Nat, NEW k \in Nat
  PROVE  /\ Zeros(k) \o <<Count(v)>> \in Bytes /\ Len(Zeros(k) \o <<Count(v)>>) = k + 1
         /\ \A i \in 1 .. k : (Zeros(k) \o <<Count(v)>>)[i] = 0
         /\ (Zeros(k) \o <<Count(v)>>)[k + 1] = Count(v)
  <1>1. PICK d : d = <<Count(v)>>
    OBVIOUS
  <1>2. d \in Bytes /\ Len(d) = 1 /\ d[1] = Count(v)
    <2>1. Count(v) \in Int
      BY DEF Count
    <2> QED BY <1>1, <2>1 DEF Bytes
  <1>3. PICK z : z = Zeros(k)
    OBVIOUS
  <1>4. z \in Bytes /\ Len(z) = k /\ \A i \in 1 .. k : z[i] = 0
    BY <1>3, ZerosSeq
  <1>5. PICK w : w = z \o d
    OBVIOUS
  <1>6. /\ w \in Bytes /\ Len(w) = k + 1 /\ \A i \in 1 .. k : w[i] = z[i]
        /\ \A i \in 1 .. 1 : w[k + i] = d[i]
    <2>1. /\ w \in Bytes /\ Len(w) = Len(z) + Len(d) /\ \A i \in 1 .. Len(z) : w[i] = z[i]
          /\ \A i \in 1 .. Len(d) : w[Len(z) + i] = d[i]
      BY <1>2, <1>4, <1>5, ConcatSeq
    <2>2. Len(w) = k + 1 /\ \A i \in 1 .. k : w[i] = z[i]
      BY <1>2, <1>4, <2>1
    <2>3. \A i \in 1 .. 1 : w[k + i] = d[i]
      BY <1>2, <1>4, <2>1, Zenon
    <2> QED BY <2>1, <2>2, <2>3
  <1>7. w[k + 1] = Count(v)
    BY <1>2, <1>6
  <1>8. \A i \in 1 .. k : w[i] = 0
    BY <1>4, <1>6
  <1> QED BY <1>1, <1>3, <1>5, <1>6, <1>7, <1>8, Zenon

\* A block that ends in the last word, with zeros in the word before it, ends in the
\* last two words.
LEMMA EndsInTwoWords ==
  ASSUME NEW v \in Nat, NEW x, NEW n \in Nat, 2 * LongWord <= n,
         Ends(x, LastWord(v), LongWord, n),
         \A i \in n - (2 * LongWord) + 1 .. n - LongWord : x[i] = 0
  PROVE  Ends(x, LastWords(v), 2 * LongWord, n)
  <1>1. PICK w : w = LongWord
    OBVIOUS
  <1>2. w \in Nat \ {0}
    BY <1>1, LongTypes
  <1>3. PICK a : a = LastWord(v)
    OBVIOUS
  <1>4. PICK b : b = LastWords(v)
    OBVIOUS
  <1>5. (\A i \in 1 .. w - 1 : a[i] = 0) /\ a[w] = Count(v)
    <2>1. PICK k : k = w - 1
      OBVIOUS
    <2>2. k \in Nat /\ w = k + 1
      BY <1>2, <2>1
    <2>3. a = Zeros(k) \o <<Count(v)>>
      BY <1>1, <1>3, <2>1 DEF LastWord
    <2> QED BY <2>1, <2>2, <2>3, LastWordBytes
  <1>6. (\A i \in 1 .. 2 * w - 1 : b[i] = 0) /\ b[2 * w] = Count(v)
    <2>1. PICK k : k = 2 * w - 1
      OBVIOUS
    <2>2. k \in Nat /\ 2 * w = k + 1
      BY <1>2, <2>1
    <2>3. b = Zeros(k) \o <<Count(v)>>
      BY <1>1, <1>4, <2>1 DEF LastWords
    <2> QED BY <2>1, <2>2, <2>3, LastWordBytes
  <1>7. /\ x \in Bytes /\ Len(x) = n /\ \A i \in 1 .. w : x[n - w + i] = a[i]
        /\ \A i \in n - (2 * w) + 1 .. n - w : x[i] = 0
    BY <1>1, <1>3, Zenon DEF Ends
  <1>8. ASSUME NEW i \in 1 .. 2 * w PROVE x[n - 2 * w + i] = b[i]
    <2>1. CASE i <= w
      <3>1. n - 2 * w + i \in n - (2 * w) + 1 .. n - w /\ i \in 1 .. 2 * w - 1
        BY <1>1, <1>2, <2>1
      <3> QED BY <1>6, <1>7, <3>1
    <2>2. CASE i > w
      <3>1. PICK j : j = i - w
        OBVIOUS
      <3>2. j \in 1 .. w /\ n - 2 * w + i = n - w + j /\ i = w + j
        BY <1>1, <1>2, <2>2, <3>1
      <3>3. x[n - w + j] = a[j]
        BY <1>7, <3>2, Zenon
      <3>4. a[j] = b[w + j]
        <4>1. CASE j = w
          <5>1. w + j = 2 * w
            BY <1>2, <4>1
          <5> QED BY <1>5, <1>6, <4>1, <5>1, Zenon
        <4>2. CASE j # w
          <5>1. j \in 1 .. w - 1 /\ w + j \in 1 .. 2 * w - 1
            BY <1>2, <3>2, <4>2
          <5> QED BY <1>5, <1>6, <5>1, Zenon
        <4> QED BY <4>1, <4>2
      <3> QED BY <3>2, <3>3, <3>4, Zenon
    <2> QED BY <1>2, <2>1, <2>2
  <1>9. Ends(x, b, 2 * w, n)
    BY <1>7, <1>8, Zenon DEF Ends
  <1> QED BY <1>1, <1>4, <1>9, Zenon

\* rhash_sha512_final compresses the padded message.
LEMMA SHA512FinalPadded ==
  ASSUME NEW m \in Bytes, NEW c, SHA512Fed(c, m)
  PROVE  rhash_sha512_final(c) = Padded(m, LongSize, LastWords(Len(m) * 8))
  <1>1. PICK v : v = Len(m) * 8
    OBVIOUS
  <1>2. v \in Nat
    BY <1>1, LenNat
  <1>3. PICK e : e = 2 * LongWord
    OBVIOUS
  <1>4. e \in Nat /\ e + LongWord <= LongSize /\ LongWord \in Nat \ {0} /\ LongSize \in Nat
    BY <1>3, LongTypes
  <1>5. PICK ending : ending = LastWords(v)
    OBVIOUS
  <1>6. ending \in Bytes /\ Len(ending) = e /\ \A i \in 1 .. e - 1 : ending[i] = 0
    <2>1. PICK k : k = 2 * LongWord - 1
      OBVIOUS
    <2>2. k \in Nat /\ e = k + 1 /\ e - 1 = k
      BY <1>3, <2>1, LongTypes
    <2>3. ending = Zeros(k) \o <<Count(v)>>
      BY <1>5, <2>1 DEF LastWords
    <2> QED BY <1>2, <2>2, <2>3, LastWordBytes
  <1>7. PICK last : last = LastWord(v)
    OBVIOUS
  <1>8. last \in Bytes /\ Len(last) = LongWord
    <2>1. PICK k : k = LongWord - 1
      OBVIOUS
    <2>2. k \in Nat /\ LongWord = k + 1
      BY <2>1, LongTypes
    <2>3. last = Zeros(k) \o <<Count(v)>>
      BY <1>7, <2>1 DEF LastWord
    <2> QED BY <1>2, <2>2, <2>3, LastWordBytes
  <1>9. PICK r : r = Len(m) % LongSize
    OBVIOUS
  <1>10. IsRest(Rest(m, LongSize), r, m, LongSize, c.digest, c.message)
    BY <1>9, LongTypes, RestOf DEF SHA512Fed
  <1>11. /\ r \in Nat /\ r < LongSize /\ c.message \in Bytes /\ Len(c.message) = LongSize
         /\ c.digest \in Seq(Bytes)
    <2>1. c.digest = Cut(m, LongSize)
      BY <1>10 DEF IsRest
    <2>2. Cut(m, LongSize) \in Seq(Bytes)
      BY LongTypes, CutSeq
    <2> QED BY <1>10, <2>1, <2>2, Zenon DEF IsRest
  <1>12. PICK index : index = r \div LongWord + 1
    OBVIOUS
  <1>13. PICK I : I = index * LongWord
    OBVIOUS
  <1>14. /\ index \in Nat /\ I \in Nat /\ r + 1 <= I /\ I <= r + LongWord /\ I <= LongSize
         /\ index >= LongBlock - 1 <=> I >= LongSize - LongWord
         /\ index = LongBlock - 1 <=> I = LongSize - LongWord
         /\ index < LongBlock - 1 => /\ I <= LongSize - (2 * LongWord)
                                     /\ (LongBlock - 1 - index) * LongWord
                                          = LongSize - LongWord - I
         /\ index > LongBlock - 1 => I = LongSize
    BY <1>11, <1>12, <1>13, IndexPlace
  <1>15. PICK k : k = I - r - 1
    OBVIOUS
  <1>16. k \in Nat /\ r + 1 + k = I
    BY <1>11, <1>14, <1>15
  <1>17. PICK marked : marked = Put(c.message, r, <<One>> \o Zeros(k))
    OBVIOUS
  <1>18. Begins(marked, c.message, r, I, LongSize)
    <2>1. Begins(marked, c.message, r, r + 1 + k, LongSize)
      <3>1. r + 1 + k <= LongSize
        BY <1>14, <1>16, Zenon
      <3> QED BY <1>4, <1>11, <1>16, <1>17, <3>1, PutMark, Zenon
    <2> QED BY <1>16, <2>1, Zenon
  <1>19. PICK l : l = LongSize - LongWord
    OBVIOUS
  <1>20. l \in Nat /\ l = LongSize - LongWord /\ (LongBlock - 1) * LongWord = l
         /\ (LongBlock - 1 - 0) * LongWord = l /\ 0 * LongWord = 0 /\ LongBlock \in Nat
    BY <1>4, <1>19, LongTypes, HashAssumption DEF HashAssumption
  <1>21. CASE index < LongBlock - 1
    <2>1. PICK j : j = LongSize - LongWord - I
      OBVIOUS
    <2>2. j \in Nat /\ I + j = l /\ I + LongWord <= l /\ I + j <= LongSize
          /\ j = (LongBlock - 1 - index) * LongWord
      BY <1>3, <1>4, <1>14, <1>20, <1>21, <2>1
    <2>3. PICK y : y = Put(marked, I, Zeros(j))
      OBVIOUS
    <2>4. PICK x : x = Put(y, l, last)
      OBVIOUS
    <2>5. rhash_sha512_final(c) = Append(c.digest, x)
      <3>1. ~(index >= LongBlock - 1)
        BY <1>14, <1>20, <1>21
      <3>2. c.length % LongSize = r /\ c.length * 8 = v
        BY <1>1, <1>9, Zenon DEF SHA512Fed
      <3>3. last = Zeros(LongWord - 1) \o <<Count(v)>>
        BY <1>7 DEF LastWord
      <3> QED BY <1>12, <1>13, <1>15, <1>17, <1>20, <2>2, <2>3, <2>4, <3>1, <3>2, <3>3, Zenon
            DEF rhash_sha512_final
    <2>6. Begins(y, c.message, r, l, LongSize)
      <3>1. r < I
        BY <1>11, <1>14
      <3>2. Begins(y, c.message, r, I + j, LongSize)
        BY <1>4, <1>11, <1>14, <1>18, <2>2, <2>3, <3>1, PutZeros
      <3> QED BY <2>2, <3>2, Zenon
    <2>7. /\ Begins(x, c.message, r, l, LongSize)
          /\ Ends(x, last, LongWord, LongSize)
      <3>1. r < l
        BY <1>11, <1>14, <2>2, <1>4
      <3>2. LongWord \in Nat /\ l \in Nat /\ l = LongSize - LongWord
        BY <1>4, <1>20
      <3>3. Begins(Put(y, l, last), c.message, r, LongSize - LongWord, LongSize)
            /\ Ends(Put(y, l, last), last, LongWord, LongSize)
        BY <1>4, <1>8, <1>11, <2>6, <3>1, <3>2, PutEnding, Zenon
      <3> QED BY <2>4, <3>2, <3>3, Zenon
    <2>8. /\ x \in Bytes /\ Len(x) = LongSize /\ \A i \in 1 .. r : x[i] = c.message[i]
          /\ x[r + 1] = One /\ \A i \in r + 2 .. l : x[i] = 0
      BY <2>7, Zenon DEF Begins
    <2>9. Ends(x, ending, e, LongSize)
      <3>1. 2 * LongWord <= LongSize
        BY <1>3, <1>4
      <3>2. \A i \in LongSize - (2 * LongWord) + 1 .. LongSize - LongWord : x[i] = 0
        <4>1. LongSize - LongWord = l /\ r + 2 <= LongSize - (2 * LongWord) + 1
          BY <1>4, <1>11, <1>14, <1>20, <2>2
        <4>2. \A i \in LongSize - (2 * LongWord) + 1 .. l : i \in r + 2 .. l
          BY <1>4, <1>11, <1>20, <4>1
        <4> QED BY <2>8, <4>1, <4>2, Zenon
      <3> QED BY <1>2, <1>3, <1>4, <1>5, <1>7, <2>7, <3>1, <3>2, EndsInTwoWords, Zenon
    <2>10. Begins(x, c.message, r, LongSize - e, LongSize)
      <3>1. \A i \in r + 2 .. LongSize - e : i \in r + 2 .. l
        BY <1>3, <1>4, <1>11, <1>20
      <3>2. \A i \in r + 2 .. LongSize - e : x[i] = 0
        BY <2>8, <3>1, Zenon
      <3> QED BY <2>8, <3>2, Zenon DEF Begins
    <2>11. r + 1 + e <= LongSize
      BY <1>3, <1>4, <1>11, <1>14, <1>20, <2>2
    <2>12. Padded(m, LongSize, ending) = c.digest \o <<x>>
      BY <1>4, <1>6, <1>10, <2>9, <2>10, <2>11, LongTypes, OneTail
    <2>13. Append(c.digest, x) = c.digest \o <<x>>
      BY <1>11, <2>8, AppendIsConcat
    <2> QED BY <1>1, <1>5, <2>5, <2>12, <2>13, Zenon
  <1>22. CASE index >= LongBlock - 1
    <2>1. PICK x : x = IF index = LongBlock - 1
                         THEN Put(marked, index * LongWord, Zeros(LongWord)) ELSE marked
      OBVIOUS
    <2>2. PICK z : z = Put(x, 0, Zeros(l))
      OBVIOUS
    <2>3. PICK y : y = Put(z, l, last)
      OBVIOUS
    <2>4. rhash_sha512_final(c) = c.digest \o <<x, y>>
      <3>2. c.length % LongSize = r /\ c.length * 8 = v
        BY <1>1, <1>9, Zenon DEF SHA512Fed
      <3>3. last = Zeros(LongWord - 1) \o <<Count(v)>>
        BY <1>7 DEF LastWord
      <3> QED BY <1>12, <1>13, <1>15, <1>17, <1>20, <1>22, <2>1, <2>2, <2>3, <3>2, <3>3, Zenon
            DEF rhash_sha512_final
    <2>5. Begins(x, c.message, r, LongSize, LongSize)
      <3>1. CASE index = LongBlock - 1
        <4>1. I + LongWord = LongSize /\ I + LongWord <= LongSize /\ r < I
          BY <1>4, <1>11, <1>14, <3>1
        <4>2. x = Put(marked, I, Zeros(LongWord))
          BY <1>13, <2>1, <3>1, Zenon
        <4>3. Begins(x, c.message, r, I + LongWord, LongSize)
          BY <1>4, <1>11, <1>14, <1>18, <4>1, <4>2, PutZeros
        <4> QED BY <4>1, <4>3, Zenon
      <3>2. CASE index # LongBlock - 1
        <4>1. I = LongSize
          BY <1>14, <1>20, <1>22, <3>2
        <4>2. x = marked
          BY <2>1, <3>2, Zenon
        <4> QED BY <1>18, <4>1, <4>2, Zenon
      <3> QED BY <3>1, <3>2
    <2>6. x \in Bytes /\ Len(x) = LongSize
      BY <2>5, Zenon DEF Begins
    <2>7. z \in Bytes /\ Len(z) = LongSize /\ \A i \in 1 .. l : z[i] = 0
      <3>1. Zeros(l) \in Bytes /\ Len(Zeros(l)) = l /\ \A i \in 1 .. l : Zeros(l)[i] = 0
        BY <1>20, ZerosSeq
      <3>2. IsPut(z, x, 0, Zeros(l), l, LongSize)
        BY <1>4, <1>20, <2>2, <2>6, <3>1, PutIs
      <3>3. /\ z \in Bytes /\ Len(z) = LongSize
            /\ \A i \in 1 .. l : z[0 + i] = Zeros(l)[i]
        BY <3>2, Zenon DEF IsPut
      <3> QED BY <3>1, <3>3
    <2>8. /\ y \in Bytes /\ Len(y) = LongSize /\ \A i \in 1 .. l : y[i] = 0
          /\ Ends(y, last, LongWord, LongSize)
      <3>1. IsPut(y, z, l, last, LongWord, LongSize)
        BY <1>4, <1>8, <1>20, <2>3, <2>7, PutIs
      <3>2. /\ y \in Bytes /\ Len(y) = LongSize
            /\ \A i \in 1 .. LongSize : i <= l \/ i > l + LongWord => y[i] = z[i]
            /\ \A i \in 1 .. LongWord : y[l + i] = last[i]
        BY <3>1, Zenon DEF IsPut
      <3>3. \A i \in 1 .. l : y[i] = 0
        BY <1>4, <1>20, <2>7, <3>2
      <3>4. Ends(y, last, LongWord, LongSize)
        BY <1>19, <3>2, Zenon DEF Ends
      <3> QED BY <3>2, <3>3, <3>4
    <2>9. Ends(y, ending, e, LongSize)
      <3>1. 2 * LongWord <= LongSize
        BY <1>3, <1>4
      <3>2. \A i \in LongSize - (2 * LongWord) + 1 .. LongSize - LongWord : y[i] = 0
        BY <1>3, <1>4, <1>20, <2>8
      <3> QED BY <1>2, <1>3, <1>4, <1>5, <1>7, <2>8, <3>1, <3>2, EndsInTwoWords, Zenon
    <2>10. Clear(y, LongSize - e)
      BY <1>3, <1>4, <1>20, <2>8 DEF Clear
    <2>11. Spills(r, e, LongSize)
      BY <1>3, <1>4, <1>11, <1>14, <1>22 DEF Spills
    <2>12. Padded(m, LongSize, ending) = c.digest \o <<x, y>>
      <3>1. ending \in Bytes /\ Len(ending) = e /\ e \in Nat
        BY <1>4, <1>6, Zenon
      <3>2. LongSize \in Nat \ {0}
        BY LongSizeType
      <3> QED BY <1>10, <2>5, <2>9, <2>10, <2>11, <3>1, <3>2, TwoTail, SMTT(60)
    <2> QED BY <1>1, <1>5, <2>4, <2>12, Zenon
  <1>23. index < LongBlock - 1 \/ index >= LongBlock - 1
    BY <1>14, <1>20
  <1> QED BY <1>21, <1>22, <1>23

-----------------------------------------------------------------------------
\* The contexts before the first byte.
LEMMA NothingFed ==
  ASSUME NEW n \in Nat \ {0}
  PROVE  Feeds(<<>>, Zeros(n), <<>>, n)
  <1>1. <<>> \in Bytes /\ Len(<<>>) = 0 /\ Len(<<>>) < n
    BY DEF Bytes
  <1>2. Cut(<<>>, n) = <<>> /\ Rest(<<>>, n) = <<>> /\ Len(<<>>) % n = Len(<<>>)
    BY <1>1, CutShort
  <1>3. Zeros(n) \in Bytes /\ Len(Zeros(n)) = n
    BY ZerosSeq
  <1>4. Piece(<<>>, Zeros(n), 0, 0)
    BY <1>1 DEF Piece
  <1> QED BY <1>1, <1>2, <1>3, <1>4 DEF Feeds

\* The empty message.
LEMMA Nothing ==
  /\ <<>> \in Bytes /\ Len(<<>>) = 0 /\ 8 * 0 = 0
  /\ 0 % Word = 0 /\ 0 \div Word = 0 /\ (0 \div Word) % Word = 0
  <1>1. 0 % Word = 0 /\ 0 \div Word = 0
    BY BlockTypes
  <1> QED BY <1>1 DEF Bytes

\* MD5Init has seen nothing.
LEMMA MD5Begins == MD5Fed(MD5Init, <<>>)
  <1>1. Feeds(<<>>, Zeros(Block), <<>>, Block)
    BY BlockTypes, NothingFed
  <1>2. PICK c : c = MD5Init
    OBVIOUS
  <1>3. c.bits = <<0, 0>> /\ c.in = Zeros(Block) /\ c.digest = <<>> /\ MD5Shape(c)
    BY <1>2 DEF MD5Init, MD5Shape
  <1>4. <<0, 0>> = <<(8 * Len(<<>>)) % Word, ((8 * Len(<<>>)) \div Word) % Word>>
    BY Nothing
  <1> QED BY <1>1, <1>2, <1>3, <1>4, Zenon DEF MD5Fed

\* sha1_starts has seen nothing.
LEMMA Sha1Begins == Sha1Fed(sha1_starts, <<>>)
  <1>1. Feeds(<<>>, Zeros(Block), <<>>, Block)
    BY BlockTypes, NothingFed
  <1>2. PICK c : c = sha1_starts
    OBVIOUS
  <1>3. c.total = <<0, 0>> /\ c.buffer = Zeros(Block) /\ c.digest = <<>>
    BY <1>2 DEF sha1_starts
  <1>4. <<0, 0>> = <<Len(<<>>) % Word, (Len(<<>>) \div Word) % Word>>
    BY Nothing
  <1> QED BY <1>1, <1>2, <1>3, <1>4, Zenon DEF Sha1Fed

\* rhash_sha512_init has seen nothing.
LEMMA SHA512Begins == SHA512Fed(rhash_sha512_init, <<>>)
  <1>1. Feeds(<<>>, Zeros(LongSize), <<>>, LongSize)
    BY LongSizeType, NothingFed
  <1>2. PICK c : c = rhash_sha512_init
    OBVIOUS
  <1>3. c.length = 0 /\ c.message = Zeros(LongSize) /\ c.digest = <<>> /\ SHA512Shape(c)
    BY <1>2 DEF rhash_sha512_init, SHA512Shape
  <1>4. 0 = Len(<<>>)
    BY Nothing
  <1> QED BY <1>1, <1>2, <1>3, <1>4, Zenon DEF SHA512Fed

\* Two chunks in a row.
LEMMA NextChunk ==
  ASSUME NEW a \in Nat, NEW n \in Nat
  PROVE  Chunk(0, a) \o Chunk(a, n) = Chunk(0, a + n)
  <1>1. PICK p : p = Chunk(0, a)
    OBVIOUS
  <1>2. PICK q : q = Chunk(a, n)
    OBVIOUS
  <1>3. PICK u : u = Chunk(0, a + n)
    OBVIOUS
  <1>4. PICK s : s = p \o q
    OBVIOUS
  <1>5. p \in Bytes /\ Len(p) = a /\ \A i \in 1 .. a : p[i] = 0 + i
    BY <1>1, ChunkSeq
  <1>6. q \in Bytes /\ Len(q) = n /\ \A i \in 1 .. n : q[i] = a + i
    BY <1>2, ChunkSeq
  <1>7. u \in Bytes /\ Len(u) = a + n /\ \A i \in 1 .. a + n : u[i] = 0 + i
    <2>1. a + n \in Nat
      OBVIOUS
    <2> QED BY <1>3, <2>1, ChunkSeq
  <1>8. /\ s \in Bytes /\ Len(s) = Len(p) + Len(q) /\ \A i \in 1 .. Len(p) : s[i] = p[i]
        /\ \A i \in 1 .. Len(q) : s[Len(p) + i] = q[i]
    BY <1>4, <1>5, <1>6, ConcatSeq
  <1>9. ASSUME NEW i \in 1 .. a + n PROVE s[i] = u[i]
    <2>1. CASE i <= a
      BY <1>5, <1>7, <1>8, <2>1
    <2>2. CASE i > a
      <3>1. PICK j : j = i - a
        OBVIOUS
      <3>2. j \in 1 .. n /\ i = a + j
        BY <2>2, <3>1
      <3>3. s[a + j] = q[j]
        BY <1>5, <1>6, <1>8, <3>2, Zenon
      <3> QED BY <1>6, <1>7, <3>2, <3>3
    <2> QED BY <2>1, <2>2
  <1>10. Len(s) = a + n
    BY <1>5, <1>6, <1>8
  <1>11. s = u
    BY <1>7, <1>8, <1>9, <1>10, SameBytes
  <1> QED BY <1>1, <1>2, <1>3, <1>4, <1>11, Zenon

-----------------------------------------------------------------------------
\* A context of the algorithm a that has seen m.
ContextFed(a, c, m) ==
  /\ a = "md5" => MD5Fed(c, m)
  /\ a \in {"sha1", "sha256"} => Sha1Fed(c, m)
  /\ a = "sha512" => SHA512Fed(c, m)

\* The inductive invariant: the context has compressed the whole blocks of what was fed,
\* its buffer begins with the rest, its counters count it.
HashInv ==
  /\ fed \in Nat /\ fed <= MaxMessage
  /\ algo \in {"md5", "sha1", "sha256", "sha512"}
  /\ ContextFed(algo, ctx, Chunk(0, fed))

\* The length of a chunk is an int: the carry of sha1_update and sha256_update reaches
\* the second word of the counter at most once in a call.
ChunksFit == \A n \in Chunks : n < Word

\* The invariant holds at the start.
LEMMA HashStarts == HashInit => HashInv
  <1> SUFFICES ASSUME HashInit PROVE HashInv
    OBVIOUS
  <1>1. Chunk(0, 0) = <<>>
    BY DEF Chunk
  <1>2. fed = 0 /\ algo \in {"md5", "sha1", "sha256", "sha512"}
    BY DEF HashInit
  <1>3. ContextFed(algo, ctx, <<>>)
    <2>1. CASE algo = "md5"
      BY <2>1, MD5Begins DEF HashInit, ContextFed
    <2>2. CASE algo \in {"sha1", "sha256"}
      BY <2>2, Sha1Begins DEF HashInit, ContextFed, sha256_starts
    <2>3. CASE algo = "sha512"
      BY <2>3, SHA512Begins DEF HashInit, ContextFed
    <2> QED BY <1>2, <2>1, <2>2, <2>3
  <1>4. fed \in Nat /\ fed <= MaxMessage
    BY <1>2, HashAssumption DEF HashAssumption
  <1> QED BY <1>1, <1>2, <1>3, <1>4 DEF HashInv

\* Every step keeps it.
LEMMA HashStep ==
  ASSUME ChunksFit, HashInv, [HashNext]_hvars
  PROVE  HashInv'
  <1>1. CASE UNCHANGED hvars
    BY <1>1 DEF hvars, HashInv
  <1>2. ASSUME NEW n \in Chunks, Update(n)
        PROVE  HashInv'
    <2>1. PICK m : m = Chunk(0, fed)
      OBVIOUS
    <2>2. PICK d : d = Chunk(fed, n)
      OBVIOUS
    <2>3. n \in Nat /\ n < Word /\ fed \in Nat
      BY HashAssumption DEF HashAssumption, ChunksFit, HashInv
    <2>4. /\ m \in Bytes /\ Len(m) = fed /\ d \in Bytes /\ Len(d) = n
          /\ m \o d = Chunk(0, fed + n)
      BY <2>1, <2>2, <2>3, ChunkSeq, NextChunk
    <2>5. /\ fed' = fed + n /\ fed + n <= MaxMessage /\ algo' = algo
          /\ algo = "md5" => ctx' = MD5Update(ctx, d)
          /\ algo \in {"sha1", "sha256"} => ctx' = sha1_update(ctx, d)
          /\ algo = "sha512" => \E aligned \in BOOLEAN :
                                  ctx' = rhash_sha512_update(ctx, d, aligned)
      BY <1>2, <2>2 DEF Update, sha256_update
    <2>6. algo = "md5" => MD5Fed(ctx', m \o d)
      <3>1. SUFFICES ASSUME algo = "md5" PROVE MD5Fed(ctx', m \o d)
        OBVIOUS
      <3>2. MD5Fed(ctx, m)
        BY <2>1, <3>1 DEF HashInv, ContextFed
      <3>3. MD5Fed(MD5Update(ctx, d), m \o d)
        BY <2>4, <3>2, MD5UpdateFed
      <3> QED BY <2>5, <3>1, <3>3, Zenon
    <2>7. algo \in {"sha1", "sha256"} => Sha1Fed(ctx', m \o d)
      <3>1. SUFFICES ASSUME algo \in {"sha1", "sha256"} PROVE Sha1Fed(ctx', m \o d)
        OBVIOUS
      <3>2. Sha1Fed(ctx, m)
        BY <2>1, <3>1 DEF HashInv, ContextFed
      <3>3. (Len(m) % Word) + Len(d) < 2 * Word
        <4>1. Len(m) % Word \in Nat /\ Len(m) % Word <= Word - 1
          BY <2>3, <2>4, BlockTypes, DivParts
        <4> QED BY <2>3, <2>4, <4>1, BlockTypes
      <3>4. Sha1Fed(sha1_update(ctx, d), m \o d)
        BY <2>4, <3>2, <3>3, Sha1UpdateFed
      <3> QED BY <2>5, <3>1, <3>4, Zenon
    <2>8. algo = "sha512" => SHA512Fed(ctx', m \o d)
      <3>1. SUFFICES ASSUME algo = "sha512" PROVE SHA512Fed(ctx', m \o d)
        OBVIOUS
      <3>2. SHA512Fed(ctx, m)
        BY <2>1, <3>1 DEF HashInv, ContextFed
      <3>3. PICK aligned \in BOOLEAN : ctx' = rhash_sha512_update(ctx, d, aligned)
        BY <2>5, <3>1
      <3>4. SHA512Fed(rhash_sha512_update(ctx, d, aligned), m \o d)
        BY <2>4, <3>2, SHA512UpdateFed
      <3> QED BY <3>3, <3>4, Zenon
    <2>9. ContextFed(algo', ctx', Chunk(0, fed'))
      BY <2>4, <2>5, <2>6, <2>7, <2>8 DEF ContextFed
    <2>10. fed' \in Nat /\ fed' <= MaxMessage
      BY <2>3, <2>5
    <2> QED BY <2>5, <2>9, <2>10 DEF HashInv
  <1> QED BY <1>1, <1>2 DEF HashNext

-----------------------------------------------------------------------------
\* What the final functions make of a context that has seen m.
LEMMA FinalPadded ==
  ASSUME NEW m \in Bytes, NEW c
  PROVE  /\ MD5Fed(c, m) => MD5Final(c) = Padded(m, Block, BitCount(Len(m)))
         /\ Sha1Fed(c, m) => sha1_finish(c) = Padded(m, Block, BigEndian(BitCount(Len(m))))
         /\ SHA512Fed(c, m) =>
              rhash_sha512_final(c)
                = Padded(m, LongSize, Zeros(2 * LongWord - 1) \o <<Count(Len(m) * 8)>>)
  <1>1. MD5Fed(c, m) => MD5Final(c) = Padded(m, Block, BitCount(Len(m)))
    BY MD5FinalPadded
  <1>2. Sha1Fed(c, m) => sha1_finish(c) = Padded(m, Block, BigEndian(BitCount(Len(m))))
    BY Sha1FinishPadded
  <1>3. SHA512Fed(c, m) => rhash_sha512_final(c) = Padded(m, LongSize, LastWords(Len(m) * 8))
    BY SHA512FinalPadded
  <1> QED BY <1>1, <1>2, <1>3 DEF LastWords

\* It says that the hashes are fed the padded message.
LEMMA HashInvStreams ==
  ASSUME HashInv PROVE StreamFed
  <1>1. PICK m : m = Chunk(0, fed)
    OBVIOUS
  <1>2. m \in Bytes /\ Len(m) = fed
    BY <1>1, ChunkSeq DEF HashInv
  <1>3. PICK ending : ending = Zeros(2 * LongWord - 1) \o <<Count(fed * 8)>>
    OBVIOUS
  <1>4. /\ MD5Fed(ctx, m) => MD5Final(ctx) = Padded(m, Block, BitCount(fed))
        /\ Sha1Fed(ctx, m) => sha1_finish(ctx) = Padded(m, Block, BigEndian(BitCount(fed)))
        /\ SHA512Fed(ctx, m) => rhash_sha512_final(ctx) = Padded(m, LongSize, ending)
    <2>1. /\ MD5Fed(ctx, m) => MD5Final(ctx) = Padded(m, Block, BitCount(Len(m)))
          /\ Sha1Fed(ctx, m) => sha1_finish(ctx) = Padded(m, Block, BigEndian(BitCount(Len(m))))
          /\ SHA512Fed(ctx, m) =>
               rhash_sha512_final(ctx)
                 = Padded(m, LongSize, Zeros(2 * LongWord - 1) \o <<Count(Len(m) * 8)>>)
      BY <1>2, FinalPadded, Zenon
    <2> QED BY <1>2, <1>3, <2>1, Zenon
  <1>5. CASE algo = "md5"
    <2>1. MD5Fed(ctx, m)
      BY <1>1, <1>5 DEF HashInv, ContextFed
    <2>2. MD5Final(ctx) = Padded(m, Block, BitCount(fed))
      BY <1>4, <2>1, Zenon
    <2> QED BY <1>1, <1>5, <2>2 DEF StreamFed
  <1>6. CASE algo \in {"sha1", "sha256"}
    <2>1. Sha1Fed(ctx, m)
      BY <1>1, <1>6 DEF HashInv, ContextFed
    <2>2. sha1_finish(ctx) = Padded(m, Block, BigEndian(BitCount(fed)))
      BY <1>4, <2>1, Zenon
    <2> QED BY <1>1, <1>6, <2>2 DEF StreamFed, sha256_finish
  <1>7. CASE algo = "sha512"
    <2>1. SHA512Fed(ctx, m)
      BY <1>1, <1>7 DEF HashInv, ContextFed
    <2>2. rhash_sha512_final(ctx) = Padded(m, LongSize, ending)
      BY <1>4, <2>1, Zenon
    <2> QED BY <1>1, <1>3, <1>7, <2>2 DEF StreamFed
  <1> QED BY <1>5, <1>6, <1>7 DEF HashInv

\* One update of a fresh context.
LEMMA OneUpdate ==
  ASSUME NEW m \in Bytes
  PROVE  /\ MD5Fed(MD5Update(MD5Init, m), m)
         /\ Len(m) < 2 * Word => Sha1Fed(sha1_update(sha1_starts, m), m)
         /\ \A aligned \in BOOLEAN :
              SHA512Fed(rhash_sha512_update(rhash_sha512_init, m, aligned), m)
  <1>1. <<>> \o m = m
    BY ConcatEmptySeq DEF Bytes
  <1>2. MD5Fed(MD5Update(MD5Init, m), <<>> \o m)
    BY Nothing, MD5Begins, MD5UpdateFed
  <1>3. ASSUME Len(m) < 2 * Word PROVE Sha1Fed(sha1_update(sha1_starts, m), <<>> \o m)
    <2>1. (Len(<<>>) % Word) + Len(m) < 2 * Word
      <3>1. Len(<<>>) % Word = 0 /\ 0 + Len(m) = Len(m)
        BY Nothing, LenNat
      <3> QED BY <1>3, <3>1
    <2> QED BY <2>1, Nothing, Sha1Begins, Sha1UpdateFed
  <1>4. ASSUME NEW aligned \in BOOLEAN
        PROVE  SHA512Fed(rhash_sha512_update(rhash_sha512_init, m, aligned), <<>> \o m)
    BY Nothing, SHA512Begins, SHA512UpdateFed
  <1> QED BY <1>1, <1>2, <1>3, <1>4, Zenon

\* One of the two hashes of HMAC: the block of the key and what follows it.
LEMMA KeyedHash ==
  ASSUME NEW pad \in Bytes, Len(pad) = Block, NEW m \in Bytes, Block + Len(m) < 2 * Word
  PROVE  sha1_finish(sha1_update(sha1_update(sha1_starts, pad), m))
           = Padded(pad \o m, Block, BigEndian(BitCount(Block + Len(m))))
  <1>1. PICK c : c = sha1_update(sha1_starts, pad)
    OBVIOUS
  <1>2. Len(m) \in Nat /\ Len(pad) \in Nat
    BY LenNat
  <1>3. Sha1Fed(c, pad)
    <2>1. Len(pad) < 2 * Word
      BY <1>2, BlockTypes
    <2> QED BY <1>1, <2>1, OneUpdate
  <1>4. (Len(pad) % Word) + Len(m) < 2 * Word
    <2>1. Len(pad) % Word \in Nat /\ Len(pad) % Word <= Len(pad)
      BY <1>2, BlockTypes, DivParts, Zenon
    <2> QED BY <1>2, <2>1, BlockTypes
  <1>5. Sha1Fed(sha1_update(c, m), pad \o m)
    BY <1>3, <1>4, Sha1UpdateFed
  <1>6. pad \o m \in Bytes /\ Len(pad \o m) = Block + Len(m)
    BY ConcatSeq
  <1>7. sha1_finish(sha1_update(c, m))
          = Padded(pad \o m, Block, BigEndian(BitCount(Len(pad \o m))))
    BY <1>5, <1>6, FinalPadded
  <1> QED BY <1>1, <1>6, <1>7, Zenon

\* A block of the key mixed with a pad.
LEMMA KeyBlock ==
  ASSUME NEW key \in Bytes, NEW k, k = [i \in 1 .. Block |-> IF i <= Len(key) THEN key[i] ELSE 0]
  PROVE  /\ [i \in 1 .. Block |-> Inner(k[i])]
              = [i \in 1 .. Block |-> Inner(IF i <= Len(key) THEN key[i] ELSE 0)]
         /\ [i \in 1 .. Block |-> Outer(k[i])]
              = [i \in 1 .. Block |-> Outer(IF i <= Len(key) THEN key[i] ELSE 0)]
         /\ [i \in 1 .. Block |-> Inner(k[i])] \in Bytes
         /\ Len([i \in 1 .. Block |-> Inner(k[i])]) = Block
         /\ [i \in 1 .. Block |-> Outer(k[i])] \in Bytes
         /\ Len([i \in 1 .. Block |-> Outer(k[i])]) = Block
  <1>1. \A i \in 1 .. Block : k[i] = (IF i <= Len(key) THEN key[i] ELSE 0) /\ k[i] \in Int
    <2>1. \A i \in 1 .. Len(key) : key[i] \in Int
      BY ElementOfSeq DEF Bytes
    <2> QED BY <2>1, LenNat, BlockTypes
  <1>2. \A i \in 1 .. Block : Inner(k[i]) \in Int /\ Outer(k[i]) \in Int
    BY <1>1 DEF Inner, Outer
  <1>3. /\ [i \in 1 .. Block |-> Inner(k[i])] \in Bytes
        /\ Len([i \in 1 .. Block |-> Inner(k[i])]) = Block
        /\ [i \in 1 .. Block |-> Outer(k[i])] \in Bytes
        /\ Len([i \in 1 .. Block |-> Outer(k[i])]) = Block
    BY <1>2, BlockTypes DEF Bytes
  <1>4. /\ [i \in 1 .. Block |-> Inner(k[i])]
             = [i \in 1 .. Block |-> Inner(IF i <= Len(key) THEN key[i] ELSE 0)]
        /\ [i \in 1 .. Block |-> Outer(k[i])]
             = [i \in 1 .. Block |-> Outer(IF i <= Len(key) THEN key[i] ELSE 0)]
    BY <1>1
  <1> QED BY <1>3, <1>4

\* HMAC hashes the keyed message, then its digest under the outer pad.
LEMMA HmacPadded ==
  ASSUME NEW key \in Bytes, NEW m \in Bytes, Block + Len(m) < 2 * Word
  PROVE  sha1_hmac(key, m)
           = << Padded([i \in 1 .. Block |-> Inner(IF i <= Len(key) THEN key[i] ELSE 0)] \o m,
                       Block, BigEndian(BitCount(Block + Len(m)))),
                Padded([i \in 1 .. Block |-> Outer(IF i <= Len(key) THEN key[i] ELSE 0)] \o tmpbuf,
                       Block, BigEndian(BitCount(Block + Len(tmpbuf)))) >>
  <1>1. PICK k : k = [i \in 1 .. Block |-> IF i <= Len(key) THEN key[i] ELSE 0]
    OBVIOUS
  <1>2. PICK a : a = [i \in 1 .. Block |-> Inner(k[i])]
    OBVIOUS
  <1>3. PICK b : b = [i \in 1 .. Block |-> Outer(k[i])]
    OBVIOUS
  <1>4. /\ a \in Bytes /\ Len(a) = Block /\ b \in Bytes /\ Len(b) = Block
        /\ a = [i \in 1 .. Block |-> Inner(IF i <= Len(key) THEN key[i] ELSE 0)]
        /\ b = [i \in 1 .. Block |-> Outer(IF i <= Len(key) THEN key[i] ELSE 0)]
    <2>1. /\ [i \in 1 .. Block |-> Inner(k[i])]
               = [i \in 1 .. Block |-> Inner(IF i <= Len(key) THEN key[i] ELSE 0)]
          /\ [i \in 1 .. Block |-> Outer(k[i])]
               = [i \in 1 .. Block |-> Outer(IF i <= Len(key) THEN key[i] ELSE 0)]
          /\ [i \in 1 .. Block |-> Inner(k[i])] \in Bytes
          /\ Len([i \in 1 .. Block |-> Inner(k[i])]) = Block
          /\ [i \in 1 .. Block |-> Outer(k[i])] \in Bytes
          /\ Len([i \in 1 .. Block |-> Outer(k[i])]) = Block
      BY <1>1, KeyBlock, ZenonT(60)
    <2> QED BY <1>2, <1>3, <2>1, Zenon
  <1>5. tmpbuf \in Bytes /\ Len(tmpbuf) = 2
    BY TwoBytes DEF tmpbuf
  <1>6. Block + Len(tmpbuf) < 2 * Word
    <2>1. PICK v \in Nat \ {0} : Word = 8 * v /\ v % Block = 0
      BY WordParts
    <2>2. Block <= v
      <3>1. v = (v \div Block) * Block
        BY <2>1, BlockTypes, DivMod
      <3>2. v \div Block \in Nat
        BY <2>1, BlockTypes, DivMod
      <3>3. PICK j : j = v \div Block
        OBVIOUS
      <3>4. j \in Nat \ {0}
        BY <2>1, <3>1, <3>2, <3>3, BlockTypes
      <3>5. 1 * Block <= j * Block
        <4>1. 1 \in Nat /\ 1 <= j
          BY <3>4
        <4> QED BY <3>4, <4>1, BlockTypes, Scaled
      <3> QED BY <3>1, <3>3, <3>5, BlockTypes
    <2> QED BY <1>5, <2>1, <2>2, BlockTypes
  <1>7. sha1_finish(sha1_update(sha1_update(sha1_starts, a), m))
          = Padded(a \o m, Block, BigEndian(BitCount(Block + Len(m))))
    BY <1>4, KeyedHash
  <1>8. sha1_finish(sha1_update(sha1_update(sha1_starts, b), tmpbuf))
          = Padded(b \o tmpbuf, Block, BigEndian(BitCount(Block + Len(tmpbuf))))
    BY <1>4, <1>5, <1>6, KeyedHash
  <1>9. sha1_hmac(key, m) = << sha1_finish(sha1_update(sha1_update(sha1_starts, a), m)),
                               sha1_finish(sha1_update(sha1_update(sha1_starts, b), tmpbuf)) >>
    BY <1>1, <1>2, <1>3, Zenon DEF sha1_hmac
  <1> QED BY <1>4, <1>7, <1>8, <1>9, Zenon

\* The one-call functions need the bound on the length alone.
LEMMA HashInvOneCall ==
  ASSUME MaxMessage + Block < 2 * Word, HashInv
  PROVE  OneCallFed
  <1>1. PICK m : m = Chunk(0, fed)
    OBVIOUS
  <1>2. m \in Bytes /\ Len(m) = fed /\ fed \in Nat /\ fed <= MaxMessage
    BY <1>1, ChunkSeq DEF HashInv
  <1>3. PICK ending : ending = Zeros(2 * LongWord - 1) \o <<Count(fed * 8)>>
    OBVIOUS
  <1>4. Len(m) < 2 * Word /\ Block + Len(m) < 2 * Word
    BY <1>2, BlockTypes, HashAssumption DEF HashAssumption
  <1>5. MD5(m) = Padded(m, Block, BitCount(fed))
    <2>1. MD5Fed(MD5Update(MD5Init, m), m)
      BY <1>2, OneUpdate
    <2>2. MD5Final(MD5Update(MD5Init, m)) = Padded(m, Block, BitCount(Len(m)))
      BY <1>2, <2>1, FinalPadded
    <2> QED BY <1>2, <2>2, Zenon DEF MD5
  <1>6. sha1_finish(sha1_update(sha1_starts, m)) = Padded(m, Block, BigEndian(BitCount(fed)))
    <2>1. Sha1Fed(sha1_update(sha1_starts, m), m)
      BY <1>2, <1>4, OneUpdate
    <2>2. sha1_finish(sha1_update(sha1_starts, m))
            = Padded(m, Block, BigEndian(BitCount(Len(m))))
      BY <1>2, <2>1, FinalPadded
    <2> QED BY <1>2, <2>2, Zenon
  <1>7. ASSUME NEW aligned \in BOOLEAN
        PROVE  toSHA512(m, aligned) = Padded(m, LongSize, ending)
    <2>1. SHA512Fed(rhash_sha512_update(rhash_sha512_init, m, aligned), m)
      BY <1>2, OneUpdate
    <2>2. rhash_sha512_final(rhash_sha512_update(rhash_sha512_init, m, aligned))
            = Padded(m, LongSize, Zeros(2 * LongWord - 1) \o <<Count(Len(m) * 8)>>)
      BY <1>2, <2>1, FinalPadded
    <2> QED BY <1>2, <1>3, <2>2, Zenon DEF toSHA512
  <1>8. CASE algo = "md5"
    BY <1>1, <1>5, <1>8 DEF OneCallFed
  <1>9. CASE algo = "sha1"
    <2>1. toSHA1(m) = Padded(m, Block, BigEndian(BitCount(fed)))
      BY <1>6, Zenon DEF toSHA1
    <2>2. ASSUME NEW n \in {0, 1, Block}
          PROVE  sha1_hmac(Chunk(0, n), m)
                   = << Padded([i \in 1 .. Block |->
                                  Inner(IF i <= Len(Chunk(0, n)) THEN Chunk(0, n)[i] ELSE 0)] \o m,
                               Block, BigEndian(BitCount(Block + fed))),
                        Padded([i \in 1 .. Block |->
                                  Outer(IF i <= Len(Chunk(0, n)) THEN Chunk(0, n)[i] ELSE 0)]
                                    \o tmpbuf,
                               Block, BigEndian(BitCount(Block + Len(tmpbuf)))) >>
      <3>1. n \in Nat
        BY BlockTypes
      <3>2. PICK key : key = Chunk(0, n)
        OBVIOUS
      <3>3. key \in Bytes
        BY <3>1, <3>2, ChunkSeq
      <3>4. sha1_hmac(key, m)
              = << Padded([i \in 1 .. Block |-> Inner(IF i <= Len(key) THEN key[i] ELSE 0)] \o m,
                          Block, BigEndian(BitCount(Block + Len(m)))),
                   Padded([i \in 1 .. Block |-> Outer(IF i <= Len(key) THEN key[i] ELSE 0)]
                            \o tmpbuf,
                          Block, BigEndian(BitCount(Block + Len(tmpbuf)))) >>
        BY <1>2, <1>4, <3>3, HmacPadded, Zenon
      <3> QED BY <1>2, <3>2, <3>4, Zenon
    <2> QED BY <1>1, <1>9, <2>1, <2>2, Zenon DEF OneCallFed
  <1>10. CASE algo = "sha256"
    <2>1. toSHA256(m) = Padded(m, Block, BigEndian(BitCount(fed)))
      BY <1>6, Zenon DEF toSHA256, sha256_finish, sha256_update, sha256_starts
    <2> QED BY <1>1, <1>10, <2>1 DEF OneCallFed
  <1>11. CASE algo = "sha512"
    BY <1>1, <1>3, <1>7, <1>11 DEF OneCallFed
  <1> QED BY <1>8, <1>9, <1>10, <1>11 DEF HashInv

-----------------------------------------------------------------------------
\* The streaming interface: whatever the chunks, and however often the counters carry, the
\* blocks compressed are those of the padded message. The one hypothesis is the type of
\* the length, an int: a chunk is shorter than the 2^32 values of a counter's word.
THEOREM StreamsFeedMessage ==
  ASSUME ChunksFit PROVE HashSpec => []StreamFed
  <1>1. HashInv /\ [HashNext]_hvars => HashInv'
    BY HashStep
  <1>2. HashInv => StreamFed
    BY HashInvStreams
  <1> QED BY <1>1, <1>2, HashStarts, PTL DEF HashSpec

\* The one-call functions and HMAC too. They pass the whole message in one call, which
\* must be shorter than two rounds of the counter: its carry is a single one.
THEOREM HashesFeedMessage ==
  ASSUME ChunksFit, MaxMessage + Block < 2 * Word PROVE HashSpec => []HashFeedsMessage
  <1>1. HashInv /\ [HashNext]_hvars => HashInv'
    BY HashStep
  <1>2. HashInv => HashFeedsMessage
    BY HashInvStreams, HashInvOneCall DEF HashFeedsMessage
  <1> QED BY <1>1, <1>2, HashStarts, PTL DEF HashSpec
=============================================================================
