---------------------------- MODULE Inputs_proofs ----------------------------
(*****************************************************************************)
(* Theorems about the operations that are functions of their input, for every *)
(* input over every alphabet, of any length.                                 *)
(*                                                                           *)
(* Induction over data is written with sets and functions: the library's     *)
(* WFMin gives a least member, and from it the lemmas Induction, for a set of *)
(* naturals, MeasureInduction, for a set ordered by a measure, and Recursion, *)
(* which says that a recursive definition whose argument gets smaller has the *)
(* function it describes.                                                    *)
(*****************************************************************************)
EXTENDS Inputs, TLAPS, WellFoundedInduction, SequenceTheorems

-----------------------------------------------------------------------------
(*****************************************************************************)
(* Induction, recursion, and parts of sequences.                             *)
(*****************************************************************************)
\* A set of naturals that is not empty has a least member.
LEMMA Smallest ==
  ASSUME NEW T, T \subseteq Nat, T # {}
  PROVE  \E x \in T : \A y \in T : x <= y
  <1>1. IsWellFoundedOn(OpToRel(<, Nat), Nat)
    BY NatLessThanWellFounded
  <1>2. PICK x \in T : \A y \in T : ~ (<<y, x>> \in OpToRel(<, Nat))
    BY <1>1, WFMin
  <1>3. ASSUME NEW y \in T PROVE x <= y
    <2>1. x \in Nat /\ y \in Nat
      OBVIOUS
    <2>2. y < x => <<y, x>> \in OpToRel(<, Nat)
      BY <2>1 DEF OpToRel
    <2>3. ~(y < x)
      BY <1>2, <2>2
    <2> QED BY <2>1, <2>3
  <1> QED BY <1>3

\* Induction over the naturals, for a set.
LEMMA Induction ==
  ASSUME NEW T, 0 \in T, \A n \in Nat : n \in T => n + 1 \in T
  PROVE  Nat \subseteq T
  <1> DEFINE U == Nat \ T
  <1> SUFFICES ASSUME U # {} PROVE FALSE
    OBVIOUS
  <1>1. PICK x \in U : \A y \in U : x <= y
    BY Smallest
  <1>2. x # 0 /\ x - 1 \in Nat /\ x - 1 \notin U
    BY <1>1
  <1> QED BY <1>2

\* Induction on a measure.
LEMMA MeasureInduction ==
  ASSUME NEW D, NEW mu \in [D -> Nat], NEW T,
         \A x \in D : (\A y \in D : mu[y] < mu[x] => y \in T) => x \in T
  PROVE  D \subseteq T
  <1> SUFFICES ASSUME D \ T # {} PROVE FALSE
    OBVIOUS
  <1> DEFINE M == {mu[x] : x \in D \ T}
  <1>0. M \subseteq Nat /\ M # {}
    OBVIOUS
  <1>1. PICK k \in M : \A y \in M : k <= y
    <2> HIDE DEF M
    <2> QED BY <1>0, Smallest
  <1>2. PICK x \in D \ T : mu[x] = k
    OBVIOUS
  <1>3. \A y \in D : mu[y] < mu[x] => y \in T
    <2> SUFFICES ASSUME NEW y \in D, mu[y] < mu[x], y \notin T PROVE FALSE
      OBVIOUS
    <2>1. mu[y] \in M
      OBVIOUS
    <2> HIDE DEF M
    <2>2. k <= mu[y]
      BY <2>1, <1>1
    <2> QED BY <2>2, <1>2
  <1> QED BY <1>3, <1>2

Recurses(f, D, Ends, val, nxt, op) ==
  f = [x \in D |-> IF x \in Ends THEN val[x] ELSE op[<<x, f[nxt[x]]>>]]

\* A function on 1 .. n is a sequence of length n.
LEMMA FunctionSeq ==
  ASSUME NEW C, NEW n \in Nat, NEW f \in [1 .. n -> C]
  PROVE  f \in Seq(C) /\ Len(f) = n
  <1>1. f \in Seq(C)
    BY SeqDef
  <1>2. Len(f) \in Nat /\ 1 .. Len(f) = 1 .. n
    BY <1>1, LenProperties
  <1>3. Len(f) = n
    BY <1>2
  <1> QED BY <1>1, <1>3

\* A function that calls itself with a smaller argument exists.
LEMMA Recursion ==
  ASSUME NEW D, NEW V, NEW n \in Nat, NEW mu \in [D -> 0 .. n], NEW Ends,
         NEW val \in [D -> V], NEW nxt \in [D -> D], NEW op \in [D \X V -> V],
         \A x \in D : x \notin Ends => mu[nxt[x]] < mu[x]
  PROVE  \E f \in [D -> V] : Recurses(f, D, Ends, val, nxt, op)
  <1> DEFINE E(k) == {x \in D : mu[x] < k}
             T == {k \in Nat : \E f \in [E(k) -> V] : Recurses(f, E(k), Ends, val, nxt, op)}
  <1>0. \A x \in D : mu[x] \in Nat /\ mu[x] <= n
    OBVIOUS
  <1>1. 0 \in T
    <2>1. E(0) = {}
      BY <1>0
    <2>2. [x \in {} |-> 0] \in [{} -> V]
      OBVIOUS
    <2>3. Recurses([x \in {} |-> 0], {}, Ends, val, nxt, op)
      BY DEF Recurses
    <2> QED BY <2>1, <2>2, <2>3
  <1>2. ASSUME NEW k \in Nat, k \in T PROVE k + 1 \in T
    <2>1. PICK g \in [E(k) -> V] : Recurses(g, E(k), Ends, val, nxt, op)
      BY <1>2
    <2> DEFINE f == [x \in E(k + 1) |-> IF x \in Ends THEN val[x] ELSE op[<<x, g[nxt[x]]>>]]
    <2>2. \A x \in E(k + 1) : x \in D /\ (x \notin Ends => nxt[x] \in E(k))
      <3> SUFFICES ASSUME NEW x \in E(k + 1), x \notin Ends PROVE nxt[x] \in E(k)
        OBVIOUS
      <3>1. nxt[x] \in D /\ mu[nxt[x]] < mu[x] /\ mu[x] < k + 1
        OBVIOUS
      <3> QED BY <3>1, <1>0
    <2>3. f \in [E(k + 1) -> V]
      <3> SUFFICES ASSUME NEW x \in E(k + 1)
                   PROVE  (IF x \in Ends THEN val[x] ELSE op[<<x, g[nxt[x]]>>]) \in V
        OBVIOUS
      <3>1. CASE x \in Ends
        BY <3>1, <2>2
      <3>2. CASE x \notin Ends
        <4>1. nxt[x] \in E(k) /\ x \in D
          BY <2>2, <3>2
        <4> HIDE DEF E
        <4>2. g[nxt[x]] \in V
          BY <4>1
        <4> QED BY <3>2, <4>1, <4>2
      <3> QED BY <3>1, <3>2
    <2>4. \A x \in E(k) : x \in E(k + 1) /\ f[x] = g[x]
      <3> SUFFICES ASSUME NEW x \in E(k) PROVE x \in E(k + 1) /\ f[x] = g[x]
        OBVIOUS
      <3>1. x \in E(k + 1)
        BY <1>0
      <3> HIDE DEF E
      <3>2. f[x] = IF x \in Ends THEN val[x] ELSE op[<<x, g[nxt[x]]>>]
        BY <3>1
      <3>3. g[x] = IF x \in Ends THEN val[x] ELSE op[<<x, g[nxt[x]]>>]
        BY <2>1 DEF Recurses
      <3> QED BY <3>1, <3>2, <3>3
    <2>5. Recurses(f, E(k + 1), Ends, val, nxt, op)
      <3> HIDE DEF E
      <3>1. \A x \in E(k + 1) :
              (IF x \in Ends THEN val[x] ELSE op[<<x, g[nxt[x]]>>])
                = IF x \in Ends THEN val[x] ELSE op[<<x, f[nxt[x]]>>]
        <4> SUFFICES ASSUME NEW x \in E(k + 1), x \notin Ends
                     PROVE  g[nxt[x]] = f[nxt[x]]
          OBVIOUS
        <4> HIDE DEF f
        <4> QED BY <2>2, <2>4
      <3>2. f = [x \in E(k + 1) |-> IF x \in Ends THEN val[x] ELSE op[<<x, f[nxt[x]]>>]]
        BY <3>1
      <3> HIDE DEF f
      <3> QED BY <3>2 DEF Recurses
    <2> HIDE DEF f, E
    <2> QED BY <2>3, <2>5
  <1>3. n + 1 \in T
    <2> HIDE DEF T
    <2>1. Nat \subseteq T
      BY <1>1, <1>2, Induction
    <2> QED BY <2>1
  <1>4. E(n + 1) = D
    BY <1>0
  <1> HIDE DEF E
  <1> QED BY <1>3, <1>4
\* What Part returns.
LEMMA PartSeq ==
  ASSUME NEW C, NEW s \in Seq(C), NEW p \in Nat, NEW n \in Nat, p + n <= Len(s)
  PROVE  /\ Part(s, p, n) \in Seq(C) /\ Len(Part(s, p, n)) = n
         /\ \A i \in 1 .. n : Part(s, p, n)[i] = s[p + i]
  <1>1. p + 1 \in 1 .. Len(s) + 1 /\ p + n \in p + 1 - 1 .. Len(s)
    OBVIOUS
  <1>2. (p + n) - (p + 1) + 1 = n
    OBVIOUS
  <1>3. /\ SubSeq(s, p + 1, p + n) \in Seq(C) /\ Len(SubSeq(s, p + 1, p + n)) = n
        /\ \A i \in 1 .. n : SubSeq(s, p + 1, p + n)[i] = s[p + i]
    BY SubSeqProperties
  <1> QED BY <1>3 DEF Part

\* Two texts of the same length and characters are the same.
LEMMA SameText ==
  ASSUME NEW C, NEW s \in Seq(C), NEW t \in Seq(C), Len(s) = Len(t),
         \A i \in 1 .. Len(s) : s[i] = t[i]
  PROVE  s = t
  BY SeqEqual

\* FindAt gives the first place of the character behind p, or -1.
LEMMA FindAtFirst ==
  ASSUME NEW C, NEW s \in Seq(C), NEW c, NEW p \in 0 .. Len(s)
  PROVE  \/ FindAt(s, c, p) = -1 /\ \A i \in p .. Len(s) - 1 : s[i + 1] # c
         \/ /\ FindAt(s, c, p) \in p .. Len(s) - 1 /\ s[FindAt(s, c, p) + 1] = c
            /\ \A i \in p .. FindAt(s, c, p) - 1 : s[i + 1] # c
  <1> DEFINE hit == {i \in p .. Len(s) - 1 : s[i + 1] = c}
             q == CHOOSE i \in hit : \A j \in hit : i <= j
  <1>1. FindAt(s, c, p) = IF hit = {} THEN -1 ELSE q
    BY DEF FindAt
  <1>2. CASE hit = {}
    BY <1>1, <1>2
  <1>3. CASE hit # {}
    <2>1. hit \subseteq Nat
      OBVIOUS
    <2>2. \E i \in hit : \A j \in hit : i <= j
      <3> HIDE DEF hit
      <3> QED BY <2>1, <1>3, Smallest
    <2>3. q \in hit /\ \A j \in hit : q <= j
      <3> HIDE DEF hit
      <3> QED BY <2>2
    <2> HIDE DEF q
    <2>4. q \in p .. Len(s) - 1 /\ s[q + 1] = c
      BY <2>3
    <2>5. \A i \in p .. q - 1 : s[i + 1] # c
      BY <2>3, <2>4
    <2> QED BY <1>1, <1>3, <2>4, <2>5
  <1> QED BY <1>2, <1>3

\* The body of FindPostion, the function it calls being f.
FindBody(s, m, f, p) ==
  LET n == Len(m)
  IN IF n = 0 \/ n + p > Len(s) THEN 0
     ELSE LET q == FindAt(s, m[1], p)
          IN IF q < 0 \/ n + q > Len(s) THEN 0
             ELSE IF Part(s, q, n) = m THEN q + n
             ELSE f[q + 1]
IsFind(f, s, m) == f = [p \in 0 .. Len(s) |-> FindBody(s, m, f, p)]

\* The recursion of FindPostion has a solution.
LEMMA FindExists ==
  ASSUME NEW C, NEW s \in Seq(C), NEW m \in Seq(C)
  PROVE  \E f \in [0 .. Len(s) -> Nat] : IsFind(f, s, m)
  <1> DEFINE L == Len(s)
             n == Len(m)
             D == 0 .. L
             q(p) == FindAt(s, m[1], p)
             None(p) == n = 0 \/ n + p > L \/ q(p) < 0 \/ n + q(p) > L
             Ends == {p \in D : None(p) \/ Part(s, q(p), n) = m}
             val == [p \in D |-> IF None(p) THEN 0 ELSE q(p) + n]
             nxt == [p \in D |-> IF p \in Ends THEN p ELSE q(p) + 1]
             mu == [p \in D |-> L - p]
             op == [x \in D \X Nat |-> x[2]]
  <1>1. L \in Nat /\ n \in Nat
    OBVIOUS
  <1>2. \A p \in D : q(p) = -1 \/ q(p) \in p .. L - 1
    BY FindAtFirst
  <1> HIDE DEF q
  <1>3. val \in [D -> Nat]
    BY <1>1, <1>2
  <1>4. nxt \in [D -> D] /\ \A p \in D : p \notin Ends => nxt[p] > p
    BY <1>1, <1>2
  <1>5. mu \in [D -> 0 .. L] /\ \A p \in D : p \notin Ends => mu[nxt[p]] < mu[p]
    <2>1. mu \in [D -> 0 .. L]
      BY <1>1
    <2>2. ASSUME NEW p \in D, p \notin Ends PROVE mu[nxt[p]] < mu[p]
      <3>1. nxt[p] \in D /\ nxt[p] > p
        BY <1>4, <2>2
      <3> HIDE DEF nxt, Ends
      <3> QED BY <1>1, <3>1
    <2> HIDE DEF mu, nxt, Ends, D
    <2> QED BY <2>1, <2>2
  <1>6. op \in [D \X Nat -> Nat]
    OBVIOUS
  <1>7. PICK f \in [D -> Nat] : Recurses(f, D, Ends, val, nxt, op)
    <2> HIDE DEF D, val, nxt, mu, op, Ends, L
    <2> QED BY <1>1, <1>3, <1>4, <1>5, <1>6, Recursion
  <1>8. ASSUME NEW p \in D
        PROVE  (IF p \in Ends THEN val[p] ELSE op[<<p, f[nxt[p]]>>]) = FindBody(s, m, f, p)
    <2>1. CASE None(p)
      BY <2>1 DEF FindBody, q
    <2>2. CASE ~None(p) /\ Part(s, q(p), n) = m
      BY <2>2 DEF FindBody, q
    <2>3. CASE p \notin Ends
      <3>1. nxt[p] \in D /\ nxt[p] = q(p) + 1
        BY <2>3, <1>4
      <3>2. op[<<p, f[nxt[p]]>>] = f[q(p) + 1]
        <4> HIDE DEF D
        <4> QED BY <3>1
      <3>3. FindBody(s, m, f, p) = f[q(p) + 1]
        BY <2>3 DEF FindBody, q
      <3> QED BY <2>3, <3>2, <3>3
    <2> QED BY <2>1, <2>2, <2>3
  <1>9. f = [p \in D |-> FindBody(s, m, f, p)]
    <2> HIDE DEF D, val, nxt, mu, op, Ends, L
    <2> QED BY <1>7, <1>8 DEF Recurses
  <1> QED BY <1>9 DEF IsFind

\* Where a search that begins at p ends: behind the first match, or nowhere.
FirstFrom(s, m, p, e) ==
  \/ e = 0 /\ \A i \in p .. Len(s) : ~ Occurs(s, i, m)
  \/ /\ e \in p + Len(m) .. Len(s) /\ Occurs(s, e - Len(m), m)
     /\ \A i \in p .. e - Len(m) - 1 : ~ Occurs(s, i, m)

\* An occurrence begins with the first character.
LEMMA OccursBegins ==
  ASSUME NEW C, NEW s \in Seq(C), NEW m \in Seq(C), m # <<>>, NEW i \in Nat,
         Occurs(s, i, m)
  PROVE  i + Len(m) <= Len(s) /\ i < Len(s) /\ s[i + 1] = m[1]
  <1>1. Len(m) \in Nat /\ Len(m) > 0
    BY EmptySeq
  <1>2. i + Len(m) <= Len(s) /\ Part(s, i, Len(m)) = m
    BY DEF Occurs
  <1>3. Part(s, i, Len(m))[1] = s[i + 1]
    BY <1>1, <1>2, PartSeq
  <1> QED BY <1>1, <1>2, <1>3

\* From any offset on it gives the end of the first match.
LEMMA FindFrom ==
  ASSUME NEW C, NEW s \in Seq(C), NEW m \in Seq(C), m # <<>>, NEW f, IsFind(f, s, m)
  PROVE  \A p \in 0 .. Len(s) : FirstFrom(s, m, p, f[p])
  <1> DEFINE L == Len(s)
             n == Len(m)
             D == 0 .. L
             mu == [p \in D |-> L - p]
             T == {p \in D : FirstFrom(s, m, p, f[p])}
  <1>1. L \in Nat /\ n \in Nat /\ n > 0
    BY EmptySeq
  <1>2. ASSUME NEW p \in D, \A x \in D : mu[x] < mu[p] => x \in T PROVE p \in T
    <2> DEFINE q == FindAt(s, m[1], p)
    <2>1. f[p] = FindBody(s, m, f, p)
      BY DEF IsFind
    <2>2. \/ q = -1 /\ \A i \in p .. L - 1 : s[i + 1] # m[1]
          \/ /\ q \in p .. L - 1 /\ s[q + 1] = m[1]
             /\ \A i \in p .. q - 1 : s[i + 1] # m[1]
      BY FindAtFirst
    <2> HIDE DEF q
    <2>3. CASE n + p > L
      <3>1. f[p] = 0
        BY <2>1, <2>3 DEF FindBody
      <3>2. \A i \in p .. L : ~ Occurs(s, i, m)
        BY <1>1, <2>3 DEF Occurs
      <3> QED BY <3>1, <3>2 DEF FirstFrom
    <2>4. CASE ~(n + p > L) /\ (q < 0 \/ n + q > L)
      <3>1. f[p] = 0
        BY <1>1, <2>1, <2>4 DEF FindBody, q
      <3>2. ASSUME NEW i \in p .. L, Occurs(s, i, m) PROVE FALSE
        <4>1. i + n <= L /\ i < L /\ s[i + 1] = m[1]
          BY <3>2, OccursBegins
        <4> QED BY <4>1, <1>1, <2>2, <2>4
      <3> QED BY <3>1, <3>2 DEF FirstFrom
    <2>5. CASE ~(n + p > L) /\ q >= 0 /\ n + q <= L
      <3>1. q \in p .. L - 1 /\ \A i \in p .. q - 1 : s[i + 1] # m[1]
        BY <2>2, <2>5
      <3>2. \A i \in p .. q - 1 : ~ Occurs(s, i, m)
        BY <3>1, OccursBegins
      <3>3. f[p] = IF Part(s, q, n) = m THEN q + n ELSE f[q + 1]
        BY <1>1, <2>1, <2>5, <3>1 DEF FindBody, q
      <3>4. CASE Part(s, q, n) = m
        <4>1. f[p] = q + n /\ q + n - n = q /\ q + n \in p + n .. L
          BY <1>1, <3>3, <3>4, <3>1, <2>5
        <4>2. Occurs(s, q, m)
          BY <3>4, <2>5, <1>1, <3>1 DEF Occurs
        <4>3. f[p] - n = q /\ f[p] \in p + n .. L
          BY <1>1, <3>1, <4>1
        <4> HIDE DEF D, L, n
        <4> QED BY <4>2, <4>3, <3>2 DEF FirstFrom, L, n
      <3>5. CASE Part(s, q, n) # m
        <4>1. q + 1 \in D /\ mu[q + 1] < mu[p]
          BY <1>1, <3>1
        <4>2. FirstFrom(s, m, q + 1, f[q + 1]) /\ f[p] = f[q + 1]
          BY <4>1, <1>2, <3>3, <3>5
        <4>3. ~ Occurs(s, q, m)
          BY <3>5 DEF Occurs
        <4>4. \A i \in p .. L : i \in p .. q - 1 \/ i = q \/ i \in q + 1 .. L
          BY <3>1, <1>1
        <4>5. CASE f[p] = 0 /\ \A i \in q + 1 .. L : ~ Occurs(s, i, m)
          BY <4>5, <4>3, <4>4, <3>2 DEF FirstFrom
        <4>6. CASE /\ f[p] \in q + 1 + n .. L /\ Occurs(s, f[p] - n, m)
                   /\ \A i \in q + 1 .. f[p] - n - 1 : ~ Occurs(s, i, m)
          <5>1. f[p] \in p + n .. L
            BY <4>6, <3>1, <1>1
          <5>2. \A i \in p .. f[p] - n - 1 :
                  i \in p .. q - 1 \/ i = q \/ i \in q + 1 .. f[p] - n - 1
            BY <3>1, <1>1, <4>6
          <5>3. \A i \in p .. f[p] - n - 1 : ~ Occurs(s, i, m)
            BY <5>2, <4>6, <4>3, <3>2
          <5> QED BY <5>1, <5>3, <4>6 DEF FirstFrom
        <4> QED BY <4>2, <4>5, <4>6 DEF FirstFrom
      <3> QED BY <3>4, <3>5
    <2> QED BY <1>1, <2>2, <2>3, <2>4, <2>5
  <1>3. mu \in [D -> Nat]
    BY <1>1
  <1>4. D \subseteq T
    <2> HIDE DEF D, mu, T
    <2> QED BY <1>2, <1>3, MeasureInduction
  <1> QED BY <1>4

\* FindPostion returns the end of the first match.
LEMMA FindPostionFirst ==
  ASSUME NEW C, NEW s \in Seq(C), NEW m \in Seq(C)
  PROVE  /\ m # <<>> => FirstFrom(s, m, 0, FindPostion(s, m))
         /\ m = <<>> => FindPostion(s, m) = 0
  <1> DEFINE F == CHOOSE f : IsFind(f, s, m)
  <1>1. FindPostion(s, m) = F[0]
    BY DEF FindPostion, FindBody, IsFind
  <1>2. PICK g \in [0 .. Len(s) -> Nat] : IsFind(g, s, m)
    BY FindExists
  <1>3. IsFind(F, s, m)
    BY <1>2
  <1> HIDE DEF F
  <1>4. 0 \in 0 .. Len(s)
    OBVIOUS
  <1>5. CASE m # <<>>
    BY <1>1, <1>3, <1>4, <1>5, FindFrom
  <1>6. CASE m = <<>>
    <2>1. F[0] = FindBody(s, m, F, 0)
      BY <1>3, <1>4 DEF IsFind
    <2>2. Len(m) = 0
      BY <1>6
    <2> QED BY <1>1, <1>6, <2>1, <2>2 DEF FindBody
  <1> QED BY <1>5, <1>6

\* Concatenation is associative.
LEMMA ConcatAssoc ==
  ASSUME NEW C, NEW s \in Seq(C), NEW t \in Seq(C), NEW u \in Seq(C)
  PROVE  (s \o t) \o u = s \o (t \o u)
  BY ConcatAssociative, SMTT(60)

\* The same for any three sequences.
LEMMA Regroup ==
  ASSUME NEW C
  PROVE  \A s, t, u \in Seq(C) : (s \o t) \o u = s \o (t \o u)
  BY ConcatAssoc

\* A part of a part.
LEMMA PartPart ==
  ASSUME NEW C, NEW s \in Seq(C), NEW p \in Nat, NEW n \in Nat, p + n <= Len(s),
         NEW q \in Nat, NEW k \in Nat, q + k <= n
  PROVE  Part(Part(s, p, n), q, k) = Part(s, p + q, k)
  <1> DEFINE t == Part(s, p, n)
             a == Part(t, q, k)
             b == Part(s, p + q, k)
  <1>1. t \in Seq(C) /\ Len(t) = n /\ \A i \in 1 .. n : t[i] = s[p + i]
    BY PartSeq
  <1> HIDE DEF t
  <1>2. a \in Seq(C) /\ Len(a) = k /\ \A i \in 1 .. k : a[i] = t[q + i]
    <2>1. k + q <= n /\ q + k <= Len(t)
      BY <1>1
    <2> QED BY <1>1, <2>1, PartSeq
  <1>3. b \in Seq(C) /\ Len(b) = k /\ \A i \in 1 .. k : b[i] = s[(p + q) + i]
    <2>1. p + q \in Nat /\ (p + q) + k <= Len(s)
      OBVIOUS
    <2> QED BY <2>1, PartSeq, ZenonT(40)
  <1> HIDE DEF a, b
  <1>4. ASSUME NEW i \in 1 .. k PROVE a[i] = b[i]
    <2>1. q + i \in 1 .. n /\ p + (q + i) = (p + q) + i
      OBVIOUS
    <2> QED BY <2>1, <1>1, <1>2, <1>3
  <1>5. a = b
    BY <1>2, <1>3, <1>4, SeqEqual
  <1> QED BY <1>5 DEF t, a, b

\* The occurrences in a part are those of the text.
LEMMA PartOccurs ==
  ASSUME NEW C, NEW s \in Seq(C), NEW m \in Seq(C), NEW p \in Nat, NEW n \in Nat,
         p + n <= Len(s), NEW q \in Nat, q + Len(m) <= n
  PROVE  Occurs(Part(s, p, n), q, m) <=> Occurs(s, p + q, m)
  <1>1. Len(Part(s, p, n)) = n /\ Len(m) \in Nat
    BY PartSeq
  <1>2. Part(Part(s, p, n), q, Len(m)) = Part(s, p + q, Len(m))
    BY PartPart, <1>1
  <1>3. (p + q) + Len(m) <= Len(s)
    BY <1>1
  <1> QED BY <1>1, <1>2, <1>3 DEF Occurs

\* Neighbouring parts make one.
LEMMA PartJoin ==
  ASSUME NEW C, NEW s \in Seq(C), NEW p \in Nat, NEW n \in Nat, NEW k \in Nat,
         p + n + k <= Len(s)
  PROVE  Part(s, p, n) \o Part(s, p + n, k) = Part(s, p, n + k)
  <1> DEFINE a == Part(s, p, n)
             b == Part(s, p + n, k)
             c == Part(s, p, n + k)
             d == a \o b
  <1>0. p + n \in Nat /\ p + n <= Len(s) /\ (p + n) + k <= Len(s)
    <2>1. Len(s) \in Nat
      BY LenProperties
    <2> HIDE DEF a, b, c, d
    <2> QED BY <2>1
  <1>1. a \in Seq(C) /\ Len(a) = n /\ \A i \in 1 .. n : a[i] = s[p + i]
    <2> HIDE DEF b, c, d
    <2> QED BY <1>0, PartSeq
  <1>2. b \in Seq(C) /\ Len(b) = k /\ \A i \in 1 .. k : b[i] = s[(p + n) + i]
    <2> HIDE DEF a, c, d
    <2> QED BY <1>0, PartSeq
  <1>3. c \in Seq(C) /\ Len(c) = n + k /\ \A i \in 1 .. n + k : c[i] = s[p + i]
    <2>1. PICK l \in Nat : l = n + k
      OBVIOUS
    <2>2. p + l <= Len(s)
      BY <2>1
    <2> HIDE DEF a, b, d
    <2> QED BY <2>1, <2>2, PartSeq
  <1> HIDE DEF a, b, c
  <1>4. /\ d \in Seq(C) /\ Len(d) = n + k
        /\ \A i \in 1 .. n + k : d[i] = IF i <= n THEN a[i] ELSE b[i - n]
    BY <1>1, <1>2, ConcatProperties, ZenonT(40)
  <1> HIDE DEF d
  <1>5. ASSUME NEW i \in 1 .. n + k PROVE d[i] = c[i]
    <2>1. CASE i <= n
      <3>1. i \in 1 .. n
        BY <2>1
      <3>2. d[i] = a[i] /\ a[i] = s[p + i] /\ c[i] = s[p + i]
        BY <3>1, <2>1, <1>1, <1>3, <1>4
      <3> QED BY <3>2
    <2>2. CASE i > n
      <3>1. i - n \in 1 .. k /\ (p + n) + (i - n) = p + i
        BY <2>2
      <3>2. d[i] = b[i - n] /\ c[i] = s[p + i]
        BY <2>2, <1>3, <1>4
      <3>3. b[i - n] = s[(p + n) + (i - n)]
        BY <3>1, <1>2
      <3> QED BY <3>1, <3>2, <3>3
    <2> QED BY <2>1, <2>2
  <1>6. d = c
    BY <1>3, <1>4, <1>5, SeqEqual
  <1> QED BY <1>6 DEF a, b, c, d

\* A text is the part that is all of it; no part is empty but that of length zero.
LEMMA PartAll ==
  ASSUME NEW C, NEW s \in Seq(C)
  PROVE  /\ Part(s, 0, Len(s)) = s
         /\ \A p \in 0 .. Len(s) : Part(s, p, 0) = <<>>
         /\ \A p \in 0 .. Len(s) - 1 : Part(s, p, 1) = <<s[p + 1]>>
  <1>1. Part(s, 0, Len(s)) = s
    <2>1. /\ Part(s, 0, Len(s)) \in Seq(C) /\ Len(Part(s, 0, Len(s))) = Len(s)
          /\ \A i \in 1 .. Len(s) : Part(s, 0, Len(s))[i] = s[0 + i]
      BY PartSeq
    <2> QED BY <2>1, SeqEqual
  <1>2. ASSUME NEW p \in 0 .. Len(s) PROVE Part(s, p, 0) = <<>>
    <2>1. Part(s, p, 0) \in Seq(C) /\ Len(Part(s, p, 0)) = 0
      BY PartSeq
    <2> QED BY <2>1, EmptySeq
  <1>3. ASSUME NEW p \in 0 .. Len(s) - 1 PROVE Part(s, p, 1) = <<s[p + 1]>>
    <2>1. /\ Part(s, p, 1) \in Seq(C) /\ Len(Part(s, p, 1)) = 1
          /\ \A i \in 1 .. 1 : Part(s, p, 1)[i] = s[p + i]
      <3>1. p \in Nat /\ 1 \in Nat /\ p + 1 <= Len(s)
        OBVIOUS
      <3> QED BY <3>1, PartSeq
    <2>2. <<s[p + 1]>> \in Seq(C) /\ Len(<<s[p + 1]>>) = 1 /\ <<s[p + 1]>>[1] = s[p + 1]
      OBVIOUS
    <2> QED BY <2>1, <2>2, SeqEqual
  <1> QED BY <1>1, <1>2, <1>3

-----------------------------------------------------------------------------
(*****************************************************************************)
(* Replacing: replaceAll and the scan of the text.                           *)
(*****************************************************************************)
\* The scan of ReplacesEvery, the function it calls being f.
ScanBody(s, m, to, f, i) ==
  IF i = Len(s) THEN <<>>
  ELSE IF Occurs(s, i, m) THEN to \o f[i + Len(m)]
  ELSE <<s[i + 1]>> \o f[i + 1]
IsScan(f, s, m, to) == f = [i \in 0 .. Len(s) |-> ScanBody(s, m, to, f, i)]

\* The scan has a solution.
LEMMA ScanExists ==
  ASSUME NEW C, NEW s \in Seq(C), NEW m \in Seq(C), m # <<>>, NEW to \in Seq(C)
  PROVE  \E f \in [0 .. Len(s) -> Seq(C)] : IsScan(f, s, m, to)
  <1> DEFINE L == Len(s)
             n == Len(m)
             D == 0 .. L
             Ends == {L}
             val == [i \in D |-> <<>>]
             nxt == [i \in D |-> IF i = L THEN i ELSE IF Occurs(s, i, m) THEN i + n ELSE i + 1]
             mu == [i \in D |-> L - i]
             op == [x \in D \X Seq(C) |->
                      IF x[1] < L /\ ~Occurs(s, x[1], m) THEN <<s[x[1] + 1]>> \o x[2] ELSE to \o x[2]]
  <1>1. L \in Nat /\ n \in Nat /\ n > 0
    BY EmptySeq
  <1>2. ASSUME NEW i \in D PROVE nxt[i] \in D /\ (i \notin Ends => nxt[i] > i)
    <2>1. Occurs(s, i, m) => i + n <= L
      BY DEF Occurs
    <2> QED BY <1>1, <2>1
  <1>3. val \in [D -> Seq(C)] /\ nxt \in [D -> D]
    <2>1. <<>> \in Seq(C)
      OBVIOUS
    <2>2. nxt = [i \in D |-> nxt[i]]
      OBVIOUS
    <2> HIDE DEF nxt, D
    <2> QED BY <1>2, <2>1, <2>2
  <1>4. mu \in [D -> 0 .. L] /\ \A i \in D : i \notin Ends => mu[nxt[i]] < mu[i]
    <2>1. mu \in [D -> 0 .. L]
      BY <1>1
    <2>2. ASSUME NEW i \in D, i \notin Ends PROVE mu[nxt[i]] < mu[i]
      <3>1. nxt[i] \in D /\ nxt[i] > i
        BY <1>2, <2>2
      <3> HIDE DEF nxt, Ends
      <3> QED BY <1>1, <3>1
    <2> HIDE DEF mu, nxt, Ends, D
    <2> QED BY <2>1, <2>2
  <1>5. op \in [D \X Seq(C) -> Seq(C)]
    <2> SUFFICES ASSUME NEW x \in D \X Seq(C)
                 PROVE  (IF x[1] < L /\ ~Occurs(s, x[1], m)
                           THEN <<s[x[1] + 1]>> \o x[2] ELSE to \o x[2]) \in Seq(C)
      OBVIOUS
    <2>1. x[1] \in D /\ x[2] \in Seq(C)
      OBVIOUS
    <2>2. x[1] < L => <<s[x[1] + 1]>> \in Seq(C)
      BY <2>1, <1>1
    <2>3. to \o x[2] \in Seq(C)
      BY <2>1, ConcatProperties
    <2>4. x[1] < L => <<s[x[1] + 1]>> \o x[2] \in Seq(C)
      BY <2>1, <2>2, ConcatProperties
    <2> QED BY <2>3, <2>4
  <1>6. PICK f \in [D -> Seq(C)] : Recurses(f, D, Ends, val, nxt, op)
    <2> HIDE DEF D, val, nxt, mu, op, Ends, L
    <2> QED BY <1>1, <1>3, <1>4, <1>5, Recursion
  <1>7. ASSUME NEW i \in D
        PROVE  (IF i \in Ends THEN val[i] ELSE op[<<i, f[nxt[i]]>>]) = ScanBody(s, m, to, f, i)
    <2>1. CASE i = L
      BY <2>1 DEF ScanBody
    <2>2. CASE i # L
      <3>1. i < L /\ nxt[i] \in D /\ f[nxt[i]] \in Seq(C)
        <4>1. nxt[i] \in D
          BY <1>2
        <4> HIDE DEF nxt
        <4> QED BY <4>1, <2>2, <1>1
      <3>2. nxt[i] = IF Occurs(s, i, m) THEN i + n ELSE i + 1
        BY <2>2
      <3> DEFINE r == f[nxt[i]]
      <3>3. ScanBody(s, m, to, f, i) = IF Occurs(s, i, m) THEN to \o r ELSE <<s[i + 1]>> \o r
        BY <2>2, <3>2 DEF ScanBody
      <3> HIDE DEF r
      <3>4. <<i, r>> \in D \X Seq(C)
        BY <3>1 DEF r
      <3>5. op[<<i, r>>] = IF i < L /\ ~Occurs(s, i, m) THEN <<s[i + 1]>> \o r ELSE to \o r
        <4> HIDE DEF D, L
        <4> QED BY <3>4
      <3>6. op[<<i, r>>] = IF Occurs(s, i, m) THEN to \o r ELSE <<s[i + 1]>> \o r
        <4> HIDE DEF op
        <4> QED BY <3>1, <3>5
      <3> HIDE DEF op
      <3> QED BY <2>2, <3>3, <3>6 DEF r
    <2> QED BY <2>1, <2>2
  <1>8. f = [i \in D |-> ScanBody(s, m, to, f, i)]
    <2> HIDE DEF D, val, nxt, mu, op, Ends, L
    <2> QED BY <1>6, <1>7 DEF Recurses
  <1> QED BY <1>8 DEF IsScan

\* It yields texts.
LEMMA ScanSeq ==
  ASSUME NEW C, NEW s \in Seq(C), NEW m \in Seq(C), m # <<>>, NEW to \in Seq(C),
         NEW f, IsScan(f, s, m, to)
  PROVE  \A i \in 0 .. Len(s) : f[i] \in Seq(C)
  <1> DEFINE L == Len(s)
             n == Len(m)
             D == 0 .. L
             mu == [i \in D |-> L - i]
             T == {i \in D : f[i] \in Seq(C)}
  <1>1. L \in Nat /\ n \in Nat /\ n > 0
    BY EmptySeq
  <1>2. ASSUME NEW i \in D, \A x \in D : mu[x] < mu[i] => x \in T PROVE i \in T
    <2>1. f[i] = ScanBody(s, m, to, f, i)
      BY DEF IsScan
    <2>2. \A x \in D : x > i => f[x] \in Seq(C)
      BY <1>1, <1>2
    <2>3. CASE i = L
      <3>1. f[i] = <<>>
        BY <2>1, <2>3 DEF ScanBody
      <3>2. <<>> \in Seq(C)
        OBVIOUS
      <3> QED BY <3>1, <3>2
    <2>4. CASE i # L /\ Occurs(s, i, m)
      <3>1. i + n \in D /\ i + n > i
        BY <2>4, <1>1 DEF Occurs
      <3>2. f[i] = to \o f[i + n]
        BY <2>1, <2>4 DEF ScanBody
      <3> QED BY <3>1, <3>2, <2>2, ConcatProperties, ZenonT(40)
    <2>5. CASE i # L /\ ~Occurs(s, i, m)
      <3>1. i + 1 \in D /\ i + 1 > i /\ <<s[i + 1]>> \in Seq(C)
        BY <2>5, <1>1
      <3>2. f[i] = <<s[i + 1]>> \o f[i + 1]
        BY <2>1, <2>5 DEF ScanBody
      <3> QED BY <3>1, <3>2, <2>2, ConcatProperties, ZenonT(40)
    <2> QED BY <2>3, <2>4, <2>5
  <1>3. mu \in [D -> Nat]
    BY <1>1
  <1>4. D \subseteq T
    <2> HIDE DEF D, mu, T
    <2> QED BY <1>2, <1>3, MeasureInduction
  <1> QED BY <1>4

\* The scan copies what it passes over.
LEMMA ScanSkips ==
  ASSUME NEW C, NEW s \in Seq(C), NEW m \in Seq(C), m # <<>>, NEW to \in Seq(C),
         NEW f, IsScan(f, s, m, to), NEW i \in 0 .. Len(s), NEW k \in 0 .. Len(s) - i,
         \A j \in i .. i + k - 1 : ~Occurs(s, j, m)
  PROVE  f[i] = Part(s, i, k) \o f[i + k]
  <1> DEFINE Same(n) == f[i] = Part(s, i, n) \o f[i + n]
             T == {n \in Nat : n <= k => Same(n)}
  <1>0. \A j \in 0 .. Len(s) : f[j] \in Seq(C)
    BY ScanSeq
  <1>9. \A x, y, z \in Seq(C) : (x \o y) \o z = x \o (y \o z)
    BY Regroup, SMTT(60)
  <1>1. 0 \in T
    <2>1. f[i] \in Seq(C) /\ Part(s, i, 0) = <<>> /\ i + 0 = i
      BY <1>0, PartAll
    <2>2. <<>> \o f[i] = f[i]
      BY <2>1, ConcatEmptySeq
    <2> QED BY <2>1, <2>2
  <1>2. ASSUME NEW n \in Nat, n \in T PROVE n + 1 \in T
    <2> SUFFICES ASSUME n + 1 <= k PROVE Same(n + 1)
      <3> HIDE DEF Same
      <3> QED OBVIOUS
    <2>0. Same(n)
      <3> HIDE DEF Same
      <3> QED BY <1>2
    <2> DEFINE j == i + n
               a == Part(s, i, n)
               b == <<s[j + 1]>>
               c == f[j + 1]
    <2>1. j \in 0 .. Len(s) - 1 /\ j \in i .. i + k - 1 /\ j + 1 = i + (n + 1) /\ j # Len(s)
      OBVIOUS
    <2>2. f[i] = a \o f[j]
      BY <2>0
    <2>3. f[j] = b \o c
      <3>1. ~Occurs(s, j, m)
        BY <2>1
      <3> HIDE DEF j
      <3>2. f[j] = ScanBody(s, m, to, f, j)
        <4>1. j \in 0 .. Len(s)
          BY <2>1
        <4> QED BY <4>1 DEF IsScan
      <3> QED BY <2>1, <3>1, <3>2 DEF ScanBody
    <2>4. a \in Seq(C)
      <3>1. i \in Nat /\ i + n <= Len(s)
        OBVIOUS
      <3> QED BY <3>1, PartSeq
    <2>5. b \in Seq(C) /\ c \in Seq(C)
      BY <2>1, <1>0
    <2>6. a \o (b \o c) = (a \o b) \o c
      <3> HIDE DEF a, b, c
      <3>1. a \in Seq(C) /\ b \in Seq(C) /\ c \in Seq(C)
        BY <2>4, <2>5
      <3>2. (a \o b) \o c = a \o (b \o c)
        <4>1. a \in Seq(C)
          BY <3>1
        <4>2. b \in Seq(C)
          BY <3>1
        <4>3. c \in Seq(C)
          BY <3>1
        <4>4. \A y, z \in Seq(C) : (a \o y) \o z = a \o (y \o z)
          BY <4>1, <1>9, Zenon
        <4>5. \A z \in Seq(C) : (a \o b) \o z = a \o (b \o z)
          BY <4>2, <4>4, Zenon
        <4> QED BY <4>3, <4>5, Zenon
      <3> QED BY <3>2
    <2>7. b = Part(s, j, 1)
      BY <2>1, PartAll
    <2>8. a \o Part(s, j, 1) = Part(s, i, n + 1)
      <3>1. i \in Nat /\ i + n + 1 <= Len(s)
        OBVIOUS
      <3> QED BY <3>1, PartJoin
    <2>10. c = f[i + (n + 1)]
      BY <2>1
    <2> HIDE DEF a, b, c, j
    <2>9. f[i] = Part(s, i, n + 1) \o c
      BY <2>2, <2>3, <2>6, <2>7, <2>8
    <2> QED BY <2>9, <2>10
  <1>3. k \in T
    <2> HIDE DEF T
    <2>1. Nat \subseteq T
      BY <1>1, <1>2, Induction
    <2> QED BY <2>1
  <1> QED BY <1>3

\* A search behind offset i, in offsets of the whole text.
LEMMA FindBehind ==
  ASSUME NEW C, NEW s \in Seq(C), NEW m \in Seq(C), m # <<>>, NEW i \in 0 .. Len(s),
         NEW e, e = FindPostion(Part(s, i, Len(s) - i), m)
  PROVE  /\ Part(s, i, Len(s) - i) \in Seq(C)
         /\ e \in Nat /\ i + e <= Len(s)
         /\ e = 0 => \A j \in i .. Len(s) : ~Occurs(s, j, m)
         /\ e > 0 => /\ e - Len(m) \in Nat /\ Occurs(s, i + (e - Len(m)), m)
                     /\ \A j \in i .. i + (e - Len(m)) - 1 : ~Occurs(s, j, m)
                     /\ Part(Part(s, i, Len(s) - i), 0, e - Len(m)) = Part(s, i, e - Len(m))
  <1> DEFINE L == Len(s)
             n == Len(m)
             rest == Part(s, i, L - i)
  <1>1. L \in Nat /\ n \in Nat /\ n > 0 /\ i \in Nat /\ L - i \in Nat /\ i + (L - i) <= L
    BY EmptySeq
  <1>2. rest \in Seq(C) /\ Len(rest) = L - i
    <2> HIDE DEF L
    <2> QED BY <1>1, PartSeq DEF L
  <1>3. FirstFrom(rest, m, 0, e)
    <2> HIDE DEF rest
    <2> QED BY <1>2, FindPostionFirst DEF rest
  <1>4. \A q \in Nat : q + n <= L - i => (Occurs(rest, q, m) <=> Occurs(s, i + q, m))
    BY <1>1, PartOccurs
  <1>5. \A q \in Nat : q + n > L - i => ~Occurs(s, i + q, m)
    BY <1>1 DEF Occurs
  <1> HIDE DEF rest
  <1>6. CASE e = 0 /\ \A q \in 0 .. L - i : ~Occurs(rest, q, m)
    <2>1. ASSUME NEW j \in i .. L PROVE ~Occurs(s, j, m)
      <3>1. PICK q \in 0 .. L - i : i + q = j
        <4>1. j - i \in 0 .. L - i /\ i + (j - i) = j
          BY <1>1
        <4> QED BY <4>1
      <3>2. q \in Nat /\ ~Occurs(rest, q, m)
        BY <1>1, <1>6
      <3>3. CASE q + n <= L - i
        BY <1>4, <3>1, <3>2, <3>3
      <3>4. CASE q + n > L - i
        BY <1>5, <3>1, <3>2, <3>4
      <3> QED BY <1>1, <3>3, <3>4
    <2> QED BY <1>1, <1>2, <1>6, <2>1 DEF rest
  <1>7. CASE /\ e \in n .. L - i /\ Occurs(rest, e - n, m)
             /\ \A q \in 0 .. e - n - 1 : ~Occurs(rest, q, m)
    <2>1. e - n \in Nat /\ e \in Nat /\ i + e <= L /\ e > 0 /\ (e - n) + n <= L - i
      BY <1>1, <1>7
    <2>2. Occurs(s, i + (e - n), m)
      BY <1>4, <1>7, <2>1
    <2>3. ASSUME NEW j \in i .. i + (e - n) - 1 PROVE ~Occurs(s, j, m)
      <3>1. j - i \in 0 .. e - n - 1 /\ j - i \in Nat /\ i + (j - i) = j /\ (j - i) + n <= L - i
        BY <1>1, <2>1, SMTT(30)
      <3> QED BY <1>4, <1>7, <3>1, <1>1
    <2>4. Part(rest, 0, e - n) = Part(s, i, e - n)
      <3>1. Part(rest, 0, e - n) = Part(s, i + 0, e - n)
        <4>1. 0 + (e - n) <= L - i /\ e - n \in Nat /\ 0 \in Nat
          BY <2>1, <1>1
        <4>2. Part(Part(s, i, L - i), 0, e - n) = Part(s, i + 0, e - n)
          <5>1. PICK a \in Nat : a = L - i
            BY <1>1
          <5>2. PICK k \in Nat : k = e - n
            BY <2>1
          <5>3. 0 + k <= a /\ i + a <= Len(s)
            BY <5>1, <5>2, <4>1, <1>1
          <5>4. Part(Part(s, i, a), 0, k) = Part(s, i + 0, k)
            <6> HIDE DEF L, n
            <6> QED BY <1>1, <5>3, PartPart
          <5> QED BY <5>1, <5>2, <5>4
        <4> QED BY <4>2 DEF rest
      <3>2. i + 0 = i
        BY <1>1
      <3> QED BY <3>1, <3>2
    <2> QED BY <1>2, <2>1, <2>2, <2>3, <2>4 DEF rest
  <1>8. Len(rest) = L - i
    BY <1>2
  <1>9. 0 + n = n
    BY <1>1
  <1> QED BY <1>3, <1>6, <1>7, <1>8, <1>9 DEF FirstFrom

\* The loop of replaceAll, the function it calls being f.
ReplaceBody(s, m, to, f, i) ==
  LET rest == Part(s, i, Len(s) - i)
      position == FindPostion(rest, m)
  IN IF position > 0 THEN Part(rest, 0, position - Len(m)) \o to \o f[i + position]
     ELSE rest
IsReplace(f, s, m, to) == f = [i \in 0 .. Len(s) |-> ReplaceBody(s, m, to, f, i)]

\* The recursion of replaceAll has a solution.
LEMMA ReplaceExists ==
  ASSUME NEW C, NEW s \in Seq(C), NEW m \in Seq(C), m # <<>>, NEW to \in Seq(C)
  PROVE  \E f \in [0 .. Len(s) -> Seq(C)] : IsReplace(f, s, m, to)
  <1> DEFINE L == Len(s)
             n == Len(m)
             D == 0 .. L
             rest(i) == Part(s, i, L - i)
             e(i) == FindPostion(rest(i), m)
             head(i) == Part(rest(i), 0, e(i) - n) \o to
             Ends == {i \in D : ~(e(i) > 0)}
             val == [i \in D |-> rest(i)]
             nxt == [i \in D |-> i + e(i)]
             mu == [i \in D |-> L - i]
             op == [x \in D \X Seq(C) |-> IF x[1] \in Ends THEN <<>> ELSE head(x[1]) \o x[2]]
  <1>1. L \in Nat /\ n \in Nat /\ n > 0
    BY EmptySeq
  <1>2. ASSUME NEW i \in D
        PROVE  /\ rest(i) \in Seq(C) /\ e(i) \in Nat /\ i + e(i) <= L
               /\ e(i) > 0 => Part(s, i, e(i) - n) = Part(rest(i), 0, e(i) - n) /\ e(i) - n \in Nat
    <2> DEFINE x == e(i)
    <2>1. x = FindPostion(Part(s, i, Len(s) - i), m)
      OBVIOUS
    <2> HIDE DEF x
    <2> QED BY <2>1, FindBehind DEF x
  <1>3. ASSUME NEW i \in D, i \notin Ends PROVE head(i) \in Seq(C)
    <2>1. e(i) > 0
      BY <1>3
    <2>2. i \in Nat /\ e(i) - n \in Nat /\ i + (e(i) - n) <= L
      BY <1>1, <1>2, <2>1
    <2>3. Part(s, i, e(i) - n) \in Seq(C)
      BY <2>2, PartSeq
    <2>4. Part(rest(i), 0, e(i) - n) \in Seq(C)
      BY <1>2, <2>1, <2>3
    <2> HIDE DEF rest, e
    <2> QED BY <2>4, ConcatProperties
  <1> HIDE DEF rest, e, head
  <1>4. val \in [D -> Seq(C)] /\ nxt \in [D -> D]
    <2>1. ASSUME NEW i \in D PROVE rest(i) \in Seq(C) /\ i + e(i) \in D
      <3>1. rest(i) \in Seq(C) /\ e(i) \in Nat /\ i + e(i) <= L
        BY <1>2
      <3> QED BY <1>1, <3>1
    <2> HIDE DEF D
    <2> QED BY <2>1
  <1>5. mu \in [D -> 0 .. L] /\ \A i \in D : i \notin Ends => mu[nxt[i]] < mu[i]
    <2>1. mu \in [D -> 0 .. L]
      BY <1>1
    <2>2. ASSUME NEW i \in D, i \notin Ends PROVE mu[nxt[i]] < mu[i]
      <3>1. nxt[i] \in D /\ nxt[i] > i
        <4>1. e(i) > 0 /\ e(i) \in Nat /\ i + e(i) <= L
          BY <1>2, <2>2
        <4> QED BY <1>1, <4>1
      <3> HIDE DEF nxt, Ends
      <3> QED BY <1>1, <3>1
    <2> HIDE DEF mu, nxt, Ends, D
    <2> QED BY <2>1, <2>2
  <1>6. op \in [D \X Seq(C) -> Seq(C)]
    <2> SUFFICES ASSUME NEW x \in D \X Seq(C)
                 PROVE  (IF x[1] \in Ends THEN <<>> ELSE head(x[1]) \o x[2]) \in Seq(C)
      BY DEF op
    <2>1. x[1] \in D /\ x[2] \in Seq(C) /\ <<>> \in Seq(C)
      OBVIOUS
    <2> HIDE DEF Ends, D
    <2> QED BY <2>1, <1>3, ConcatProperties
  <1>7. PICK f \in [D -> Seq(C)] : Recurses(f, D, Ends, val, nxt, op)
    <2> HIDE DEF D, val, nxt, mu, op, Ends, L
    <2> QED BY <1>1, <1>4, <1>5, <1>6, Recursion
  <1>8. ASSUME NEW i \in D
        PROVE  (IF i \in Ends THEN val[i] ELSE op[<<i, f[nxt[i]]>>]) = ReplaceBody(s, m, to, f, i)
    <2>1. CASE i \in Ends
      BY <2>1 DEF ReplaceBody, rest, e
    <2>2. CASE i \notin Ends
      <3>1. nxt[i] \in D /\ f[nxt[i]] \in Seq(C)
        <4>1. nxt[i] \in D
          BY <1>4
        <4> HIDE DEF nxt
        <4> QED BY <4>1
      <3>2. nxt[i] = i + e(i)
        OBVIOUS
      <3> DEFINE r == f[nxt[i]]
      <3>3. ReplaceBody(s, m, to, f, i) = head(i) \o r
        BY <2>2, <3>2 DEF ReplaceBody, rest, e, head
      <3>4. <<i, r>> \in D \X Seq(C) /\ <<i, r>>[1] = i /\ <<i, r>>[2] = r
        <4> HIDE DEF nxt, D
        <4> QED BY <3>1
      <3> HIDE DEF r
      <3>5. op[<<i, r>>] = IF i \in Ends THEN <<>> ELSE head(i) \o r
        <4> HIDE DEF D, L, Ends
        <4> QED BY <3>4
      <3>6. op[<<i, r>>] = head(i) \o r
        BY <3>5, <2>2
      <3> HIDE DEF op
      <3> QED BY <2>2, <3>3, <3>6 DEF r
    <2> QED BY <2>1, <2>2
  <1>9. f = [i \in D |-> ReplaceBody(s, m, to, f, i)]
    <2> HIDE DEF D, val, nxt, mu, op, Ends, L
    <2> QED BY <1>7, <1>8 DEF Recurses
  <1> QED BY <1>9 DEF IsReplace

\* From any offset on, replaceAll and the scan give the same text.
LEMMA ReplaceIsScan ==
  ASSUME NEW C, NEW s \in Seq(C), NEW m \in Seq(C), m # <<>>, NEW to \in Seq(C),
         NEW f, IsReplace(f, s, m, to), NEW g, IsScan(g, s, m, to)
  PROVE  \A i \in 0 .. Len(s) : f[i] = g[i]
  <1> DEFINE L == Len(s)
             n == Len(m)
             D == 0 .. L
             mu == [i \in D |-> L - i]
             T == {i \in D : f[i] = g[i]}
  <1>1. L \in Nat /\ n \in Nat /\ n > 0
    BY EmptySeq
  <1>0. \A i \in D : g[i] \in Seq(C)
    BY ScanSeq
  <1>9. \A x, y, z \in Seq(C) : (x \o y) \o z = x \o (y \o z)
    BY Regroup, SMTT(60)
  <1>2. ASSUME NEW i \in D, \A x \in D : mu[x] < mu[i] => x \in T PROVE i \in T
    <2> DEFINE rest == Part(s, i, L - i)
               e == FindPostion(rest, m)
    <2>1. f[i] = IF e > 0 THEN Part(rest, 0, e - n) \o to \o f[i + e] ELSE rest
      BY DEF IsReplace, ReplaceBody
    <2>2. /\ rest \in Seq(C) /\ e \in Nat /\ i + e <= L
          /\ e = 0 => \A j \in i .. L : ~Occurs(s, j, m)
          /\ e > 0 => /\ e - n \in Nat /\ Occurs(s, i + (e - n), m)
                      /\ \A j \in i .. i + (e - n) - 1 : ~Occurs(s, j, m)
                      /\ Part(rest, 0, e - n) = Part(s, i, e - n)
      <3> HIDE DEF e
      <3> QED BY FindBehind DEF e
    <2> HIDE DEF e
    <2>3. CASE e = 0
      <3>1. f[i] = rest
        BY <2>1, <2>3
      <3>2. L - i \in 0 .. L - i /\ i + (L - i) = L /\ \A j \in i .. i + (L - i) - 1 : ~Occurs(s, j, m)
        BY <2>2, <2>3, <1>1
      <3>3. g[i] = rest \o g[L]
        <4> DEFINE k == L - i
        <4>1. k \in 0 .. L - i /\ i + k = L /\ \A j \in i .. i + k - 1 : ~Occurs(s, j, m)
          BY <3>2
        <4>2. g[i] = Part(s, i, k) \o g[i + k]
          <5> HIDE DEF k
          <5> QED BY <4>1, ScanSkips
        <4> QED BY <4>1, <4>2
      <3>4. g[L] = <<>>
        BY <1>1 DEF IsScan, ScanBody
      <3>5. rest \o <<>> = rest
        BY <2>2, ConcatEmptySeq
      <3> HIDE DEF rest
      <3> QED BY <3>1, <3>3, <3>4, <3>5
    <2>4. CASE e > 0
      <3> DEFINE k == e - n
                 a == Part(s, i, k)
                 c == g[i + e]
      <3>0. k \in Nat /\ k \in 0 .. L - i /\ i + k \in D /\ i + k # L /\ (i + k) + n = i + e
            /\ i + e \in D /\ i + e > i
        BY <2>2, <2>4, <1>1
      <3>1. f[i] = (a \o to) \o f[i + e]
        BY <2>1, <2>2, <2>4
      <3>2. f[i + e] = c
        <4>1. mu[i + e] < mu[i]
          BY <3>0, <1>1
        <4> HIDE DEF mu
        <4> QED BY <1>2, <3>0, <4>1
      <3>3. g[i] = a \o g[i + k]
        <4>1. \A j \in i .. i + k - 1 : ~Occurs(s, j, m)
          BY <2>2, <2>4
        <4> HIDE DEF k
        <4> QED BY <4>1, <3>0, ScanSkips
      <3>4. g[i + k] = to \o c
        <4>1. Occurs(s, i + k, m)
          BY <2>2, <2>4
        <4> HIDE DEF k
        <4>2. g[i + k] = ScanBody(s, m, to, g, i + k)
          BY <3>0 DEF IsScan
        <4>3. ScanBody(s, m, to, g, i + k) = to \o g[(i + k) + n]
          BY <4>1, <3>0 DEF ScanBody
        <4> QED BY <4>2, <4>3, <3>0
      <3>5. a \in Seq(C)
        <4>1. i \in Nat /\ i + k <= L
          BY <3>0
        <4> HIDE DEF k
        <4> QED BY <4>1, <3>0, PartSeq
      <3>6. c \in Seq(C)
        BY <3>0, <1>0
      <3> HIDE DEF a, c, k
      <3>7. (a \o to) \o c = a \o (to \o c)
        <4>1. \A y, z \in Seq(C) : (a \o y) \o z = a \o (y \o z)
          BY <3>5, <1>9, Zenon
        <4>2. \A z \in Seq(C) : (a \o to) \o z = a \o (to \o z)
          BY <4>1, Zenon
        <4> QED BY <3>6, <4>2, Zenon
      <3> QED BY <3>1, <3>2, <3>3, <3>4, <3>7
    <2>5. e = 0 \/ e > 0
      BY <2>2
    <2> QED BY <2>3, <2>4, <2>5
  <1>3. mu \in [D -> Nat]
    BY <1>1
  <1>4. D \subseteq T
    <2> HIDE DEF D, mu, T
    <2> QED BY <1>2, <1>3, MeasureInduction
  <1> QED BY <1>4

\* replaceAll replaces what a scan meets.
LEMMA ReplaceScans ==
  ASSUME NEW C, NEW s \in Seq(C), NEW m \in Seq(C), m # <<>>, NEW to \in Seq(C)
  PROVE  ReplacesEvery(s, m, to)
  <1> DEFINE F == CHOOSE f : IsReplace(f, s, m, to)
             G == CHOOSE g : IsScan(g, s, m, to)
  <1>1. replaceAll(s, m, to) = F[0]
    BY DEF replaceAll, IsReplace, ReplaceBody
  <1>2. ReplacesEvery(s, m, to) <=> replaceAll(s, m, to) = G[0]
    BY DEF ReplacesEvery, IsScan, ScanBody
  <1>3. IsReplace(F, s, m, to)
    <2>1. PICK f \in [0 .. Len(s) -> Seq(C)] : IsReplace(f, s, m, to)
      BY ReplaceExists
    <2> QED BY <2>1
  <1>4. IsScan(G, s, m, to)
    <2>1. PICK g \in [0 .. Len(s) -> Seq(C)] : IsScan(g, s, m, to)
      BY ScanExists
    <2> QED BY <2>1
  <1> HIDE DEF F, G
  <1>5. \A i \in 0 .. Len(s) : F[i] = G[i]
    BY <1>3, <1>4, ReplaceIsScan
  <1>6. 0 \in 0 .. Len(s)
    OBVIOUS
  <1> QED BY <1>1, <1>2, <1>5, <1>6

-----------------------------------------------------------------------------
(*****************************************************************************)
(* Finding in any case, trimming and splitting.                              *)
(*****************************************************************************)
\* A match is found when there is one.
LEMMA FindExist ==
  ASSUME NEW C, NEW s \in Seq(C), NEW m \in Seq(C), m # <<>>
  PROVE  /\ FindPostion(s, m) \in Nat
         /\ FindPostion(s, m) > 0 <=> isExist(m, s)
  <1> DEFINE e == FindPostion(s, m)
  <1>1. Len(s) \in Nat /\ Len(m) \in Nat /\ Len(m) > 0
    BY EmptySeq
  <1>2. FirstFrom(s, m, 0, e)
    BY FindPostionFirst
  <1>3. isExist(m, s) <=> \E p \in 0 .. Len(s) - Len(m) : Occurs(s, p, m)
    <2>1. \A p \in 0 .. Len(s) - Len(m) : p + Len(m) <= Len(s)
      BY <1>1
    <2> QED BY <2>1 DEF isExist, Occurs
  <1> HIDE DEF e
  <1>4. CASE e = 0 /\ \A i \in 0 .. Len(s) : ~ Occurs(s, i, m)
    <2>1. ~isExist(m, s)
      BY <1>1, <1>3, <1>4
    <2> QED BY <1>4, <2>1 DEF e
  <1>5. CASE e \in 0 + Len(m) .. Len(s) /\ Occurs(s, e - Len(m), m)
    <2>1. e - Len(m) \in 0 .. Len(s) - Len(m) /\ e > 0 /\ e \in Nat
      BY <1>1, <1>5
    <2>2. isExist(m, s)
      BY <1>3, <1>5, <2>1
    <2> QED BY <2>1, <2>2 DEF e
  <1> QED BY <1>2, <1>4, <1>5 DEF FirstFrom

\* tolower() on a text gives a text.
LEMMA LowerSeq ==
  ASSUME NEW C, LowerOf \in [C -> C], NEW s \in Seq(C)
  PROVE  toLower(s) \in Seq(C) /\ (s # <<>> => toLower(s) # <<>>)
  <1>1. DOMAIN s = 1 .. Len(s) /\ Len(s) \in Nat /\ \A i \in 1 .. Len(s) : s[i] \in C
    BY LenProperties, ElementOfSeq
  <1>2. toLower(s) = [i \in 1 .. Len(s) |-> LowerOf[s[i]]]
    BY <1>1 DEF toLower
  <1>3. toLower(s) \in [1 .. Len(s) -> C]
    BY <1>1, <1>2
  <1>4. toLower(s) \in Seq(C) /\ Len(toLower(s)) = Len(s)
    BY <1>1, <1>2, <1>3, LenProperties
  <1> QED BY <1>4, EmptySeq

\* FindPostion finds the first match, every match, and agrees with isExist, in any case.
LEMMA FindFirst ==
  ASSUME NEW C, LowerOf \in [C -> C], NEW s \in Seq(C), NEW m \in Seq(C), m # <<>>
  PROVE  FindsFirst(s, m)
  <1> DEFINE e == FindPostion(s, m)
             at == {p \in 0 .. Len(s) : Occurs(s, p, m)}
  <1>1. Len(s) \in Nat /\ Len(m) \in Nat /\ Len(m) > 0
    BY EmptySeq
  <1>2. FirstFrom(s, m, 0, e)
    BY FindPostionFirst
  <1>3. e > 0 <=> isExist(m, s)
    BY FindExist
  <1>4. FindPostion(toLower(s), toLower(m)) > 0 <=> isExistCase(m, s)
    <2>1. toLower(s) \in Seq(C) /\ toLower(m) \in Seq(C) /\ toLower(m) # <<>>
      BY LowerSeq
    <2> QED BY <2>1, FindExist DEF isExistCase
  <1> HIDE DEF e
  <1>5. /\ e > 0 <=> at # {}
        /\ e > 0 => e - Len(m) \in at /\ \A p \in at : e - Len(m) <= p
    <2>1. CASE e = 0 /\ \A i \in 0 .. Len(s) : ~ Occurs(s, i, m)
      BY <2>1
    <2>2. CASE /\ e \in 0 + Len(m) .. Len(s) /\ Occurs(s, e - Len(m), m)
               /\ \A i \in 0 .. e - Len(m) - 1 : ~ Occurs(s, i, m)
      <3>1. e - Len(m) \in 0 .. Len(s) /\ e > 0
        BY <1>1, <2>2
      <3>2. e - Len(m) \in at
        BY <2>2, <3>1
      <3>3. ASSUME NEW p \in at PROVE e - Len(m) <= p
        BY <1>1, <2>2, <3>1
      <3> QED BY <3>1, <3>2, <3>3
    <2> QED BY <1>2, <2>1, <2>2 DEF FirstFrom
  <1> QED BY <1>3, <1>4, <1>5 DEF FindsFirst, e

\* What is left of a text after trimming: nothing, or a part between two characters
\* that are no spaces.
LEMMA TrimPart ==
  ASSUME NEW C, NEW s \in Seq(C)
  PROVE  \/ trim(s) = <<>>
         \/ \E p \in Nat, n \in Nat \ {0} :
              /\ p + n <= Len(s) /\ trim(s) = Part(s, p, n)
              /\ s[p + 1] \notin SpaceChars /\ s[p + n] \notin SpaceChars
  <1> DEFINE text == {i \in DOMAIN s : s[i] \notin SpaceChars}
             a == CHOOSE i \in text : \A j \in text : i <= j
             b == CHOOSE i \in text : \A j \in text : j <= i
  <1>1. trim(s) = IF text = {} THEN <<>> ELSE SubSeq(s, a, b)
    BY DEF trim
  <1>2. CASE text = {}
    BY <1>1, <1>2
  <1>3. CASE text # {}
    <2>1. DOMAIN s = 1 .. Len(s) /\ Len(s) \in Nat
      BY LenProperties
    <2>2. text \subseteq Nat /\ \A i \in text : i \in 1 .. Len(s) /\ s[i] \notin SpaceChars
      BY <2>1
    <2>3. \E i \in text : \A j \in text : i <= j
      <3> HIDE DEF text
      <3> QED BY <1>3, <2>2, Smallest
    <2>4. \E i \in text : \A j \in text : j <= i
      <3> DEFINE back == {Len(s) - i : i \in text}
      <3>1. back \subseteq Nat /\ back # {}
        <4> HIDE DEF text
        <4>1. back # {}
          BY <1>3
        <4>2. \A i \in text : Len(s) - i \in Nat
          BY <2>1, <2>2
        <4> QED BY <4>1, <4>2
      <3>2. PICK k \in back : \A j \in back : k <= j
        <4> HIDE DEF back
        <4> QED BY <3>1, Smallest
      <3>3. PICK i \in text : k = Len(s) - i
        <4> HIDE DEF text
        <4> QED OBVIOUS
      <3>4. ASSUME NEW j \in text PROVE j <= i
        <4>1. Len(s) - j \in back
          <5> HIDE DEF text
          <5> QED OBVIOUS
        <4>2. k <= Len(s) - j
          <5> HIDE DEF back
          <5> QED BY <3>2, <4>1
        <4> HIDE DEF text
        <4> QED BY <3>3, <4>2, <2>1, <2>2
      <3> HIDE DEF text
      <3> QED BY <3>4
    <2> HIDE DEF text
    <2>5. a \in text /\ \A j \in text : a <= j
      BY <2>3
    <2>6. b \in text /\ \A j \in text : j <= b
      BY <2>4
    <2> HIDE DEF a, b
    <2>7. a \in 1 .. Len(s) /\ b \in 1 .. Len(s) /\ a <= b /\ s[a] \notin SpaceChars /\ s[b] \notin SpaceChars
      BY <2>2, <2>5, <2>6
    <2> DEFINE p == a - 1
               n == b - a + 1
    <2>8. /\ p \in Nat /\ n \in Nat \ {0} /\ p + n <= Len(s) /\ p + 1 = a /\ p + n = b
      BY <2>1, <2>7
    <2>9. trim(s) = Part(s, p, n)
      BY <1>1, <1>3, <2>8 DEF Part
    <2> HIDE DEF p, n
    <2> QED BY <2>7, <2>8, <2>9
  <1> QED BY <1>2, <1>3

\* A trimmed text stays as it is and stands in the text it was cut from.
LEMMA TrimTwice ==
  ASSUME NEW C, NEW s \in Seq(C)
  PROVE  /\ trim(trim(s)) = trim(s)
         /\ trim(s) = <<>> \/ isExist(trim(s), s)
  <1>1. CASE trim(s) = <<>>
    <2>1. trim(<<>>) = <<>>
      BY DEF trim
    <2> QED BY <1>1, <2>1
  <1>2. ASSUME NEW p \in Nat, NEW n \in Nat \ {0}, p + n <= Len(s), trim(s) = Part(s, p, n),
               s[p + 1] \notin SpaceChars, s[p + n] \notin SpaceChars
        PROVE  /\ trim(trim(s)) = trim(s)
               /\ isExist(trim(s), s)
    <2> DEFINE t == trim(s)
               text == {i \in DOMAIN t : t[i] \notin SpaceChars}
               a == CHOOSE i \in text : \A j \in text : i <= j
               b == CHOOSE i \in text : \A j \in text : j <= i
    <2>1. t \in Seq(C) /\ Len(t) = n /\ \A i \in 1 .. n : t[i] = s[p + i]
      BY <1>2, PartSeq
    <2>2. isExist(t, s)
      <3>1. p \in 0 .. Len(s) - n
        BY <1>2
      <3> QED BY <1>2, <2>1, <3>1 DEF isExist
    <2>3. trim(t) = IF text = {} THEN <<>> ELSE SubSeq(t, a, b)
      BY DEF trim
    <2> HIDE DEF t
    <2>4. DOMAIN t = 1 .. n /\ 1 \in 1 .. n /\ n \in 1 .. n
      BY <2>1, LenProperties
    <2>5. t[1] \notin SpaceChars /\ t[n] \notin SpaceChars
      BY <1>2, <2>1, <2>4
    <2>6. 1 \in text /\ n \in text /\ \A j \in text : 1 <= j /\ j <= n /\ j \in 1 .. n
      BY <2>4, <2>5
    <2> HIDE DEF text
    <2>7. a = 1
      <3>1. a \in text /\ \A j \in text : a <= j
        BY <2>6
      <3> HIDE DEF a
      <3> QED BY <2>6, <3>1
    <2>8. b = n
      <3>1. b \in text /\ \A j \in text : j <= b
        BY <2>6
      <3> HIDE DEF b
      <3> QED BY <2>6, <3>1
    <2>9. trim(t) = SubSeq(t, 1, n)
      BY <2>3, <2>6, <2>7, <2>8
    <2>10. SubSeq(t, 1, n) = t
      <3>1. Part(t, 0, Len(t)) = t
        BY <2>1, PartAll
      <3> QED BY <2>1, <3>1 DEF Part
    <2> QED BY <2>2, <2>9, <2>10 DEF t
  <1> QED BY <1>1, <1>2, TrimPart

\* What SplitsBetween says of the text between two marks.
LEMMA SplitBetween ==
  ASSUME NEW C, NEW s \in Seq(C), NEW m \in Seq(C), m # <<>>, NEW m2 \in Seq(C), m2 # <<>>
  PROVE  SplitsBetween(s, m, m2)
  <1> DEFINE e == FindPostion(s, m)
             L == Len(s)
             n == Len(m)
             n2 == Len(m2)
             piece == SplitString(s, m, m2)
             behind == Part(s, e, L - e)
             found == FindPostion(behind, m2)
  <1> SUFFICES ASSUME e > 0
               PROVE  /\ \/ piece = behind
                         \/ itStartsWith(behind, piece \o m2) /\ FindPostion(piece, m2) = 0
                      /\ isCompare(behind, piece) <=> piece = behind /\ piece # <<>>
                      /\ ReplaceText(s, m, <<>>) = Part(s, 0, e - n) \o behind
                      /\ trim(trim(piece)) = trim(piece)
                      /\ trim(piece) = <<>> \/ isExist(trim(piece), piece)
    BY DEF SplitsBetween
  <1>1. L \in Nat /\ n \in Nat /\ n > 0 /\ n2 \in Nat /\ n2 > 0
    BY EmptySeq
  <1>2. e \in n .. L /\ e \in Nat /\ L - e \in Nat /\ e + (L - e) <= L /\ e - n \in Nat
        /\ 0 + (e - n) <= L
    <2>1. FirstFrom(s, m, 0, e)
      BY FindPostionFirst
    <2> HIDE DEF e
    <2> QED BY <1>1, <2>1 DEF FirstFrom
  <1>3. behind \in Seq(C) /\ Len(behind) = L - e
    <2> HIDE DEF e, L
    <2> QED BY <1>2, PartSeq DEF L
  <1> HIDE DEF e
  <1>4. FirstFrom(behind, m2, 0, found)
    <2> HIDE DEF behind
    <2> QED BY <1>3, FindPostionFirst
  <1>5. piece = Part(s, e, IF (IF found > 0 THEN found - n2 ELSE found) > 0
                             THEN IF found > 0 THEN found - n2 ELSE found
                             ELSE L - e)
    BY DEF SplitString, e
  <1> DEFINE k == found - n2
  <1> HIDE DEF found, behind, piece
  <1>6. \/ piece = behind
        \/ found > 0 /\ k > 0 /\ k \in Nat /\ found \in n2 .. L - e /\ piece = Part(s, e, k)
    <2>1. CASE found = 0
      BY <1>5, <2>1 DEF behind
    <2>2. CASE found \in 0 + n2 .. L - e
      <3>1. found > 0 /\ k \in Nat /\ found \in n2 .. L - e
        BY <2>2, <1>1, <1>2
      <3>2. CASE k > 0
        BY <1>5, <3>1, <3>2
      <3>3. CASE ~(k > 0)
        BY <1>5, <3>1, <3>3 DEF behind
      <3> QED BY <3>2, <3>3
    <2> QED BY <1>3, <1>4, <2>1, <2>2 DEF FirstFrom
  <1>7. piece \in Seq(C)
    <2>1. CASE piece = behind
      BY <1>3, <2>1
    <2>2. CASE found > 0 /\ k > 0 /\ k \in Nat /\ found \in n2 .. L - e /\ piece = Part(s, e, k)
      <3>1. e + k <= L /\ e \in Nat /\ k \in Nat
        BY <1>1, <1>2, <2>2
      <3> HIDE DEF k
      <3> QED BY <2>2, <3>1, PartSeq
    <2> QED BY <1>6, <2>1, <2>2
  <1>8. \/ piece = behind
        \/ itStartsWith(behind, piece \o m2) /\ FindPostion(piece, m2) = 0
    <2> SUFFICES ASSUME piece # behind
                 PROVE  itStartsWith(behind, piece \o m2) /\ FindPostion(piece, m2) = 0
      OBVIOUS
    <2>1. found > 0 /\ k > 0 /\ k \in Nat /\ found \in n2 .. L - e /\ piece = Part(s, e, k)
      BY <1>6
    <2>2. /\ Occurs(behind, k, m2) /\ \A q \in 0 .. k - 1 : ~Occurs(behind, q, m2)
      BY <1>4, <2>1 DEF FirstFrom
    <2>3. k + n2 = found /\ k + n2 <= L - e /\ 0 + k <= L - e
      BY <1>1, <1>2, <2>1
    <2> HIDE DEF k
    <2>4. piece = Part(behind, 0, k)
      <3>1. Part(Part(s, e, L - e), 0, k) = Part(s, e + 0, k)
        <4>1. PICK a \in Nat : a = L - e
          BY <1>2
        <4>2. e + a <= Len(s) /\ 0 + k <= a
          BY <1>2, <2>3, <4>1
        <4>3. Part(Part(s, e, a), 0, k) = Part(s, e + 0, k)
          <5> HIDE DEF L
          <5> QED BY <1>2, <2>1, <4>2, PartPart
        <4> QED BY <4>1, <4>3
      <3>2. e + 0 = e
        BY <1>2
      <3> QED BY <2>1, <3>1, <3>2 DEF behind
    <2>5. Len(piece) = k
      BY <1>3, <2>1, <2>3, <2>4, PartSeq
    <2>6. piece \o m2 = Part(behind, 0, k + n2)
      <3>1. Part(behind, k, n2) = m2
        BY <2>2 DEF Occurs
      <3>2. Part(behind, 0, k) \o Part(behind, 0 + k, n2) = Part(behind, 0, k + n2)
        <4>1. PICK b \in Nat : b = n2
          BY <1>1
        <4>2. 0 + k + b <= Len(behind)
          BY <1>1, <1>3, <2>1, <2>3, <4>1
        <4>3. Part(behind, 0, k) \o Part(behind, 0 + k, b) = Part(behind, 0, k + b)
          BY <4>2, <1>3, <2>1, PartJoin, SMTT(30)
        <4> QED BY <4>1, <4>3
      <3>3. 0 + k = k
        BY <2>1
      <3> QED BY <2>4, <3>1, <3>2, <3>3
    <2>7. Len(piece \o m2) = k + n2 /\ piece \o m2 \in Seq(C)
      BY <1>7, <2>5, ConcatProperties
    <2>8. behind # <<>> /\ piece \o m2 # <<>>
      <3>1. Len(behind) # 0 /\ Len(piece \o m2) # 0
        BY <1>1, <1>3, <2>1, <2>3, <2>7, <1>2
      <3> QED BY <3>1
    <2>9. itStartsWith(behind, piece \o m2)
      BY <1>3, <2>3, <2>6, <2>7, <2>8 DEF itStartsWith
    <2>10. FindPostion(piece, m2) = 0
      <3> DEFINE x == FindPostion(piece, m2)
      <3>1. FirstFrom(piece, m2, 0, x)
        BY <1>7, FindPostionFirst
      <3> HIDE DEF x
      <3> SUFFICES ASSUME x \in 0 + n2 .. k, Occurs(piece, x - n2, m2) PROVE FALSE
        BY <2>5, <3>1 DEF FirstFrom, x
      <3>2. PICK q \in Nat : q = x - n2
        BY <1>1, <2>1
      <3>3. q + n2 <= k /\ q \in 0 .. k - 1
        BY <1>1, <2>1, <3>2
      <3>4. 0 + k <= Len(behind)
        BY <1>3, <2>3
      <3>5. Occurs(behind, 0 + q, m2)
        BY <1>3, <2>1, <2>4, <3>2, <3>3, <3>4, PartOccurs
      <3>6. 0 + q = q
        OBVIOUS
      <3> QED BY <2>2, <3>3, <3>5, <3>6
    <2> QED BY <2>9, <2>10
  <1>9. isCompare(behind, piece) <=> piece = behind /\ piece # <<>>
    <2>1. ASSUME isCompare(behind, piece) PROVE piece = behind /\ piece # <<>>
      <3>1. DOMAIN piece = 1 .. Len(piece)
        BY <1>7, LenProperties
      <3>2. Len(behind) = Len(piece) /\ piece # <<>> /\ \A i \in 1 .. Len(piece) : behind[i] = piece[i]
        BY <2>1, <3>1 DEF isCompare
      <3> QED BY <1>3, <1>7, <3>2, SeqEqual
    <2>2. ASSUME piece = behind, piece # <<>> PROVE isCompare(behind, piece)
      BY <2>2 DEF isCompare
    <2> QED BY <2>1, <2>2
  <1>10. ReplaceText(s, m, <<>>) = Part(s, 0, e - n) \o behind
    <2>1. ReplaceText(s, m, <<>>) = Part(s, 0, e - n) \o <<>> \o behind
      BY DEF ReplaceText, e, behind
    <2>2. Part(s, 0, e - n) \in Seq(C)
      <3>1. PICK a \in Nat : a = e - n
        BY <1>2
      <3>2. Part(s, 0, a) \in Seq(C)
        BY <1>2, <3>1, PartSeq
      <3> QED BY <3>1, <3>2
    <2>3. Part(s, 0, e - n) \o <<>> = Part(s, 0, e - n)
      BY <2>2, ConcatEmptySeq
    <2> QED BY <2>1, <2>3
  <1>11. trim(trim(piece)) = trim(piece) /\ (trim(piece) = <<>> \/ isExist(trim(piece), piece))
    BY <1>7, TrimTwice
  <1> QED BY <1>8, <1>9, <1>10, <1>11

-----------------------------------------------------------------------------
(*****************************************************************************)
(* The mask and the hexadecimal text.                                        *)
(*****************************************************************************)
\* A byte is the sum of its bits, and those are its only ones.
LEMMA BitsOfByte ==
  ASSUME NEW a \in Bytes8
  PROVE  /\ \A k \in {1, 2, 4, 8, 16, 32, 64, 128} : Bit(a, k) \in 0 .. 1
         /\ a = Bit(a, 1) + Bit(a, 2) * 2 + Bit(a, 4) * 4 + Bit(a, 8) * 8 + Bit(a, 16) * 16
                + Bit(a, 32) * 32 + Bit(a, 64) * 64 + Bit(a, 128) * 128
  <1> DEFINE q(k) == a \div k
  <1>1. q(1) = a
    BY DEF Bytes8
  <1>2. a \in Nat /\ a <= 255
    BY DEF Bytes8
  <1>3. \A x \in Nat : x = 2 * (x \div 2) + (x % 2) /\ x \div 2 \in Nat /\ (x % 2) \in 0 .. 1
    OBVIOUS
  <1>4. /\ a \div 4 = (a \div 2) \div 2 /\ a \div 8 = (a \div 4) \div 2
        /\ a \div 16 = (a \div 8) \div 2 /\ a \div 32 = (a \div 16) \div 2
        /\ a \div 64 = (a \div 32) \div 2 /\ a \div 128 = (a \div 64) \div 2
    BY <1>2
  <1>5. (a \div 128) < 2
    BY <1>2
  <1> QED BY <1>1, <1>2, <1>3, <1>4, <1>5 DEF Bit

\* A sum of bits is a byte with these bits.
LEMMA BitsOfSum ==
  ASSUME NEW b1 \in 0 .. 1, NEW b2 \in 0 .. 1, NEW b3 \in 0 .. 1, NEW b4 \in 0 .. 1,
         NEW b5 \in 0 .. 1, NEW b6 \in 0 .. 1, NEW b7 \in 0 .. 1, NEW b8 \in 0 .. 1,
         NEW a, a = b1 + b2 * 2 + b3 * 4 + b4 * 8 + b5 * 16 + b6 * 32 + b7 * 64 + b8 * 128
  PROVE  /\ a \in Bytes8
         /\ Bit(a, 1) = b1 /\ Bit(a, 2) = b2 /\ Bit(a, 4) = b3 /\ Bit(a, 8) = b4
         /\ Bit(a, 16) = b5 /\ Bit(a, 32) = b6 /\ Bit(a, 64) = b7 /\ Bit(a, 128) = b8
  <1>1. a \in Bytes8
    BY DEF Bytes8
  <1>2. Bit(a, 1) = b1
    BY DEF Bit
  <1>3. Bit(a, 2) = b2
    BY DEF Bit
  <1>4. Bit(a, 4) = b3
    BY DEF Bit
  <1>5. Bit(a, 8) = b4
    BY DEF Bit
  <1>6. Bit(a, 16) = b5
    BY DEF Bit
  <1>7. Bit(a, 32) = b6
    BY DEF Bit
  <1>8. Bit(a, 64) = b7
    BY DEF Bit
  <1>9. Bit(a, 128) = b8
    BY DEF Bit
  <1> QED BY <1>1, <1>2, <1>3, <1>4, <1>5, <1>6, <1>7, <1>8, <1>9

\* A byte masked twice with the same byte is the byte.
LEMMA XorTwice ==
  ASSUME NEW a \in Bytes8, NEW b \in Bytes8
  PROVE  Xor(a, b) \in Bytes8 /\ Xor(Xor(a, b), b) = a
  <1> DEFINE c == Xor(a, b)
             d(k) == (Bit(a, k) + Bit(b, k)) % 2
  <1>1. \A k \in {1, 2, 4, 8, 16, 32, 64, 128} : Bit(a, k) \in 0 .. 1 /\ Bit(b, k) \in 0 .. 1
    BY BitsOfByte
  <1>2. \A k \in {1, 2, 4, 8, 16, 32, 64, 128} : d(k) \in 0 .. 1 /\ (d(k) + Bit(b, k)) % 2 = Bit(a, k)
    BY <1>1
  <1>3. c = d(1) + d(2) * 2 + d(4) * 4 + d(8) * 8 + d(16) * 16 + d(32) * 32 + d(64) * 64
            + d(128) * 128
    BY <1>2 DEF Xor
  <1> HIDE DEF c, d
  <1>4. /\ c \in Bytes8
        /\ Bit(c, 1) = d(1) /\ Bit(c, 2) = d(2) /\ Bit(c, 4) = d(4) /\ Bit(c, 8) = d(8)
        /\ Bit(c, 16) = d(16) /\ Bit(c, 32) = d(32) /\ Bit(c, 64) = d(64) /\ Bit(c, 128) = d(128)
    BY <1>2, <1>3, BitsOfSum
  <1>5. Xor(c, b) = Bit(a, 1) * 1 + Bit(a, 2) * 2 + Bit(a, 4) * 4 + Bit(a, 8) * 8
                    + Bit(a, 16) * 16 + Bit(a, 32) * 32 + Bit(a, 64) * 64 + Bit(a, 128) * 128
    BY <1>2, <1>4, ZenonT(40) DEF Xor
  <1>6. Bit(a, 1) * 1 = Bit(a, 1)
    BY <1>1
  <1> QED BY <1>4, <1>5, <1>6, BitsOfByte DEF c

\* The keys of a mask.
Keys == [1 .. 4 -> Bytes8]

\* A masked message has the length of the message.
LEMMA MaskSeq ==
  ASSUME NEW key \in Keys, NEW m \in Seq(Bytes8)
  PROVE  /\ Mask(key, m) \in Seq(Bytes8) /\ Len(Mask(key, m)) = Len(m)
         /\ \A i \in 1 .. Len(m) : Mask(key, m)[i] = Xor(m[i], key[((i - 1) % 4) + 1])
  <1>1. DOMAIN m = 1 .. Len(m) /\ Len(m) \in Nat /\ \A i \in 1 .. Len(m) : m[i] \in Bytes8
    BY LenProperties, ElementOfSeq
  <1>2. \A i \in 1 .. Len(m) : Xor(m[i], key[((i - 1) % 4) + 1]) \in Bytes8
    <2> SUFFICES ASSUME NEW i \in 1 .. Len(m)
                 PROVE  Xor(m[i], key[((i - 1) % 4) + 1]) \in Bytes8
      OBVIOUS
    <2>1. ((i - 1) % 4) + 1 \in 1 .. 4
      BY <1>1
    <2>2. key[((i - 1) % 4) + 1] \in Bytes8
      BY <2>1 DEF Keys
    <2> QED BY <1>1, <2>2, XorTwice
  <1>3. Mask(key, m) = [i \in 1 .. Len(m) |-> Xor(m[i], key[((i - 1) % 4) + 1])]
    BY <1>1 DEF Mask
  <1>4. Mask(key, m) \in [1 .. Len(m) -> Bytes8]
    BY <1>2, <1>3
  <1>5. Mask(key, m) \in Seq(Bytes8) /\ Len(Mask(key, m)) = Len(m)
    BY <1>1, <1>4, FunctionSeq
  <1> QED BY <1>3, <1>5

\* A changed key is a key.
LEMMA NewKey ==
  ASSUME NEW key \in Keys, NEW n \in Nat
  PROVE  SetNewDataMaskKey(key, n) \in Keys
  <1>1. \A x \in Int : (x % 256) \in Bytes8
    BY DEF Bytes8
  <1>2. key[1] \in Nat /\ key[4] \in Nat
    BY DEF Keys, Bytes8
  <1> DEFINE q == n \div 4
  <1>3. q \in Nat
    OBVIOUS
  <1> DEFINE turned == (q \div 4) * 4 + (3 - (q % 4))
  <1>4. turned \in Int
    <2> HIDE DEF q
    <2> QED BY <1>3
  <1>5. SetNewDataMaskKey(key, n)
          = [key EXCEPT ![1] = (key[1] + q) % 256, ![4] = (key[4] + turned - 3) % 256]
    BY DEF SetNewDataMaskKey, Keys
  <1> HIDE DEF q, turned
  <1>6. ((key[1] + q) % 256) \in Bytes8 /\ ((key[4] + turned - 3) % 256) \in Bytes8
    BY <1>1, <1>2, <1>3, <1>4
  <1> QED BY <1>5, <1>6 DEF Keys

\* A message masked in one piece is unmasked in two, cut at a multiple of the key.
LEMMA MaskInPieces ==
  ASSUME NEW key \in Keys, NEW m \in Seq(Bytes8), NEW cut \in 0 .. Len(m), cut % 4 = 0
  PROVE  LET sent == Mask(key, m)
         IN Mask(key, SubSeq(sent, 1, cut)) \o Mask(key, SubSeq(sent, cut + 1, Len(sent))) = m
  <1> DEFINE sent == Mask(key, m)
             n == Len(m)
             s1 == Part(sent, 0, cut)
             s2 == Part(sent, cut, n - cut)
             m1 == Mask(key, s1)
             m2 == Mask(key, s2)
             x == m1 \o m2
  <1>1. n \in Nat /\ cut \in Nat /\ n - cut \in Nat /\ cut + (n - cut) = n /\ 0 + cut = cut
    OBVIOUS
  <1>2. /\ sent \in Seq(Bytes8) /\ Len(sent) = n
        /\ \A i \in 1 .. n : sent[i] = Xor(m[i], key[((i - 1) % 4) + 1])
    BY MaskSeq
  <1> HIDE DEF sent
  <1>3. s1 \in Seq(Bytes8) /\ Len(s1) = cut /\ \A i \in 1 .. cut : s1[i] = sent[0 + i]
    <2>1. 0 \in Nat /\ cut \in Nat /\ 0 + cut <= Len(sent)
      BY <1>1, <1>2
    <2> QED BY <1>2, <2>1, PartSeq
  <1>4. s2 \in Seq(Bytes8) /\ Len(s2) = n - cut /\ \A i \in 1 .. n - cut : s2[i] = sent[cut + i]
    <2>1. PICK k \in Nat : k = n - cut
      BY <1>1
    <2>2. cut + k <= Len(sent)
      BY <1>1, <1>2, <2>1
    <2>3. Part(sent, cut, k) \in Seq(Bytes8) /\ Len(Part(sent, cut, k)) = k
          /\ \A i \in 1 .. k : Part(sent, cut, k)[i] = sent[cut + i]
      <3>1. cut \in Nat
        BY <1>1
      <3>2. sent \in Seq(Bytes8)
        BY <1>2
      <3> HIDE DEF n
      <3> QED BY <2>2, <3>1, <3>2, PartSeq
    <2> QED BY <2>1, <2>3
  <1> HIDE DEF s1, s2
  <1>5. /\ m1 \in Seq(Bytes8) /\ Len(m1) = cut
        /\ \A i \in 1 .. cut : m1[i] = Xor(s1[i], key[((i - 1) % 4) + 1])
    BY <1>3, MaskSeq
  <1>6. /\ m2 \in Seq(Bytes8) /\ Len(m2) = n - cut
        /\ \A i \in 1 .. n - cut : m2[i] = Xor(s2[i], key[((i - 1) % 4) + 1])
    BY <1>4, MaskSeq
  <1> HIDE DEF m1, m2
  <1>7. /\ x \in Seq(Bytes8) /\ Len(x) = n
        /\ \A i \in 1 .. n : x[i] = IF i <= cut THEN m1[i] ELSE m2[i - cut]
    <2>1. /\ x \in Seq(Bytes8) /\ Len(x) = Len(m1) + Len(m2)
          /\ \A i \in 1 .. Len(m1) + Len(m2) : x[i] = IF i <= Len(m1) THEN m1[i] ELSE m2[i - Len(m1)]
      BY <1>5, <1>6, ConcatProperties
    <2>2. Len(m1) + Len(m2) = n /\ Len(m1) = cut
      BY <1>1, <1>5, <1>6
    <2> HIDE DEF x, n
    <2> QED BY <2>1, <2>2
  <1> HIDE DEF x
  <1>8. ASSUME NEW i \in 1 .. n PROVE x[i] = m[i]
    <2>1. ((i - 1) % 4) + 1 \in 1 .. 4 /\ m[i] \in Bytes8
      BY <1>1, ElementOfSeq
    <2>2. Xor(sent[i], key[((i - 1) % 4) + 1]) = m[i]
      <3>1. key[((i - 1) % 4) + 1] \in Bytes8
        BY <2>1 DEF Keys
      <3> QED BY <1>2, <2>1, <3>1, XorTwice
    <2>3. CASE i <= cut
      <3>1. i \in 1 .. cut /\ 0 + i = i
        BY <2>3, <1>1
      <3>2. x[i] = m1[i] /\ m1[i] = Xor(s1[i], key[((i - 1) % 4) + 1]) /\ s1[i] = sent[0 + i]
        BY <1>7, <1>5, <1>3, <2>3, <3>1
      <3> QED BY <2>2, <3>1, <3>2
    <2>4. CASE i > cut
      <3>1. PICK j \in 1 .. n - cut : j = i - cut
        BY <2>4, <1>1
      <3>2. cut + j = i /\ ((j - 1) % 4) = ((i - 1) % 4)
        <4>1. PICK c \in Nat : cut = 4 * c
          BY <1>1
        <4> QED BY <3>1, <4>1, <1>1
      <3>3. x[i] = m2[j] /\ m2[j] = Xor(s2[j], key[((j - 1) % 4) + 1]) /\ s2[j] = sent[cut + j]
        BY <1>7, <1>6, <1>4, <2>4, <3>1
      <3> QED BY <2>2, <3>2, <3>3
    <2> QED BY <2>3, <2>4
  <1>9. x = m
    BY <1>7, <1>8, SeqEqual
  <1>10. s1 = SubSeq(sent, 1, cut) /\ s2 = SubSeq(sent, cut + 1, Len(sent))
    BY <1>1, <1>2 DEF s1, s2, Part
  <1> QED BY <1>9, <1>10 DEF x, m1, m2, sent

\* The keys after the messages.
IsAfter(f, key, messages) ==
  f = [i \in 0 .. Len(messages) |->
         IF i = 0 THEN key ELSE SetNewDataMaskKey(f[i - 1], Len(messages[i]))]

\* There is a key after every message.
LEMMA AfterExists ==
  ASSUME NEW key \in Keys, NEW messages \in Seq(Seq(Bytes8))
  PROVE  \E f \in [0 .. Len(messages) -> Keys] : IsAfter(f, key, messages)
  <1> DEFINE n == Len(messages)
             D == 0 .. n
             Last == {0}
             val == [i \in D |-> key]
             nxt == [i \in D |-> IF i = 0 THEN 0 ELSE i - 1]
             mu == [i \in D |-> i]
             op == [x \in D \X Keys |->
                      IF x[1] = 0 THEN key ELSE SetNewDataMaskKey(x[2], Len(messages[x[1]]))]
  <1>1. n \in Nat /\ \A i \in 1 .. n : Len(messages[i]) \in Nat
    BY ElementOfSeq
  <1>2. val \in [D -> Keys] /\ nxt \in [D -> D] /\ mu \in [D -> 0 .. n]
    BY <1>1
  <1>3. op \in [D \X Keys -> Keys]
    <2> SUFFICES ASSUME NEW x \in D \X Keys, x[1] # 0
                 PROVE  SetNewDataMaskKey(x[2], Len(messages[x[1]])) \in Keys
      OBVIOUS
    <2>1. x[1] \in 1 .. n /\ x[2] \in Keys
      BY <1>1
    <2> QED BY <1>1, <2>1, NewKey
  <1>4. \A i \in D : i \notin Last => mu[nxt[i]] < mu[i]
    BY <1>1
  <1>5. PICK f \in [D -> Keys] : Recurses(f, D, Last, val, nxt, op)
    <2> HIDE DEF D, val, nxt, mu, op, Last, n
    <2> QED BY <1>1, <1>2, <1>3, <1>4, Recursion
  <1>6. ASSUME NEW i \in D
        PROVE  (IF i \in Last THEN val[i] ELSE op[<<i, f[nxt[i]]>>])
                 = IF i = 0 THEN key ELSE SetNewDataMaskKey(f[i - 1], Len(messages[i]))
    <2>1. CASE i = 0
      BY <2>1
    <2>2. CASE i # 0
      <3>1. nxt[i] = i - 1 /\ i - 1 \in D /\ f[i - 1] \in Keys /\ i \notin Last
        <4>1. i - 1 \in D
          BY <2>2, <1>1
        <4>2. f[i - 1] \in Keys
          <5> HIDE DEF D
          <5> QED BY <4>1
        <4> QED BY <2>2, <4>1, <4>2
      <3> HIDE DEF nxt, Last
      <3>2. <<i, f[i - 1]>> \in D \X Keys
        BY <3>1
      <3>3. op[<<i, f[i - 1]>>] = SetNewDataMaskKey(f[i - 1], Len(messages[i]))
        <4> HIDE DEF D
        <4> QED BY <2>2, <3>2
      <3> QED BY <2>2, <3>1, <3>3
    <2> QED BY <2>1, <2>2
  <1>7. f = [i \in D |-> IF i = 0 THEN key ELSE SetNewDataMaskKey(f[i - 1], Len(messages[i]))]
    <2> HIDE DEF D, val, nxt, mu, op, Last, n
    <2> QED BY <1>5, <1>6 DEF Recurses
  <1> QED BY <1>7 DEF IsAfter

\* Both ends have a key of four bytes after every message, and understand each other.
LEMMA MasksAgree ==
  ASSUME NEW key \in Keys, NEW messages \in Seq(Seq(Bytes8))
  PROVE  MaskAgrees(key, messages)
  <1> DEFINE F == CHOOSE f : IsAfter(f, key, messages)
             n == Len(messages)
  <1>1. IsAfter(F, key, messages)
    <2>1. PICK f \in [0 .. Len(messages) -> Keys] : IsAfter(f, key, messages)
      BY AfterExists
    <2> QED BY <2>1
  <1>2. MaskAgrees(key, messages) <=>
          \A i \in DOMAIN messages :
             LET sent == Mask(F[i - 1], messages[i])
             IN \A cut \in 0 .. Len(sent) :
                  (cut % 4 = 0) =>
                    Mask(F[i - 1], SubSeq(sent, 1, cut))
                      \o Mask(F[i - 1], SubSeq(sent, cut + 1, Len(sent))) = messages[i]
    BY DEF MaskAgrees, IsAfter
  <1> HIDE DEF F
  <1>3. n \in Nat /\ DOMAIN messages = 1 .. n /\ \A i \in 1 .. n : messages[i] \in Seq(Bytes8)
    BY LenProperties, ElementOfSeq
  <1> DEFINE T == {j \in Nat : j <= n => F[j] \in Keys}
  <1>4. 0 \in T
    BY <1>1, <1>3 DEF IsAfter
  <1>5. ASSUME NEW j \in Nat, j \in T PROVE j + 1 \in T
    <2> SUFFICES ASSUME j + 1 <= n PROVE F[j + 1] \in Keys
      OBVIOUS
    <2>1. j + 1 \in 0 .. n /\ j + 1 # 0 /\ (j + 1) - 1 = j /\ F[j] \in Keys /\ j + 1 \in 1 .. n
      BY <1>3, <1>5
    <2>2. F[j + 1] = SetNewDataMaskKey(F[j], Len(messages[j + 1]))
      BY <1>1, <2>1 DEF IsAfter
    <2>3. Len(messages[j + 1]) \in Nat
      BY <1>3, <2>1
    <2> QED BY <2>1, <2>2, <2>3, NewKey
  <1>6. Nat \subseteq T
    <2> HIDE DEF T
    <2> QED BY <1>4, <1>5, Induction
  <1>7. ASSUME NEW i \in DOMAIN messages
        PROVE  LET sent == Mask(F[i - 1], messages[i])
               IN \A cut \in 0 .. Len(sent) :
                    (cut % 4 = 0) =>
                      Mask(F[i - 1], SubSeq(sent, 1, cut))
                        \o Mask(F[i - 1], SubSeq(sent, cut + 1, Len(sent))) = messages[i]
    <2> DEFINE k == F[i - 1]
               m == messages[i]
    <2>1. k \in Keys /\ m \in Seq(Bytes8)
      <3>1. i - 1 \in Nat /\ i - 1 <= n /\ i \in 1 .. n
        BY <1>3
      <3>2. i - 1 \in T
        <4> HIDE DEF T
        <4> QED BY <1>6, <3>1
      <3> QED BY <1>3, <3>1, <3>2
    <2> HIDE DEF k, m
    <2>2. \A cut \in 0 .. Len(Mask(k, m)) :
            (cut % 4 = 0) =>
              Mask(k, SubSeq(Mask(k, m), 1, cut))
                \o Mask(k, SubSeq(Mask(k, m), cut + 1, Len(Mask(k, m)))) = m
      <3>1. Len(Mask(k, m)) = Len(m)
        BY <2>1, MaskSeq
      <3>2. ASSUME NEW cut \in 0 .. Len(m), cut % 4 = 0
            PROVE  Mask(k, SubSeq(Mask(k, m), 1, cut))
                     \o Mask(k, SubSeq(Mask(k, m), cut + 1, Len(Mask(k, m)))) = m
        BY <2>1, <3>2, MaskInPieces
      <3> QED BY <3>1, <3>2
    <2> QED BY <2>2 DEF k, m
  <1> QED BY <1>2, <1>7

\* The hexadecimal text of some bytes is read back as these bytes.
LEMMA HexBack ==
  ASSUME NEW b \in Seq(Bytes8)
  PROVE  hex_decode(hex_encode(b)) = b
  <1> DEFINE n == Len(b)
             h == hex_encode(b)
             Digit(i) == LET x == b[(i + 1) \div 2] IN IF i % 2 = 1 THEN x \div 16 ELSE x % 16
             x == hex_decode(h)
  <1>1. n \in Nat /\ \A i \in 1 .. n : b[i] \in 0 .. 255
    BY ElementOfSeq DEF Bytes8
  <1>2. h = [i \in 1 .. 2 * n |-> Digit(i)]
    BY DEF hex_encode
  <1>3. \A i \in 1 .. 2 * n : Digit(i) \in 0 .. 15
    <2> SUFFICES ASSUME NEW i \in 1 .. 2 * n PROVE Digit(i) \in 0 .. 15
      OBVIOUS
    <2>1. (i + 1) \div 2 \in 1 .. n
      BY <1>1
    <2>2. PICK c \in 0 .. 255 : c = b[(i + 1) \div 2]
      BY <1>1, <2>1
    <2>3. c \div 16 \in 0 .. 15 /\ c % 16 \in 0 .. 15
      OBVIOUS
    <2>4. Digit(i) = IF i % 2 = 1 THEN c \div 16 ELSE c % 16
      BY <2>2
    <2> QED BY <2>3, <2>4
  <1> HIDE DEF Digit
  <1>4. h \in Seq(0 .. 15) /\ Len(h) = 2 * n
    <2>1. 2 * n \in Nat
      BY <1>1
    <2>2. h \in [1 .. 2 * n -> 0 .. 15]
      BY <1>2, <1>3
    <2>3. PICK k \in Nat : k = 2 * n
      BY <2>1
    <2>4. h \in [1 .. k -> 0 .. 15]
      BY <2>2, <2>3
    <2>5. h \in Seq(0 .. 15)
      BY <2>4
    <2>6. DOMAIN h = 1 .. k
      <3> HIDE DEF h
      <3> QED BY <2>4
    <2> HIDE DEF h, n
    <2>7. Len(h) = k
      <3>1. DOMAIN h = 1 .. Len(h) /\ Len(h) \in Nat
        BY <2>5, LenProperties
      <3> QED BY <2>6, <3>1
    <2> QED BY <2>3, <2>5, <2>7
  <1> HIDE DEF h
  <1>5. x = [t \in 1 .. n |-> h[2 * t - 1] * 16 + h[2 * t]]
    <2>1. (2 * n) \div 2 = n
      BY <1>1
    <2> QED BY <1>4, <2>1 DEF hex_decode
  <1>6. ASSUME NEW t \in 1 .. n PROVE h[2 * t - 1] * 16 + h[2 * t] = b[t]
    <2>1. /\ 2 * t - 1 \in 1 .. 2 * n /\ 2 * t \in 1 .. 2 * n
          /\ (2 * t - 1) % 2 = 1 /\ (2 * t) % 2 # 1
          /\ ((2 * t - 1) + 1) \div 2 = t /\ (2 * t + 1) \div 2 = t
      BY <1>1
    <2>2. h[2 * t - 1] = b[t] \div 16 /\ h[2 * t] = b[t] % 16
      BY <1>2, <2>1 DEF Digit
    <2>3. b[t] \in 0 .. 255
      BY <1>1
    <2>4. b[t] = (b[t] \div 16) * 16 + (b[t] % 16)
      <3>1. PICK c \in 0 .. 255 : c = b[t]
        BY <2>3
      <3>2. c = (c \div 16) * 16 + (c % 16)
        OBVIOUS
      <3> QED BY <3>1, <3>2
    <2> QED BY <2>2, <2>4
  <1>7. x = [t \in 1 .. n |-> b[t]]
    BY <1>5, <1>6
  <1>8. b = [t \in 1 .. n |-> b[t]]
    BY LenProperties
  <1>9. x = b
    <2> HIDE DEF n, x
    <2> QED BY <1>7, <1>8
  <1> QED BY <1>9 DEF h

-----------------------------------------------------------------------------
(*****************************************************************************)
(* Base64: the encoder.                                                      *)
(*****************************************************************************)
\* Byte k of b, or the zero that stands for a missing one.
ByteAt(b, k) == IF k <= Len(b) THEN b[k] ELSE 0
\* Symbol j of the encoding of b from byte i on.
Symbol(b, i, j) ==
  LET t == i + 3 * ((j - 1) \div 4)
      r == (j - 1) % 4
  IN IF r = 0 THEN ByteAt(b, t) \div 4
     ELSE IF r = 1 THEN (ByteAt(b, t) % 4) * 16 + (ByteAt(b, t + 1) \div 16)
     ELSE IF r = 2 THEN IF t + 1 > Len(b) THEN Pad
                        ELSE (ByteAt(b, t + 1) % 16) * 4 + (ByteAt(b, t + 2) \div 64)
     ELSE IF t + 2 > Len(b) THEN Pad ELSE ByteAt(b, t + 2) % 64
\* How many symbols there are from byte i on, and these symbols.
SymbolsFrom(b, i) == IF i > Len(b) THEN 0 ELSE 4 * ((Len(b) - i + 3) \div 3)
EncodedFrom(b, i) == [j \in 1 .. SymbolsFrom(b, i) |-> Symbol(b, i, j)]

\* The body of Base64encode.
EncodeBody(bytes, f, i) ==
  LET n == Len(bytes)
  IN IF i > n THEN <<>>
     ELSE IF i = n THEN SubSeq(Sextets(bytes[i], 0, 0), 1, 2) \o <<Pad, Pad>>
     ELSE IF i + 1 = n THEN SubSeq(Sextets(bytes[i], bytes[i + 1], 0), 1, 3) \o <<Pad>>
     ELSE Sextets(bytes[i], bytes[i + 1], bytes[i + 2]) \o f[i + 3]
IsEncode(f, bytes) == f = [i \in 1 .. Len(bytes) + 3 |-> EncodeBody(bytes, f, i)]

Symbols == 0 .. 64

\* A byte, also where one is missing.
LEMMA BytesAt ==
  ASSUME NEW b \in Seq(Bytes8), NEW k \in Nat \ {0}
  PROVE  ByteAt(b, k) \in 0 .. 255
  <1>1. k <= Len(b) => b[k] \in Bytes8
    BY ElementOfSeq
  <1> QED BY <1>1 DEF ByteAt, Bytes8

\* A symbol is one of the 64 or the pad.
LEMMA SymbolRange ==
  ASSUME NEW b \in Seq(Bytes8), NEW i \in Nat \ {0}, NEW j \in Nat \ {0}
  PROVE  Symbol(b, i, j) \in Symbols
  <1> DEFINE t == i + 3 * ((j - 1) \div 4)
             r == (j - 1) % 4
  <1>1. PICK q \in Nat : q = (j - 1) \div 4
    OBVIOUS
  <1>2. t \in Nat \ {0} /\ t + 1 \in Nat \ {0} /\ t + 2 \in Nat \ {0}
    BY <1>1
  <1>3. PICK x \in 0 .. 255 : x = ByteAt(b, t)
    BY <1>2, BytesAt
  <1>4. PICK y \in 0 .. 255 : y = ByteAt(b, t + 1)
    BY <1>2, BytesAt
  <1>5. PICK z \in 0 .. 255 : z = ByteAt(b, t + 2)
    BY <1>2, BytesAt
  <1>6. Symbol(b, i, j) =
          IF r = 0 THEN x \div 4
          ELSE IF r = 1 THEN (x % 4) * 16 + (y \div 16)
          ELSE IF r = 2 THEN IF t + 1 > Len(b) THEN Pad ELSE (y % 16) * 4 + (z \div 64)
          ELSE IF t + 2 > Len(b) THEN Pad ELSE z % 64
    BY <1>3, <1>4, <1>5 DEF Symbol
  <1> HIDE DEF t, r
  <1>7. /\ x \div 4 \in 0 .. 63 /\ (x % 4) * 16 + (y \div 16) \in 0 .. 63
        /\ (y % 16) * 4 + (z \div 64) \in 0 .. 63 /\ z % 64 \in 0 .. 63
    OBVIOUS
  <1> QED BY <1>6, <1>7 DEF Symbols, Pad

\* Three bytes further on the symbols are those four places back.
LEMMA SymbolShift ==
  ASSUME NEW b, NEW i \in Nat, NEW j \in Nat, j > 4
  PROVE  Symbol(b, i + 3, j - 4) = Symbol(b, i, j)
  <1>1. /\ (i + 3) + 3 * (((j - 4) - 1) \div 4) = i + 3 * ((j - 1) \div 4)
        /\ ((j - 4) - 1) % 4 = (j - 1) % 4
    <2>1. PICK q \in Nat, r \in 0 .. 3 : j - 5 = 4 * q + r
      <3>1. PICK k \in Nat : k = j - 5
        OBVIOUS
      <3>2. k = 4 * (k \div 4) + (k % 4) /\ k \div 4 \in Nat /\ k % 4 \in 0 .. 3
        OBVIOUS
      <3> QED BY <3>1, <3>2
    <2>2. (j - 4) - 1 = 4 * q + r /\ j - 1 = 4 * (q + 1) + r
      BY <2>1
    <2>3. ((j - 4) - 1) \div 4 = q /\ (j - 1) \div 4 = q + 1
      BY <2>2
    <2>4. ((j - 4) - 1) % 4 = r /\ (j - 1) % 4 = r
      BY <2>2
    <2> QED BY <2>3, <2>4
  <1> QED BY <1>1, Zenon DEF Symbol

\* The symbols as a sequence.
LEMMA EncodedSeq ==
  ASSUME NEW b \in Seq(Bytes8), NEW i \in Nat \ {0}
  PROVE  /\ SymbolsFrom(b, i) \in Nat
         /\ EncodedFrom(b, i) \in Seq(Symbols) /\ Len(EncodedFrom(b, i)) = SymbolsFrom(b, i)
         /\ \A j \in 1 .. SymbolsFrom(b, i) : EncodedFrom(b, i)[j] = Symbol(b, i, j)
  <1> DEFINE n == SymbolsFrom(b, i)
             e == EncodedFrom(b, i)
  <1>1. n \in Nat
    BY DEF SymbolsFrom
  <1> HIDE DEF n
  <1>2. e = [j \in 1 .. n |-> Symbol(b, i, j)]
    BY DEF EncodedFrom, n
  <1>3. \A j \in 1 .. n : Symbol(b, i, j) \in Symbols
    BY <1>1, SymbolRange
  <1> HIDE DEF e
  <1>4. e \in [1 .. n -> Symbols]
    BY <1>2, <1>3
  <1>5. e \in Seq(Symbols) /\ Len(e) = n
    BY <1>1, <1>4, LenProperties
  <1> QED BY <1>1, <1>2, <1>5 DEF e, n

\* Four symbols, and those the end of a message is padded from.
LEMMA FourSymbols ==
  ASSUME NEW w \in Symbols, NEW x \in Symbols, NEW y \in Symbols, NEW z \in Symbols
  PROVE  /\ <<w, x, y, z>> \in Seq(Symbols) /\ Len(<<w, x, y, z>>) = 4
         /\ SubSeq(<<w, x, y, z>>, 1, 2) \o <<Pad, Pad>> = <<w, x, Pad, Pad>>
         /\ SubSeq(<<w, x, y, z>>, 1, 3) \o <<Pad>> = <<w, x, y, Pad>>
  <1> DEFINE s == <<w, x, y, z>>
  <1>1. s \in Seq(Symbols) /\ Len(s) = 4
    OBVIOUS
  <1>2. s[1] = w /\ s[2] = x /\ s[3] = y
    OBVIOUS
  <1> HIDE DEF s
  <1>3. SubSeq(s, 1, 2) = <<w, x>>
    <2> DEFINE t == SubSeq(s, 1, 2)
    <2>1. t \in Seq(Symbols) /\ Len(t) = 2 /\ \A i \in 1 .. 2 : t[i] = s[0 + i]
      <3>1. t = Part(s, 0, 2)
        BY DEF Part
      <3>2. 0 \in Nat /\ 2 \in Nat /\ 0 + 2 <= Len(s)
        BY <1>1
      <3> HIDE DEF t
      <3> QED BY <1>1, <3>1, <3>2, PartSeq, ZenonT(40)
    <2> HIDE DEF t
    <2>2. t[1] = w /\ t[2] = x
      BY <1>2, <2>1
    <2>3. <<w, x>> \in Seq(Symbols) /\ Len(<<w, x>>) = 2 /\ <<w, x>>[1] = w /\ <<w, x>>[2] = x
      OBVIOUS
    <2>4. \A i \in 1 .. 2 : t[i] = <<w, x>>[i]
      <3>1. \A i \in 1 .. 2 : i = 1 \/ i = 2
        OBVIOUS
      <3> QED BY <2>2, <2>3, <3>1, Zenon
    <2>5. t = <<w, x>>
      BY <2>1, <2>3, <2>4, SeqEqual
    <2> QED BY <2>5 DEF t
  <1>4. SubSeq(s, 1, 3) = <<w, x, y>>
    <2> DEFINE t == SubSeq(s, 1, 3)
    <2>1. t \in Seq(Symbols) /\ Len(t) = 3 /\ \A i \in 1 .. 3 : t[i] = s[0 + i]
      <3>1. t = Part(s, 0, 3)
        BY DEF Part
      <3>2. 0 \in Nat /\ 3 \in Nat /\ 0 + 3 <= Len(s)
        BY <1>1
      <3> HIDE DEF t
      <3> QED BY <1>1, <3>1, <3>2, PartSeq, ZenonT(40)
    <2> HIDE DEF t
    <2>2. t[1] = w /\ t[2] = x /\ t[3] = y
      BY <1>2, <2>1
    <2>3. <<w, x, y>> \in Seq(Symbols) /\ Len(<<w, x, y>>) = 3 /\ <<w, x, y>>[1] = w
          /\ <<w, x, y>>[2] = x /\ <<w, x, y>>[3] = y
      OBVIOUS
    <2>4. \A i \in 1 .. 3 : t[i] = <<w, x, y>>[i]
      <3>1. \A i \in 1 .. 3 : i = 1 \/ i = 2 \/ i = 3
        OBVIOUS
      <3> QED BY <2>2, <2>3, <3>1, Zenon
    <2>5. t = <<w, x, y>>
      BY <2>1, <2>3, <2>4, SeqEqual
    <2> QED BY <2>5 DEF t
  <1>5. <<w, x>> \o <<Pad, Pad>> = <<w, x, Pad, Pad>>
    <2> DEFINE u == <<w, x>>
               v == <<Pad, Pad>>
               t == u \o v
               x4 == <<w, x, Pad, Pad>>
    <2>1. u \in Seq(Symbols) /\ Len(u) = 2 /\ u[1] = w /\ u[2] = x
      OBVIOUS
    <2>2. v \in Seq(Symbols) /\ Len(v) = 2 /\ v[1] = Pad /\ v[2] = Pad
      BY DEF Symbols, Pad
    <2>3. x4 \in Seq(Symbols) /\ Len(x4) = 4 /\ x4[1] = w /\ x4[2] = x /\ x4[3] = Pad /\ x4[4] = Pad
      BY DEF Symbols, Pad
    <2> HIDE DEF u, v, x4
    <2>4. t \in Seq(Symbols) /\ Len(t) = 4
          /\ \A i \in 1 .. 4 : t[i] = IF i <= 2 THEN u[i] ELSE v[i - 2]
      <3>1. t \in Seq(Symbols) /\ Len(t) = Len(u) + Len(v)
            /\ \A i \in 1 .. Len(u) + Len(v) : t[i] = IF i <= Len(u) THEN u[i] ELSE v[i - Len(u)]
        BY <2>1, <2>2, ConcatProperties
      <3>2. Len(u) = 2 /\ Len(u) + Len(v) = 4
        BY <2>1, <2>2
      <3> HIDE DEF t
      <3> QED BY <3>1, <3>2
    <2> HIDE DEF t
    <2>5. t[1] = u[1] /\ t[2] = u[2] /\ t[3] = v[1] /\ t[4] = v[2]
      BY <2>4
    <2>6. t[1] = w /\ t[2] = x /\ t[3] = Pad /\ t[4] = Pad
      BY <2>1, <2>2, <2>5
    <2>7. \A i \in 1 .. 4 : t[i] = x4[i]
      <3>1. \A i \in 1 .. 4 : i = 1 \/ i = 2 \/ i = 3 \/ i = 4
        OBVIOUS
      <3> QED BY <2>3, <2>6, <3>1, Zenon
    <2>8. t = x4
      BY <2>3, <2>4, <2>7, SeqEqual
    <2> QED BY <2>8 DEF t, u, v, x4
  <1>6. <<w, x, y>> \o <<Pad>> = <<w, x, y, Pad>>
    <2> DEFINE u == <<w, x, y>>
               v == <<Pad>>
               t == u \o v
               x4 == <<w, x, y, Pad>>
    <2>1. u \in Seq(Symbols) /\ Len(u) = 3 /\ u[1] = w /\ u[2] = x /\ u[3] = y
      OBVIOUS
    <2>2. v \in Seq(Symbols) /\ Len(v) = 1 /\ v[1] = Pad
      BY DEF Symbols, Pad
    <2>3. x4 \in Seq(Symbols) /\ Len(x4) = 4 /\ x4[1] = w /\ x4[2] = x /\ x4[3] = y /\ x4[4] = Pad
      BY DEF Symbols, Pad
    <2> HIDE DEF u, v, x4
    <2>4. t \in Seq(Symbols) /\ Len(t) = 4
          /\ \A i \in 1 .. 4 : t[i] = IF i <= 3 THEN u[i] ELSE v[i - 3]
      <3>1. t \in Seq(Symbols) /\ Len(t) = Len(u) + Len(v)
            /\ \A i \in 1 .. Len(u) + Len(v) : t[i] = IF i <= Len(u) THEN u[i] ELSE v[i - Len(u)]
        BY <2>1, <2>2, ConcatProperties
      <3>2. Len(u) = 3 /\ Len(u) + Len(v) = 4
        BY <2>1, <2>2
      <3> HIDE DEF t
      <3> QED BY <3>1, <3>2
    <2> HIDE DEF t
    <2>5. t[1] = u[1] /\ t[2] = u[2] /\ t[3] = u[3] /\ t[4] = v[1]
      BY <2>4
    <2>6. t[1] = w /\ t[2] = x /\ t[3] = y /\ t[4] = Pad
      BY <2>1, <2>2, <2>5
    <2>7. \A i \in 1 .. 4 : t[i] = x4[i]
      <3>1. \A i \in 1 .. 4 : i = 1 \/ i = 2 \/ i = 3 \/ i = 4
        OBVIOUS
      <3> QED BY <2>3, <2>6, <3>1, Zenon
    <2>8. t = x4
      BY <2>3, <2>4, <2>7, SeqEqual
    <2> QED BY <2>8 DEF t, u, v, x4
  <1> QED BY <1>1, <1>3, <1>4, <1>5, <1>6 DEF s

\* One pass of the encoder writes four symbols and goes on with what follows them.
LEMMA EncodeStep ==
  ASSUME NEW b \in Seq(Bytes8), NEW i \in Nat \ {0}, NEW f,
         i + 2 <= Len(b) => f[i + 3] = EncodedFrom(b, i + 3)
  PROVE  EncodeBody(b, f, i) = EncodedFrom(b, i)
  <1> DEFINE n == Len(b)
             e == EncodedFrom(b, i)
             N == SymbolsFrom(b, i)
  <1>1. n \in Nat /\ \A k \in 1 .. n : b[k] \in 0 .. 255
    BY ElementOfSeq DEF Bytes8
  <1>2. /\ N \in Nat /\ e \in Seq(Symbols) /\ Len(e) = N
        /\ \A j \in 1 .. N : e[j] = Symbol(b, i, j)
    BY EncodedSeq
  <1> HIDE DEF e
  <1>3. CASE i > n
    <2>1. N = 0
      BY <1>3 DEF SymbolsFrom
    <2>2. e = <<>>
      BY <1>2, <2>1, EmptySeq
    <2> QED BY <1>3, <2>2 DEF EncodeBody, e
  <1>4. ASSUME i <= n
        PROVE  /\ e[1] = ByteAt(b, i) \div 4
               /\ e[2] = (ByteAt(b, i) % 4) * 16 + (ByteAt(b, i + 1) \div 16)
               /\ e[3] = IF i + 1 > n THEN Pad
                         ELSE (ByteAt(b, i + 1) % 16) * 4 + (ByteAt(b, i + 2) \div 64)
               /\ e[4] = IF i + 2 > n THEN Pad ELSE ByteAt(b, i + 2) % 64
               /\ N >= 4
    <2>1. N >= 4
      <3>1. (n - i + 3) \div 3 >= 1
        BY <1>1, <1>4
      <3>2. N = 4 * ((n - i + 3) \div 3)
        BY <1>4, <1>1 DEF SymbolsFrom
      <3>3. PICK c \in Nat : c = (n - i + 3) \div 3
        BY <1>1, <1>4
      <3> QED BY <3>1, <3>2, <3>3
    <2>2. \A j \in 1 .. 4 : e[j] = Symbol(b, i, j)
      BY <1>2, <2>1
    <2>3. /\ (1 - 1) \div 4 = 0 /\ (2 - 1) \div 4 = 0 /\ (3 - 1) \div 4 = 0 /\ (4 - 1) \div 4 = 0
          /\ (1 - 1) % 4 = 0 /\ (2 - 1) % 4 = 1 /\ (3 - 1) % 4 = 2 /\ (4 - 1) % 4 = 3
          /\ i + 3 * 0 = i
      OBVIOUS
    <2>4. Symbol(b, i, 1) = ByteAt(b, i) \div 4
      BY <2>3 DEF Symbol
    <2>5. Symbol(b, i, 2) = (ByteAt(b, i) % 4) * 16 + (ByteAt(b, i + 1) \div 16)
      BY <2>3 DEF Symbol
    <2>6. Symbol(b, i, 3) = IF i + 1 > n THEN Pad
                            ELSE (ByteAt(b, i + 1) % 16) * 4 + (ByteAt(b, i + 2) \div 64)
      BY <2>3 DEF Symbol
    <2>7. Symbol(b, i, 4) = IF i + 2 > n THEN Pad ELSE ByteAt(b, i + 2) % 64
      BY <2>3 DEF Symbol
    <2> QED BY <2>1, <2>2, <2>4, <2>5, <2>6, <2>7
  <1>5. ASSUME NEW x \in 0 .. 255, NEW y \in 0 .. 255, NEW z \in 0 .. 255
        PROVE  /\ Sextets(x, y, z) \in Seq(Symbols) /\ Len(Sextets(x, y, z)) = 4
               /\ Sextets(x, y, z)[1] = x \div 4
               /\ Sextets(x, y, z)[2] = (x % 4) * 16 + (y \div 16)
               /\ Sextets(x, y, z)[3] = (y % 16) * 4 + (z \div 64)
               /\ Sextets(x, y, z)[4] = z % 64
               /\ x \div 4 \in Symbols /\ (x % 4) * 16 + (y \div 16) \in Symbols
               /\ (y % 16) * 4 + (z \div 64) \in Symbols /\ z % 64 \in Symbols
    <2>1. /\ x \div 4 \in Symbols /\ (x % 4) * 16 + (y \div 16) \in Symbols
          /\ (y % 16) * 4 + (z \div 64) \in Symbols /\ z % 64 \in Symbols
      BY DEF Symbols
    <2>2. PICK s1 \in Symbols, s2 \in Symbols, s3 \in Symbols, s4 \in Symbols :
            /\ s1 = x \div 4 /\ s2 = (x % 4) * 16 + (y \div 16)
            /\ s3 = (y % 16) * 4 + (z \div 64) /\ s4 = z % 64
      BY <2>1
    <2>3. Sextets(x, y, z) = <<s1, s2, s3, s4>>
      BY <2>2 DEF Sextets
    <2>4. <<s1, s2, s3, s4>> \in Seq(Symbols) /\ Len(<<s1, s2, s3, s4>>) = 4
      BY FourSymbols
    <2> QED BY <2>1, <2>2, <2>3, <2>4
  <1>6. CASE i + 2 <= n
    <2>1. PICK x \in 0 .. 255, y \in 0 .. 255, z \in 0 .. 255 :
             x = b[i] /\ y = b[i + 1] /\ z = b[i + 2]
      <3>1. i \in 1 .. n /\ i + 1 \in 1 .. n /\ i + 2 \in 1 .. n
        BY <1>1, <1>6
      <3> HIDE DEF n
      <3>2. b[i] \in 0 .. 255 /\ b[i + 1] \in 0 .. 255 /\ b[i + 2] \in 0 .. 255
        BY <1>1, <3>1
      <3> QED BY <3>2
    <2>2. ByteAt(b, i) = x /\ ByteAt(b, i + 1) = y /\ ByteAt(b, i + 2) = z
      BY <1>1, <1>6, <2>1 DEF ByteAt
    <2> DEFINE s == Sextets(x, y, z)
               g == EncodedFrom(b, i + 3)
               M == SymbolsFrom(b, i + 3)
               w == s \o g
    <2>3. EncodeBody(b, f, i) = w
      <3>1. ~(i > n) /\ i # n /\ i + 1 # n
        BY <1>1, <1>6
      <3>2. f[i + 3] = g
        BY <1>6
      <3> QED BY <2>1, <3>1, <3>2 DEF EncodeBody
    <2>4. /\ s \in Seq(Symbols) /\ Len(s) = 4
          /\ s[1] = x \div 4 /\ s[2] = (x % 4) * 16 + (y \div 16)
          /\ s[3] = (y % 16) * 4 + (z \div 64) /\ s[4] = z % 64
      <3>1. /\ Sextets(x, y, z) \in Seq(Symbols) /\ Len(Sextets(x, y, z)) = 4
            /\ Sextets(x, y, z)[1] = x \div 4
            /\ Sextets(x, y, z)[2] = (x % 4) * 16 + (y \div 16)
            /\ Sextets(x, y, z)[3] = (y % 16) * 4 + (z \div 64)
            /\ Sextets(x, y, z)[4] = z % 64
        <4> HIDE DEF s, n, N, g, M, w
        <4>1. x \in 0 .. 255 /\ y \in 0 .. 255 /\ z \in 0 .. 255
          OBVIOUS
        <4>2. Sextets(x, y, z) \in Seq(Symbols)
          BY <1>5, <4>1, Zenon
        <4>3. Len(Sextets(x, y, z)) = 4
          BY <4>1 DEF Sextets
        <4>4. Sextets(x, y, z)[1] = x \div 4
          BY <4>1 DEF Sextets
        <4>5. Sextets(x, y, z)[2] = (x % 4) * 16 + (y \div 16)
          BY <4>1 DEF Sextets
        <4>6. Sextets(x, y, z)[3] = (y % 16) * 4 + (z \div 64)
          BY <1>5, <4>1, ZenonT(40)
        <4>7. Sextets(x, y, z)[4] = z % 64
          BY <1>5, <4>1, ZenonT(40)
        <4> QED BY <4>2, <4>3, <4>4, <4>5, <4>6, <4>7, Zenon
      <3> QED BY <3>1
    <2> HIDE DEF s
    <2>5. /\ M \in Nat /\ g \in Seq(Symbols) /\ Len(g) = M
          /\ \A j \in 1 .. M : g[j] = Symbol(b, i + 3, j)
      <3>1. i + 3 \in Nat \ {0}
        OBVIOUS
      <3> QED BY <3>1, EncodedSeq
    <2>6. N = 4 + M
      <3>1. PICK k \in Nat : n = i + k
        <4>1. n - i \in Nat /\ n = i + (n - i)
          BY <1>1, <1>6
        <4> QED BY <4>1
      <3>2. N = 4 * ((k + 3) \div 3)
        <4>1. n - i + 3 = k + 3 /\ ~(i > n)
          BY <3>1
        <4> QED BY <4>1 DEF SymbolsFrom
      <3>3. M = 4 * (k \div 3)
        <4>1. CASE k < 3
          <5>1. i + 3 > n /\ k \div 3 = 0
            BY <3>1, <4>1
          <5> QED BY <5>1 DEF SymbolsFrom
        <4>2. CASE k >= 3
          <5>1. n - (i + 3) + 3 = k /\ ~(i + 3 > n)
            BY <3>1, <4>2
          <5> QED BY <5>1 DEF SymbolsFrom
        <4> QED BY <4>1, <4>2
      <3>4. (k + 3) \div 3 = (k \div 3) + 1
        OBVIOUS
      <3>5. PICK c \in Nat : c = k \div 3
        OBVIOUS
      <3> QED BY <3>2, <3>3, <3>4, <3>5
    <2> HIDE DEF g, M
    <2>7. /\ w \in Seq(Symbols) /\ Len(w) = N
          /\ \A j \in 1 .. N : w[j] = IF j <= 4 THEN s[j] ELSE g[j - 4]
      <3>1. /\ w \in Seq(Symbols) /\ Len(w) = Len(s) + Len(g)
            /\ \A j \in 1 .. Len(s) + Len(g) : w[j] = IF j <= Len(s) THEN s[j] ELSE g[j - Len(s)]
        BY <2>4, <2>5, ConcatProperties, ZenonT(40)
      <3>2. Len(s) = 4 /\ Len(s) + Len(g) = N
        BY <2>4, <2>5, <2>6
      <3> HIDE DEF w, N
      <3> QED BY <3>1, <3>2
    <2> HIDE DEF w
    <2>8. ASSUME NEW j \in 1 .. N PROVE w[j] = e[j]
      <3>1. CASE j <= 4
        <4>1. /\ e[1] = s[1] /\ e[2] = s[2] /\ e[3] = s[3] /\ e[4] = s[4]
          <5>1. i <= n /\ ~(i + 1 > n) /\ ~(i + 2 > n)
            BY <1>1, <1>6
          <5>2. /\ e[1] = x \div 4 /\ e[2] = (x % 4) * 16 + (y \div 16)
                /\ e[3] = (y % 16) * 4 + (z \div 64) /\ e[4] = z % 64
            BY <1>4, <2>2, <5>1
          <5> QED BY <2>4, <5>2
        <4>2. j = 1 \/ j = 2 \/ j = 3 \/ j = 4
          BY <3>1
        <4>3. w[j] = s[j]
          BY <2>7, <3>1
        <4> QED BY <4>1, <4>2, <4>3
      <3>2. CASE j > 4
        <4>1. j - 4 \in 1 .. M /\ j \in Nat
          BY <2>5, <2>6, <3>2
        <4>2. w[j] = g[j - 4] /\ g[j - 4] = Symbol(b, i + 3, j - 4)
          BY <2>5, <2>7, <3>2, <4>1
        <4>3. Symbol(b, i + 3, j - 4) = Symbol(b, i, j)
          BY <3>2, <4>1, SymbolShift
        <4> QED BY <1>2, <4>2, <4>3
      <3> QED BY <1>2, <3>1, <3>2
    <2>9. w = e
      BY <1>2, <2>7, <2>8, SeqEqual
    <2> QED BY <2>3, <2>9 DEF e
  <1>7. CASE i + 1 = n
    <2>1. PICK x \in 0 .. 255, y \in 0 .. 255 : x = b[i] /\ y = b[i + 1]
      <3>1. i \in 1 .. n /\ i + 1 \in 1 .. n
        BY <1>1, <1>7
      <3> HIDE DEF n
      <3>2. b[i] \in 0 .. 255 /\ b[i + 1] \in 0 .. 255
        BY <1>1, <3>1
      <3> QED BY <3>2
    <2>2. ByteAt(b, i) = x /\ ByteAt(b, i + 1) = y /\ ByteAt(b, i + 2) = 0
      BY <1>1, <1>7, <2>1 DEF ByteAt
    <2>3. EncodeBody(b, f, i) = SubSeq(Sextets(x, y, 0), 1, 3) \o <<Pad>>
      BY <1>1, <1>7, <2>1 DEF EncodeBody
    <2>4. PICK s1 \in Symbols, s2 \in Symbols, s3 \in Symbols, s4 \in Symbols :
            /\ s1 = x \div 4 /\ s2 = (x % 4) * 16 + (y \div 16)
            /\ s3 = (y % 16) * 4 + (0 \div 64) /\ s4 = 0 % 64
      <3>1. 0 \in 0 .. 255
        OBVIOUS
      <3>2. /\ x \div 4 \in Symbols /\ (x % 4) * 16 + (y \div 16) \in Symbols
            /\ (y % 16) * 4 + (0 \div 64) \in Symbols /\ 0 % 64 \in Symbols
        BY <1>5, <3>1, ZenonT(40)
      <3> QED BY <3>2
    <2>5. EncodeBody(b, f, i) = <<s1, s2, s3, Pad>>
      <3>1. Sextets(x, y, 0) = <<s1, s2, s3, s4>>
        BY <2>4 DEF Sextets
      <3>2. SubSeq(<<s1, s2, s3, s4>>, 1, 3) \o <<Pad>> = <<s1, s2, s3, Pad>>
        BY FourSymbols
      <3> QED BY <2>3, <3>1, <3>2
    <2>6. /\ e[1] = s1 /\ e[2] = s2 /\ e[3] = s3 /\ e[4] = Pad
      BY <1>1, <1>4, <1>7, <2>2, <2>4
    <2>7. N = 4
      <3>1. n - i + 3 = 4 /\ ~(i > n) /\ 4 \div 3 = 1
        BY <1>1, <1>7
      <3> QED BY <3>1 DEF SymbolsFrom
    <2>8. Pad \in Symbols
      BY DEF Pad, Symbols
    <2> DEFINE w == <<s1, s2, s3, Pad>>
    <2>9. w \in Seq(Symbols) /\ Len(w) = 4 /\ w[1] = s1 /\ w[2] = s2 /\ w[3] = s3 /\ w[4] = Pad
      BY <2>8
    <2> HIDE DEF w
    <2>10. \A j \in 1 .. 4 : w[j] = e[j]
      <3>1. \A j \in 1 .. 4 : j = 1 \/ j = 2 \/ j = 3 \/ j = 4
        OBVIOUS
      <3> QED BY <2>6, <2>9, <3>1
    <2>11. w = e
      BY <1>2, <2>7, <2>9, <2>10, SeqEqual
    <2> QED BY <2>5, <2>11 DEF e, w
  <1>8. CASE i = n
    <2>1. PICK x \in 0 .. 255 : x = b[i]
      BY <1>1, <1>8
    <2>2. ByteAt(b, i) = x /\ ByteAt(b, i + 1) = 0 /\ ByteAt(b, i + 2) = 0
      BY <1>1, <1>8, <2>1 DEF ByteAt
    <2>3. EncodeBody(b, f, i) = SubSeq(Sextets(x, 0, 0), 1, 2) \o <<Pad, Pad>>
      BY <1>1, <1>8, <2>1 DEF EncodeBody
    <2>4. PICK s1 \in Symbols, s2 \in Symbols, s3 \in Symbols, s4 \in Symbols :
            /\ s1 = x \div 4 /\ s2 = (x % 4) * 16 + (0 \div 16)
            /\ s3 = (0 % 16) * 4 + (0 \div 64) /\ s4 = 0 % 64
      <3>1. 0 \in 0 .. 255
        OBVIOUS
      <3>2. /\ x \div 4 \in Symbols /\ (x % 4) * 16 + (0 \div 16) \in Symbols
            /\ (0 % 16) * 4 + (0 \div 64) \in Symbols /\ 0 % 64 \in Symbols
        BY <1>5, <3>1, ZenonT(40)
      <3> QED BY <3>2
    <2>5. EncodeBody(b, f, i) = <<s1, s2, Pad, Pad>>
      <3>1. Sextets(x, 0, 0) = <<s1, s2, s3, s4>>
        BY <2>4 DEF Sextets
      <3>2. SubSeq(<<s1, s2, s3, s4>>, 1, 2) \o <<Pad, Pad>> = <<s1, s2, Pad, Pad>>
        BY FourSymbols
      <3> QED BY <2>3, <3>1, <3>2
    <2>6. /\ e[1] = s1 /\ e[2] = s2 /\ e[3] = Pad /\ e[4] = Pad
      BY <1>1, <1>4, <1>8, <2>2, <2>4
    <2>7. N = 4
      <3>1. n - i + 3 = 3 /\ ~(i > n) /\ 3 \div 3 = 1
        BY <1>1, <1>8
      <3> QED BY <3>1 DEF SymbolsFrom
    <2>8. Pad \in Symbols
      BY DEF Pad, Symbols
    <2> DEFINE w == <<s1, s2, Pad, Pad>>
    <2>9. w \in Seq(Symbols) /\ Len(w) = 4 /\ w[1] = s1 /\ w[2] = s2 /\ w[3] = Pad /\ w[4] = Pad
      BY <2>8
    <2> HIDE DEF w
    <2>10. \A j \in 1 .. 4 : w[j] = e[j]
      <3>1. \A j \in 1 .. 4 : j = 1 \/ j = 2 \/ j = 3 \/ j = 4
        OBVIOUS
      <3> QED BY <2>6, <2>9, <3>1
    <2>11. w = e
      BY <1>2, <2>7, <2>9, <2>10, SeqEqual
    <2> QED BY <2>5, <2>11 DEF e, w
  <1>9. i > n \/ i + 2 <= n \/ i + 1 = n \/ i = n
    BY <1>1
  <1> QED BY <1>3, <1>6, <1>7, <1>8, <1>9

-----------------------------------------------------------------------------
(*****************************************************************************)
(* Base64: the decoder.                                                      *)
(*****************************************************************************)
\* The encoder writes the symbols of the bytes, four for every three begun.
LEMMA EncodeSymbols ==
  ASSUME NEW b \in Seq(Bytes8)
  PROVE  Base64encode(b) = EncodedFrom(b, 1)
  <1> DEFINE n == Len(b)
             D == 1 .. n + 3
             e == [i \in D |-> EncodedFrom(b, i)]
             F == CHOOSE f : IsEncode(f, b)
             mu == [i \in D |-> n + 3 - i]
             T == {i \in D : F[i] = EncodedFrom(b, i)}
  <1>1. n \in Nat /\ 1 \in D /\ \A i \in D : i \in Nat \ {0}
    OBVIOUS
  <1>2. Base64encode(b) = F[1]
    BY DEF Base64encode, IsEncode, EncodeBody
  <1>3. IsEncode(e, b)
    <2>1. ASSUME NEW i \in D PROVE EncodedFrom(b, i) = EncodeBody(b, e, i)
      <3>1. i + 2 <= n => e[i + 3] = EncodedFrom(b, i + 3)
        <4>1. i + 2 <= n => i + 3 \in D
          BY <1>1
        <4> HIDE DEF D
        <4> QED BY <4>1
      <3> HIDE DEF e
      <3> QED BY <1>1, <3>1, EncodeStep
    <2>2. e = [i \in D |-> EncodeBody(b, e, i)]
      <3>1. e = [i \in D |-> EncodedFrom(b, i)]
        OBVIOUS
      <3> HIDE DEF e, D
      <3> QED BY <2>1, <3>1
    <2> QED BY <2>2 DEF IsEncode
  <1>4. IsEncode(F, b)
    <2> HIDE DEF e
    <2> QED BY <1>3
  <1> HIDE DEF F, e
  <1>5. ASSUME NEW i \in D, \A x \in D : mu[x] < mu[i] => x \in T PROVE i \in T
    <2>1. i + 2 <= n => F[i + 3] = EncodedFrom(b, i + 3)
      <3> SUFFICES ASSUME i + 2 <= n PROVE i + 3 \in T
        OBVIOUS
      <3>1. i + 3 \in D /\ mu[i + 3] < mu[i]
        BY <1>1
      <3> HIDE DEF D, mu, T
      <3> QED BY <1>5, <3>1
    <2>2. F[i] = EncodeBody(b, F, i)
      BY <1>4 DEF IsEncode
    <2> HIDE DEF D
    <2>3. F[i] = EncodedFrom(b, i)
      BY <1>1, <2>1, <2>2, EncodeStep
    <2> QED BY <2>3
  <1>6. mu \in [D -> Nat]
    BY <1>1
  <1>7. D \subseteq T
    <2> HIDE DEF D, mu, T
    <2> QED BY <1>5, <1>6, MeasureInduction
  <1> QED BY <1>1, <1>2, <1>7

\* What the decoder takes for symbols: all before the first that is none.
LEMMA CodedPrefix ==
  ASSUME NEW text \in Seq(Nat)
  PROVE  \E k \in 0 .. Len(text) :
            /\ Coded(text) \in Seq(0 .. 63) /\ Len(Coded(text)) = k
            /\ \A i \in 1 .. k : Coded(text)[i] = text[i] /\ text[i] \in 0 .. 63
            /\ k < Len(text) => text[k + 1] >= Pad
  <1> DEFINE n == Len(text)
             M == {i \in 0 .. n : i < n => text[i + 1] >= Pad}
             N == {i \in DOMAIN text : \A j \in 1 .. i : text[j] < Pad}
  <1>1. n \in Nat /\ DOMAIN text = 1 .. n /\ \A i \in 1 .. n : text[i] \in Nat
    BY LenProperties, ElementOfSeq
  <1>2. n \in M /\ M \subseteq Nat
    BY <1>1
  <1>3. PICK k \in M : \A i \in M : k <= i
    <2> HIDE DEF M
    <2> QED BY <1>2, Smallest
  <1>4. k \in 0 .. n /\ (k < n => text[k + 1] >= Pad)
    OBVIOUS
  <1>5. ASSUME NEW i \in 1 .. k PROVE text[i] \in 0 .. 63 /\ i \in 1 .. n
    <2>1. i \in 1 .. n /\ i - 1 \in 0 .. n /\ i - 1 < n /\ (i - 1) + 1 = i
      BY <1>1, <1>4
    <2>2. i - 1 \notin M
      <3>1. ~(k <= i - 1)
        BY <1>4
      <3> HIDE DEF M
      <3> QED BY <1>3, <3>1
    <2>3. ~(text[i] >= Pad)
      BY <2>1, <2>2
    <2>4. PICK x \in Nat : x = text[i]
      BY <1>1, <2>1
    <2>5. ~(x >= 64)
      BY <2>3, <2>4 DEF Pad
    <2>6. x \in 0 .. 63
      BY <2>5
    <2> QED BY <2>1, <2>4, <2>6
  <1> HIDE DEF M
  <1>6. N = 1 .. k
    <2>1. ASSUME NEW i \in N PROVE i \in 1 .. k
      <3>1. i \in 1 .. n /\ \A j \in 1 .. i : text[j] < Pad
        BY <1>1
      <3>2. i > k => k + 1 \in 1 .. i /\ k < n
        BY <1>1, <1>4, <3>1
      <3>3. ~(i > k)
        <4> SUFFICES ASSUME i > k PROVE FALSE
          OBVIOUS
        <4>1. text[k + 1] < Pad /\ text[k + 1] >= Pad /\ text[k + 1] \in Nat
          BY <1>1, <1>4, <3>1, <3>2
        <4> QED BY <4>1 DEF Pad
      <3> QED BY <3>1, <3>3, <1>4
    <2>2. ASSUME NEW i \in 1 .. k PROVE i \in N
      <3>1. i \in DOMAIN text
        BY <1>1, <1>5
      <3>2. ASSUME NEW j \in 1 .. i PROVE text[j] < Pad
        <4>1. j \in 1 .. k
          BY <1>4
        <4>2. PICK x \in 0 .. 63 : x = text[j]
          BY <1>5, <4>1
        <4>3. x < 64 /\ Pad = 64
          BY DEF Pad
        <4> QED BY <4>2, <4>3, Zenon
      <3> QED BY <3>1, <3>2
    <2> QED BY <2>1, <2>2
  <1>7. Coded(text) = [i \in 1 .. k |-> text[i]]
    BY <1>6 DEF Coded
  <1>8. Coded(text) \in [1 .. k -> 0 .. 63]
    BY <1>5, <1>7
  <1>9. k \in Nat
    BY <1>4
  <1>10. Coded(text) \in Seq(0 .. 63) /\ Len(Coded(text)) = k
    BY <1>8, <1>9, LenProperties
  <1> QED BY <1>4, <1>5, <1>7, <1>10

\* How many bytes k symbols give, in the decoder's words.
Written(k) ==
  LET tail == IF k = 0 THEN 0 ELSE ((k - 1) % 4) + 1
  IN ((k - tail) \div 4) * 3 + (IF tail > 1 THEN tail - 1 ELSE 0)

\* Four symbols give three bytes, two and three give one and two.
LEMMA WrittenValue ==
  ASSUME NEW m \in Nat
  PROVE  /\ Written(4 * m) = 3 * m
         /\ Written(4 * m + 1) = 3 * m
         /\ Written(4 * m + 2) = 3 * m + 1
         /\ Written(4 * m + 3) = 3 * m + 2
  <1>1. Written(4 * m) = 3 * m
    <2>1. CASE m = 0
      BY <2>1 DEF Written
    <2>2. CASE m # 0
      <3>1. PICK l \in Nat : m = l + 1
        BY <2>2
      <3>2. 4 * m - 1 = 4 * l + 3 /\ (4 * l + 3) % 4 = 3 /\ 4 * m # 0 /\ (4 * m - 4) \div 4 = l
        BY <3>1
      <3>3. Written(4 * m) = ((4 * m - 4) \div 4) * 3 + 3
        BY <3>2 DEF Written
      <3> QED BY <3>1, <3>2, <3>3
    <2> QED BY <2>1, <2>2
  <1>2. Written(4 * m + 1) = 3 * m
    <2>1. (4 * m + 1) - 1 = 4 * m /\ (4 * m) % 4 = 0 /\ 4 * m + 1 # 0 /\ (4 * m) \div 4 = m
      OBVIOUS
    <2> QED BY <2>1 DEF Written
  <1>3. Written(4 * m + 2) = 3 * m + 1
    <2>1. (4 * m + 2) - 1 = 4 * m + 1 /\ (4 * m + 1) % 4 = 1 /\ 4 * m + 2 # 0
          /\ (4 * m + 2) - 2 = 4 * m /\ (4 * m) \div 4 = m
      OBVIOUS
    <2> QED BY <2>1 DEF Written
  <1>4. Written(4 * m + 3) = 3 * m + 2
    <2>1. (4 * m + 3) - 1 = 4 * m + 2 /\ (4 * m + 2) % 4 = 2 /\ 4 * m + 3 # 0
          /\ (4 * m + 3) - 3 = 4 * m /\ (4 * m) \div 4 = m
      OBVIOUS
    <2> QED BY <2>1 DEF Written
  <1> QED BY <1>1, <1>2, <1>3, <1>4

\* On any text the decoder stays in the buffer asked for and counts what it writes.
LEMMA DecodeFits ==
  ASSUME NEW text \in Seq(Nat)
  PROVE  /\ Len(Base64decode(text)) + 1 <= Base64decode_len(text)
         /\ nbytesdecoded(text) = Len(Base64decode(text))
  <1>1. PICK k \in 0 .. Len(text) : Coded(text) \in Seq(0 .. 63) /\ Len(Coded(text)) = k
    BY CodedPrefix
  <1>2. k \in Nat /\ k = 4 * (k \div 4) + (k % 4) /\ k \div 4 \in Nat /\ k % 4 \in 0 .. 3
    OBVIOUS
  <1>3. PICK m \in Nat, r \in 0 .. 3 : k = 4 * m + r
    BY <1>2
  <1>4. Written(k) \in Nat
    <2>1. k = 4 * m \/ k = 4 * m + 1 \/ k = 4 * m + 2 \/ k = 4 * m + 3
      BY <1>3
    <2>2. Written(k) = 3 * m \/ Written(k) = 3 * m + 1 \/ Written(k) = 3 * m + 2
      BY <2>1, WrittenValue
    <2> QED BY <2>2
  <1>5. Len(Base64decode(text)) = Written(k)
    <2>1. \E g : Base64decode(text) = [i \in 1 .. Written(k) |-> g[i]]
      <3> DEFINE s == Coded(text)
                 Byte(i) ==
                   LET q == (i - 1) \div 3
                       at == 4 * q + ((i - 1) % 3) + 1
                   IN CASE i % 3 = 1 -> (s[at] * 4 + (s[at + 1] \div 16)) % 256
                        [] i % 3 = 2 -> (s[at] * 16 + (s[at + 1] \div 4)) % 256
                        [] OTHER     -> (s[at] * 64 + s[at + 1]) % 256
                 g == [i \in 1 .. Written(k) |-> Byte(i)]
      <3>1. Base64decode(text) = g
        BY <1>1 DEF Base64decode, Written
      <3>2. g = [i \in 1 .. Written(k) |-> g[i]]
        <4> HIDE DEF Byte
        <4> QED OBVIOUS
      <3> HIDE DEF g
      <3> QED BY <3>1, <3>2
    <2>2. PICK g : Base64decode(text) = [i \in 1 .. Written(k) |-> g[i]]
      BY <2>1
    <2>3. PICK w \in Nat : w = Written(k)
      BY <1>4
    <2> DEFINE d == Base64decode(text)
               V == {g[i] : i \in 1 .. w}
    <2>4. d \in [1 .. w -> V]
      BY <2>2, <2>3
    <2> HIDE DEF d, V
    <2>5. d \in Seq(V) /\ Len(d) = w
      BY <2>4, LenProperties
    <2> QED BY <2>3, <2>5 DEF d
  <1>6. Base64decode_len(text) = ((k + 3) \div 4) * 3 + 1
    BY <1>1 DEF Base64decode_len
  <1>7. nbytesdecoded(text) = ((k + 3) \div 4) * 3 - ((4 - (IF k = 0 THEN 0 ELSE ((k - 1) % 4) + 1)) % 4)
    BY <1>1 DEF nbytesdecoded
  <1>8. Written(k) + 1 <= ((k + 3) \div 4) * 3 + 1
        /\ Written(k) = ((k + 3) \div 4) * 3 - ((4 - (IF k = 0 THEN 0 ELSE ((k - 1) % 4) + 1)) % 4)
    <2>1. CASE r = 0
      <3>1. k = 4 * m /\ (4 * m + 3) \div 4 = m
        BY <1>3, <2>1
      <3>2. CASE m = 0
        BY <3>1, <3>2, WrittenValue
      <3>3. CASE m # 0
        <4>1. (4 * m - 1) % 4 = 3 /\ 4 * m # 0
          BY <3>3
        <4>2. Written(k) = 3 * m
          BY <3>1, WrittenValue
        <4> QED BY <3>1, <4>1, <4>2, SMTT(30)
      <3> QED BY <3>2, <3>3
    <2>2. CASE r = 1
      <3>1. k = 4 * m + 1 /\ (4 * m + 1 + 3) \div 4 = m + 1 /\ (4 * m + 1 - 1) % 4 = 0 /\ k # 0
        BY <1>3, <2>2
      <3>2. Written(k) = 3 * m
        BY <3>1, WrittenValue
      <3> QED BY <3>1, <3>2
    <2>3. CASE r = 2
      <3>1. k = 4 * m + 2 /\ (4 * m + 2 + 3) \div 4 = m + 1 /\ (4 * m + 2 - 1) % 4 = 1 /\ k # 0
        BY <1>3, <2>3
      <3>2. Written(k) = 3 * m + 1
        BY <3>1, WrittenValue
      <3> QED BY <3>1, <3>2
    <2>4. CASE r = 3
      <3>1. k = 4 * m + 3 /\ (4 * m + 3 + 3) \div 4 = m + 1 /\ (4 * m + 3 - 1) % 4 = 2 /\ k # 0
        BY <1>3, <2>4
      <3>2. Written(k) = 3 * m + 2
        BY <3>1, WrittenValue
      <3> QED BY <3>1, <3>2
    <2> QED BY <2>1, <2>2, <2>3, <2>4
  <1> QED BY <1>5, <1>6, <1>7, <1>8

\* What the decoder gives: as many bytes as the symbols make, each from two of them.
DecodedByte(s, k) ==
  LET q == (k - 1) \div 3
      at == 4 * q + ((k - 1) % 3) + 1
  IN CASE k % 3 = 1 -> (s[at] * 4 + (s[at + 1] \div 16)) % 256
       [] k % 3 = 2 -> (s[at] * 16 + (s[at + 1] \div 4)) % 256
       [] OTHER     -> (s[at] * 64 + s[at + 1]) % 256

\* The symbols of three bytes, by their place among the four.
LEMMA SymbolAt ==
  ASSUME NEW b, NEW q \in Nat, NEW d \in 0 .. 3, NEW t, t = 1 + 3 * q, NEW j, j = 4 * q + d + 1
  PROVE  Symbol(b, 1, j) =
           IF d = 0 THEN ByteAt(b, t) \div 4
           ELSE IF d = 1 THEN (ByteAt(b, t) % 4) * 16 + (ByteAt(b, t + 1) \div 16)
           ELSE IF d = 2 THEN IF t + 1 > Len(b) THEN Pad
                              ELSE (ByteAt(b, t + 1) % 16) * 4 + (ByteAt(b, t + 2) \div 64)
           ELSE IF t + 2 > Len(b) THEN Pad ELSE ByteAt(b, t + 2) % 64
  <1>1. (j - 1) \div 4 = q /\ (j - 1) % 4 = d
    OBVIOUS
  <1>2. 1 + 3 * ((j - 1) \div 4) = t
    BY <1>1
  <1> QED BY <1>1, <1>2, Zenon DEF Symbol

\* Where the bytes are there the symbol is none of padding.
LEMMA SymbolProper ==
  ASSUME NEW b \in Seq(Bytes8), NEW q \in Nat, NEW d \in 0 .. 3,
         d = 2 => (1 + 3 * q) + 1 <= Len(b), d = 3 => (1 + 3 * q) + 2 <= Len(b)
  PROVE  Symbol(b, 1, 4 * q + d + 1) \in 0 .. 63
  <1> DEFINE j == 4 * q + d + 1
             t == 1 + 3 * q
  <1>1. (j - 1) \div 4 = q /\ (j - 1) % 4 = d
    OBVIOUS
  <1>2. t \in Nat \ {0} /\ t + 1 \in Nat \ {0} /\ t + 2 \in Nat \ {0} /\ Len(b) \in Nat
    OBVIOUS
  <1>3. PICK x \in 0 .. 255 : x = ByteAt(b, t)
    BY <1>2, BytesAt
  <1>4. PICK y \in 0 .. 255 : y = ByteAt(b, t + 1)
    BY <1>2, BytesAt
  <1>5. PICK z \in 0 .. 255 : z = ByteAt(b, t + 2)
    BY <1>2, BytesAt
  <1>6. /\ d = 2 => ~(t + 1 > Len(b))
        /\ d = 3 => ~(t + 2 > Len(b))
    BY <1>2
  <1> HIDE DEF t, j
  <1>7. Symbol(b, 1, j) =
          IF d = 0 THEN x \div 4
          ELSE IF d = 1 THEN (x % 4) * 16 + (y \div 16)
          ELSE IF d = 2 THEN IF t + 1 > Len(b) THEN Pad ELSE (y % 16) * 4 + (z \div 64)
          ELSE IF t + 2 > Len(b) THEN Pad ELSE z % 64
    <2>1. Symbol(b, 1, j) =
            IF d = 0 THEN ByteAt(b, t) \div 4
            ELSE IF d = 1 THEN (ByteAt(b, t) % 4) * 16 + (ByteAt(b, t + 1) \div 16)
            ELSE IF d = 2 THEN IF t + 1 > Len(b) THEN Pad
                               ELSE (ByteAt(b, t + 1) % 16) * 4 + (ByteAt(b, t + 2) \div 64)
            ELSE IF t + 2 > Len(b) THEN Pad ELSE ByteAt(b, t + 2) % 64
      BY SymbolAt DEF t, j
    <2> QED BY <1>3, <1>4, <1>5, <2>1
  <1>8. /\ x \div 4 \in 0 .. 63 /\ (x % 4) * 16 + (y \div 16) \in 0 .. 63
        /\ (y % 16) * 4 + (z \div 64) \in 0 .. 63 /\ z % 64 \in 0 .. 63
    OBVIOUS
  <1>9. d = 0 \/ d = 1 \/ d = 2 \/ d = 3
    OBVIOUS
  <1>10. Symbol(b, 1, j) \in 0 .. 63
    <2>1. CASE d = 0
      BY <1>7, <1>8, <2>1, ZenonT(40)
    <2>2. CASE d = 1
      <3>1. Symbol(b, 1, j) = (x % 4) * 16 + (y \div 16)
        BY <1>7, <2>2
      <3> QED BY <1>8, <3>1, ZenonT(40)
    <2>3. CASE d = 2
      <3>1. Symbol(b, 1, j) = (y % 16) * 4 + (z \div 64)
        BY <1>6, <1>7, <2>3
      <3> QED BY <1>8, <3>1, ZenonT(40)
    <2>4. CASE d = 3
      <3>1. Symbol(b, 1, j) = z % 64
        BY <1>6, <1>7, <2>4
      <3> QED BY <1>8, <3>1, ZenonT(40)
    <2> QED BY <1>9, <2>1, <2>2, <2>3, <2>4
  <1> QED BY <1>10 DEF j

\* The two symbols that byte k is read from.
ByteSymbols(b, e, c, d, k, at) ==
  /\ at + 1 <= c /\ b[k] \in 0 .. 255
  /\ d = 0 => /\ e[at] = b[k] \div 4 /\ e[at + 1] = (b[k] % 4) * 16 + (ByteAt(b, k + 1) \div 16)
              /\ ByteAt(b, k + 1) \in 0 .. 255
  /\ d = 1 => /\ \E y \in 0 .. 255 : e[at] = (y % 4) * 16 + (b[k] \div 16)
              /\ e[at + 1] = (b[k] % 16) * 4 + (ByteAt(b, k + 1) \div 64)
              /\ ByteAt(b, k + 1) \in 0 .. 255
  /\ d = 2 => /\ \E y \in 0 .. 255 : e[at] = (y % 16) * 4 + (b[k] \div 64)
              /\ e[at + 1] = b[k] % 64

\* Decoding what was encoded gives it back, and the length function counts it.
LEMMA Base64Back ==
  ASSUME NEW b \in Seq(Bytes8)
  PROVE  /\ Base64decode(Base64encode(b)) = b
         /\ Len(Base64encode(b)) + 1 = Base64encode_len(Len(b))
  <1> DEFINE n == Len(b)
             e == Base64encode(b)
             N == SymbolsFrom(b, 1)
             s == Coded(e)
  <1>1. n \in Nat /\ \A k \in 1 .. n : b[k] \in 0 .. 255
    BY ElementOfSeq DEF Bytes8
  <1>2. /\ N \in Nat /\ e \in Seq(Symbols) /\ Len(e) = N
        /\ \A j \in 1 .. N : e[j] = Symbol(b, 1, j)
    <2>1. 1 \in Nat \ {0}
      OBVIOUS
    <2>2. e = EncodedFrom(b, 1)
      BY EncodeSymbols
    <2> HIDE DEF e, N
    <2> QED BY <2>1, <2>2, EncodedSeq DEF N
  <1>3. PICK m \in Nat, r \in 0 .. 2 : n = 3 * m + r
    <2>1. n = 3 * (n \div 3) + (n % 3) /\ n \div 3 \in Nat /\ n % 3 \in 0 .. 2
      BY <1>1
    <2> QED BY <2>1
  <1>4. N = IF r = 0 THEN 4 * m ELSE 4 * m + 4
    <2>1. N = IF n = 0 THEN 0 ELSE 4 * ((n + 2) \div 3)
      <3>1. n - 1 + 3 = n + 2 /\ (1 > n <=> n = 0)
        BY <1>1
      <3> QED BY <3>1 DEF SymbolsFrom
    <2>2. CASE r = 0
      <3>1. n = 3 * m /\ (n + 2) \div 3 = m /\ (n = 0 <=> m = 0)
        BY <1>3, <2>2
      <3> QED BY <2>1, <2>2, <3>1
    <2>3. CASE r # 0
      <3>1. n # 0 /\ (n + 2) \div 3 = m + 1
        BY <1>3, <2>3
      <3> QED BY <2>1, <2>3, <3>1
    <2> QED BY <2>2, <2>3
  <1> HIDE DEF e, N
  \* The symbols that count.
  <1> DEFINE c == IF r = 0 THEN 4 * m ELSE 4 * m + r + 1
  <1>5. c \in Nat /\ c <= N /\ Written(c) = n
    <2>1. CASE r = 0
      BY <1>3, <1>4, <2>1, WrittenValue
    <2>2. CASE r = 1
      <3>1. c = 4 * m + 2
        BY <2>2
      <3> QED BY <1>3, <1>4, <2>2, <3>1, WrittenValue
    <2>3. CASE r = 2
      <3>1. c = 4 * m + 3
        BY <2>3
      <3> QED BY <1>3, <1>4, <2>3, <3>1, WrittenValue
    <2> QED BY <2>1, <2>2, <2>3
  \* The symbols of byte k.
  <1>6. ASSUME NEW q \in Nat, NEW d \in 0 .. 2, 3 * q + d + 1 <= n
        PROVE  ByteSymbols(b, e, c, d, 3 * q + d + 1, 4 * q + d + 1)
    <2> DEFINE k == 3 * q + d + 1
               at == 4 * q + d + 1
               x == b[k]
    <2>1. at + 1 <= c /\ at \in 1 .. N /\ at + 1 \in 1 .. N
      <3>1. q <= m /\ (q = m => d < r)
        BY <1>3, <1>6
      <3>2. (r # 0 => c = 4 * m + r + 1) /\ c >= 4 * m
        OBVIOUS
      <3> HIDE DEF c
      <3>3. at + 1 <= c
        <4>1. CASE q = m
          BY <1>5, <3>1, <3>2, <4>1
        <4>2. CASE q < m
          BY <1>5, <3>1, <3>2, <4>2
        <4> QED BY <3>1, <4>1, <4>2
      <3> QED BY <1>2, <1>5, <3>3
    <2>2. e[at] = Symbol(b, 1, at) /\ e[at + 1] = Symbol(b, 1, at + 1)
      BY <1>2, <2>1
    <2>3. k \in 1 .. n /\ x \in 0 .. 255 /\ ByteAt(b, k) = x
      <3>1. k \in 1 .. n
        BY <1>1, <1>6
      <3> HIDE DEF k
      <3> QED BY <1>1, <3>1 DEF ByteAt
    <2>4. ByteAt(b, k + 1) \in 0 .. 255
      <3>1. k + 1 \in Nat \ {0}
        BY <2>3, <1>1
      <3> QED BY <3>1, BytesAt
    <2> DEFINE t == 1 + 3 * q
    <2>5. t \in Nat \ {0} /\ t + 1 \in Nat \ {0} /\ t + 2 \in Nat \ {0}
      OBVIOUS
    <2>6. CASE d = 0
      <3>1. t = k /\ at = 4 * q + 0 + 1 /\ at + 1 = 4 * q + 1 + 1
        BY <2>6
      <3> HIDE DEF at, k, t
      <3>2. Symbol(b, 1, at) = ByteAt(b, t) \div 4
        BY <3>1, SymbolAt DEF t
      <3>3. Symbol(b, 1, at + 1) = (ByteAt(b, t) % 4) * 16 + (ByteAt(b, t + 1) \div 16)
        BY <3>1, SymbolAt DEF t
      <3>4. e[at] = x \div 4 /\ e[at + 1] = (x % 4) * 16 + (ByteAt(b, k + 1) \div 16)
        BY <2>2, <2>3, <3>1, <3>2, <3>3
      <3> QED BY <2>1, <2>3, <2>4, <2>6, <3>4 DEF ByteSymbols, at, k
    <2>7. CASE d = 1
      <3>1. t + 1 = k /\ t + 2 = k + 1 /\ at = 4 * q + 1 + 1 /\ at + 1 = 4 * q + 2 + 1 /\ ~(t + 1 > n)
        BY <1>1, <1>6, <2>7
      <3> HIDE DEF at, k, t
      <3>2. Symbol(b, 1, at) = (ByteAt(b, t) % 4) * 16 + (ByteAt(b, t + 1) \div 16)
        BY <3>1, SymbolAt DEF t
      <3>3. Symbol(b, 1, at + 1) = (ByteAt(b, t + 1) % 16) * 4 + (ByteAt(b, t + 2) \div 64)
        <4>1. Symbol(b, 1, at + 1) =
                IF t + 1 > Len(b) THEN Pad
                ELSE (ByteAt(b, t + 1) % 16) * 4 + (ByteAt(b, t + 2) \div 64)
          BY <3>1, SymbolAt DEF t
        <4> QED BY <3>1, <4>1
      <3>4. ByteAt(b, t) \in 0 .. 255
        BY <2>5, BytesAt
      <3>5. /\ \E y \in 0 .. 255 : e[at] = (y % 4) * 16 + (x \div 16)
            /\ e[at + 1] = (x % 16) * 4 + (ByteAt(b, k + 1) \div 64)
        BY <2>2, <2>3, <3>1, <3>2, <3>3, <3>4
      <3> QED BY <2>1, <2>3, <2>4, <2>7, <3>5, SMTT(30) DEF ByteSymbols, at, k
    <2>8. CASE d = 2
      <3>1. t + 2 = k /\ at = 4 * q + 2 + 1 /\ at + 1 = 4 * q + 3 + 1 /\ ~(t + 1 > n) /\ ~(t + 2 > n)
        BY <1>1, <1>6, <2>8
      <3> HIDE DEF at, k, t
      <3>2. Symbol(b, 1, at) = (ByteAt(b, t + 1) % 16) * 4 + (ByteAt(b, t + 2) \div 64)
        <4>1. Symbol(b, 1, at) =
                IF t + 1 > Len(b) THEN Pad
                ELSE (ByteAt(b, t + 1) % 16) * 4 + (ByteAt(b, t + 2) \div 64)
          BY <3>1, SymbolAt DEF t
        <4> QED BY <3>1, <4>1
      <3>3. Symbol(b, 1, at + 1) = ByteAt(b, t + 2) % 64
        <4>1. Symbol(b, 1, at + 1) = IF t + 2 > Len(b) THEN Pad ELSE ByteAt(b, t + 2) % 64
          BY <3>1, SymbolAt DEF t
        <4> QED BY <3>1, <4>1
      <3>4. ByteAt(b, t + 1) \in 0 .. 255
        BY <2>5, BytesAt
      <3>5. /\ \E y \in 0 .. 255 : e[at] = (y % 16) * 4 + (x \div 64)
            /\ e[at + 1] = x % 64
        BY <2>2, <2>3, <3>1, <3>2, <3>3, <3>4
      <3>6. d # 0 /\ d # 1
        BY <2>8
      <3>7. ByteSymbols(b, e, c, d, k, at)
        <4> HIDE DEF c
        <4> QED BY <2>1, <2>3, <3>5, <3>6 DEF ByteSymbols
      <3> QED BY <3>7 DEF at, k
    <2> QED BY <2>6, <2>7, <2>8
  <1>7. c < N => e[c + 1] = Pad
    <2> SUFFICES ASSUME c < N PROVE e[c + 1] = Pad
      OBVIOUS
    <2>9. e[c + 1] = Symbol(b, 1, c + 1)
      <3> HIDE DEF c
      <3>1. c + 1 \in 1 .. N
        BY <1>2, <1>5
      <3> QED BY <1>2, <3>1
    <2> SUFFICES Symbol(b, 1, c + 1) = Pad
      BY <2>9
    <2>1. CASE r = 1
      <3>1. c + 1 = 4 * m + 3 /\ (4 * m + 3 - 1) \div 4 = m /\ (4 * m + 3 - 1) % 4 = 2
            /\ (1 + 3 * m) + 1 > n
        BY <1>3, <2>1
      <3> HIDE DEF c
      <3> QED BY <3>1 DEF Symbol
    <2>2. CASE r = 2
      <3>1. c + 1 = 4 * m + 4 /\ (4 * m + 4 - 1) \div 4 = m /\ (4 * m + 4 - 1) % 4 = 3
            /\ (1 + 3 * m) + 2 > n
        BY <1>3, <2>2
      <3> HIDE DEF c
      <3> QED BY <3>1 DEF Symbol
    <2>3. CASE r = 0
      BY <1>4, <2>3
    <2> QED BY <2>1, <2>2, <2>3
  <1>8. ASSUME NEW j \in 1 .. c PROVE e[j] \in 0 .. 63
    <2>1. PICK q \in Nat, d \in 0 .. 3 : j = 4 * q + d + 1
      <3>1. PICK i \in Nat : j = i + 1
        <4>1. j - 1 \in Nat /\ j = (j - 1) + 1
          BY <1>5
        <4> QED BY <4>1
      <3>2. i = 4 * (i \div 4) + (i % 4) /\ i \div 4 \in Nat /\ i % 4 \in 0 .. 3
        OBVIOUS
      <3> QED BY <3>1, <3>2
    <2>2. (d = 2 => (1 + 3 * q) + 1 <= n) /\ (d = 3 => (1 + 3 * q) + 2 <= n)
      <3>1. 4 * q + d + 1 <= c
        BY <2>1, <1>5
      <3>2. CASE q >= m
        BY <1>3, <3>1, <3>2
      <3>3. CASE q < m
        BY <1>3, <3>3
      <3> QED BY <3>2, <3>3
    <2>3. Symbol(b, 1, 4 * q + d + 1) \in 0 .. 63
      BY <2>2, SymbolProper
    <2>4. j \in 1 .. N
      BY <1>2, <1>5
    <2> HIDE DEF c
    <2> QED BY <1>2, <2>1, <2>3, <2>4
  <1>9. s \in Seq(0 .. 63) /\ Len(s) = c /\ \A i \in 1 .. c : s[i] = e[i]
    <2>1. e \in Seq(Nat)
      <3>1. Symbols \subseteq Nat
        BY DEF Symbols
      <3>2. \A i \in 1 .. N : e[i] \in Nat
        BY <1>2, <3>1, ElementOfSeq
      <3> QED BY <1>2, <3>1, <3>2, SeqDef
    <2>2. PICK k \in 0 .. Len(e) :
            /\ s \in Seq(0 .. 63) /\ Len(s) = k
            /\ \A i \in 1 .. k : s[i] = e[i] /\ e[i] \in 0 .. 63
            /\ k < Len(e) => e[k + 1] >= Pad
      BY <2>1, CodedPrefix
    <2> HIDE DEF s, c
    <2>3. ~(k < c)
      <3> SUFFICES ASSUME k < c PROVE FALSE
        OBVIOUS
      <3>1. k + 1 \in 1 .. c /\ k < Len(e)
        BY <1>2, <1>5
      <3>2. PICK x \in 0 .. 63 : x = e[k + 1]
        BY <1>8, <3>1
      <3>3. x >= Pad
        BY <2>2, <3>1, <3>2
      <3> QED BY <3>3 DEF Pad
    <2>4. ~(k > c)
      <3> SUFFICES ASSUME k > c PROVE FALSE
        OBVIOUS
      <3>1. c + 1 \in 1 .. k /\ c < N
        BY <1>2, <1>5
      <3>2. e[c + 1] = Pad /\ e[c + 1] \in 0 .. 63
        BY <1>7, <2>2, <3>1
      <3> QED BY <3>2 DEF Pad
    <2>5. k = c
      BY <1>2, <1>5, <2>3, <2>4
    <2> QED BY <2>2, <2>5
  <1>10. Base64decode(e) = [i \in 1 .. n |-> DecodedByte(s, i)]
    <2>1. Base64decode(e) = [i \in 1 .. Written(Len(s)) |-> DecodedByte(s, i)]
      BY DEF Base64decode, Written, DecodedByte
    <2> HIDE DEF s, c, n
    <2> QED BY <1>5, <1>9, <2>1
  <1> HIDE DEF s, c
  <1>11. ASSUME NEW i \in 1 .. n PROVE DecodedByte(s, i) = b[i]
    <2>1. PICK q \in Nat, d \in 0 .. 2 : i = 3 * q + d + 1
      <3>1. PICK j \in Nat : i = j + 1
        <4>1. i - 1 \in Nat /\ i = (i - 1) + 1
          BY <1>1
        <4> QED BY <4>1
      <3>2. j = 3 * (j \div 3) + (j % 3) /\ j \div 3 \in Nat /\ j % 3 \in 0 .. 2
        OBVIOUS
      <3> QED BY <3>1, <3>2
    <2>2. (i - 1) \div 3 = q /\ (i - 1) % 3 = d
          /\ (i % 3 = 1 <=> d = 0) /\ (i % 3 = 2 <=> d = 1)
      BY <2>1
    <2> DEFINE at == 4 * q + d + 1
    <2>3. DecodedByte(s, i) =
            IF d = 0 THEN (s[at] * 4 + (s[at + 1] \div 16)) % 256
            ELSE IF d = 1 THEN (s[at] * 16 + (s[at + 1] \div 4)) % 256
            ELSE (s[at] * 64 + s[at + 1]) % 256
      BY <2>2 DEF DecodedByte
    <2>4. 3 * q + d + 1 <= n /\ b[3 * q + d + 1] = b[i]
      BY <2>1
    <2>5. ByteSymbols(b, e, c, d, i, at)
      <3>1. ByteSymbols(b, e, c, d, 3 * q + d + 1, 4 * q + d + 1)
        BY <1>6, <2>4
      <3> QED BY <2>1, <3>1
    <2>6. at \in 1 .. c /\ at + 1 \in 1 .. c
      BY <2>5, <1>5 DEF ByteSymbols
    <2> HIDE DEF at, n
    <2>7. s[at] = e[at] /\ s[at + 1] = e[at + 1]
      BY <1>9, <2>6
    <2>8. PICK x \in 0 .. 255 : x = b[i]
      BY <2>5 DEF ByteSymbols
    <2>9. CASE d = 0
      <3>1. PICK y \in 0 .. 255 : y = ByteAt(b, i + 1)
        BY <2>5, <2>9 DEF ByteSymbols
      <3>2. s[at] = x \div 4 /\ s[at + 1] = (x % 4) * 16 + (y \div 16)
        BY <2>5, <2>7, <2>8, <2>9, <3>1 DEF ByteSymbols
      <3>3. ((x \div 4) * 4 + (((x % 4) * 16 + (y \div 16)) \div 16)) % 256 = x
        OBVIOUS
      <3> QED BY <2>3, <2>8, <2>9, <3>2, <3>3
    <2>10. CASE d = 1
      <3>1. PICK z \in 0 .. 255 : z = ByteAt(b, i + 1)
        BY <2>5, <2>10 DEF ByteSymbols
      <3>2. PICK y \in 0 .. 255 : e[at] = (y % 4) * 16 + (x \div 16)
        BY <2>5, <2>8, <2>10 DEF ByteSymbols
      <3>3. s[at] = (y % 4) * 16 + (x \div 16) /\ s[at + 1] = (x % 16) * 4 + (z \div 64)
        BY <2>5, <2>7, <2>8, <2>10, <3>1, <3>2 DEF ByteSymbols
      <3>4. (((y % 4) * 16 + (x \div 16)) * 16 + (((x % 16) * 4 + (z \div 64)) \div 4)) % 256 = x
        OBVIOUS
      <3> QED BY <2>3, <2>8, <2>10, <3>3, <3>4
    <2>11. CASE d = 2
      <3>1. PICK y \in 0 .. 255 : e[at] = (y % 16) * 4 + (x \div 64)
        BY <2>5, <2>8, <2>11 DEF ByteSymbols
      <3>2. s[at] = (y % 16) * 4 + (x \div 64) /\ s[at + 1] = x % 64
        BY <2>5, <2>7, <2>8, <2>11, <3>1 DEF ByteSymbols
      <3>3. (((y % 16) * 4 + (x \div 64)) * 64 + (x % 64)) % 256 = x
        OBVIOUS
      <3> QED BY <2>3, <2>8, <2>11, <3>2, <3>3
    <2> QED BY <2>9, <2>10, <2>11
  <1>12. Base64decode(e) = b
    <2>1. b = [i \in 1 .. n |-> b[i]]
      BY LenProperties
    <2> HIDE DEF n
    <2> QED BY <1>10, <1>11, <2>1
  <1>13. Len(e) + 1 = Base64encode_len(n)
    <2>1. CASE r = 0
      <3>1. (n + 2) \div 3 = m
        BY <1>3, <2>1
      <3> QED BY <1>2, <1>4, <2>1, <3>1 DEF Base64encode_len
    <2>2. CASE r # 0
      <3>1. (n + 2) \div 3 = m + 1
        BY <1>3, <2>2
      <3> QED BY <1>2, <1>4, <2>2, <3>1 DEF Base64encode_len
    <2> QED BY <2>1, <2>2
  <1> QED BY <1>12, <1>13 DEF e

-----------------------------------------------------------------------------
(*****************************************************************************)
(* The theorems.                                                             *)
(*****************************************************************************)
\* An input consists of symbols of its part.
InputInv == input \in Seq(Alphabet[part])

\* It begins empty and grows by one of them.
LEMMA InputSeq == InputSpec => []InputInv
  <1>1. ASSUME InputInit PROVE InputInv
    <2>1. input = <<>>
      BY <1>1 DEF InputInit
    <2> QED BY <2>1 DEF InputInv
  <1>2. ASSUME InputInv, [InputNext]_inputvars PROVE InputInv'
    <2>1. CASE More
      <3>1. PICK c \in Alphabet[part] : input' = Append(input, c)
        BY <2>1 DEF More
      <3>2. part' = part
        BY <2>1 DEF More
      <3>3. Append(input, c) \in Seq(Alphabet[part])
        BY <1>2, AppendProperties DEF InputInv
      <3> QED BY <3>1, <3>2, <3>3 DEF InputInv
    <2>2. CASE Give \/ UNCHANGED inputvars
      BY <1>2, <2>2 DEF Give, inputvars, InputInv
    <2> QED BY <1>2, <2>1, <2>2 DEF InputNext
  <1> QED BY <1>1, <1>2, PTL DEF InputSpec

\* In every text over every alphabet FindPostion, replaceAll, SplitString, ReplaceText,
\* trim and the comparisons agree with the occurrences of the texts they look for.
THEOREM SearchesText == InputSpec => []TextSearch
  <1>1. ASSUME InputInv PROVE TextSearch
    <2> DEFINE C == Alphabet["text"]
    <2> SUFFICES ASSUME part = "text", NEW w \in Words \ {<<>>}
                 PROVE  /\ FindsFirst(input, w)
                        /\ \A v \in Words : ReplacesEvery(input, w, v)
                        /\ \A v \in Words \ {<<>>} : SplitsBetween(input, w, v)
      BY DEF TextSearch
    <2>1. input \in Seq(C) /\ w \in Seq(C) /\ w # <<>> /\ Words \subseteq Seq(C)
          /\ LowerOf \in [C -> C]
      BY <1>1, InputAssumption DEF InputInv
    <2> HIDE DEF C
    <2>2. FindsFirst(input, w)
      BY <2>1, FindFirst
    <2>3. ASSUME NEW v \in Words PROVE ReplacesEvery(input, w, v)
      BY <2>1, ReplaceScans
    <2>4. ASSUME NEW v \in Words \ {<<>>} PROVE SplitsBetween(input, w, v)
      <3>1. v \in Seq(C) /\ v # <<>>
        BY <2>1
      <3> QED BY <2>1, <3>1, SplitBetween
    <2> QED BY <2>2, <2>3, <2>4
  <1> QED BY <1>1, InputSeq, PTL

\* Bytes of any number come back from their Base64 and hexadecimal text, the encoder
\* fills the buffer its length function asks for, and the decoder stays in its own,
\* whatever text it is given.
THEOREM BytesComeBack == \A bytes \in Seq(Bytes8) : Base64Agrees(bytes)
  <1> SUFFICES ASSUME NEW bytes \in Seq(Bytes8) PROVE Base64Agrees(bytes)
    OBVIOUS
  <1>1. bytes \in Seq(Nat)
    <2>1. Bytes8 \subseteq Nat
      BY DEF Bytes8
    <2>2. \A i \in 1 .. Len(bytes) : bytes[i] \in Nat
      BY <2>1, ElementOfSeq
    <2> QED BY <2>2, SeqDef, LenProperties
  <1> QED BY <1>1, Base64Back, DecodeFits, HexBack DEF Base64Agrees

\* Two ends that begin with the same key understand each other, for every key, any
\* number of messages of any length, and every cut of a message at a multiple of four.
THEOREM MasksUnderstood ==
  \A key \in Keys, messages \in Seq(Seq(Bytes8)) : MaskAgrees(key, messages)
  BY MasksAgree
==============================================================================
