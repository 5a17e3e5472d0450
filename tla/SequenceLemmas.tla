---------------------------- MODULE SequenceLemmas ----------------------------
(***************************************************************************)
(* What several proofs need of numbers and sequences.                      *)
(***************************************************************************)
EXTENDS Integers, Sequences, SequencesExt, SequenceTheorems, WellFoundedInduction, TLAPS

(* A set of numbers that is not empty has a least element: a recursive      *)
(* function is what it should be, or there is a least argument at which it  *)
(* is not.                                                                  *)
LEMMA LeastNumber ==
    ASSUME NEW T, T \subseteq Nat, T # {}
    PROVE  \E x \in T : \A y \in T : x <= y
<1> DEFINE R == {ss \in Nat \X Nat : ss[1] < ss[2]}
<1>1. IsWellFoundedOn(R, Nat)
  BY NatLessThanWellFounded DEF OpToRel
<1>2. PICK x \in T : \A y \in T : ~ (<<y, x>> \in R)
  <2> HIDE DEF R
  <2> QED
    BY <1>1, WFMin
<1>3. ASSUME NEW y \in T PROVE x <= y
  <2>1. x \in Nat /\ y \in Nat
    OBVIOUS
  <2>2. ~(<<y, x>> \in R)
    BY <1>2
  <2> QED
    BY <2>1, <2>2
<1> QED
  BY <1>3

(* h[k] makes value k of value k - 1. *)
Recursion(g, a, n, h) == g[0] = a /\ \A k \in 1..n : g[k] = h[k][g[k - 1]]

(* A recursion over the numbers up to n has a solution: there is no least   *)
(* number up to which it has none.                                          *)
LEMMA RecursionExists ==
    ASSUME NEW S, NEW a \in S, NEW n \in Nat, NEW h, \A k \in 1..n : h[k] \in [S -> S]
    PROVE  \E g \in [0..n -> S] : Recursion(g, a, n, h)
<1> DEFINE Solved(m) ==
              \E g \in [0..m -> S] : g[0] = a /\ \A k \in 1..m : g[k] = h[k][g[k - 1]]
           T == {m \in 0..n : ~Solved(m)}
<1>1. Solved(0)
  <2> DEFINE g == [k \in 0..0 |-> a]
  <2>1. g \in [0..0 -> S] /\ g[0] = a
    OBVIOUS
  <2> HIDE DEF g
  <2>2. \A k \in 1..0 : g[k] = h[k][g[k - 1]]
    OBVIOUS
  <2> QED
    BY <2>1, <2>2
<1>2. ASSUME NEW m \in 0..n, m # 0, Solved(m - 1)
      PROVE  Solved(m)
  <2>1. PICK g \in [0..(m - 1) -> S] :
           g[0] = a /\ \A k \in 1..(m - 1) : g[k] = h[k][g[k - 1]]
    BY <1>2
  <2>2. g[m - 1] \in S /\ m \in 1..n
    BY <1>2, <2>1
  <2>3. h[m][g[m - 1]] \in S
    BY <2>2
  <2> DEFINE f == [k \in 0..m |-> IF k = m THEN h[m][g[m - 1]] ELSE g[k]]
  <2>4. f \in [0..m -> S]
    BY <2>1, <2>3
  <2>5. f[m] = h[m][g[m - 1]] /\ \A k \in 0..(m - 1) : f[k] = g[k]
    OBVIOUS
  <2> HIDE DEF f
  <2>6. f[0] = a
    BY <1>2, <2>1, <2>5
  <2>7. ASSUME NEW k \in 1..m PROVE f[k] = h[k][f[k - 1]]
    <3>1. k - 1 \in 0..(m - 1)
      OBVIOUS
    <3>2. CASE k = m
      BY <2>5, <3>1, <3>2
    <3>3. CASE k # m
      <4>1. k \in 1..(m - 1) /\ k \in 0..(m - 1)
        BY <3>3
      <4>2. g[k] = h[k][g[k - 1]]
        BY <2>1, <4>1
      <4>3. f[k] = g[k] /\ f[k - 1] = g[k - 1]
        BY <2>5, <3>1, <4>1
      <4> QED
        BY <4>2, <4>3
    <3> QED
      BY <3>2, <3>3
  <2> QED
    BY <2>4, <2>6, <2>7
<1> HIDE DEF Solved
<1>3. ASSUME T # {} PROVE FALSE
  <2>0. T \subseteq Nat
    OBVIOUS
  <2>1. PICK x \in T : \A y \in T : x <= y
    <3> HIDE DEF T
    <3> QED
      BY <1>3, <2>0, LeastNumber
  <2>2. x \in 0..n /\ ~Solved(x) /\ x # 0
    BY <1>1
  <2>3. x - 1 \in 0..n /\ ~(x - 1 \in T)
    BY <2>1, <2>2
  <2>4. Solved(x - 1)
    BY <2>3
  <2> QED
    BY <1>2, <2>2, <2>4
<1>4. Solved(n)
  BY <1>3
<1> QED
  BY <1>4 DEF Solved, Recursion

-----------------------------------------------------------------------------
(* Concatenations. *)

(* A sequence is its first elements and the others. *)
LEMMA CutInTwo ==
    ASSUME NEW S, NEW s \in Seq(S), NEW m \in 0..Len(s)
    PROVE  /\ SubSeq(s, 1, m) \in Seq(S) /\ Len(SubSeq(s, 1, m)) = m
           /\ SubSeq(s, m + 1, Len(s)) \in Seq(S)
           /\ Len(SubSeq(s, m + 1, Len(s))) = Len(s) - m
           /\ s = SubSeq(s, 1, m) \o SubSeq(s, m + 1, Len(s))
           /\ \A i \in 1..m : SubSeq(s, 1, m)[i] = s[i]
           /\ \A i \in 1..(Len(s) - m) : SubSeq(s, m + 1, Len(s))[i] = s[m + i]
<1>1. Len(s) \in Nat /\ \A i \in 1..Len(s) : s[i] \in S
  BY LenProperties, ElementOfSeq
<1>2. PICK n \in Nat : n = Len(s)
  BY <1>1
<1>3. m \in Int /\ n \in Int /\ m + 1 \in Int /\ \A i \in 1..m : s[i] \in S
  BY <1>1, <1>2
<1>4. \A i \in (m + 1)..n : s[i] \in S
  BY <1>1, <1>2
<1>5. /\ SubSeq(s, 1, m) \in Seq(S)
      /\ Len(SubSeq(s, 1, m)) = IF 1 <= m THEN m - 1 + 1 ELSE 0
      /\ \A i \in 1..(m - 1 + 1) : SubSeq(s, 1, m)[i] = s[1 + i - 1]
  BY <1>3, SubSeqProperties
<1>6. /\ SubSeq(s, m + 1, n) \in Seq(S)
      /\ Len(SubSeq(s, m + 1, n)) = IF m + 1 <= n THEN n - (m + 1) + 1 ELSE 0
      /\ \A i \in 1..(n - (m + 1) + 1) : SubSeq(s, m + 1, n)[i] = s[(m + 1) + i - 1]
  BY <1>3, <1>4, SubSeqProperties
<1>7. /\ Len(SubSeq(s, 1, m)) = m /\ Len(SubSeq(s, m + 1, n)) = n - m
      /\ \A i \in 1..m : SubSeq(s, 1, m)[i] = s[i]
      /\ \A i \in 1..(n - m) : SubSeq(s, m + 1, n)[i] = s[m + i]
  BY <1>2, <1>5, <1>6
<1>8. s = SubSeq(s, 1, m) \o SubSeq(s, m + 1, n)
  <2>1. 1 \in 1..(Len(s) + 1) /\ m \in (1 - 1)..Len(s) /\ n \in m..Len(s)
    BY <1>2
  <2> QED
    BY <1>2, <2>1, ConcatAdjacentSubSeq, SubSeqFull
<1> QED
  BY <1>2, <1>5, <1>6, <1>7, <1>8

(* Three sequences, one after the other. *)
LEMMA Regroup ==
    ASSUME NEW S, NEW p \in Seq(S), NEW q \in Seq(S), NEW r \in Seq(S)
    PROVE  (p \o q) \o r = p \o (q \o r)
BY ConcatAssociative

(* What follows a common beginning is the same. *)
LEMMA SameBehind ==
    ASSUME NEW S, NEW a \in Seq(S), NEW u \in Seq(S), NEW v \in Seq(S), a \o u = a \o v
    PROVE  u = v
<1>1. PICK l \in Nat, m \in Nat, n \in Nat : l = Len(a) /\ m = Len(u) /\ n = Len(v)
  BY LenProperties
<1>2. /\ Len(a \o u) = l + m
      /\ \A i \in 1..(l + m) : (a \o u)[i] = IF i <= l THEN a[i] ELSE u[i - l]
  BY <1>1, ConcatProperties
<1>3. /\ Len(a \o v) = l + n
      /\ \A i \in 1..(l + n) : (a \o v)[i] = IF i <= l THEN a[i] ELSE v[i - l]
  BY <1>1, ConcatProperties
<1>4. m = n
  BY <1>2, <1>3
<1>5. ASSUME NEW i \in 1..m PROVE u[i] = v[i]
  <2>1. PICK j \in 1..(l + m) : j = l + i
    BY <1>1
  <2>2. ~(j <= l) /\ j - l = i
    BY <1>1, <2>1
  <2>3. (a \o u)[j] = u[i] /\ (a \o v)[j] = v[i]
    BY <1>2, <1>3, <1>4, <2>2
  <2> QED
    BY <2>3
<1> QED
  BY <1>1, <1>4, <1>5, SeqEqual

(* Of two ways to cut a sequence, the longer first part begins with the     *)
(* shorter one.                                                             *)
LEMMA CutTwice ==
    ASSUME NEW S, NEW x \in Seq(S), NEW y \in Seq(S), NEW a \in Seq(S), NEW b \in Seq(S),
           x \o y = a \o b, Len(a) <= Len(x)
    PROVE  /\ SubSeq(x, 1, Len(a)) = a
           /\ SubSeq(x, Len(a) + 1, Len(x)) \o y = b
<1>1. Len(a) \in Nat /\ Len(x) \in Nat /\ Len(b) \in Nat /\ Len(y) \in Nat
  BY LenProperties
<1>2. PICK m \in 0..Len(x) : m = Len(a)
  BY <1>1
<1> DEFINE first == SubSeq(x, 1, m)
           rest == SubSeq(x, m + 1, Len(x))
<1>3. /\ first \in Seq(S) /\ Len(first) = m /\ rest \in Seq(S) /\ x = first \o rest
      /\ \A i \in 1..m : first[i] = x[i]
  BY CutInTwo, ZenonT(40)
<1> HIDE DEF first, rest
<1>4. \A i \in 1..m : first[i] = a[i]
  <2>1. /\ \A i \in 1..(Len(x) + Len(y)) : (x \o y)[i] = IF i <= Len(x) THEN x[i] ELSE y[i - Len(x)]
        /\ \A i \in 1..(Len(a) + Len(b)) : (a \o b)[i] = IF i <= Len(a) THEN a[i] ELSE b[i - Len(a)]
    BY ConcatProperties
  <2>2. ASSUME NEW i \in 1..m PROVE first[i] = a[i]
    <3>1. i \in 1..(Len(x) + Len(y)) /\ i <= Len(x) /\ i \in 1..(Len(a) + Len(b)) /\ i <= Len(a)
      BY <1>1, <1>2
    <3>2. (x \o y)[i] = x[i] /\ (a \o b)[i] = a[i]
      BY <2>1, <3>1
    <3> QED
      BY <1>3, <3>2
  <2> QED
    BY <2>2
<1>5. first = a
  BY <1>2, <1>3, <1>4, SeqEqual
<1>6. a \o (rest \o y) = a \o b
  <2>1. (a \o rest) \o y = a \o (rest \o y)
    <3>1. rest \in Seq(S)
      BY <1>3
    <3> QED
      BY <3>1, ConcatAssociative, SMTT(40)
  <2>2. x = a \o rest
    BY <1>3, <1>5
  <2> QED
    BY <2>1, <2>2
<1>7. rest \o y \in Seq(S)
  BY <1>3, ConcatProperties
<1>8. rest \o y = b
  BY <1>6, <1>7, SameBehind
<1> QED
  BY <1>2, <1>5, <1>8 DEF first, rest

-----------------------------------------------------------------------------
(* FlattenSeq of the community modules. *)

(* A sequence of sequences has its partial concatenations. *)
LEMMA PartsExist ==
    ASSUME NEW S, NEW ss \in Seq(Seq(S))
    PROVE  \E g \in [0..Len(ss) -> Seq(S)] :
              g[0] = <<>> /\ \A k \in 1..Len(ss) : g[k] = g[k - 1] \o ss[k]
<1>1. PICK n \in Nat : n = Len(ss)
  BY LenProperties
<1> DEFINE h == [k \in 1..n |-> [x \in Seq(S) |-> x \o ss[k]]]
<1>2. \A k \in 1..n : ss[k] \in Seq(S)
  BY <1>1, ElementOfSeq
<1>3. \A k \in 1..n, x \in Seq(S) : x \o ss[k] \in Seq(S)
  BY <1>2, ConcatProperties
<1>4. h \in [1..n -> [Seq(S) -> Seq(S)]]
  BY <1>3
<1>5. \A k \in 1..n, x \in Seq(S) : h[k][x] = x \o ss[k]
  OBVIOUS
<1>6. <<>> \in Seq(S)
  BY EmptySeq
<1> HIDE DEF h
<1>7. PICK g \in [0..n -> Seq(S)] : g[0] = <<>> /\ \A k \in 1..n : g[k] = h[k][g[k - 1]]
  <2>1. \A k \in 1..n : h[k] \in [Seq(S) -> Seq(S)]
    BY <1>4
  <2>2. \E g \in [0..n -> Seq(S)] : Recursion(g, <<>>, n, h)
    BY <1>1, <1>6, <2>1, RecursionExists
  <2> QED
    BY <2>2 DEF Recursion
<1>8. ASSUME NEW k \in 1..n PROVE g[k] = g[k - 1] \o ss[k]
  <2>1. k - 1 \in 0..n
    BY <1>1
  <2> QED
    BY <1>5, <1>7, <2>1
<1> QED
  BY <1>1, <1>7, <1>8

(* The last of them is what FlattenSeq computes: its recursion has a        *)
(* solution, and all of them agree.                                         *)
LEMMA FlattenIs ==
    ASSUME NEW S, NEW ss \in Seq(Seq(S)), NEW n, n = Len(ss), NEW g \in [0..n -> Seq(S)],
           g[0] = <<>>, \A k \in 1..n : g[k] = g[k - 1] \o ss[k]
    PROVE  FlattenSeq(ss) = g[n]
<1>1. n \in Nat /\ n = Len(ss)
  BY LenProperties
<1>2. CASE n = 0
  BY <1>1, <1>2, EmptySeq DEF FlattenSeq
<1>3. CASE n # 0
  <2> DEFINE Solves(f) ==
               f = [i \in 1..Len(ss) |-> IF i = 1 THEN ss[i] ELSE f[i - 1] \o ss[i]]
             e == CHOOSE f : Solves(f)
  <2>1. FlattenSeq(ss) = e[Len(ss)]
    BY <1>1, <1>3 DEF FlattenSeq
  <2> DEFINE w == [k \in 1..n |-> g[k]]
  <2>2. Solves(w)
    <3>1. \A k \in 1..n : w[k] = IF k = 1 THEN ss[k] ELSE w[k - 1] \o ss[k]
      <4>1. g[1] = ss[1]
        <5>1. 1 \in 1..Len(ss) /\ 1 - 1 = 0
          BY <1>1, <1>3
        <5>2. ss[1] \in Seq(S)
          BY <5>1, ElementOfSeq
        <5>3. g[1] = g[1 - 1] \o ss[1]
          BY <5>1
        <5> QED
          BY <5>1, <5>2, <5>3, ConcatEmptySeq
      <4>2. ASSUME NEW k \in 2..n PROVE w[k] = w[k - 1] \o ss[k]
        <5>1. k \in 1..Len(ss) /\ k - 1 \in 1..n
          BY <1>1
        <5> QED
          BY <1>1, <5>1
      <4>3. w[1] = ss[1]
        BY <1>1, <1>3, <4>1
      <4> HIDE DEF w
      <4>4. ASSUME NEW k \in 1..n PROVE w[k] = IF k = 1 THEN ss[k] ELSE w[k - 1] \o ss[k]
        <5>1. CASE k = 1
          BY <4>3, <5>1
        <5>2. CASE k # 1
          <6>1. k \in 2..n
            BY <1>1, <5>2
          <6> QED
            BY <4>2, <5>2, <6>1
        <5> QED
          BY <5>1, <5>2
      <4> QED
        BY <4>4
    <3>2. w = [k \in 1..n |-> w[k]]
      OBVIOUS
    <3> HIDE DEF w
    <3> QED
      BY <1>1, <3>1, <3>2
  <2> HIDE DEF Solves
  <2>3. Solves(e)
    BY <2>2
  <2>4. e = [i \in 1..n |-> IF i = 1 THEN ss[i] ELSE e[i - 1] \o ss[i]]
    BY <1>1, <2>3 DEF Solves
  <2>5. w = [i \in 1..n |-> IF i = 1 THEN ss[i] ELSE w[i - 1] \o ss[i]]
    BY <1>1, <2>2 DEF Solves
  <2> HIDE DEF e
  <2>6. \A k \in 1..n : w[k] = g[k]
    OBVIOUS
  <2> HIDE DEF w
  <2> DEFINE T == {k \in 1..n : e[k] # w[k]}
  <2>7. ASSUME T # {} PROVE FALSE
    <3>0. T \subseteq Nat
      OBVIOUS
    <3>1. PICK x \in T : \A y \in T : x <= y
      <4> HIDE DEF T
      <4> QED
        BY <2>7, <3>0, LeastNumber
    <3>2. x \in 1..n /\ e[x] # w[x]
      OBVIOUS
    <3>3. x # 1
      BY <2>4, <2>5, <3>2
    <3>4. x - 1 \in 1..n /\ ~(x - 1 \in T)
      BY <3>1, <3>2, <3>3
    <3>5. e[x - 1] = w[x - 1]
      BY <3>4
    <3>6. e[x] = e[x - 1] \o ss[x]
      BY <2>4, <3>2, <3>3
    <3>7. w[x] = w[x - 1] \o ss[x]
      BY <2>5, <3>2, <3>3
    <3> QED
      BY <3>2, <3>5, <3>6, <3>7
  <2>8. e[n] = w[n] /\ n \in 1..n
    <3>1. n \in 1..n
      BY <1>1, <1>3
    <3> QED
      BY <2>7, <3>1
  <2> QED
    BY <1>1, <2>1, <2>6, <2>8
<1> QED
  BY <1>2, <1>3

(* FlattenSeq of nothing. *)
LEMMA FlattenNone == FlattenSeq(<<>>) = <<>>
BY DEF FlattenSeq

(* FlattenSeq of one sequence more. *)
LEMMA FlattenAppend ==
    ASSUME NEW S, NEW ss \in Seq(Seq(S)), NEW s \in Seq(S)
    PROVE  /\ FlattenSeq(ss) \in Seq(S)
           /\ FlattenSeq(Append(ss, s)) = FlattenSeq(ss) \o s
<1>1. PICK n \in Nat : n = Len(ss)
  BY LenProperties
<1>2. PICK g \in [0..n -> Seq(S)] : g[0] = <<>> /\ \A k \in 1..n : g[k] = g[k - 1] \o ss[k]
  BY <1>1, PartsExist
<1>3. FlattenSeq(ss) = g[n] /\ g[n] \in Seq(S)
  <2>1. FlattenSeq(ss) = g[n]
    BY <1>1, <1>2, FlattenIs, ZenonT(40)
  <2> QED
    BY <1>2, <2>1
<1> DEFINE more == Append(ss, s)
           f == [k \in 0..(n + 1) |-> IF k = n + 1 THEN g[n] \o s ELSE g[k]]
<1>4. /\ more \in Seq(Seq(S)) /\ Len(more) = n + 1 /\ more[n + 1] = s
      /\ \A k \in 1..n : more[k] = ss[k]
  BY <1>1, AppendProperties
<1>5. g[n] \o s \in Seq(S)
  BY <1>3, ConcatProperties
<1>6. f \in [0..(n + 1) -> Seq(S)] /\ f[n + 1] = g[n] \o s /\ \A k \in 0..n : f[k] = g[k]
  BY <1>2, <1>5
<1> HIDE DEF more, f
<1>7. f[0] = <<>>
  BY <1>2, <1>6
<1>8. ASSUME NEW k \in 1..(n + 1) PROVE f[k] = f[k - 1] \o more[k]
  <2>1. CASE k = n + 1
    <3>1. f[k - 1] = g[n]
      BY <1>6, <2>1
    <3> QED
      BY <1>4, <1>6, <2>1, <3>1
  <2>2. CASE k # n + 1
    <3>1. k \in 1..n /\ k \in 0..n /\ k - 1 \in 0..n
      BY <2>2
    <3>2. g[k] = g[k - 1] \o ss[k]
      BY <1>2, <3>1
    <3> QED
      BY <1>4, <1>6, <3>1, <3>2
  <2> QED
    BY <2>1, <2>2
<1>9. FlattenSeq(more) = f[n + 1]
  <2>1. PICK m : m = n + 1
    OBVIOUS
  <2>2. /\ f \in [0..m -> Seq(S)] /\ m = Len(more) /\ more \in Seq(Seq(S))
        /\ f[0] = <<>> /\ \A k \in 1..m : f[k] = f[k - 1] \o more[k]
    BY <1>4, <1>6, <1>7, <1>8, <2>1
  <2>3. FlattenSeq(more) = f[m]
    BY <2>2, FlattenIs, ZenonT(40)
  <2> QED
    BY <2>1, <2>3
<1> QED
  BY <1>3, <1>6, <1>9 DEF more

(* The first elements of a sequence, with one more of them. *)
LEMMA OneMore ==
    ASSUME NEW S, NEW s \in Seq(S), NEW k \in 1..Len(s)
    PROVE  /\ SubSeq(s, 1, k - 1) \in Seq(S)
           /\ SubSeq(s, 1, k) = Append(SubSeq(s, 1, k - 1), s[k])
<1>1. PICK n \in Nat : n = Len(s)
  BY LenProperties
<1>2. PICK m \in 0..n : m = k - 1
  BY <1>1
<1>3. k \in 0..n /\ k \in 1..n /\ s[k] \in S
  BY <1>1, ElementOfSeq
<1> DEFINE a == SubSeq(s, 1, m)
           b == SubSeq(s, 1, k)
<1>4. a \in Seq(S) /\ Len(a) = m /\ \A i \in 1..m : a[i] = s[i]
  BY <1>1, CutInTwo
<1>5. b \in Seq(S) /\ Len(b) = k /\ \A i \in 1..k : b[i] = s[i]
  BY <1>1, <1>3, CutInTwo
<1> HIDE DEF a, b
<1>6. /\ Append(a, s[k]) \in Seq(S) /\ Len(Append(a, s[k])) = m + 1
      /\ \A i \in 1..m : Append(a, s[k])[i] = a[i]
      /\ Append(a, s[k])[m + 1] = s[k]
  BY <1>3, <1>4, AppendProperties
<1>7. ASSUME NEW i \in 1..k PROVE b[i] = Append(a, s[k])[i]
  <2>1. CASE i = k
    BY <1>2, <1>5, <1>6, <2>1
  <2>2. CASE i # k
    <3>1. i \in 1..m
      BY <1>2, <2>2
    <3> QED
      BY <1>4, <1>5, <1>6, <3>1
  <2> QED
    BY <2>1, <2>2
<1>8. Len(b) = Len(Append(a, s[k]))
  BY <1>2, <1>5, <1>6
<1>9. b = Append(a, s[k])
  BY <1>5, <1>6, <1>7, <1>8, SeqEqual
<1> QED
  BY <1>2, <1>4, <1>9 DEF a, b

(* If v[f] is what follows the sequence f, then the first k of them and     *)
(* what follows them are everything.                                        *)
LEMMA StreamsJoin ==
    ASSUME NEW S, NEW ss \in Seq(Seq(S)), NEW n \in Nat, n = Len(ss),
           NEW v \in [0..n -> Seq(S)], \A f \in 1..n : v[f - 1] = ss[f] \o v[f],
           NEW k \in 0..n
    PROVE  /\ FlattenSeq(SubSeq(ss, 1, k)) \in Seq(S)
           /\ FlattenSeq(SubSeq(ss, 1, k)) \o v[k] = v[0]
<1>0. \A p, q, r \in Seq(S) : (p \o q) \o r = p \o (q \o r)
  BY Regroup
<1> DEFINE Parts(m) == FlattenSeq(SubSeq(ss, 1, m))
           T == {m \in 0..n : Parts(m) \o v[m] # v[0]}
<1>1. ASSUME NEW m \in 0..n PROVE Parts(m) \in Seq(S)
  <2>1. SubSeq(ss, 1, m) \in Seq(Seq(S))
    BY CutInTwo
  <2>2. <<>> \in Seq(S)
    BY EmptySeq
  <2> QED
    BY <2>1, <2>2, FlattenAppend
<1>2. Parts(0) = <<>>
  <2>1. SubSeq(ss, 1, 0) = <<>>
    BY SubSeqEmpty
  <2> QED
    BY <2>1, FlattenNone
<1>3. ASSUME NEW m \in 1..n PROVE Parts(m) = Parts(m - 1) \o ss[m]
  <2>1. /\ SubSeq(ss, 1, m - 1) \in Seq(Seq(S))
        /\ SubSeq(ss, 1, m) = Append(SubSeq(ss, 1, m - 1), ss[m])
    BY OneMore
  <2>2. ss[m] \in Seq(S)
    BY ElementOfSeq
  <2>3. PICK a \in Seq(Seq(S)), b \in Seq(S) : a = SubSeq(ss, 1, m - 1) /\ b = ss[m]
    BY <2>1, <2>2
  <2>4. FlattenSeq(Append(a, b)) = FlattenSeq(a) \o b
    BY FlattenAppend
  <2> QED
    BY <2>1, <2>3, <2>4, Zenon
<1> HIDE DEF Parts
<1>4. ASSUME T # {} PROVE FALSE
  <2>1. T \subseteq Nat
    OBVIOUS
  <2>2. PICK x \in T : \A y \in T : x <= y
    <3> HIDE DEF T
    <3> QED
      BY <1>4, <2>1, LeastNumber
  <2>3. x \in 0..n /\ Parts(x) \o v[x] # v[0]
    OBVIOUS
  <2>4. x # 0
    BY <1>2, <2>3, ConcatEmptySeq, SMTT(40)
  <2>5. PICK y \in 0..n : y = x - 1
    BY <2>3, <2>4
  <2>6. x \in 1..n /\ Parts(y) \o v[y] = v[0]
    <3>1. x \in 1..n /\ ~(x <= y)
      BY <2>3, <2>4, <2>5
    <3>2. ~(y \in T)
      BY <2>2, <3>1
    <3> QED
      BY <3>1, <3>2
  <2>7. v[y] = ss[x] \o v[x] /\ Parts(x) = Parts(y) \o ss[x]
    <3>1. v[x - 1] = ss[x] \o v[x] /\ Parts(x) = Parts(x - 1) \o ss[x]
      BY <1>3, <2>6, Zenon
    <3> QED
      BY <2>5, <3>1, Zenon
  <2>8. (Parts(y) \o ss[x]) \o v[x] = Parts(y) \o (ss[x] \o v[x])
    <3>1. Parts(y) \in Seq(S) /\ ss[x] \in Seq(S) /\ v[x] \in Seq(S)
      BY <1>1, <2>3, <2>6, ElementOfSeq
    <3> QED
      BY <1>0, <3>1, Zenon
  <2> QED
    BY <2>3, <2>6, <2>7, <2>8, Zenon
<1>5. Parts(k) \o v[k] = v[0]
  BY <1>4
<1> QED
  BY <1>1, <1>5 DEF Parts

(* The first of a sequence of sequences begin the concatenation of all.     *)
LEMMA FlattenCut ==
    ASSUME NEW S, NEW ss \in Seq(Seq(S)), NEW k \in 0..Len(ss)
    PROVE  \E rest \in Seq(S) : FlattenSeq(ss) = FlattenSeq(SubSeq(ss, 1, k)) \o rest
<1>0. \A p, q, r \in Seq(S) : (p \o q) \o r = p \o (q \o r)
  BY Regroup
<1>1. PICK n \in Nat : n = Len(ss)
  BY LenProperties
<1> DEFINE Parts(m) == FlattenSeq(SubSeq(ss, 1, m))
           Begins(m) == \E rest \in Seq(S) : Parts(m) = Parts(k) \o rest
           T == {m \in k..n : ~Begins(m)}
<1>2. <<>> \in Seq(S)
  BY EmptySeq
<1>3. ASSUME NEW m \in 0..n PROVE Parts(m) \in Seq(S)
  <2>1. SubSeq(ss, 1, m) \in Seq(Seq(S))
    BY <1>1, CutInTwo
  <2> QED
    BY <1>2, <2>1, FlattenAppend
<1>4. ASSUME NEW m \in 1..n PROVE Parts(m) = Parts(m - 1) \o ss[m] /\ ss[m] \in Seq(S)
  <2>1. /\ SubSeq(ss, 1, m - 1) \in Seq(Seq(S))
        /\ SubSeq(ss, 1, m) = Append(SubSeq(ss, 1, m - 1), ss[m])
    BY <1>1, OneMore
  <2>2. ss[m] \in Seq(S)
    BY <1>1, ElementOfSeq
  <2>3. PICK a \in Seq(Seq(S)), b \in Seq(S) : a = SubSeq(ss, 1, m - 1) /\ b = ss[m]
    BY <2>1, <2>2
  <2>4. FlattenSeq(Append(a, b)) = FlattenSeq(a) \o b
    BY FlattenAppend
  <2> QED
    BY <2>1, <2>2, <2>3, <2>4, Zenon
<1>5. Parts(n) = FlattenSeq(ss)
  BY <1>1, SubSeqFull
<1> HIDE DEF Parts
<1>6. k \in 0..n /\ Parts(k) \in Seq(S)
  BY <1>1, <1>3
<1>7. Begins(k)
  BY <1>2, <1>6, ConcatEmptySeq
<1>8. ASSUME T # {} PROVE FALSE
  <2>1. T \subseteq Nat
    BY <1>6
  <2>2. PICK x \in T : \A y \in T : x <= y
    <3> HIDE DEF T
    <3> QED
      BY <1>8, <2>1, LeastNumber
  <2> HIDE DEF Begins
  <2>3. x \in k..n /\ ~Begins(x)
    OBVIOUS
  <2>4. x # k
    BY <1>7, <2>3
  <2>5. PICK y \in k..n : y = x - 1
    BY <1>6, <2>3, <2>4
  <2>6. ~(x <= y) /\ x \in 1..n
    BY <1>6, <2>3, <2>4, <2>5
  <2>7. ~(y \in T)
    BY <2>2, <2>6
  <2>8. PICK rest \in Seq(S) : Parts(y) = Parts(k) \o rest
    BY <2>7 DEF Begins
  <2>9. Parts(x) = Parts(y) \o ss[x] /\ ss[x] \in Seq(S)
    <3>1. Parts(x) = Parts(x - 1) \o ss[x] /\ ss[x] \in Seq(S)
      BY <1>4, <2>6, Zenon
    <3> QED
      BY <2>5, <3>1, Zenon
  <2>10. rest \o ss[x] \in Seq(S)
    BY <2>9, ConcatProperties
  <2>11. Parts(x) = Parts(k) \o (rest \o ss[x])
    <3>1. (Parts(k) \o rest) \o ss[x] = Parts(k) \o (rest \o ss[x])
      BY <1>0, <1>6, <2>9, Zenon
    <3> QED
      BY <2>8, <2>9, <3>1, Zenon
  <2> QED
    BY <2>3, <2>10, <2>11 DEF Begins
<1>9. Begins(n)
  <2> HIDE DEF Begins
  <2>1. n \in k..n
    BY <1>6
  <2>2. ~(n \in T)
    BY <1>8
  <2> QED
    BY <2>1, <2>2
<1> QED
  BY <1>5, <1>9 DEF Parts

(* Where the elements of one of the sequences are in the concatenation.     *)
LEMMA FlattenAt ==
    ASSUME NEW S, NEW ss \in Seq(Seq(S)), NEW k \in 1..Len(ss)
    PROVE  LET before == FlattenSeq(SubSeq(ss, 1, k - 1))
               all == FlattenSeq(ss)
           IN /\ before \in Seq(S) /\ all \in Seq(S) /\ ss[k] \in Seq(S)
              /\ FlattenSeq(SubSeq(ss, 1, k)) = before \o ss[k]
              /\ Len(FlattenSeq(SubSeq(ss, 1, k))) = Len(before) + Len(ss[k])
              /\ Len(before) + Len(ss[k]) <= Len(all)
              /\ \A i \in 1..Len(ss[k]) : all[Len(before) + i] = ss[k][i]
<1>1. SubSeq(ss, 1, k - 1) \in Seq(Seq(S)) /\ SubSeq(ss, 1, k) = Append(SubSeq(ss, 1, k - 1), ss[k])
  BY OneMore
<1>2. PICK s \in Seq(S) : s = ss[k]
  BY ElementOfSeq
<1>3. PICK b \in Seq(S), to \in Seq(S), all \in Seq(S) :
         /\ b = FlattenSeq(SubSeq(ss, 1, k - 1)) /\ to = b \o s
         /\ to = FlattenSeq(SubSeq(ss, 1, k)) /\ all = FlattenSeq(ss)
  <2>1. PICK t \in Seq(Seq(S)) : t = SubSeq(ss, 1, k - 1)
    BY <1>1
  <2>2. FlattenSeq(t) \in Seq(S) /\ FlattenSeq(Append(t, s)) = FlattenSeq(t) \o s
    BY FlattenAppend
  <2>3. FlattenSeq(t) \o s \in Seq(S)
    BY <2>2, ConcatProperties
  <2>4. FlattenSeq(ss) \in Seq(S)
    BY <1>2, FlattenAppend
  <2> QED
    BY <1>1, <1>2, <2>1, <2>2, <2>3, <2>4, Zenon
<1>4. PICK rest \in Seq(S) : all = to \o rest
  <2>1. k \in 0..Len(ss)
    OBVIOUS
  <2>2. \E rest \in Seq(S) : FlattenSeq(ss) = FlattenSeq(SubSeq(ss, 1, k)) \o rest
    BY <2>1, FlattenCut
  <2> QED
    BY <1>3, <2>2, Zenon
<1>5. PICK l \in Nat, m \in Nat, n \in Nat : l = Len(b) /\ m = Len(s) /\ n = Len(rest)
  BY LenProperties
<1>6. Len(to) = l + m /\ \A i \in 1..(l + m) : to[i] = IF i <= l THEN b[i] ELSE s[i - l]
  BY <1>3, <1>5, ConcatProperties
<1>7. /\ Len(all) = Len(to) + n
      /\ \A i \in 1..(Len(to) + n) : all[i] = IF i <= Len(to) THEN to[i] ELSE rest[i - Len(to)]
  BY <1>4, <1>5, ConcatProperties
<1>8. ASSUME NEW i \in 1..m PROVE all[l + i] = s[i]
  <2>1. PICK j \in 1..(l + m) : j = l + i /\ ~(j <= l) /\ j - l = i
    OBVIOUS
  <2>2. all[j] = to[j] /\ to[j] = s[i]
    BY <1>6, <1>7, <2>1
  <2> QED
    BY <2>1, <2>2
<1>9. Len(b) + Len(s) <= Len(all)
  BY <1>5, <1>6, <1>7
<1> QED
  BY <1>2, <1>3, <1>5, <1>6, <1>8, <1>9

(* Empty sequences at the end add nothing to the concatenation.             *)
LEMMA FlattenTail ==
    ASSUME NEW S, NEW ss \in Seq(Seq(S)), NEW k \in 0..Len(ss),
           \A j \in (k + 1)..Len(ss) : ss[j] = <<>>
    PROVE  FlattenSeq(ss) = FlattenSeq(SubSeq(ss, 1, k))
<1>1. PICK n \in Nat : n = Len(ss)
  BY LenProperties
<1> DEFINE To(m) == FlattenSeq(SubSeq(ss, 1, m))
           T == {m \in k..n : To(m) # To(k)}
<1>2. ASSUME NEW m \in (k + 1)..n PROVE To(m) = To(m - 1)
  <2>1. m \in 1..Len(ss) /\ ss[m] = <<>>
    BY <1>1
  <2>2. SubSeq(ss, 1, m - 1) \in Seq(Seq(S)) /\ SubSeq(ss, 1, m) = Append(SubSeq(ss, 1, m - 1), ss[m])
    BY <2>1, OneMore
  <2>3. PICK t \in Seq(Seq(S)) : t = SubSeq(ss, 1, m - 1)
    BY <2>2
  <2>4. <<>> \in Seq(S)
    BY EmptySeq
  <2>5. FlattenSeq(t) \in Seq(S) /\ FlattenSeq(Append(t, <<>>)) = FlattenSeq(t) \o <<>>
    BY <2>4, FlattenAppend
  <2>6. FlattenSeq(t) \o <<>> = FlattenSeq(t)
    BY <2>5, ConcatEmptySeq
  <2> QED
    BY <2>1, <2>2, <2>3, <2>5, <2>6, Zenon
<1>3. To(n) = FlattenSeq(ss)
  BY <1>1, SubSeqFull
<1> HIDE DEF To
<1>4. ASSUME T # {} PROVE FALSE
  <2>1. T \subseteq Nat
    BY <1>1
  <2>2. PICK x \in T : \A y \in T : x <= y
    <3> HIDE DEF T
    <3> QED
      BY <1>4, <2>1, LeastNumber
  <2>3. x \in k..n /\ To(x) # To(k)
    OBVIOUS
  <2>4. x # k
    BY <2>3
  <2>5. x \in (k + 1)..n /\ x - 1 \in k..n /\ ~(x <= x - 1)
    BY <1>1, <2>3, <2>4
  <2>6. x - 1 \notin T
    BY <2>2, <2>5
  <2> QED
    BY <1>2, <2>3, <2>5, <2>6
<1>5. n \in k..n
  BY <1>1
<1> QED
  BY <1>3, <1>4, <1>5 DEF To

-----------------------------------------------------------------------------
(* RemoveAt of the community modules. *)

(* RemoveAt drops exactly the element at i and keeps the order of the rest. *)
LEMMA RemoveAtProperties ==
    ASSUME NEW S, NEW s \in Seq(S), NEW i \in 1..Len(s)
    PROVE  /\ RemoveAt(s, i) \in Seq(S)
           /\ Len(RemoveAt(s, i)) = Len(s) - 1
           /\ \A j \in 1..(Len(s) - 1) :
                 RemoveAt(s, i)[j] = IF j < i THEN s[j] ELSE s[j + 1]
<1> DEFINE a == SubSeq(s, 1, i - 1)
           b == SubSeq(s, i + 1, Len(s))
<1>0. Len(s) \in Nat /\ \A j \in 1..Len(s) : s[j] \in S
  BY LenProperties, ElementOfSeq
<1>1. /\ a \in Seq(S) /\ Len(a) = i - 1
      /\ \A j \in 1..(i - 1) : a[j] = s[j]
  <2>1. \A j \in 1..(i - 1) : s[j] \in S
    BY <1>0
  <2>2. /\ a \in Seq(S)
        /\ Len(a) = IF 1 <= i - 1 THEN (i - 1) - 1 + 1 ELSE 0
        /\ \A j \in 1..((i - 1) - 1 + 1) : a[j] = s[1 + j - 1]
    BY <2>1, SubSeqProperties
  <2> QED
    BY <2>2
<1>2. /\ b \in Seq(S) /\ Len(b) = Len(s) - i
      /\ \A j \in 1..(Len(s) - i) : b[j] = s[j + i]
  OBVIOUS
<1>3. RemoveAt(s, i) = a \o b
  BY DEF RemoveAt
<1> HIDE DEF a, b
<1>4. /\ a \o b \in Seq(S)
      /\ Len(a \o b) = Len(a) + Len(b)
      /\ \A j \in 1..(Len(a) + Len(b)) :
            (a \o b)[j] = IF j <= Len(a) THEN a[j] ELSE b[j - Len(a)]
  BY <1>1, <1>2, ConcatProperties
<1> QED
  BY <1>0, <1>1, <1>2, <1>3, <1>4
=============================================================================
