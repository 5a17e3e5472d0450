------------------------------ MODULE StreamProofs ------------------------------
(***************************************************************************)
(* Proofs about the stream parser, for every set of pictures a camera may  *)
(* send, every way of cutting them into packets and every size of a        *)
(* packet; behind them, proofs about the sequence gate in front of it, for *)
(* every order in which the network delivers the datagrams and every       *)
(* number of losses.                                                       *)
(***************************************************************************)
EXTENDS UdpStream, SequenceLemmas, FiniteSetTheorems

-----------------------------------------------------------------------------
(* The pieces of a picture. *)

(* In a finite set of numbers there is a k-th smallest.                     *)
LEMMA Ranks ==
    ASSUME NEW S \in SUBSET Nat, IsFiniteSet(S), NEW k \in 1..Cardinality(S)
    PROVE  \E e \in S : Cardinality({x \in S : x <= e}) = k
<1> DEFINE R(e) == {x \in S : x <= e}
           Ranked(j) == \E e \in S : Cardinality(R(e)) = j
           T == {j \in 1..Cardinality(S) : ~Ranked(j)}
<1>0. \A x \in S : x \in Nat
  OBVIOUS
<1>1. Cardinality(S) \in Nat
  BY FS_CardinalityType
<1>2. ASSUME T # {} PROVE FALSE
  <2>1. T \subseteq Nat
    OBVIOUS
  <2>2. PICK j \in T : \A i \in T : j <= i
    <3> HIDE DEF T
    <3> QED
      BY <1>2, <2>1, LeastNumber
  <2>3. j \in 1..Cardinality(S) /\ ~Ranked(j)
    OBVIOUS
  <2>4. S # {}
    BY <1>1, <2>3, FS_EmptySet
  <2>5. CASE j = 1
    <3>0. S \subseteq Nat
      OBVIOUS
    <3>1. PICK m \in S : \A x \in S : m <= x
      BY <2>4, <3>0, LeastNumber
    <3>2. R(m) = {m}
      <4>1. ASSUME NEW x \in S, x <= m PROVE x = m
        BY <1>0, <3>1, <4>1
      <4>2. m \in Nat /\ m <= m
        BY <1>0
      <4> QED
        BY <4>1, <4>2
    <3>3. Cardinality(R(m)) = 1
      BY <3>2, FS_Singleton
    <3> QED
      BY <2>3, <2>5, <3>3
  <2>6. CASE j # 1
    <3>1. j - 1 \in 1..Cardinality(S) /\ ~(j <= j - 1)
      BY <1>1, <2>3, <2>6
    <3>2. Ranked(j - 1)
      <4> HIDE DEF Ranked
      <4> QED
        BY <2>2, <3>1
    <3>3. PICK e \in S : Cardinality(R(e)) = j - 1
      BY <3>2
    <3>4. R(e) # S
      <4>1. R(e) = S => j - 1 = Cardinality(S)
        BY <3>3
      <4> HIDE DEF R
      <4> QED
        BY <1>1, <2>3, <4>1
    <3>5. PICK m \in S \ R(e) : \A x \in S \ R(e) : m <= x
      <4>1. S \ R(e) # {} /\ S \ R(e) \subseteq Nat
        BY <3>4
      <4> HIDE DEF R
      <4> QED
        BY <4>1, LeastNumber
    <3>6. R(m) = R(e) \cup {m} /\ m \notin R(e)
      <4>1. ~(m <= e) /\ m \in Nat /\ e \in Nat
        BY <1>0, <3>5
      <4>2. ASSUME NEW x \in S, x <= m, ~(x <= e) PROVE x = m
        <5>1. x \in S \ R(e)
          BY <4>2
        <5>2. m <= x
          BY <3>5, <5>1
        <5> QED
          BY <1>0, <4>1, <4>2, <5>2
      <4>3. ASSUME NEW x \in S, x <= e PROVE x <= m
        BY <1>0, <4>1, <4>3
      <4>4. m \in S /\ m <= m /\ e \in S
        BY <4>1
      <4> QED
        BY <4>1, <4>2, <4>3, <4>4
    <3>7. IsFiniteSet(R(e))
      <4>1. R(e) \in SUBSET S
        OBVIOUS
      <4> HIDE DEF R
      <4> QED
        BY <4>1, FS_Subset
    <3>8. Cardinality(R(m)) = j
      <4> HIDE DEF R
      <4>1. Cardinality(R(e) \cup {m}) = Cardinality(R(e)) + 1
        BY <3>6, <3>7, FS_AddElement
      <4> QED
        BY <2>3, <3>3, <3>6, <4>1
    <3> QED
      BY <2>3, <3>5, <3>8
  <2> QED
    BY <2>5, <2>6
<1> QED
  BY <1>2

(* The pieces end at e[1], e[2], ..., the last one with the picture.        *)
CutAt(cells, pieces, n, e) ==
    /\ n \in Nat \ {0} /\ DOMAIN pieces = 1..n /\ Len(pieces) = n
    /\ e \in [0..n -> 0..Len(cells)] /\ e[0] = 0 /\ e[n] = Len(cells)
    /\ \A k \in 1..n : e[k - 1] < e[k] /\ pieces[k] = SubSeq(cells, e[k - 1] + 1, e[k])

(* Cutting a picture gives such pieces. *)
LEMMA PiecesCut ==
    ASSUME NEW S, NEW cells \in Seq(S), Len(cells) >= 1, NEW cuts \in SUBSET (1..(Len(cells) - 1))
    PROVE  \E n, e : CutAt(cells, Pieces(cells, cuts), n, e)
<1> DEFINE ends == cuts \cup {Len(cells)}
           R(b) == {x \in ends : x <= b}
           end(k) == CHOOSE b \in ends : Cardinality(R(b)) = k
           n == Cardinality(ends)
           e == [k \in 0..n |-> IF k = 0 THEN 0 ELSE end(k)]
<1>1. Len(cells) \in Nat /\ ends \subseteq 1..Len(cells)
  <2>1. Len(cells) \in Nat
    BY LenProperties
  <2>2. PICK n1 \in Nat : n1 = Len(cells) /\ n1 >= 1
    BY <2>1
  <2>3. \A x \in cuts : x \in 1..n1
    <3>1. cuts \subseteq 1..(n1 - 1)
      BY <2>2, Zenon
    <3> QED
      BY <3>1
  <2>4. n1 \in 1..n1
    BY <2>2
  <2>5. cuts \cup {n1} \subseteq 1..n1
    BY <2>3, <2>4
  <2> QED
    BY <2>2, <2>5, Zenon
<1>2. IsFiniteSet(ends) /\ ends \in SUBSET Nat
  <2>1. IsFiniteSet(1..Len(cells))
    BY <1>1, FS_Interval
  <2> QED
    BY <1>1, <2>1, FS_Subset
<1>3. n \in Nat /\ n # 0
  BY <1>2, FS_CardinalityType, FS_EmptySet
<1>4. Pieces(cells, cuts) =
        [k \in 1..n |-> SubSeq(cells, IF k = 1 THEN 1 ELSE end(k - 1) + 1, end(k))]
  BY DEF Pieces
<1>5. \A b \in ends : IsFiniteSet(R(b)) /\ Cardinality(R(b)) \in Nat
  <2> TAKE b \in ends
  <2>1. R(b) \in SUBSET ends
    OBVIOUS
  <2> HIDE DEF ends, R
  <2> QED
    BY <1>2, <2>1, FS_Subset, FS_CardinalityType
<1>6. ASSUME NEW k \in 1..n PROVE end(k) \in ends /\ Cardinality(R(end(k))) = k
  <2>1. \E b \in ends : Cardinality(R(b)) = k
    <3> HIDE DEF ends
    <3> QED
      BY <1>2, Ranks
  <2> HIDE DEF ends, R
  <2> QED
    BY <2>1
<1>7. ASSUME NEW b \in ends, NEW c \in ends, Cardinality(R(b)) < Cardinality(R(c)) PROVE b < c
  <2>1. SUFFICES ASSUME c <= b PROVE FALSE
    BY <1>2
  <2>2. R(c) \in SUBSET R(b)
    BY <1>2, <2>1
  <2>3. Cardinality(R(c)) <= Cardinality(R(b))
    <3> HIDE DEF R, ends
    <3> QED
      BY <1>5, <2>2, FS_Subset
  <2> HIDE DEF R, ends
  <2> QED
    BY <1>5, <1>7, <2>3
<1>8. end(n) = Len(cells)
  <2>1. n \in 1..n
    BY <1>3
  <2>2. R(end(n)) \in SUBSET ends /\ Cardinality(R(end(n))) = Cardinality(ends)
    BY <1>6, <2>1
  <2>3. R(end(n)) = ends
    <3> HIDE DEF R, ends, end
    <3> QED
      BY <1>2, <2>2, FS_Subset
  <2>4. Len(cells) <= end(n) /\ end(n) \in ends
    BY <1>6, <2>1, <2>3
  <2> HIDE DEF end
  <2> QED
    BY <1>1, <2>4
<1> HIDE DEF ends, R, end, n
<1>9. e \in [0..n -> 0..Len(cells)] /\ e[0] = 0 /\ \A k \in 1..n : e[k] = end(k)
  <2>1. ASSUME NEW k \in 1..n PROVE end(k) \in 0..Len(cells)
    <3>1. end(k) \in 1..Len(cells)
      BY <1>1, <1>6
    <3> QED
      BY <1>1, <3>1
  <2> QED
    BY <1>1, <1>3, <2>1
<1> HIDE DEF e
<1>10. ASSUME NEW k \in 1..n
       PROVE  e[k - 1] < e[k] /\ Pieces(cells, cuts)[k] = SubSeq(cells, e[k - 1] + 1, e[k])
  <2>1. e[k] = end(k) /\ end(k) \in 1..Len(cells)
    BY <1>1, <1>6, <1>9
  <2>2. CASE k = 1
    <3>1. e[k - 1] = 0
      BY <1>9, <2>2
    <3> QED
      BY <1>1, <1>4, <2>1, <2>2, <3>1
  <2>3. CASE k # 1
    <3>1. k - 1 \in 1..n /\ k - 1 < k
      BY <1>3, <2>3
    <3>2. end(k - 1) < end(k) /\ e[k - 1] = end(k - 1)
      BY <1>6, <1>7, <1>9, <3>1
    <3> QED
      BY <1>4, <2>1, <2>3, <3>2
  <2> QED
    BY <2>2, <2>3
<1>11. DOMAIN Pieces(cells, cuts) = 1..n /\ Len(Pieces(cells, cuts)) = n
  BY <1>3, <1>4
<1>12. e[n] = Len(cells)
  BY <1>3, <1>8, <1>9
<1>13. CutAt(cells, Pieces(cells, cuts), n, e)
  BY <1>3, <1>9, <1>10, <1>11, <1>12 DEF CutAt
<1> QED
  BY <1>13

-----------------------------------------------------------------------------
(* The cells of a picture.                                                  *)

Parts(f, l) == [u \in DOMAIN l.pes |-> PesCells(f, u, l.pes[u])]

(* Where the PES packet u begins, and behind the last one the next picture. *)
At(f, l, u) == Len(Intro(f, l.key)) + 1 + Len(FlattenSeq(SubSeq(Parts(f, l), 1, u - 1)))

(* The PES packets of a picture. *)
LEMMA PesTypes ==
    ASSUME NEW l \in Layouts
    PROVE  /\ l.key \in BOOLEAN /\ Len(l.pes) \in Nat \ {0} /\ DOMAIN l.pes = 1..Len(l.pes)
           /\ l.pes[1].stream = "video" /\ 1 \in 1..Len(l.pes)
           /\ \A u \in 1..Len(l.pes) : /\ l.pes[u].stream \in PesKinds
                                       /\ l.pes[u].size \in Nat \ {0}
<1> DEFINE Pes == [stream : PesKinds, size : Nat \ {0}]
<1>1. l.key \in BOOLEAN /\ l.pes \in Seq(Pes) /\ l.pes # <<>> /\ l.pes[1].stream = "video"
  BY LayoutAssumption DEF Layout
<1>2. Len(l.pes) \in Nat \ {0}
  BY <1>1, EmptySeq
<1>3. DOMAIN l.pes = 1..Len(l.pes) /\ 1 \in 1..Len(l.pes)
  BY <1>1, <1>2, LenProperties
<1>4. ASSUME NEW u \in 1..Len(l.pes)
      PROVE  l.pes[u].stream \in PesKinds /\ l.pes[u].size \in Nat \ {0}
  <2>1. l.pes[u] \in Pes
    BY <1>1, ElementOfSeq
  <2> QED
    BY <2>1
<1> QED
  BY <1>1, <1>2, <1>3, <1>4

(* A PES packet: its header and its payload. *)
LEMMA PartCells ==
    ASSUME NEW f \in 0..MaxFrames, NEW u \in Nat,
           NEW pes, pes.stream \in PesKinds, pes.size \in Nat
    PROVE  /\ Payload(f, u, pes.size) \in Seq(Cells) /\ Len(Payload(f, u, pes.size)) = pes.size
           /\ \A k \in 1..pes.size : Payload(f, u, pes.size)[k] = Cell("data", f, u, k)
           /\ PesCells(f, u, pes) \in Seq(Cells) /\ Len(PesCells(f, u, pes)) = pes.size + 1
           /\ PesCells(f, u, pes)[1] = Cell(pes.stream, f, u, pes.size)
           /\ \A k \in 1..pes.size : PesCells(f, u, pes)[k + 1] = Cell("data", f, u, k)
<1> DEFINE head == <<Cell(pes.stream, f, u, pes.size)>>
           body == Payload(f, u, pes.size)
<1>0. PICK stream \in PesKinds, size \in Nat : stream = pes.stream /\ size = pes.size
  OBVIOUS
<1>1. body \in Seq(Cells) /\ Len(body) = size /\ \A k \in 1..size : body[k] = Cell("data", f, u, k)
  <2>1. \A k \in 1..size : Cell("data", f, u, k) \in Cells
    BY DEF Cell, Cells, CellKinds
  <2>2. body = [k \in 1..size |-> Cell("data", f, u, k)]
    BY <1>0 DEF Payload
  <2> QED
    BY <2>1, <2>2
<1>2. head \in Seq(Cells) /\ Len(head) = 1 /\ head[1] = Cell(stream, f, u, size)
  <2>1. Cell(stream, f, u, size) \in Cells
    BY DEF Cell, Cells, CellKinds
  <2> QED
    BY <1>0, <2>1
<1>3. PesCells(f, u, pes) = head \o body
  BY DEF PesCells
<1> HIDE DEF head, body
<1>4. /\ head \o body \in Seq(Cells) /\ Len(head \o body) = 1 + size
      /\ \A i \in 1..(1 + size) : (head \o body)[i] = IF i <= 1 THEN head[i] ELSE body[i - 1]
  <2>1. /\ head \o body \in Seq(Cells) /\ Len(head \o body) = Len(head) + Len(body)
        /\ \A i \in 1..(Len(head) + Len(body)) :
              (head \o body)[i] = IF i <= Len(head) THEN head[i] ELSE body[i - Len(head)]
    BY <1>1, <1>2, ConcatProperties, Zenon
  <2> QED
    BY <1>1, <1>2, <2>1
<1>5. (head \o body)[1] = head[1]
  BY <1>4
<1>6. ASSUME NEW k \in 1..size PROVE (head \o body)[k + 1] = body[k]
  <2>1. k + 1 \in 1..(1 + size) /\ ~(k + 1 <= 1) /\ (k + 1) - 1 = k
    OBVIOUS
  <2> QED
    BY <1>4, <2>1
<1> QED
  BY <1>0, <1>1, <1>2, <1>3, <1>4, <1>5, <1>6 DEF body

(* The headers a picture begins with. *)
LEMMA IntroCells ==
    ASSUME NEW f \in 0..MaxFrames, NEW key \in BOOLEAN
    PROVE  /\ Intro(f, key) \in Seq(Cells)
           /\ Len(Intro(f, key)) = IF key THEN 3 ELSE 1
           /\ Intro(f, key)[1].kind = "pack"
           /\ key => Intro(f, key)[2].kind = "sys" /\ Intro(f, key)[3].kind = "map"
<1>1. \A kind \in {"pack", "sys", "map"} : Cell(kind, f, 0, 0) \in Cells
  BY DEF Cell, Cells, CellKinds
<1> QED
  BY <1>1 DEF Intro, Cell

(* Where the headers and the payload of a picture are. *)
LEMMA PictureCells ==
    ASSUME NEW f \in 0..MaxFrames, NEW l \in Layouts
    PROVE  /\ FrameCells(f, l) \in Seq(Cells) /\ Len(FrameCells(f, l)) \in Nat
           /\ At(f, l, 1) = IF l.key THEN 4 ELSE 2
           /\ At(f, l, Len(l.pes) + 1) = Len(FrameCells(f, l)) + 1
           /\ FrameCells(f, l)[1].kind = "pack"
           /\ l.key => FrameCells(f, l)[2].kind = "sys" /\ FrameCells(f, l)[3].kind = "map"
           /\ \A u \in 1..Len(l.pes) :
                 /\ At(f, l, u) \in Nat /\ At(f, l, u + 1) = At(f, l, u) + l.pes[u].size + 1
                 /\ At(f, l, u) + l.pes[u].size <= Len(FrameCells(f, l))
                 /\ FrameCells(f, l)[At(f, l, u)] = Cell(l.pes[u].stream, f, u, l.pes[u].size)
                 /\ \A k \in 1..l.pes[u].size :
                       FrameCells(f, l)[At(f, l, u) + k] = Cell("data", f, u, k)
<1>1. PICK n \in Nat \ {0} : n = Len(l.pes)
  BY PesTypes
<1>2. DOMAIN l.pes = 1..n
  BY <1>1, PesTypes
<1>3. PICK parts : parts = Parts(f, l) /\ parts \in Seq(Seq(Cells)) /\ Len(parts) = n
  <2>1. ASSUME NEW u \in 1..n PROVE PesCells(f, u, l.pes[u]) \in Seq(Cells)
    BY <1>1, PesTypes, PartCells
  <2>2. Parts(f, l) = [u \in 1..n |-> PesCells(f, u, l.pes[u])]
    BY <1>2 DEF Parts
  <2>3. Parts(f, l) \in Seq(Seq(Cells)) /\ Len(Parts(f, l)) = n
    BY <2>1, <2>2
  <2> QED
    BY <2>3
<1>4. \A u \in 1..n : parts[u] = PesCells(f, u, l.pes[u])
  BY <1>2, <1>3 DEF Parts
<1> PICK x \in Nat : x = IF l.key THEN 3 ELSE 1
  OBVIOUS
<1>5. PICK i : /\ i = Intro(f, l.key) /\ i \in Seq(Cells) /\ x = Len(i)
               /\ x = IF l.key THEN 3 ELSE 1
  <2>1. l.key \in BOOLEAN
    BY PesTypes
  <2>2. Intro(f, l.key) \in Seq(Cells) /\ Len(Intro(f, l.key)) = x
    BY <2>1, IntroCells, Zenon
  <2> QED
    BY <2>2, Zenon
<1>6. PICK all : all = FlattenSeq(parts) /\ all \in Seq(Cells)
  <2>1. <<>> \in Seq(Cells)
    BY EmptySeq
  <2> QED
    BY <1>3, <2>1, FlattenAppend
<1>7. FrameCells(f, l) = i \o all
  BY <1>3, <1>5, <1>6 DEF FrameCells, Parts
<1>8. PICK m \in Nat : m = Len(all)
  BY <1>6, LenProperties
<1>9. PICK c :
         /\ c = FrameCells(f, l) /\ c \in Seq(Cells) /\ Len(c) = x + m
         /\ \A j \in 1..(x + m) : c[j] = IF j <= x THEN i[j] ELSE all[j - x]
  <2>1. /\ i \o all \in Seq(Cells) /\ Len(i \o all) = Len(i) + Len(all)
        /\ \A j \in 1..(Len(i) + Len(all)) :
              (i \o all)[j] = IF j <= Len(i) THEN i[j] ELSE all[j - Len(i)]
    BY <1>5, <1>6, ConcatProperties, ZenonT(40)
  <2> QED
    BY <1>5, <1>7, <1>8, <2>1, ZenonT(40)
<1>10. \A u : At(f, l, u) = x + 1 + Len(FlattenSeq(SubSeq(parts, 1, u - 1)))
  BY <1>3, <1>5 DEF At
<1>11. At(f, l, 1) = x + 1
  <2>1. SubSeq(parts, 1, 1 - 1) = <<>>
    BY SubSeqEmpty
  <2>2. Len(FlattenSeq(SubSeq(parts, 1, 1 - 1))) = 0
    <3>1. Len(<<>>) = 0
      OBVIOUS
    <3> QED
      BY <2>1, <3>1, FlattenNone, Zenon
  <2> QED
    BY <1>10, <2>2
<1>12. At(f, l, n + 1) = x + m + 1
  <2>1. SubSeq(parts, 1, (n + 1) - 1) = parts
    <3>1. (n + 1) - 1 = Len(parts)
      BY <1>3
    <3> QED
      BY <1>3, <3>1, SubSeqFull
  <2>2. Len(FlattenSeq(SubSeq(parts, 1, (n + 1) - 1))) = m
    BY <1>6, <1>8, <2>1
  <2> QED
    BY <1>10, <2>2
<1>13. ASSUME NEW u \in 1..n
       PROVE  /\ At(f, l, u) \in Nat /\ At(f, l, u + 1) = At(f, l, u) + l.pes[u].size + 1
              /\ At(f, l, u) + l.pes[u].size <= x + m
              /\ c[At(f, l, u)] = Cell(l.pes[u].stream, f, u, l.pes[u].size)
              /\ \A k \in 1..l.pes[u].size : c[At(f, l, u) + k] = Cell("data", f, u, k)
  <2>1. PICK s \in PesKinds, size \in Nat \ {0} : s = l.pes[u].stream /\ size = l.pes[u].size
    BY <1>1, PesTypes
  <2>2. /\ parts[u] = PesCells(f, u, l.pes[u]) /\ Len(parts[u]) = size + 1
        /\ parts[u][1] = Cell(s, f, u, size)
        /\ \A k \in 1..size : parts[u][k + 1] = Cell("data", f, u, k)
    <3>1. u \in Nat /\ l.pes[u].size \in Nat /\ l.pes[u].stream \in PesKinds
      BY <2>1
    <3>2. /\ Len(PesCells(f, u, l.pes[u])) = l.pes[u].size + 1
          /\ PesCells(f, u, l.pes[u])[1] = Cell(l.pes[u].stream, f, u, l.pes[u].size)
          /\ \A k \in 1..l.pes[u].size : PesCells(f, u, l.pes[u])[k + 1] = Cell("data", f, u, k)
      <4>1. PICK p : p = l.pes[u] /\ p.stream \in PesKinds /\ p.size \in Nat
        BY <3>1
      <4>2. /\ Len(PesCells(f, u, p)) = p.size + 1
            /\ PesCells(f, u, p)[1] = Cell(p.stream, f, u, p.size)
            /\ \A k \in 1..p.size : PesCells(f, u, p)[k + 1] = Cell("data", f, u, k)
        BY <3>1, <4>1, PartCells, SMTT(40)
      <4> QED
        BY <4>1, <4>2, Zenon
    <3> QED
      BY <1>4, <2>1, <3>2, Zenon
  <2>3. PICK b \in Nat :
           /\ b = Len(FlattenSeq(SubSeq(parts, 1, u - 1)))
           /\ Len(FlattenSeq(SubSeq(parts, 1, u))) = b + (size + 1)
           /\ b + (size + 1) <= m
           /\ \A j \in 1..(size + 1) : all[b + j] = parts[u][j]
    <3>1. u \in 1..Len(parts)
      BY <1>3
    <3> DEFINE before == FlattenSeq(SubSeq(parts, 1, u - 1))
    <3>2. /\ before \in Seq(Cells)
          /\ Len(FlattenSeq(SubSeq(parts, 1, u))) = Len(before) + Len(parts[u])
          /\ Len(before) + Len(parts[u]) <= Len(FlattenSeq(parts))
          /\ \A j \in 1..Len(parts[u]) : FlattenSeq(parts)[Len(before) + j] = parts[u][j]
      BY <1>3, <3>1, FlattenAt, ZenonT(40)
    <3>3. Len(before) \in Nat
      BY <3>2, LenProperties
    <3> HIDE DEF before
    <3>4. /\ Len(FlattenSeq(SubSeq(parts, 1, u))) = Len(before) + (size + 1)
          /\ Len(before) + (size + 1) <= m
          /\ \A j \in 1..(size + 1) : all[Len(before) + j] = parts[u][j]
      BY <1>6, <1>8, <2>2, <3>2
    <3> QED
      BY <3>3, <3>4 DEF before
  <2>4. At(f, l, u) = x + 1 + b
    BY <1>10, <2>3
  <2>5. At(f, l, u + 1) = x + 1 + (b + (size + 1))
    <3>1. (u + 1) - 1 = u
      OBVIOUS
    <3> QED
      BY <1>10, <2>3, <3>1
  <2>6. ASSUME NEW j \in 1..(size + 1) PROVE c[x + b + j] = parts[u][j]
    <3>1. b + (size + 1) <= m /\ \A q \in 1..(size + 1) : all[b + q] = parts[u][q]
      BY <2>3
    <3>2. b + (size + 1) <= m
      BY <3>1
    <3>3. /\ x + b + j \in 1..(x + m) /\ ~(x + b + j <= x)
          /\ (x + b + j) - x = b + j
      BY <3>2
    <3>4. PICK e \in 1..(x + m) : e = x + b + j /\ ~(e <= x) /\ e - x = b + j
      BY <3>3
    <3> QED
      BY <1>9, <3>1, <3>4, ZenonT(40)
  <2>7. c[x + 1 + b] = Cell(s, f, u, size)
    <3>1. 1 \in 1..(size + 1) /\ x + b + 1 = x + 1 + b
      OBVIOUS
    <3> QED
      BY <2>2, <2>6, <3>1
  <2>8. ASSUME NEW k \in 1..size PROVE c[x + 1 + b + k] = Cell("data", f, u, k)
    <3>1. k + 1 \in 1..(size + 1) /\ x + b + (k + 1) = x + 1 + b + k
      OBVIOUS
    <3> QED
      BY <2>2, <2>6, <3>1
  <2>9. /\ At(f, l, u) \in Nat /\ At(f, l, u + 1) = At(f, l, u) + size + 1
        /\ At(f, l, u) + size <= x + m
    BY <1>5, <2>3, <2>4, <2>5, SMTT(40)
  <2>10. /\ c[At(f, l, u)] = Cell(s, f, u, size)
         /\ \A k \in 1..size : c[At(f, l, u) + k] = Cell("data", f, u, k)
    BY <2>4, <2>7, <2>8, Zenon
  <2> QED
    BY <2>1, <2>9, <2>10, Zenon
<1>14. \A j \in 1..x : c[j] = Intro(f, l.key)[j]
  BY <1>5, <1>8, <1>9
<1>15. /\ c[1].kind = "pack"
       /\ l.key => c[2].kind = "sys" /\ c[3].kind = "map"
  BY <1>5, <1>14, PesTypes, IntroCells
<1> QED
  BY <1>1, <1>5, <1>9, <1>11, <1>12, <1>13, <1>15

(* Behind its first headers a picture consists of its PES packets. *)
LEMMA Coverage ==
    ASSUME NEW f \in 0..MaxFrames, NEW l \in Layouts, NEW p \in Nat,
           At(f, l, 1) <= p, p <= Len(FrameCells(f, l))
    PROVE  \E u \in 1..Len(l.pes) : At(f, l, u) <= p /\ p <= At(f, l, u) + l.pes[u].size
<1>1. PICK n \in Nat \ {0} : n = Len(l.pes)
  BY PesTypes
<1>2. /\ At(f, l, n + 1) = Len(FrameCells(f, l)) + 1 /\ Len(FrameCells(f, l)) \in Nat
      /\ \A u \in 1..n : At(f, l, u) \in Nat /\ At(f, l, u + 1) = At(f, l, u) + l.pes[u].size + 1
  BY <1>1, PictureCells
<1>3. \A u \in 1..n : l.pes[u].size \in Nat
  BY <1>1, PesTypes
<1> DEFINE T == {u \in 1..(n + 1) : At(f, l, u) > p}
<1>4. T # {} /\ T \subseteq Nat
  <2>1. n + 1 \in T
    BY <1>2
  <2> QED
    BY <2>1
<1>5. PICK v \in T : \A w \in T : v <= w
  <2> HIDE DEF T
  <2> QED
    BY <1>4, LeastNumber
<1>6. v \in 1..(n + 1) /\ At(f, l, v) > p /\ v # 1
  <2>1. 1 \in 1..n
    OBVIOUS
  <2>2. At(f, l, 1) \in Nat
    BY <1>2, <2>1
  <2> QED
    BY <2>2
<1>7. PICK u \in 1..n : v = u + 1
  <2>1. v - 1 \in 1..n /\ v = (v - 1) + 1
    BY <1>6
  <2> QED
    BY <2>1
<1>8. ~(At(f, l, u) > p)
  <2>1. ~(v <= u) /\ u \in 1..(n + 1)
    BY <1>7
  <2>2. u \notin T
    BY <1>5, <2>1
  <2> QED
    BY <2>1, <2>2
<1>9. At(f, l, u) <= p /\ p <= At(f, l, u) + l.pes[u].size
  BY <1>2, <1>3, <1>6, <1>7, <1>8
<1> QED
  BY <1>1, <1>9

-----------------------------------------------------------------------------
(* Types.                                                                   *)

ShortPackets(q) == \A i \in 1..Len(q) : Len(q[i].cells) <= Mtu

PTypes == /\ TypeOK
          /\ Len(shapes) <= MaxFrames /\ ShortPackets(queue)
          /\ Len(frame) <= frameSize
          /\ pc = "access" => pos = 1

(* Some cells of a packet. *)
LEMMA DataCells ==
    ASSUME NEW d \in [1..Mtu -> Cells], NEW p \in Nat \ {0}, NEW q \in Int, q <= Mtu
    PROVE  /\ SubSeq(d, p, q) \in Seq(Cells)
           /\ Len(SubSeq(d, p, q)) = IF p <= q THEN q - p + 1 ELSE 0
           /\ \A i \in 1..(q - p + 1) : SubSeq(d, p, q)[i] = d[p + i - 1]
<1>1. Mtu \in Nat
  BY SizeAssumption
<1>2. p \in Int /\ \A i \in p..q : d[i] \in Cells
  BY <1>1
<1> QED
  BY <1>2, SubSeqProperties

(* The cell the parser looks at. *)
LEMMA CellTypes ==
    ASSUME TypeOK, NEW p \in Nat \ {0}
    PROVE  /\ CellAt(p) \in Cells /\ KindAt(p) \in CellKinds /\ CellAt(p).n \in Nat
           /\ Mtu \in Nat /\ len \in 0..Mtu
<1>1. Mtu \in Nat /\ MaxFrames \in Nat
  BY SizeAssumption
<1>2. Nothing \in Cells
  BY <1>1 DEF Nothing, Cell, Cells, CellKinds
<1>3. CellAt(p) \in Cells
  BY <1>1, <1>2 DEF CellAt, TypeOK
<1> QED
  BY <1>1, <1>3 DEF KindAt, Cells, TypeOK

OutTypes == /\ frame \in Seq(Cells) /\ frameSize \in Nat /\ Len(frame) <= frameSize
            /\ h264 \in Seq(Cells) /\ decoded \in Seq(Seq(Cells)) /\ heard \in Seq(Seq(Cells))

(* What a payload is written to. *)
LEMMA WriteTypes ==
    ASSUME OutTypes, NEW stream \in Streams \cup {"none"}, NEW payload \in Seq(Cells),
           stream = "none" => Len(payload) <= frameSize,
           isFrameStart \in BOOLEAN, Write(stream, payload)
    PROVE  OutTypes'
<1>1. <<>> \in Seq(Cells) /\ Len(<<>>) = 0
  BY EmptySeq
<1>2. CASE stream = "video"
  <2>1. WriteVideoFrame(payload, isFrameStart)
    BY <1>2 DEF Write
  <2>2. frame' = <<>> /\ frameSize' = 0 /\ heard' = heard
    BY <2>1 DEF WriteVideoFrame
  <2>3. h264' \in Seq(Cells)
    <3>1. h264 \o payload \in Seq(Cells)
      <4>1. h264 \in Seq(Cells)
        BY DEF OutTypes
      <4> QED
        BY <4>1, ConcatProperties
    <3> QED
      BY <2>1, <3>1 DEF WriteVideoFrame
  <2>4. decoded' \in Seq(Seq(Cells))
    <3>1. Append(decoded, h264) \in Seq(Seq(Cells))
      <4>1. decoded \in Seq(Seq(Cells)) /\ h264 \in Seq(Cells)
        BY DEF OutTypes
      <4> QED
        BY <4>1, AppendProperties
    <3> QED
      BY <2>1, <3>1 DEF WriteVideoFrame, OutTypes
  <2> QED
    BY <1>1, <2>2, <2>3, <2>4 DEF OutTypes
<1>3. CASE stream = "audio"
  <2>1. WriteAudioFrame(payload)
    BY <1>3 DEF Write
  <2>2. frame' = <<>> /\ frameSize' = 0 /\ h264' = h264 /\ decoded' = decoded
    BY <2>1 DEF WriteAudioFrame
  <2>3. heard' \in Seq(Seq(Cells))
    <3>1. heard \in Seq(Seq(Cells))
      BY DEF OutTypes
    <3>2. Append(heard, payload) \in Seq(Seq(Cells))
      BY <3>1, AppendProperties
    <3> QED
      BY <2>1, <3>2 DEF WriteAudioFrame
  <2> QED
    BY <1>1, <2>2, <2>3 DEF OutTypes
<1>4. CASE stream = "none"
  <2>1. frame' = payload /\ UNCHANGED <<frameSize, h264, decoded, heard>>
    BY <1>4 DEF Write
  <2> QED
    BY <1>4, <2>1 DEF OutTypes
<1> QED
  BY <1>2, <1>3, <1>4 DEF Streams

(* The parser keeps the types, whatever it is given to parse. *)
LEMMA ParseTypes ==
    ASSUME PTypes, Parse
    PROVE  PTypes'
<1>1. /\ OutTypes /\ pos \in Nat \ {0} /\ len \in 0..Mtu /\ Mtu \in Nat /\ MaxFrames \in Nat
      /\ data \in [1..Mtu -> Cells]
      /\ curStream \in Streams \cup {"none"} /\ isFrameStart \in BOOLEAN
      /\ pc = "access" => pos = 1
  BY SizeAssumption DEF PTypes, TypeOK, OutTypes
<1> DEFINE Rest == /\ OutTypes' /\ pos' \in Nat \ {0} /\ data' = data /\ len' = len
                   /\ curStream' \in Streams \cup {"none"} /\ isFrameStart' \in BOOLEAN
                   /\ pc' \in {"idle", "ps", "pes", "crashed"} /\ sender' = sender
<1>2. ASSUME Rest PROVE PTypes'
  BY <1>2 DEF PTypes, TypeOK, OutTypes, sender, sentCount, ShortPackets
<1>3. ASSUME NEW p \in Nat \ {0} PROVE CellAt(p).n \in Nat
  BY CellTypes DEF PTypes
<1>4. ASSUME AccessPack \/ AccessPes \/ AccessPrivate \/ PesEnd PROVE Rest
  BY <1>1, <1>4 DEF AccessPack, AccessPes, AccessPrivate, PesEnd, OutTypes, source, output
<1>5. ASSUME ResolvePs PROVE Rest
  <2>1. pos' \in Nat \ {0} /\ pc' \in {"idle", "pes"}
    BY <1>1, <1>5 DEF ResolvePs
  <2> QED
    BY <1>1, <1>5, <2>1 DEF ResolvePs, OutTypes, source, output
<1>6. ASSUME AppendRest PROVE Rest
  <2>1. pos = 1 /\ Len(frame) \in Nat /\ Missing \in Nat /\ Missing <= len
    BY <1>1, <1>6, LenProperties DEF AppendRest, Missing, OutTypes
  <2>2. Taken(pos, Missing) \in Seq(Cells) /\ Len(Taken(pos, Missing)) = Missing
    <3>1. PICK q \in Int : q = pos + Missing - 1 /\ q <= Mtu
      BY <1>1, <2>1
    <3>2. /\ SubSeq(data, pos, q) \in Seq(Cells)
          /\ Len(SubSeq(data, pos, q)) = IF pos <= q THEN q - pos + 1 ELSE 0
      BY <1>1, <3>1, DataCells
    <3> QED
      BY <1>1, <2>1, <3>1, <3>2 DEF Taken
  <2>3. PICK payload : payload = frame \o Taken(pos, Missing) /\ payload \in Seq(Cells)
                       /\ Len(payload) = frameSize
    <3>1. frame \o Taken(pos, Missing) \in Seq(Cells)
          /\ Len(frame \o Taken(pos, Missing)) = Len(frame) + Len(Taken(pos, Missing))
      BY <1>1, <2>2, ConcatProperties DEF OutTypes
    <3>2. frameSize \in Nat /\ Len(frame) \in Nat /\ Missing = frameSize - Len(frame)
      BY <1>1, <2>1 DEF Missing, OutTypes
    <3>3. Len(frame) + Missing = frameSize
      BY <3>2
    <3> QED
      BY <2>2, <3>1, <3>3, Zenon
  <2>4. Write(curStream, payload)
    BY <1>6, <2>3 DEF AppendRest
  <2>5. OutTypes'
    <3>1. Len(payload) <= frameSize
      BY <1>1, <2>3 DEF OutTypes
    <3> QED
      BY <1>1, <2>3, <2>4, <3>1, WriteTypes
  <2>6. pos' \in Nat \ {0} /\ pc' = "ps"
    BY <1>1, <1>6, <2>1 DEF AppendRest
  <2> QED
    BY <1>1, <1>6, <2>5, <2>6 DEF AppendRest
<1>7. ASSUME AppendPart PROVE Rest
  <2>1. pos = 1 /\ Len(frame) \in Nat /\ len < Missing
    BY <1>1, <1>7, LenProperties DEF AppendPart, OutTypes
  <2>2. Remaining(pos) \in Seq(Cells) /\ Len(Remaining(pos)) = len
    <3>1. /\ SubSeq(data, pos, len) \in Seq(Cells)
          /\ Len(SubSeq(data, pos, len)) = IF pos <= len THEN len - pos + 1 ELSE 0
      BY <1>1, DataCells
    <3> QED
      BY <1>1, <2>1, <3>1 DEF Remaining
  <2>3. frame \o Remaining(pos) \in Seq(Cells)
        /\ Len(frame \o Remaining(pos)) = Len(frame) + Len(Remaining(pos))
    BY <1>1, <2>2, ConcatProperties DEF OutTypes
  <2>4. OutTypes'
    BY <1>1, <1>7, <2>1, <2>2, <2>3 DEF AppendPart, OutTypes, output, Missing
  <2> QED
    BY <1>1, <1>7, <2>4 DEF AppendPart
<1>8. ASSUME GetWholeFrame PROVE Rest
  <2>1. PICK n \in Nat : n = CellAt(pos).n /\ n <= len - pos /\ KindAt(pos) \in Streams
    BY <1>1, <1>3, <1>8 DEF GetWholeFrame
  <2>2. Taken(pos + 1, n) \in Seq(Cells)
    <3>1. pos + 1 \in Nat \ {0} /\ (pos + 1) + n - 1 \in Int /\ (pos + 1) + n - 1 <= Mtu
      BY <1>1, <2>1
    <3>2. SubSeq(data, pos + 1, (pos + 1) + n - 1) \in Seq(Cells)
      BY <1>1, <3>1, DataCells
    <3> QED
      BY <3>2 DEF Taken
  <2>3. OutTypes'
    <3>1. Write(KindAt(pos), Taken(pos + 1, n)) /\ KindAt(pos) # "none"
      BY <1>8, <2>1 DEF GetWholeFrame, Streams
    <3> QED
      BY <1>1, <2>1, <2>2, <3>1, WriteTypes
  <2>4. pos' \in Nat \ {0} /\ pc' \in {"idle", "pes"}
    BY <1>1, <1>8, <2>1 DEF GetWholeFrame, NextPes
  <2> QED
    BY <1>1, <1>8, <2>1, <2>3, <2>4 DEF GetWholeFrame
<1>9. ASSUME GetFrameStart PROVE Rest
  <2>1. PICK n \in Nat : n = CellAt(pos).n /\ n > len - pos /\ KindAt(pos) \in Streams
    BY <1>1, <1>3, <1>9 DEF GetFrameStart
  <2>2. CASE pos <= len
    <3>1. Remaining(pos + 1) \in Seq(Cells) /\ Len(Remaining(pos + 1)) = len - pos
      <4>1. PICK p \in Nat \ {0} : p = pos + 1
        BY <1>1
      <4>2. /\ SubSeq(data, p, len) \in Seq(Cells)
            /\ Len(SubSeq(data, p, len)) = IF p <= len THEN len - p + 1 ELSE 0
        BY <1>1, DataCells
      <4> QED
        BY <1>1, <2>2, <4>1, <4>2 DEF Remaining
    <3>2. OutTypes'
      BY <1>1, <1>9, <2>1, <2>2, <3>1 DEF GetFrameStart, OutTypes, output
    <3>3. pos' \in Nat \ {0} /\ pc' \in {"idle", "pes"}
      BY <1>1, <1>9, <2>1, <2>2 DEF GetFrameStart, NextPes
    <3> QED
      BY <1>1, <1>9, <2>1, <3>2, <3>3 DEF GetFrameStart
  <2>3. CASE ~(pos <= len)
    <3>1. OutTypes' /\ pos' = pos /\ pc' = "crashed"
      BY <1>1, <1>9, <2>3 DEF GetFrameStart, OutTypes, output
    <3> QED
      BY <1>1, <1>9, <2>1, <3>1 DEF GetFrameStart
  <2> QED
    BY <2>2, <2>3
<1> HIDE DEF Rest
<1> QED
  BY <1>2, <1>4, <1>5, <1>6, <1>7, <1>8, <1>9 DEF Parse

-----------------------------------------------------------------------------
(* What the camera sends.                                                   *)

Numbered(n, pieces) == [k \in 1..n |-> [seq |-> sentCount + k, cells |-> pieces[k]]]

Sending(layout, pieces, n, e) ==
    /\ CutAt(FrameCells(Len(shapes) + 1, layout), pieces, n, e)
    /\ PackingOk(pieces, Len(Intro(Len(shapes) + 1, layout.key)))
    /\ lastPlaces' = Append(lastPlaces, sentCount + n)
    /\ queue' = queue \o Numbered(n, pieces)

(* A picture is sent in pieces, none of them empty. *)
LEMMA SendPieces ==
    ASSUME PTypes, NEW layout \in Layouts, SendFrame(layout)
    PROVE  /\ Len(shapes) + 1 \in 1..MaxFrames /\ shapes' = Append(shapes, layout)
           /\ \E pieces, n, e : Sending(layout, pieces, n, e)
<1> DEFINE f == Len(shapes) + 1
           cells == FrameCells(f, layout)
<1>1. f \in 1..MaxFrames /\ f \in 0..MaxFrames
  <2>1. MaxFrames \in Nat /\ Len(shapes) \in Nat
    BY SizeAssumption, LenProperties DEF PTypes, TypeOK
  <2>2. f <= MaxFrames
    BY DEF SendFrame
  <2> QED
    BY <2>1, <2>2
<1>2. PICK cuts \in SUBSET (1..(Len(cells) - 1)) :
         /\ PackingOk(Pieces(cells, cuts), Len(Intro(f, layout.key)))
         /\ lastPlaces' = Append(lastPlaces, sentCount + Len(Pieces(cells, cuts)))
         /\ queue' = queue \o [k \in DOMAIN Pieces(cells, cuts) |->
                                 [seq |-> sentCount + k, cells |-> Pieces(cells, cuts)[k]]]
  BY DEF SendFrame
<1>3. cells \in Seq(Cells) /\ Len(cells) \in Nat /\ Len(cells) >= 1
  <2>1. cells \in Seq(Cells) /\ Len(cells) \in Nat
    BY <1>1, PictureCells
  <2>2. 1 \in 1..Len(layout.pes) /\ layout.pes[1].size \in Nat \ {0}
    BY PesTypes
  <2>3. At(f, layout, 1) \in Nat /\ At(f, layout, 1) + layout.pes[1].size <= Len(cells)
    <3> HIDE DEF f
    <3> QED
      BY <1>1, <2>2, PictureCells
  <2> HIDE DEF cells, f
  <2> QED
    BY <2>1, <2>2, <2>3
<1> HIDE DEF cells, f
<1>4. PICK n, e : CutAt(cells, Pieces(cells, cuts), n, e)
  BY <1>3, PiecesCut
<1>5. Sending(layout, Pieces(cells, cuts), n, e)
  BY <1>2, <1>4 DEF Sending, CutAt, cells, f, Numbered
<1>6. shapes' = Append(shapes, layout)
  BY DEF SendFrame
<1> QED
  BY <1>1, <1>5, <1>6 DEF f

(* Packets are counted. *)
LEMMA CountType ==
    ASSUME PTypes
    PROVE  sentCount \in Nat
<1>1. lastPlaces \in Seq(Nat)
  BY DEF PTypes, TypeOK
<1>2. CASE lastPlaces = <<>>
  BY <1>2 DEF sentCount
<1>3. CASE lastPlaces # <<>>
  <2>1. Len(lastPlaces) \in 1..Len(lastPlaces)
    <3>1. Len(lastPlaces) \in Nat \ {0}
      BY <1>1, <1>3, EmptySeq
    <3> QED
      BY <3>1
  <2>2. lastPlaces[Len(lastPlaces)] \in Nat
    BY <1>1, <2>1, ElementOfSeq
  <2> QED
    BY <1>3, <2>2 DEF sentCount, Last
<1> QED
  BY <1>2, <1>3

(* The pieces are some cells of the picture, and are numbered in order.     *)
Pieced(layout, pieces, n, e) ==
    /\ n \in Nat \ {0} /\ sentCount \in Nat
    /\ \A k \in 1..n : /\ pieces[k] \in Seq(Cells)
                       /\ Len(pieces[k]) = e[k] - e[k - 1] /\ Len(pieces[k]) <= Mtu
                       /\ e[k] \in Nat /\ e[k - 1] \in Nat
                       /\ \A j \in 1..Len(pieces[k]) :
                             pieces[k][j] = FrameCells(Len(shapes) + 1, layout)[e[k - 1] + j]
    /\ Numbered(n, pieces) \in Seq([seq : 1..(sentCount + n), cells : Seq(Cells)])
    /\ Len(Numbered(n, pieces)) = n
    /\ \A k \in 1..n : Numbered(n, pieces)[k] = [seq |-> sentCount + k, cells |-> pieces[k]]

(* The pieces and their numbers. *)
LEMMA PieceTypes ==
    ASSUME PTypes, NEW layout \in Layouts, Len(shapes) + 1 \in 1..MaxFrames,
           NEW pieces, NEW n, NEW e, Sending(layout, pieces, n, e)
    PROVE  Pieced(layout, pieces, n, e)
<1> DEFINE f == Len(shapes) + 1
           cells == FrameCells(f, layout)
<1>1. cells \in Seq(Cells) /\ Len(cells) \in Nat
  <2>1. f \in 0..MaxFrames
    OBVIOUS
  <2> QED
    BY <2>1, PictureCells
<1>2. n \in Nat \ {0} /\ CutAt(cells, pieces, n, e) /\ DOMAIN pieces = 1..n
  BY DEF Sending, CutAt
<1> HIDE DEF cells, f
<1>3. sentCount \in Nat
  BY CountType
<1>4. ASSUME NEW k \in 1..n
      PROVE  /\ pieces[k] \in Seq(Cells)
             /\ Len(pieces[k]) = e[k] - e[k - 1] /\ Len(pieces[k]) <= Mtu
             /\ e[k] \in Nat /\ e[k - 1] \in Nat
             /\ \A j \in 1..Len(pieces[k]) : pieces[k][j] = cells[e[k - 1] + j]
  <2>1. e[k - 1] < e[k] /\ pieces[k] = SubSeq(cells, e[k - 1] + 1, e[k])
    BY <1>2 DEF CutAt
  <2>2. e[k] \in 0..Len(cells) /\ e[k - 1] \in 0..Len(cells)
    <3>1. k \in 0..n /\ k - 1 \in 0..n /\ e \in [0..n -> 0..Len(cells)]
      BY <1>2 DEF CutAt
    <3> QED
      BY <3>1
  <2>3. PICK a \in Int, b \in Int :
           a = e[k - 1] + 1 /\ b = e[k] /\ b - a + 1 = e[k] - e[k - 1] /\ a <= b
    BY <1>1, <2>1, <2>2
  <2>4. \A i \in a..b : cells[i] \in Cells
    <3>1. \A i \in a..b : i \in 1..Len(cells)
      BY <1>1, <2>2, <2>3, SMTT(40)
    <3> QED
      BY <1>1, <3>1, ElementOfSeq
  <2>5. /\ SubSeq(cells, a, b) \in Seq(Cells)
        /\ Len(SubSeq(cells, a, b)) = IF a <= b THEN b - a + 1 ELSE 0
        /\ \A i \in 1..(b - a + 1) : SubSeq(cells, a, b)[i] = cells[a + i - 1]
    BY <2>4, SubSeqProperties
  <2>6. Len(pieces[k]) <= Mtu
    BY <1>2 DEF Sending, PackingOk
  <2>7. \A i \in 1..(b - a + 1) : a + i - 1 = e[k - 1] + i
    BY <2>2, <2>3
  <2>8. pieces[k] \in Seq(Cells) /\ Len(pieces[k]) = b - a + 1
    BY <2>1, <2>3, <2>5
  <2>9. \A j \in 1..(b - a + 1) : pieces[k][j] = cells[e[k - 1] + j]
    BY <2>1, <2>3, <2>5, <2>7, Zenon
  <2>10. e[k] \in Nat /\ e[k - 1] \in Nat
    BY <1>1, <2>2
  <2> QED
    BY <2>3, <2>6, <2>8, <2>9, <2>10, Zenon
<1>5. \A k \in 1..n : Numbered(n, pieces)[k] = [seq |-> sentCount + k, cells |-> pieces[k]]
  BY DEF Numbered
<1>6. Numbered(n, pieces) \in Seq([seq : 1..(sentCount + n), cells : Seq(Cells)])
      /\ Len(Numbered(n, pieces)) = n
  <2>1. ASSUME NEW k \in 1..n
        PROVE  [seq |-> sentCount + k, cells |-> pieces[k]]
                  \in [seq : 1..(sentCount + n), cells : Seq(Cells)]
    <3>1. sentCount + k \in 1..(sentCount + n)
      BY <1>2, <1>3
    <3> QED
      BY <1>4, <3>1
  <2> QED
    BY <1>2, <2>1 DEF Numbered
<1> QED
  BY <1>2, <1>3, <1>4, <1>5, <1>6 DEF cells, f, Pieced

(* The packets of the picture are counted. *)
LEMMA CountGrows ==
    ASSUME PTypes, NEW layout, NEW pieces, NEW n \in Nat, NEW e, Sending(layout, pieces, n, e)
    PROVE  sentCount' = sentCount + n
<1>1. lastPlaces \in Seq(Nat) /\ lastPlaces' = Append(lastPlaces, sentCount + n)
  BY DEF PTypes, TypeOK, Sending
<1>2. PICK m \in Nat : m = sentCount + n
  BY CountType
<1>3. /\ Append(lastPlaces, m) \in Seq(Nat) /\ Append(lastPlaces, m) # <<>>
      /\ Len(Append(lastPlaces, m)) = Len(lastPlaces) + 1
      /\ Append(lastPlaces, m)[Len(lastPlaces) + 1] = m
  BY <1>1, AppendProperties
<1>4. sentCount' = lastPlaces'[Len(lastPlaces')]
  BY <1>1, <1>2, <1>3 DEF sentCount, Last
<1> QED
  BY <1>1, <1>2, <1>3, <1>4

(* They stand behind those that were on their way. *)
LEMMA QueueGrows ==
    ASSUME PTypes, sentCount \in Nat, sentCount' \in Nat, sentCount <= sentCount',
           NEW n \in Nat, NEW more \in Seq([seq : 1..sentCount', cells : Seq(Cells)]),
           Len(more) = n, queue' = queue \o more
    PROVE  \E m \in Nat : /\ m = Len(queue) /\ Len(queue') = m + n
                          /\ \A j \in 1..m : queue'[j] = queue[j] /\ queue[j].seq \in 1..sentCount
                          /\ \A k \in 1..n : queue'[m + k] = more[k]
<1>1. PICK m \in Nat : m = Len(queue) /\ \A j \in 1..m : queue[j].seq \in 1..sentCount
  <2> DEFINE Q == [seq : 1..sentCount, cells : Seq(Cells)]
  <2>1. queue \in Seq(Q)
    BY DEF PTypes, TypeOK
  <2>2. Len(queue) \in Nat /\ \A j \in 1..Len(queue) : queue[j] \in Q
    <3> HIDE DEF Q
    <3> QED
      BY <2>1, LenProperties, ElementOfSeq
  <2> QED
    BY <2>2
<1> DEFINE R == [seq : 1..sentCount', cells : Seq(Cells)]
<1>2. queue \in Seq(R)
  <2>1. queue \in Seq([seq : 1..sentCount, cells : Seq(Cells)])
    BY DEF PTypes, TypeOK
  <2>2. [seq : 1..sentCount, cells : Seq(Cells)] \subseteq R
    OBVIOUS
  <2> HIDE DEF R
  <2> QED
    BY <2>1, <2>2, SeqMonotonic
<1>3. more \in Seq(R)
  OBVIOUS
<1> HIDE DEF R
<1>4. /\ Len(queue \o more) = m + n
      /\ \A j \in 1..(m + n) : (queue \o more)[j] = IF j <= m THEN queue[j] ELSE more[j - m]
  BY <1>1, <1>2, <1>3, ConcatProperties
<1>5. \A k \in 1..n : m + k \in 1..(m + n) /\ ~(m + k <= m) /\ (m + k) - m = k
  OBVIOUS
<1>6. \A j \in 1..m : j \in 1..(m + n) /\ j <= m
  OBVIOUS
<1> QED
  BY <1>1, <1>4, <1>5, <1>6

(* Sending keeps the types. *)
LEMMA SendTypes ==
    ASSUME PTypes, NEW layout \in Layouts, SendFrame(layout)
    PROVE  PTypes'
<1>1. Len(shapes) + 1 \in 1..MaxFrames /\ shapes' = Append(shapes, layout)
  BY SendPieces
<1>2. PICK pieces, n, e : Sending(layout, pieces, n, e)
  BY SendPieces
<1>3. /\ n \in Nat \ {0} /\ sentCount \in Nat
      /\ \A k \in 1..n : Len(pieces[k]) <= Mtu
      /\ Numbered(n, pieces) \in Seq([seq : 1..(sentCount + n), cells : Seq(Cells)])
      /\ Len(Numbered(n, pieces)) = n
      /\ \A k \in 1..n : Numbered(n, pieces)[k] = [seq |-> sentCount + k, cells |-> pieces[k]]
  <2>1. Pieced(layout, pieces, n, e)
    BY <1>1, <1>2, PieceTypes
  <2> QED
    BY <2>1, Zenon DEF Pieced
<1>4. shapes' \in Seq(Layouts) /\ Len(shapes') <= MaxFrames
  <2>1. shapes \in Seq(Layouts)
    BY DEF PTypes, TypeOK
  <2>2. Append(shapes, layout) \in Seq(Layouts) /\ Len(Append(shapes, layout)) = Len(shapes) + 1
    BY <2>1, AppendProperties
  <2> QED
    BY <1>1, <2>2
<1>5. lastPlaces' \in Seq(Nat) /\ sentCount' = sentCount + n
  <2>1. lastPlaces \in Seq(Nat) /\ lastPlaces' = Append(lastPlaces, sentCount + n)
    BY <1>2 DEF PTypes, TypeOK, Sending
  <2>2. PICK m \in Nat : m = sentCount + n
    BY <1>3
  <2>3. /\ Append(lastPlaces, m) \in Seq(Nat) /\ Append(lastPlaces, m) # <<>>
        /\ Len(Append(lastPlaces, m)) = Len(lastPlaces) + 1
        /\ Append(lastPlaces, m)[Len(lastPlaces) + 1] = m
    BY <2>1, AppendProperties
  <2>4. sentCount' = lastPlaces'[Len(lastPlaces')]
    BY <2>1, <2>2, <2>3 DEF sentCount, Last
  <2> QED
    BY <2>1, <2>2, <2>3, <2>4
<1>6. queue' \in Seq([seq : 1..sentCount', cells : Seq(Cells)]) /\ ShortPackets(queue')
  <2> DEFINE Q == [seq : 1..(sentCount + n), cells : Seq(Cells)]
  <2>1. queue \in Seq(Q)
    <3>1. queue \in Seq([seq : 1..sentCount, cells : Seq(Cells)])
      BY DEF PTypes, TypeOK
    <3>2. [seq : 1..sentCount, cells : Seq(Cells)] \subseteq Q
      BY <1>3
    <3> HIDE DEF Q
    <3> QED
      BY <3>1, <3>2, SeqMonotonic
  <2>2. Numbered(n, pieces) \in Seq(Q)
    BY <1>3
  <2> HIDE DEF Q
  <2>3. PICK more : more = Numbered(n, pieces) /\ more \in Seq(Q) /\ Len(more) = n
    BY <1>3, <2>2
  <2>4. PICK m \in Nat : m = Len(queue)
    BY <2>1, LenProperties
  <2>5. /\ queue \o more \in Seq(Q) /\ Len(queue \o more) = Len(queue) + Len(more)
        /\ \A i \in 1..(Len(queue) + Len(more)) :
              (queue \o more)[i] = IF i <= Len(queue) THEN queue[i] ELSE more[i - Len(queue)]
    BY <2>1, <2>3, ConcatProperties
  <2>6. queue' = queue \o more
    BY <1>2, <2>3 DEF Sending
  <2>7. ASSUME NEW i \in 1..(m + n) PROVE Len(queue'[i].cells) <= Mtu
    <3>1. CASE i <= m
      <4>1. queue'[i] = queue[i] /\ i \in 1..m
        BY <2>3, <2>4, <2>5, <2>6, <3>1
      <4> QED
        BY <2>4, <4>1 DEF PTypes, ShortPackets
    <3>2. CASE ~(i <= m)
      <4>1. i - m \in 1..n /\ queue'[i] = more[i - m]
        BY <1>3, <2>3, <2>4, <2>5, <2>6, <3>2
      <4>2. queue'[i].cells = pieces[i - m]
        BY <1>3, <2>3, <4>1
      <4> QED
        BY <1>3, <4>1, <4>2
    <3> QED
      BY <3>1, <3>2
  <2>8. Len(queue') = m + n
    BY <2>3, <2>4, <2>5, <2>6
  <2>9. ShortPackets(queue')
    BY <2>7, <2>8 DEF ShortPackets
  <2> QED
    BY <1>5, <2>5, <2>6, <2>9 DEF Q
<1>7. UNCHANGED <<parser, source, output>>
  BY DEF SendFrame
<1> QED
  BY <1>4, <1>5, <1>6, <1>7 DEF PTypes, TypeOK, ShortPackets, parser, source, output

-----------------------------------------------------------------------------
(* The types are kept.                                                      *)

(* A packet the parser is given. *)
LEMMA TakeTypes ==
    ASSUME PTypes, NEW cells \in Seq(Cells), Len(cells) <= Mtu, TakePacket(cells)
    PROVE  /\ data' \in [1..Mtu -> Cells] /\ len' \in 0..Mtu
           /\ pc' = "access" /\ pos' = 1
<1>1. Mtu \in Nat /\ data \in [1..Mtu -> Cells]
  BY SizeAssumption DEF PTypes, TypeOK
<1>2. Len(cells) \in Nat
  BY LenProperties
<1>3. ASSUME NEW k \in 1..Mtu
      PROVE  (IF k <= Len(cells) THEN cells[k] ELSE data[k]) \in Cells
  <2>1. CASE k <= Len(cells)
    <3>1. k \in 1..Len(cells)
      BY <1>2, <2>1
    <3>2. cells[k] \in Cells
      BY <3>1, ElementOfSeq
    <3> QED
      BY <2>1, <3>2
  <2>2. CASE ~(k <= Len(cells))
    BY <1>1, <2>2
  <2> QED
    BY <2>1, <2>2
<1>4. data' = [k \in 1..Mtu |-> IF k <= Len(cells) THEN cells[k] ELSE data[k]]
      /\ len' = Len(cells) /\ pc' = "access" /\ pos' = 1
  BY DEF TakePacket
<1>5. data' \in [1..Mtu -> Cells]
  BY <1>3, <1>4
<1> QED
  BY <1>1, <1>2, <1>4, <1>5

(* The types hold before anything was sent. *)
LEMMA InitTypes == Init => PTypes
<1> SUFFICES ASSUME Init PROVE PTypes
  OBVIOUS
<1>1. Mtu \in Nat /\ MaxFrames \in Nat
  BY SizeAssumption
<1>2. Nothing \in Cells
  BY <1>1 DEF Nothing, Cell, Cells, CellKinds
<1>3. data \in [1..Mtu -> Cells]
  BY <1>2 DEF Init, NewRtpSource
<1>4. \A S : <<>> \in Seq(S) /\ Len(<<>>) = 0
  BY EmptySeq
<1>5. sentCount = 0
  BY DEF Init, sentCount
<1>6. /\ queue = <<>> /\ queue \in Seq([seq : 1..sentCount, cells : Seq(Cells)])
      /\ ShortPackets(queue)
  BY <1>4 DEF Init, ShortPackets
<1>7. /\ shapes \in Seq(Layouts) /\ Len(shapes) <= MaxFrames
      /\ lastPlaces \in Seq(Nat) /\ frame \in Seq(Cells) /\ h264 \in Seq(Cells)
      /\ decoded \in Seq(Seq(Cells)) /\ heard \in Seq(Seq(Cells))
      /\ frameSize \in Nat /\ Len(frame) <= frameSize
  BY <1>1, <1>4 DEF Init, NewRtpSource
<1>8. /\ len \in 0..Mtu /\ pc \in {"idle", "access", "ps", "pes", "crashed"} /\ pos \in Nat \ {0}
      /\ curStream \in Streams \cup {"none"} /\ isFrameStart \in BOOLEAN
      /\ (pc = "access" => pos = 1)
  <2>1. len = 0 /\ pc = "idle" /\ pos = 1
    BY DEF Init, NewRtpSource
  <2>2. \/ curStream = "video" /\ isFrameStart = FALSE
        \/ curStream = "none" /\ isFrameStart = TRUE
    BY DEF Init, NewRtpSource
  <2>3. isFrameStart \in BOOLEAN
    BY <2>2, Zenon
  <2>4. curStream \in Streams \cup {"none"}
    BY <2>2 DEF Streams
  <2> QED
    BY <1>1, <2>1, <2>3, <2>4
<1> QED
  BY <1>3, <1>6, <1>7, <1>8 DEF PTypes, TypeOK

(* The first packet on its way. *)
LEMMA HeadTypes ==
    ASSUME PTypes, queue # <<>>
    PROVE  /\ Head(queue) = queue[1] /\ Head(queue).cells \in Seq(Cells)
           /\ Len(Head(queue).cells) <= Mtu
           /\ Tail(queue) \in Seq([seq : 1..sentCount, cells : Seq(Cells)])
           /\ Len(Tail(queue)) = Len(queue) - 1 /\ Len(queue) \in Nat \ {0}
           /\ \A i \in 1..(Len(queue) - 1) : Tail(queue)[i] = queue[i + 1]
           /\ ShortPackets(Tail(queue))
<1> DEFINE Q == [seq : 1..sentCount, cells : Seq(Cells)]
<1>1. queue \in Seq(Q)
  BY DEF PTypes, TypeOK
<1>2. Head(queue) \in Q
  <2> HIDE DEF Q
  <2> QED
    BY <1>1, HeadTailProperties
<1>3. Head(queue).cells \in Seq(Cells)
  BY <1>2
<1> HIDE DEF Q
<1>4. /\ Len(queue) \in Nat \ {0} /\ Tail(queue) \in Seq(Q) /\ Len(Tail(queue)) = Len(queue) - 1
      /\ \A i \in 1..Len(Tail(queue)) : Tail(queue)[i] = queue[i + 1]
  BY <1>1, HeadTailProperties, EmptySeq
<1>5. Head(queue) = queue[1] /\ \A i \in 1..Len(queue) : Len(queue[i].cells) <= Mtu
  BY DEF PTypes, ShortPackets
<1>6. Len(Head(queue).cells) <= Mtu
  <2>1. 1 \in 1..Len(queue)
    BY <1>4
  <2> QED
    BY <1>5, <2>1
<1>7. ASSUME NEW i \in 1..Len(Tail(queue)) PROVE Len(Tail(queue)[i].cells) <= Mtu
  <2>1. i + 1 \in 1..Len(queue)
    BY <1>4
  <2> QED
    BY <1>4, <1>5, <2>1
<1> QED
  BY <1>3, <1>4, <1>5, <1>6, <1>7 DEF Q, ShortPackets

(* The types hold in every step. *)
LEMMA NextTypes == PTypes /\ [Next]_vars => PTypes'
<1> SUFFICES ASSUME PTypes, [Next]_vars PROVE PTypes'
  OBVIOUS
<1>1. ASSUME NEW layout \in Layouts, SendFrame(layout) PROVE PTypes'
  BY <1>1, SendTypes
<1>2. ASSUME ReceiveNext PROVE PTypes'
  <2>1. /\ Head(queue).cells \in Seq(Cells) /\ Len(Head(queue).cells) <= Mtu
        /\ Tail(queue) \in Seq([seq : 1..sentCount, cells : Seq(Cells)])
        /\ ShortPackets(Tail(queue))
    BY <1>2, HeadTypes DEF ReceiveNext
  <2>2. /\ data' \in [1..Mtu -> Cells] /\ len' \in 0..Mtu
        /\ pc' = "access" /\ pos' = 1
    <3>1. TakePacket(Head(queue).cells)
      BY <1>2 DEF ReceiveNext
    <3> QED
      BY <2>1, <3>1, TakeTypes
  <2>3. queue' = Tail(queue) /\ UNCHANGED <<shapes, lastPlaces, source, output>>
    BY <1>2 DEF ReceiveNext
  <2>4. sentCount' = sentCount
    BY <2>3 DEF sentCount
  <2> QED
    BY <2>1, <2>2, <2>3, <2>4 DEF PTypes, TypeOK, source, output
<1>3. CASE Parse
  BY <1>3, ParseTypes
<1>4. CASE UNCHANGED vars
  BY <1>4 DEF PTypes, TypeOK, sentCount, ShortPackets, vars, sender, parser, source, output
<1> QED
  BY <1>1, <1>2, <1>3, <1>4 DEF Next

(* The packets, the buffers and what the decoders were given have their     *)
(* types, and frameBuff never holds more than the announced size.           *)
THEOREM TypesHold == Spec => []PTypes
<1>1. Init => PTypes
  BY InitTypes
<1>2. PTypes /\ [Next]_vars => PTypes'
  BY NextTypes
<1> QED
  BY <1>1, <1>2, PTL DEF Spec

(* The type invariant of the stream parser (TypeOK).                        *)
THEOREM TypeCorrect == Spec => []TypeOK
<1>1. PTypes => TypeOK
  BY DEF PTypes
<1> QED
  BY <1>1, TypesHold, PTL

-----------------------------------------------------------------------------
(* What the decoders are given.                                             *)

VideoParts(f, l) == [u \in DOMAIN l.pes |-> IF l.pes[u].stream = "video"
                                            THEN Payload(f, u, l.pes[u].size) ELSE <<>>]
AudioParts(f, l) == [u \in DOMAIN l.pes |-> IF l.pes[u].stream = "audio"
                                            THEN <<Payload(f, u, l.pes[u].size)>> ELSE <<>>]

VideoAll(f, l) == FlattenSeq(VideoParts(f, l))
AudioAll(f, l) == FlattenSeq(AudioParts(f, l))

(* As far as the PES packet u. *)
VideoTo(f, l, u) == FlattenSeq(SubSeq(VideoParts(f, l), 1, u))
AudioTo(f, l, u) == FlattenSeq(SubSeq(AudioParts(f, l), 1, u))

(* The audio of the first k pictures. *)
AudioThrough(ps, k) == FlattenSeq([f \in 1..k |-> AudioAll(f, ps[f])])

(* One sequence after the other, up to one of them and altogether. *)
LEMMA PartByPart ==
    ASSUME NEW S, NEW ss \in Seq(Seq(S))
    PROVE  /\ FlattenSeq(ss) \in Seq(S)
           /\ FlattenSeq(SubSeq(ss, 1, 0)) = <<>>
           /\ FlattenSeq(SubSeq(ss, 1, Len(ss))) = FlattenSeq(ss)
           /\ \A u \in 0..Len(ss) : FlattenSeq(SubSeq(ss, 1, u)) \in Seq(S)
           /\ \A u \in 1..Len(ss) :
                 FlattenSeq(SubSeq(ss, 1, u)) = FlattenSeq(SubSeq(ss, 1, u - 1)) \o ss[u]
<1>1. <<>> \in Seq(S)
  BY EmptySeq
<1>2. FlattenSeq(ss) \in Seq(S)
  BY <1>1, FlattenAppend
<1>3. FlattenSeq(SubSeq(ss, 1, 0)) = <<>>
  <2>1. SubSeq(ss, 1, 0) = <<>>
    BY SubSeqEmpty
  <2> QED
    BY <2>1, FlattenNone
<1>4. FlattenSeq(SubSeq(ss, 1, Len(ss))) = FlattenSeq(ss)
  BY SubSeqFull
<1>5. ASSUME NEW u \in 0..Len(ss) PROVE FlattenSeq(SubSeq(ss, 1, u)) \in Seq(S)
  <2>1. SubSeq(ss, 1, u) \in Seq(Seq(S))
    BY CutInTwo
  <2> QED
    BY <1>1, <2>1, FlattenAppend
<1>6. ASSUME NEW u \in 1..Len(ss)
      PROVE  FlattenSeq(SubSeq(ss, 1, u)) = FlattenSeq(SubSeq(ss, 1, u - 1)) \o ss[u]
  BY FlattenAt
<1> QED
  BY <1>2, <1>3, <1>4, <1>5, <1>6

(* The video and the audio of a picture. *)
LEMMA PartTypes ==
    ASSUME NEW f \in 0..MaxFrames, NEW l \in Layouts
    PROVE  /\ VideoParts(f, l) \in Seq(Seq(Cells)) /\ Len(VideoParts(f, l)) = Len(l.pes)
           /\ AudioParts(f, l) \in Seq(Seq(Seq(Cells))) /\ Len(AudioParts(f, l)) = Len(l.pes)
           /\ \A u \in 1..Len(l.pes) :
                 /\ VideoParts(f, l)[u] = IF l.pes[u].stream = "video"
                                          THEN Payload(f, u, l.pes[u].size) ELSE <<>>
                 /\ AudioParts(f, l)[u] = IF l.pes[u].stream = "audio"
                                          THEN <<Payload(f, u, l.pes[u].size)>> ELSE <<>>
                 /\ Payload(f, u, l.pes[u].size) \in Seq(Cells)
                 /\ Payload(f, u, l.pes[u].size) # <<>>
<1>1. PICK n \in Nat \ {0} : n = Len(l.pes) /\ DOMAIN l.pes = 1..n
  BY PesTypes
<1>2. ASSUME NEW u \in 1..n
      PROVE  /\ Payload(f, u, l.pes[u].size) \in Seq(Cells)
             /\ Payload(f, u, l.pes[u].size) # <<>>
  <2>1. PICK p : p = l.pes[u] /\ p.stream \in PesKinds /\ p.size \in Nat \ {0}
    BY <1>1, PesTypes
  <2>2. Payload(f, u, p.size) \in Seq(Cells) /\ Len(Payload(f, u, p.size)) = p.size
    BY <2>1, PartCells
  <2>3. Payload(f, u, p.size) # <<>>
    BY <2>1, <2>2, EmptySeq
  <2> QED
    BY <2>1, <2>2, <2>3
<1> DEFINE v(u) == IF l.pes[u].stream = "video" THEN Payload(f, u, l.pes[u].size) ELSE <<>>
           a(u) == IF l.pes[u].stream = "audio" THEN <<Payload(f, u, l.pes[u].size)>> ELSE <<>>
<1>3. ASSUME NEW u \in 1..n PROVE v(u) \in Seq(Cells) /\ a(u) \in Seq(Seq(Cells))
  <2>1. <<>> \in Seq(Cells) /\ <<>> \in Seq(Seq(Cells))
    BY EmptySeq
  <2>2. PICK x \in Seq(Cells) : x = Payload(f, u, l.pes[u].size)
    BY <1>2
  <2>3. <<x>> \in Seq(Seq(Cells))
    OBVIOUS
  <2> QED
    BY <2>1, <2>2, <2>3
<1>4. VideoParts(f, l) = [u \in 1..n |-> v(u)] /\ AudioParts(f, l) = [u \in 1..n |-> a(u)]
  BY <1>1 DEF VideoParts, AudioParts
<1> HIDE DEF v, a
<1>5. VideoParts(f, l) \in Seq(Seq(Cells)) /\ Len(VideoParts(f, l)) = n
      /\ \A u \in 1..n : VideoParts(f, l)[u] = v(u)
  BY <1>3, <1>4
<1>6. AudioParts(f, l) \in Seq(Seq(Seq(Cells))) /\ Len(AudioParts(f, l)) = n
      /\ \A u \in 1..n : AudioParts(f, l)[u] = a(u)
  BY <1>3, <1>4
<1> QED
  BY <1>1, <1>2, <1>5, <1>6 DEF v, a

(* They grow by one PES packet after the other. *)
LEMMA VideoGrows ==
    ASSUME NEW f \in 0..MaxFrames, NEW l \in Layouts
    PROVE  /\ VideoAll(f, l) \in Seq(Cells) /\ VideoAll(f, l) # <<>>
           /\ VideoTo(f, l, 0) = <<>> /\ VideoTo(f, l, Len(l.pes)) = VideoAll(f, l)
           /\ \A u \in 0..Len(l.pes) : VideoTo(f, l, u) \in Seq(Cells)
           /\ \A u \in 1..Len(l.pes) :
                 VideoTo(f, l, u) = IF l.pes[u].stream = "video"
                                    THEN VideoTo(f, l, u - 1) \o Payload(f, u, l.pes[u].size)
                                    ELSE VideoTo(f, l, u - 1)
<1>1. PICK ss \in Seq(Seq(Cells)) : ss = VideoParts(f, l) /\ Len(ss) = Len(l.pes)
  BY PartTypes
<1>2. /\ FlattenSeq(ss) \in Seq(Cells)
      /\ FlattenSeq(SubSeq(ss, 1, 0)) = <<>>
      /\ FlattenSeq(SubSeq(ss, 1, Len(ss))) = FlattenSeq(ss)
      /\ \A u \in 0..Len(ss) : FlattenSeq(SubSeq(ss, 1, u)) \in Seq(Cells)
      /\ \A u \in 1..Len(ss) :
            FlattenSeq(SubSeq(ss, 1, u)) = FlattenSeq(SubSeq(ss, 1, u - 1)) \o ss[u]
  BY PartByPart
<1>3. VideoAll(f, l) # <<>>
  <2>1. 1 \in 1..Len(l.pes) /\ l.pes[1].stream = "video"
    BY PesTypes
  <2>2. ss[1] = Payload(f, 1, l.pes[1].size) /\ ss[1] # <<>> /\ ss[1] \in Seq(Cells)
    BY <1>1, <2>1, PartTypes
  <2> DEFINE before == FlattenSeq(SubSeq(ss, 1, 1 - 1))
  <2>3. before \in Seq(Cells) /\ Len(before) + Len(ss[1]) <= Len(FlattenSeq(ss))
    BY <1>1, <2>1, FlattenAt
  <2>4. Len(before) \in Nat /\ Len(ss[1]) \in Nat \ {0}
    BY <2>2, <2>3, LenProperties, EmptySeq
  <2> HIDE DEF before
  <2>5. Len(FlattenSeq(ss)) \in Nat
    BY <1>2, LenProperties
  <2>6. Len(FlattenSeq(ss)) # 0
    BY <2>3, <2>4, <2>5
  <2> QED
    BY <1>1, <2>6, EmptySeq DEF VideoAll
<1>4. ASSUME NEW u \in 1..Len(l.pes)
      PROVE  VideoTo(f, l, u) = IF l.pes[u].stream = "video"
                                THEN VideoTo(f, l, u - 1) \o Payload(f, u, l.pes[u].size)
                                ELSE VideoTo(f, l, u - 1)
  <2>1. VideoTo(f, l, u) = VideoTo(f, l, u - 1) \o ss[u]
    BY <1>1, <1>2 DEF VideoTo
  <2>2. ss[u] = IF l.pes[u].stream = "video" THEN Payload(f, u, l.pes[u].size) ELSE <<>>
    BY <1>1, PartTypes
  <2>3. VideoTo(f, l, u - 1) \in Seq(Cells)
    <3>1. u - 1 \in 0..Len(ss)
      BY <1>1
    <3> QED
      BY <1>1, <1>2, <3>1 DEF VideoTo
  <2>4. VideoTo(f, l, u - 1) \o <<>> = VideoTo(f, l, u - 1)
    BY <2>3, ConcatEmptySeq
  <2> QED
    BY <2>1, <2>2, <2>4
<1> QED
  BY <1>1, <1>2, <1>3, <1>4 DEF VideoAll, VideoTo

(* The audio as well. *)
LEMMA AudioGrows ==
    ASSUME NEW f \in 0..MaxFrames, NEW l \in Layouts
    PROVE  /\ AudioAll(f, l) \in Seq(Seq(Cells))
           /\ AudioTo(f, l, 0) = <<>> /\ AudioTo(f, l, Len(l.pes)) = AudioAll(f, l)
           /\ \A u \in 0..Len(l.pes) : AudioTo(f, l, u) \in Seq(Seq(Cells))
           /\ \A u \in 1..Len(l.pes) :
                 AudioTo(f, l, u) = IF l.pes[u].stream = "audio"
                                    THEN AudioTo(f, l, u - 1) \o <<Payload(f, u, l.pes[u].size)>>
                                    ELSE AudioTo(f, l, u - 1)
<1>1. PICK ss \in Seq(Seq(Seq(Cells))) : ss = AudioParts(f, l) /\ Len(ss) = Len(l.pes)
  BY PartTypes
<1>2. /\ FlattenSeq(ss) \in Seq(Seq(Cells))
      /\ FlattenSeq(SubSeq(ss, 1, 0)) = <<>>
      /\ FlattenSeq(SubSeq(ss, 1, Len(ss))) = FlattenSeq(ss)
      /\ \A u \in 0..Len(ss) : FlattenSeq(SubSeq(ss, 1, u)) \in Seq(Seq(Cells))
      /\ \A u \in 1..Len(ss) :
            FlattenSeq(SubSeq(ss, 1, u)) = FlattenSeq(SubSeq(ss, 1, u - 1)) \o ss[u]
  BY PartByPart
<1>4. ASSUME NEW u \in 1..Len(l.pes)
      PROVE  AudioTo(f, l, u) = IF l.pes[u].stream = "audio"
                                THEN AudioTo(f, l, u - 1) \o <<Payload(f, u, l.pes[u].size)>>
                                ELSE AudioTo(f, l, u - 1)
  <2>1. AudioTo(f, l, u) = AudioTo(f, l, u - 1) \o ss[u]
    BY <1>1, <1>2 DEF AudioTo
  <2>2. ss[u] = IF l.pes[u].stream = "audio" THEN <<Payload(f, u, l.pes[u].size)>> ELSE <<>>
    BY <1>1, PartTypes
  <2>3. AudioTo(f, l, u - 1) \in Seq(Seq(Cells))
    <3>1. u - 1 \in 0..Len(ss)
      BY <1>1
    <3> QED
      BY <1>1, <1>2, <3>1 DEF AudioTo
  <2>4. AudioTo(f, l, u - 1) \o <<>> = AudioTo(f, l, u - 1)
    BY <2>3, ConcatEmptySeq
  <2> QED
    BY <2>1, <2>2, <2>4
<1> QED
  BY <1>1, <1>2, <1>4 DEF AudioAll, AudioTo

(* Private data at the end of a picture is neither video nor audio. *)
LEMMA PrivateTail ==
    ASSUME NEW f \in 0..MaxFrames, NEW l \in Layouts, NEW u \in 0..Len(l.pes),
           \A v \in (u + 1)..Len(l.pes) : l.pes[v].stream = "private"
    PROVE  VideoTo(f, l, u) = VideoAll(f, l) /\ AudioTo(f, l, u) = AudioAll(f, l)
<1>1. Len(l.pes) \in Nat
  BY PesTypes
<1>2. \A v \in (u + 1)..Len(l.pes) : v \in 1..Len(l.pes)
  BY <1>1
<1>3. PICK ss \in Seq(Seq(Cells)) : ss = VideoParts(f, l) /\ Len(ss) = Len(l.pes)
  BY PartTypes
<1>4. PICK aa \in Seq(Seq(Seq(Cells))) : aa = AudioParts(f, l) /\ Len(aa) = Len(l.pes)
  BY PartTypes
<1>5. \A v \in (u + 1)..Len(l.pes) : ss[v] = <<>> /\ aa[v] = <<>>
  BY <1>2, <1>3, <1>4, PartTypes
<1>6. FlattenSeq(ss) = FlattenSeq(SubSeq(ss, 1, u))
  BY <1>3, <1>5, FlattenTail
<1>7. FlattenSeq(aa) = FlattenSeq(SubSeq(aa, 1, u))
  BY <1>4, <1>5, FlattenTail
<1> QED
  BY <1>3, <1>4, <1>6, <1>7 DEF VideoTo, VideoAll, AudioTo, AudioAll

(* One call more. *)
LEMMA OneCallMore ==
    ASSUME NEW d \in Seq(Seq(Cells)), NEW x \in Seq(Cells)
    PROVE  /\ WithBytes(d) \in Seq(Seq(Cells))
           /\ WithBytes(Append(d, x)) = IF x = <<>> THEN WithBytes(d) ELSE WithBytes(d) \o <<x>>
<1> DEFINE one(c) == IF c = <<>> THEN <<>> ELSE <<c>>
           e == [i \in 1..Len(d) |-> one(d[i])]
<1>1. PICK n \in Nat : n = Len(d) /\ DOMAIN d = 1..n
  BY LenProperties
<1>2. ASSUME NEW c \in Seq(Cells) PROVE one(c) \in Seq(Seq(Cells))
  <2>1. <<>> \in Seq(Seq(Cells)) /\ <<c>> \in Seq(Seq(Cells))
    OBVIOUS
  <2> QED
    BY <2>1
<1>3. \A i \in 1..n : d[i] \in Seq(Cells)
  BY <1>1, ElementOfSeq
<1>4. WithBytes(d) = FlattenSeq(e)
  BY <1>1 DEF WithBytes
<1>5. /\ Append(d, x) \in Seq(Seq(Cells)) /\ Len(Append(d, x)) = n + 1
      /\ \A i \in 1..n : Append(d, x)[i] = d[i]
      /\ Append(d, x)[n + 1] = x
  BY <1>1, AppendProperties
<1>6. DOMAIN Append(d, x) = 1..(n + 1)
  BY <1>5, LenProperties
<1>7. WithBytes(Append(d, x)) = FlattenSeq([i \in 1..(n + 1) |-> one(Append(d, x)[i])])
  BY <1>6 DEF WithBytes
<1> HIDE DEF one
<1>8. e \in Seq(Seq(Seq(Cells))) /\ Len(e) = n /\ \A i \in 1..n : e[i] = one(d[i])
  BY <1>1, <1>2, <1>3
<1> DEFINE m == [i \in 1..(n + 1) |-> one(Append(d, x)[i])]
<1>9. m \in Seq(Seq(Seq(Cells))) /\ Len(m) = n + 1
      /\ \A i \in 1..(n + 1) : m[i] = one(Append(d, x)[i])
  <2>1. \A i \in 1..(n + 1) : Append(d, x)[i] \in Seq(Cells)
    BY <1>5, ElementOfSeq
  <2>2. PICK s : s = Append(d, x)
    OBVIOUS
  <2>3. \A i \in 1..(n + 1) : one(s[i]) \in Seq(Seq(Cells))
    BY <1>2, <2>1, <2>2
  <2>4. m = [i \in 1..(n + 1) |-> one(s[i])]
    BY <2>2
  <2> HIDE DEF m
  <2>5. n + 1 \in Nat
    OBVIOUS
  <2>6. m \in Seq(Seq(Seq(Cells))) /\ Len(m) = n + 1 /\ \A i \in 1..(n + 1) : m[i] = one(s[i])
    BY <2>3, <2>4, <2>5
  <2> QED
    BY <2>2, <2>6
<1>10. one(x) \in Seq(Seq(Cells))
  BY <1>2
<1> HIDE DEF e, m
<1>11. m = Append(e, one(x))
  <2>1. /\ Append(e, one(x)) \in Seq(Seq(Seq(Cells))) /\ Len(Append(e, one(x))) = n + 1
        /\ \A i \in 1..n : Append(e, one(x))[i] = e[i]
        /\ Append(e, one(x))[n + 1] = one(x)
    BY <1>8, <1>10, AppendProperties
  <2>2. ASSUME NEW i \in 1..(n + 1) PROVE m[i] = Append(e, one(x))[i]
    <3>1. i \in 1..n \/ i = n + 1
      OBVIOUS
    <3> QED
      BY <1>5, <1>8, <1>9, <2>1, <3>1
  <2> QED
    BY <1>9, <2>1, <2>2, SeqEqual
<1>12. FlattenSeq(e) \in Seq(Seq(Cells)) /\ FlattenSeq(Append(e, one(x))) = FlattenSeq(e) \o one(x)
  BY <1>8, <1>10, FlattenAppend
<1>13. WithBytes(Append(d, x)) = WithBytes(d) \o one(x)
  BY <1>4, <1>7, <1>11, <1>12 DEF m
<1>14. WithBytes(d) \o <<>> = WithBytes(d)
  BY <1>4, <1>12, ConcatEmptySeq
<1> QED
  BY <1>4, <1>12, <1>13, <1>14 DEF one

(* Three sequences, one after the other (lemma Regroup). *)
Regrouped(p, q, r) == (p \o q) \o r = p \o (q \o r)

(* ... for any three. *)
LEMMA Regroups ==
    ASSUME NEW S, NEW p \in Seq(S), NEW q \in Seq(S), NEW r \in Seq(S)
    PROVE  Regrouped(p, q, r)
BY Regroup DEF Regrouped

(* The audio of the pictures, one picture after the other. *)
LEMMA AudioJoined ==
    ASSUME NEW ps \in Seq(Layouts), Len(ps) <= MaxFrames, NEW k \in 0..Len(ps)
    PROVE  /\ AudioThrough(ps, k) \in Seq(Seq(Cells)) /\ AudioThrough(ps, 0) = <<>>
           /\ k # 0 => AudioThrough(ps, k) = AudioThrough(ps, k - 1) \o AudioAll(k, ps[k])
           /\ \E rest \in Seq(Seq(Cells)) :
                 AudioThrough(ps, Len(ps)) = AudioThrough(ps, k) \o rest
<1>1. PICK n \in Nat : n = Len(ps)
  BY LenProperties
<1> DEFINE all == [f \in 1..n |-> AudioAll(f, ps[f])]
<1>2. \A f \in 1..n : AudioAll(f, ps[f]) \in Seq(Seq(Cells))
  <2>1. ASSUME NEW f \in 1..n PROVE AudioAll(f, ps[f]) \in Seq(Seq(Cells))
    <3>1. ps[f] \in Layouts /\ f \in 0..MaxFrames
      BY <1>1, ElementOfSeq, SizeAssumption
    <3> QED
      BY <3>1, AudioGrows
  <2> QED
    BY <2>1
<1>3. all \in Seq(Seq(Seq(Cells))) /\ Len(all) = n /\ \A f \in 1..n : all[f] = AudioAll(f, ps[f])
  BY <1>2
<1> HIDE DEF all
<1>4. ASSUME NEW m \in 0..n PROVE AudioThrough(ps, m) = FlattenSeq(SubSeq(all, 1, m))
  <2>1. SubSeq(all, 1, m) \in Seq(Seq(Seq(Cells))) /\ Len(SubSeq(all, 1, m)) = m
        /\ \A f \in 1..m : SubSeq(all, 1, m)[f] = all[f]
    BY <1>3, CutInTwo
  <2> DEFINE some == [f \in 1..m |-> AudioAll(f, ps[f])]
  <2>2. \A f \in 1..m : f \in 1..n
    OBVIOUS
  <2>3. /\ some \in Seq(Seq(Seq(Cells))) /\ Len(some) = m
        /\ \A f \in 1..m : some[f] = AudioAll(f, ps[f])
    BY <1>2, <2>2
  <2> HIDE DEF some
  <2>4. some = SubSeq(all, 1, m)
    BY <1>3, <2>1, <2>2, <2>3, SeqEqual
  <2> QED
    BY <2>4 DEF some, AudioThrough
<1>5. AudioThrough(ps, k) \in Seq(Seq(Cells)) /\ AudioThrough(ps, 0) = <<>>
  <2>1. k \in 0..n /\ 0 \in 0..n
    BY <1>1
  <2>2. FlattenSeq(SubSeq(all, 1, 0)) = <<>> /\ FlattenSeq(SubSeq(all, 1, k)) \in Seq(Seq(Cells))
    BY <1>3, <2>1, PartByPart
  <2> QED
    BY <1>4, <2>1, <2>2
<1>6. ASSUME k # 0 PROVE AudioThrough(ps, k) = AudioThrough(ps, k - 1) \o AudioAll(k, ps[k])
  <2>1. k \in 1..n /\ k - 1 \in 0..n
    BY <1>1, <1>6
  <2>2. FlattenSeq(SubSeq(all, 1, k)) = FlattenSeq(SubSeq(all, 1, k - 1)) \o all[k]
    BY <1>3, <2>1, PartByPart
  <2>3. all[k] = AudioAll(k, ps[k])
    BY <1>3, <2>1
  <2>4. AudioThrough(ps, k - 1) = FlattenSeq(SubSeq(all, 1, k - 1))
    BY <1>4, <2>1
  <2>5. AudioThrough(ps, k) = FlattenSeq(SubSeq(all, 1, k))
    <3>1. k \in 0..n
      BY <2>1
    <3> QED
      BY <1>4, <3>1
  <2> QED
    BY <2>2, <2>3, <2>4, <2>5
<1>7. \E rest \in Seq(Seq(Cells)) : AudioThrough(ps, n) = AudioThrough(ps, k) \o rest
  <2>1. k \in 0..n /\ n \in 0..n
    BY <1>1
  <2>2. PICK rest \in Seq(Seq(Cells)) : FlattenSeq(all) = FlattenSeq(SubSeq(all, 1, k)) \o rest
    BY <1>3, <2>1, FlattenCut
  <2>3. FlattenSeq(SubSeq(all, 1, n)) = FlattenSeq(all)
    BY <1>3, PartByPart
  <2> QED
    BY <1>4, <2>1, <2>2, <2>3
<1> QED
  BY <1>1, <1>5, <1>6, <1>7

-----------------------------------------------------------------------------
(* What has been given to the decoders when the parser is at some place.    *)

(* The decoder has been given the first k pictures and nothing else.        *)
Pictures(ps, d, k) == /\ Len(WithBytes(d)) = k
                      /\ \A i \in 1..k : WithBytes(d)[i] = VideoAll(i, ps[i])

(* It has, or the last of them still waits in h264Buff.                     *)
Finished(ps, h, d, k) == \/ k # 0 /\ h = VideoAll(k, ps[k]) /\ Pictures(ps, d, k - 1)
                         \/ h = <<>> /\ Pictures(ps, d, k)

(* A parser that came into the stream with the packets of picture "since"   *)
(* owes the pictures from there on, whatever else it has written: the       *)
(* decoder has been given those up to k, ...                                *)
Shown(d, video) == \E i \in 1..Len(d) : d[i] = video

AllShown(ps, d, since, k) == \A g \in since..k : Shown(d, VideoAll(g, ps[g]))

(* ... or the last of them still waits. *)
Resumed(ps, h, d, since, k) == \/ AllShown(ps, d, since, k)
                               \/ h = VideoAll(k, ps[k]) /\ AllShown(ps, d, since, k - 1)

(* At the beginning of picture f; since = 0: nothing else was written from  *)
(* the first picture on.                                                    *)
Begun(ps, h, d, r, f, since) ==
    IF since = 0 THEN Finished(ps, h, d, f - 1) /\ WithBytes(r) = AudioThrough(ps, f - 1)
    ELSE Resumed(ps, h, d, since, f - 1)

(* Behind its PES packet u. *)
Output(ps, h, d, r, f, u, since) ==
    IF u = 0 THEN Begun(ps, h, d, r, f, since)
    ELSE /\ h = VideoTo(f, ps[f], u)
         /\ IF since = 0
            THEN /\ Pictures(ps, d, f - 1)
                 /\ WithBytes(r) = AudioThrough(ps, f - 1) \o AudioTo(f, ps[f], u)
            ELSE AllShown(ps, d, since, f - 1)

(* It depends on the pictures up to f alone. *)
LEMMA OutputStays ==
    ASSUME NEW since \in Nat, NEW ps \in Seq(Layouts), NEW qs \in Seq(Layouts), NEW h, NEW d, NEW r,
           NEW f \in Nat \ {0}, NEW u \in Nat
    PROVE  /\ (\A i \in 1..(f - 1) : ps[i] = qs[i]) /\ Begun(ps, h, d, r, f, since)
                 => Begun(qs, h, d, r, f, since)
           /\ (\A i \in 1..f : ps[i] = qs[i]) /\ Output(ps, h, d, r, f, u, since)
                 => Output(qs, h, d, r, f, u, since)
<1>1. ASSUME NEW k \in Nat, \A i \in 1..k : ps[i] = qs[i]
      PROVE  /\ AudioThrough(ps, k) = AudioThrough(qs, k)
             /\ Pictures(ps, d, k) => Pictures(qs, d, k)
             /\ k # 0 => (Pictures(ps, d, k - 1) => Pictures(qs, d, k - 1))
             /\ Finished(ps, h, d, k) => Finished(qs, h, d, k)
  <2>1. \A i \in 1..k : /\ AudioAll(i, ps[i]) = AudioAll(i, qs[i])
                        /\ VideoAll(i, ps[i]) = VideoAll(i, qs[i])
    BY <1>1
  <2>2. AudioThrough(ps, k) = AudioThrough(qs, k)
    <3>1. [i \in 1..k |-> AudioAll(i, ps[i])] = [i \in 1..k |-> AudioAll(i, qs[i])]
      BY <2>1
    <3> QED
      BY <3>1 DEF AudioThrough
  <2>3. Pictures(ps, d, k) => Pictures(qs, d, k)
    BY <2>1 DEF Pictures
  <2>4. ASSUME k # 0 PROVE Pictures(ps, d, k - 1) => Pictures(qs, d, k - 1)
    <3>1. \A i \in 1..(k - 1) : i \in 1..k
      OBVIOUS
    <3> QED
      BY <2>1, <3>1 DEF Pictures
  <2>5. k # 0 => VideoAll(k, ps[k]) = VideoAll(k, qs[k])
    <3>1. k # 0 => k \in 1..k
      OBVIOUS
    <3> QED
      BY <2>1, <3>1
  <2> QED
    BY <2>2, <2>3, <2>4, <2>5 DEF Finished
<1>4. ASSUME NEW k \in Nat, \A i \in 1..k : ps[i] = qs[i], since # 0
      PROVE  /\ AllShown(ps, d, since, k) => AllShown(qs, d, since, k)
             /\ Resumed(ps, h, d, since, k) => Resumed(qs, h, d, since, k)
  <2>1. \A g \in since..k : g \in 1..k
    BY <1>4
  <2>2. AllShown(ps, d, since, k) => AllShown(qs, d, since, k)
    BY <1>4, <2>1 DEF AllShown
  <2>3. AllShown(ps, d, since, k - 1) => AllShown(qs, d, since, k - 1)
    <3>1. \A g \in since..(k - 1) : g \in 1..k
      BY <1>4
    <3> QED
      BY <1>4, <3>1 DEF AllShown
  <2>4. CASE k \in 1..k
    BY <1>4, <2>2, <2>3, <2>4 DEF Resumed
  <2>5. CASE k = 0
    <3>1. \A g : g \notin since..k
      BY <1>4, <2>5
    <3> QED
      BY <2>2, <3>1 DEF Resumed, AllShown
  <2> QED
    BY <2>4, <2>5
<1>2. ASSUME \A i \in 1..(f - 1) : ps[i] = qs[i], Begun(ps, h, d, r, f, since)
      PROVE  Begun(qs, h, d, r, f, since)
  <2>1. f - 1 \in Nat
    OBVIOUS
  <2> QED
    BY <1>1, <1>2, <1>4, <2>1 DEF Begun
<1>3. ASSUME \A i \in 1..f : ps[i] = qs[i], Output(ps, h, d, r, f, u, since)
      PROVE  Output(qs, h, d, r, f, u, since)
  <2>1. f - 1 \in Nat /\ f \in 1..f /\ \A i \in 1..(f - 1) : i \in 1..f
    OBVIOUS
  <2>2. ps[f] = qs[f] /\ \A i \in 1..(f - 1) : ps[i] = qs[i]
    BY <1>3, <2>1
  <2>3. CASE u = 0
    BY <1>2, <1>3, <2>2, <2>3 DEF Output
  <2>4. CASE u # 0
    BY <1>1, <1>3, <1>4, <2>1, <2>2, <2>4 DEF Output
  <2> QED
    BY <2>3, <2>4
<1> QED
  BY <1>2, <1>3

(* What has been shown stays so. *)
LEMMA ShownStays ==
    ASSUME NEW h \in Seq(Cells), NEW d \in Seq(Seq(Cells)), NEW video, Shown(d, video)
    PROVE  Shown(Append(d, h), video)
<1>1. PICK n \in Nat : n = Len(d)
  BY LenProperties
<1>2. Len(Append(d, h)) = n + 1 /\ \A i \in 1..n : Append(d, h)[i] = d[i]
  BY <1>1, AppendProperties
<1>3. \A i \in 1..n : i \in 1..(n + 1)
  OBVIOUS
<1> QED
  BY <1>1, <1>2, <1>3 DEF Shown

(* A call shows its bytes. *)
LEMMA OneShownMore ==
    ASSUME NEW since \in Nat, NEW ps, NEW h \in Seq(Cells), NEW d \in Seq(Seq(Cells)), NEW k
    PROVE  /\ AllShown(ps, d, since, k) => AllShown(ps, Append(d, h), since, k)
           /\ Shown(Append(d, h), h)
<1>1. PICK n \in Nat : n = Len(d)
  BY LenProperties
<1>2. Len(Append(d, h)) = n + 1 /\ Append(d, h)[n + 1] = h
  BY <1>1, AppendProperties
<1>3. n + 1 \in 1..(n + 1)
  OBVIOUS
<1>4. Shown(Append(d, h), h)
  BY <1>2, <1>3 DEF Shown
<1> QED
  BY <1>4, ShownStays DEF AllShown

(* A call that brings the last picture finished. *)
LEMMA ResumedGiven ==
    ASSUME NEW since \in Nat, NEW ps, NEW h \in Seq(Cells), NEW d \in Seq(Seq(Cells)),
           NEW k \in Nat, Resumed(ps, h, d, since, k)
    PROVE  AllShown(ps, Append(d, h), since, k)
<1>1. CASE AllShown(ps, d, since, k)
  BY <1>1, OneShownMore
<1>2. CASE h = VideoAll(k, ps[k]) /\ AllShown(ps, d, since, k - 1)
  <2>1. AllShown(ps, Append(d, h), since, k - 1) /\ Shown(Append(d, h), VideoAll(k, ps[k]))
    BY <1>2, OneShownMore
  <2>2. \A g \in since..k : g = k \/ g \in since..(k - 1)
    OBVIOUS
  <2> QED
    BY <2>1, <2>2 DEF AllShown
<1> QED
  BY <1>1, <1>2 DEF Resumed

(* A call that brings the next picture. *)
LEMMA PictureGiven ==
    ASSUME NEW ps, NEW h \in Seq(Cells), NEW d \in Seq(Seq(Cells)), NEW k \in Nat,
           k # 0 => VideoAll(k, ps[k]) # <<>>, Finished(ps, h, d, k)
    PROVE  Pictures(ps, Append(d, h), k)
<1>1. /\ WithBytes(d) \in Seq(Seq(Cells))
      /\ WithBytes(Append(d, h)) = IF h = <<>> THEN WithBytes(d) ELSE WithBytes(d) \o <<h>>
  BY OneCallMore
<1>2. CASE h = <<>> /\ Pictures(ps, d, k)
  BY <1>1, <1>2 DEF Pictures
<1>3. CASE k # 0 /\ h = VideoAll(k, ps[k]) /\ Pictures(ps, d, k - 1)
  <2>1. WithBytes(Append(d, h)) = Append(WithBytes(d), h)
    <3>1. h # <<>>
      BY <1>3
    <3> QED
      BY <1>1, <3>1, AppendIsConcat
  <2>2. PICK m \in Nat : m + 1 = k /\ m = k - 1
    BY <1>3
  <2>3. Len(WithBytes(d)) = m /\ \A i \in 1..m : WithBytes(d)[i] = VideoAll(i, ps[i])
    BY <1>3, <2>2 DEF Pictures
  <2>4. /\ Len(Append(WithBytes(d), h)) = m + 1
        /\ \A i \in 1..m : Append(WithBytes(d), h)[i] = WithBytes(d)[i]
        /\ Append(WithBytes(d), h)[m + 1] = h
    <3>1. PICK w : w = WithBytes(d) /\ w \in Seq(Seq(Cells)) /\ Len(w) = m
      BY <1>1, <2>3
    <3>2. /\ Len(Append(w, h)) = Len(w) + 1 /\ \A i \in 1..Len(w) : Append(w, h)[i] = w[i]
          /\ Append(w, h)[Len(w) + 1] = h
      BY <3>1, AppendProperties
    <3> QED
      BY <3>1, <3>2
  <2>5. \A i \in 1..k : i \in 1..m \/ i = k
    BY <2>2
  <2> QED
    BY <1>3, <2>1, <2>2, <2>3, <2>4, <2>5 DEF Pictures
<1> QED
  BY <1>2, <1>3 DEF Finished

(* The pictures sent. *)
LEMMA ShapeTypes ==
    ASSUME PTypes
    PROVE  /\ shapes \in Seq(Layouts) /\ Len(shapes) <= MaxFrames /\ Len(shapes) \in Nat
           /\ \A f \in 1..Len(shapes) : shapes[f] \in Layouts /\ f \in 0..MaxFrames
<1>1. shapes \in Seq(Layouts) /\ Len(shapes) <= MaxFrames /\ Len(shapes) \in Nat
  BY LenProperties DEF PTypes, TypeOK
<1>2. ASSUME NEW f \in 1..Len(shapes) PROVE shapes[f] \in Layouts /\ f \in 0..MaxFrames
  <2>1. shapes[f] \in Layouts
    BY <1>1, ElementOfSeq
  <2> QED
    BY <1>1, <2>1, SizeAssumption
<1> QED
  BY <1>1, <1>2

(* Nothing of a PES packet is collected. *)
Quiet == frame = <<>> /\ frameSize = 0

(* What was collected before the picture that a parser came in with is      *)
(* dropped when its video begins.                                           *)
Ready(f, since) == f # since => Quiet

(* The payload of a PES packet goes where it belongs. *)
LEMMA UnitWritten ==
    ASSUME NEW since \in Nat, PTypes, NEW f \in 1..Len(shapes),
           NEW u \in 1..Len(shapes[f].pes), NEW pes,
           pes = shapes[f].pes[u], pes.stream \in Streams,
           pes.stream = "video" => (isFrameStart <=> u = 1),
           Output(shapes, h264, decoded, heard, f, u - 1, since),
           Write(pes.stream, Payload(f, u, pes.size))
    PROVE  Output(shapes, h264', decoded', heard', f, u, since) /\ Quiet'
<1> DEFINE l == shapes[f]
           payload == Payload(f, u, pes.size)
           before == AudioThrough(shapes, f - 1)
<1>1. /\ shapes \in Seq(Layouts) /\ Len(shapes) <= MaxFrames /\ l \in Layouts /\ f \in 0..MaxFrames
      /\ Len(shapes) \in Nat
  BY ShapeTypes
<1>2. PICK n \in Nat \ {0} : n = Len(l.pes) /\ l.pes[1].stream = "video"
  BY <1>1, PesTypes
<1>3. u \in 1..n /\ u - 1 \in 0..n /\ u # 0 /\ f - 1 \in 0..Len(shapes)
  <2>1. u \in 1..n
    BY <1>2
  <2> QED
    BY <1>1, <2>1
<1>4. payload \in Seq(Cells) /\ payload # <<>>
  BY <1>1, PartTypes
<1>5. /\ h264 \in Seq(Cells) /\ decoded \in Seq(Seq(Cells)) /\ heard \in Seq(Seq(Cells))
  BY DEF PTypes, TypeOK
<1> HIDE DEF l, payload, before
<1>6. /\ VideoTo(f, l, 0) = <<>>
      /\ VideoTo(f, l, u - 1) \in Seq(Cells)
      /\ VideoTo(f, l, u) = IF pes.stream = "video" THEN VideoTo(f, l, u - 1) \o payload
                                                    ELSE VideoTo(f, l, u - 1)
  <2>1. l.pes[u] = pes
    BY DEF l
  <2> QED
    BY <1>1, <1>2, <1>3, <2>1, VideoGrows, ZenonT(40) DEF payload
<1>7. /\ AudioTo(f, l, 0) = <<>>
      /\ AudioTo(f, l, u - 1) \in Seq(Seq(Cells))
      /\ AudioTo(f, l, u) = IF pes.stream = "audio" THEN AudioTo(f, l, u - 1) \o <<payload>>
                                                    ELSE AudioTo(f, l, u - 1)
  <2>1. l.pes[u] = pes
    BY DEF l
  <2> QED
    BY <1>1, <1>2, <1>3, <2>1, AudioGrows DEF payload
<1>8. before \in Seq(Seq(Cells))
  BY <1>1, <1>3, AudioJoined DEF before
<1>9. CASE u = 1
  <2>1. pes.stream = "video" /\ isFrameStart
    BY <1>2, <1>9 DEF l
  <2>2. decoded' = Append(decoded, h264) /\ h264' = payload /\ heard' = heard /\ Quiet'
    BY <2>1 DEF Write, WriteVideoFrame, Quiet, payload
  <2>3. /\ since = 0 => Finished(shapes, h264, decoded, f - 1) /\ WithBytes(heard) = before
        /\ since # 0 => Resumed(shapes, h264, decoded, since, f - 1)
    BY <1>9 DEF Output, Begun, before
  <2>4. ASSUME since = 0 PROVE Pictures(shapes, decoded', f - 1)
    <3>1. PICK k \in Nat : k = f - 1
      BY <1>3
    <3>2. k # 0 => VideoAll(k, shapes[k]) # <<>>
      <4>1. ASSUME k # 0 PROVE VideoAll(k, shapes[k]) # <<>>
        <5>1. k \in 1..Len(shapes)
          BY <1>1, <3>1, <4>1
        <5>2. shapes[k] \in Layouts /\ k \in 0..MaxFrames
          BY <5>1, ShapeTypes
        <5> QED
          BY <5>2, VideoGrows
      <4> QED
        BY <4>1
    <3>3. Pictures(shapes, Append(decoded, h264), k)
      BY <1>5, <2>3, <2>4, <3>1, <3>2, PictureGiven
    <3> QED
      BY <2>2, <3>1, <3>3
  <2>7. ASSUME since # 0 PROVE AllShown(shapes, decoded', since, f - 1)
    <3>1. f - 1 \in Nat
      BY <1>3
    <3> QED
      BY <1>5, <2>2, <2>3, <2>7, <3>1, ResumedGiven
  <2>5. h264' = VideoTo(f, l, u)
    <3>1. VideoTo(f, l, u - 1) = <<>>
      BY <1>6, <1>9
    <3>2. <<>> \o payload = payload
      BY <1>4, ConcatEmptySeq
    <3> QED
      BY <1>6, <2>1, <2>2, <3>1, <3>2
  <2>6. ASSUME since = 0 PROVE WithBytes(heard') = before \o AudioTo(f, l, u)
    <3>1. AudioTo(f, l, u) = <<>>
      <4>1. AudioTo(f, l, u - 1) = <<>> /\ pes.stream # "audio"
        BY <1>7, <1>9, <2>1
      <4> QED
        BY <1>7, <4>1
    <3>2. before \o <<>> = before
      BY <1>8, ConcatEmptySeq
    <3> QED
      BY <2>2, <2>3, <2>6, <3>1, <3>2
  <2> QED
    BY <1>3, <2>2, <2>4, <2>5, <2>6, <2>7 DEF Output, l, before
<1>10. ASSUME u # 1
       PROVE  /\ h264 = VideoTo(f, l, u - 1)
              /\ since = 0 => /\ Pictures(shapes, decoded, f - 1)
                              /\ WithBytes(heard) = before \o AudioTo(f, l, u - 1)
              /\ since # 0 => AllShown(shapes, decoded, since, f - 1)
  <2>1. u - 1 # 0
    BY <1>3, <1>10
  <2> QED
    BY <2>1 DEF Output, l, before
<1>11. CASE u # 1 /\ pes.stream = "video"
  <2>1. decoded' = decoded /\ h264' = h264 \o payload /\ heard' = heard /\ Quiet'
    BY <1>11 DEF Write, WriteVideoFrame, Quiet, payload
  <2>2. h264' = VideoTo(f, l, u)
    BY <1>6, <1>10, <1>11, <2>1
  <2>3. since = 0 => WithBytes(heard') = before \o AudioTo(f, l, u)
    BY <1>7, <1>10, <1>11, <2>1
  <2> QED
    BY <1>3, <1>10, <1>11, <2>1, <2>2, <2>3 DEF Output, l, before
<1>12. CASE u # 1 /\ pes.stream = "audio"
  <2>1. heard' = Append(heard, payload) /\ h264' = h264 /\ decoded' = decoded /\ Quiet'
    BY <1>12 DEF Write, WriteAudioFrame, Quiet, payload
  <2>2. WithBytes(heard') = WithBytes(heard) \o <<payload>>
    BY <1>4, <1>5, <2>1, OneCallMore
  <2>3. ASSUME since = 0 PROVE WithBytes(heard') = before \o AudioTo(f, l, u)
    <3>1. <<payload>> \in Seq(Seq(Cells))
      BY <1>4
    <3>2. (before \o AudioTo(f, l, u - 1)) \o <<payload>>
             = before \o (AudioTo(f, l, u - 1) \o <<payload>>)
      <4>1. PICK a : a = AudioTo(f, l, u - 1) /\ a \in Seq(Seq(Cells))
        BY <1>7
      <4>2. PICK c : c = <<payload>> /\ c \in Seq(Seq(Cells))
        BY <3>1
      <4>3. PICK b : b = before /\ b \in Seq(Seq(Cells))
        BY <1>8
      <4>4. (b \o a) \o c = b \o (a \o c)
        <5>1. b \in Seq(Seq(Cells)) /\ a \in Seq(Seq(Cells)) /\ c \in Seq(Seq(Cells))
          BY <4>1, <4>2, <4>3
        <5>2. Regrouped(b, a, c)
          BY <5>1, Regroups
        <5> QED
          BY <5>2 DEF Regrouped
      <4> QED
        BY <4>1, <4>2, <4>3, <4>4
    <3> QED
      BY <1>7, <1>10, <1>12, <2>2, <2>3, <3>2
  <2>4. h264' = VideoTo(f, l, u)
    BY <1>6, <1>10, <1>12, <2>1
  <2> QED
    BY <1>3, <1>10, <1>12, <2>1, <2>3, <2>4 DEF Output, l, before
<1> QED
  BY <1>9, <1>11, <1>12 DEF Streams

(* Nothing is written when the parser skips private data. *)
LEMMA NothingWritten ==
    ASSUME NEW since \in Nat, PTypes, NEW f \in 1..Len(shapes), Quiet,
           Begun(shapes, h264, decoded, heard, f + 1, since), NEW stream, Write(stream, <<>>)
    PROVE  Begun(shapes, h264', decoded', heard', f + 1, since) /\ Quiet'
<1>1. Len(shapes) \in Nat /\ shapes[f] \in Layouts /\ f \in 0..MaxFrames
  BY ShapeTypes
<1>2. f \in Nat \ {0} /\ (f + 1) - 1 = f
  BY <1>1
<1>3. /\ h264 \in Seq(Cells) /\ decoded \in Seq(Seq(Cells)) /\ heard \in Seq(Seq(Cells))
      /\ <<>> \in Seq(Cells)
  BY DEF PTypes, TypeOK
<1> DEFINE Done(h, d, r) ==
        /\ since = 0 => Finished(shapes, h, d, f) /\ WithBytes(r) = AudioThrough(shapes, f)
        /\ since # 0 => Resumed(shapes, h, d, since, f)
<1>4. Done(h264, decoded, heard)
  BY <1>2 DEF Begun
<1>5. SUFFICES Done(h264', decoded', heard') /\ Quiet'
  BY <1>2 DEF Begun
<1>6. CASE stream = "video" /\ isFrameStart
  <2>1. decoded' = Append(decoded, h264) /\ h264' = <<>> /\ heard' = heard /\ Quiet'
    BY <1>6 DEF Write, WriteVideoFrame, Quiet
  <2>2. VideoAll(f, shapes[f]) # <<>>
    BY <1>1, VideoGrows
  <2>3. since = 0 => Pictures(shapes, Append(decoded, h264), f)
    BY <1>2, <1>3, <1>4, <2>2, PictureGiven
  <2>4. since # 0 => AllShown(shapes, Append(decoded, h264), since, f)
    BY <1>2, <1>3, <1>4, ResumedGiven
  <2> QED
    BY <1>4, <2>1, <2>3, <2>4 DEF Finished, Resumed
<1>7. CASE stream = "video" /\ ~isFrameStart
  <2>1. decoded' = decoded /\ h264' = h264 \o <<>> /\ heard' = heard /\ Quiet'
    BY <1>7 DEF Write, WriteVideoFrame, Quiet
  <2>2. h264 \o <<>> = h264
    BY <1>3, ConcatEmptySeq
  <2> QED
    BY <1>4, <2>1, <2>2
<1>8. CASE stream = "audio"
  <2>1. heard' = Append(heard, <<>>) /\ h264' = h264 /\ decoded' = decoded /\ Quiet'
    BY <1>8 DEF Write, WriteAudioFrame, Quiet
  <2>2. WithBytes(Append(heard, <<>>)) = WithBytes(heard)
    BY <1>3, OneCallMore
  <2> QED
    BY <1>4, <2>1, <2>2
<1>9. CASE stream # "video" /\ stream # "audio"
  <2>1. frame' = <<>> /\ UNCHANGED <<frameSize, h264, decoded, heard>>
    BY <1>9 DEF Write
  <2> QED
    BY <1>4, <2>1 DEF Quiet
<1> QED
  BY <1>6, <1>7, <1>8, <1>9

-----------------------------------------------------------------------------
(* The headers of a picture.                                                *)

(* PES packets begin one behind the other. *)
LEMMA AtGrows ==
    ASSUME NEW f \in 0..MaxFrames, NEW l \in Layouts,
           NEW v \in 1..Len(l.pes), NEW u \in 1..Len(l.pes), v < u
    PROVE  At(f, l, v) < At(f, l, u)
<1>1. PICK n \in Nat : n = Len(l.pes)
  BY PesTypes
<1>2. \A w \in 1..n : /\ At(f, l, w) \in Nat /\ l.pes[w].size \in Nat
                      /\ At(f, l, w + 1) = At(f, l, w) + l.pes[w].size + 1
  BY <1>1, PesTypes, PictureCells
<1> DEFINE T == {w \in 1..n : v < w /\ At(f, l, w) <= At(f, l, v)}
<1>3. SUFFICES ASSUME T # {} PROVE FALSE
  BY <1>1, <1>2
<1>4. PICK w : w \in T /\ \A x \in T : w <= x
  <2>1. T \subseteq Nat
    OBVIOUS
  <2> HIDE DEF T
  <2> QED
    BY <1>3, <2>1, LeastNumber
<1>5. w \in 1..n /\ v < w /\ At(f, l, w) <= At(f, l, v)
  BY <1>4
<1>6. PICK x \in 1..n : w = x + 1
  <2>1. w - 1 \in 1..n /\ w = (w - 1) + 1
    BY <1>1, <1>5
  <2> QED
    BY <2>1
<1>7. x \notin T
  <2>1. ~(w <= x)
    BY <1>6
  <2> HIDE DEF T
  <2> QED
    BY <1>4, <2>1
<1>8. v \in 1..n
  BY <1>1
<1>9. At(f, l, x) < At(f, l, w)
  <2>1. At(f, l, w) = At(f, l, x) + l.pes[x].size + 1
    BY <1>2, <1>6
  <2>2. At(f, l, x) \in Nat /\ l.pes[x].size \in Nat
    BY <1>2
  <2> HIDE DEF T
  <2> QED
    BY <2>1, <2>2
<1>10. CASE v < x
  <2>1. ~(At(f, l, x) <= At(f, l, v))
    BY <1>7, <1>10
  <2> QED
    BY <1>2, <1>5, <1>6, <1>8, <1>9, <2>1
<1>11. CASE ~(v < x)
  <2>1. v = x
    BY <1>5, <1>6, <1>8, <1>11
  <2> QED
    BY <1>2, <1>5, <1>6, <1>8, <1>9, <2>1
<1> QED
  BY <1>10, <1>11

(* A cell of a picture is one of its first headers, a PES header or payload. *)
LEMMA CellCases ==
    ASSUME NEW f \in 0..MaxFrames, NEW l \in Layouts, NEW p \in 1..Len(FrameCells(f, l))
    PROVE  \/ /\ p < At(f, l, 1)
              /\ FrameCells(f, l)[p].kind = IF p = 1 THEN "pack" ELSE IF p = 2 THEN "sys" ELSE "map"
           \/ \E u \in 1..Len(l.pes) :
                 /\ p = At(f, l, u) /\ p # 1
                 /\ FrameCells(f, l)[p] = Cell(l.pes[u].stream, f, u, l.pes[u].size)
           \/ \E u \in 1..Len(l.pes) : \E k \in 1..l.pes[u].size :
                 /\ p = At(f, l, u) + k /\ p # 1
                 /\ FrameCells(f, l)[p] = Cell("data", f, u, k)
<1> DEFINE c == FrameCells(f, l)
<1>1. PICK n \in Nat : n = Len(l.pes)
  BY PesTypes
<1>2. /\ Len(c) \in Nat /\ At(f, l, 1) = IF l.key THEN 4 ELSE 2
      /\ c[1].kind = "pack" /\ (l.key => c[2].kind = "sys" /\ c[3].kind = "map")
      /\ \A u \in 1..n :
            /\ At(f, l, u) \in Nat
            /\ c[At(f, l, u)] = Cell(l.pes[u].stream, f, u, l.pes[u].size)
            /\ \A k \in 1..l.pes[u].size : c[At(f, l, u) + k] = Cell("data", f, u, k)
  BY <1>1, PictureCells
<1> HIDE DEF c
<1>3. CASE p < At(f, l, 1)
  <2>1. c[p].kind = IF p = 1 THEN "pack" ELSE IF p = 2 THEN "sys" ELSE "map"
    BY <1>2, <1>3, p \in Nat \ {0}
  <2> QED
    BY <1>3, <2>1 DEF c
<1>4. CASE ~(p < At(f, l, 1))
  <2>1. At(f, l, 1) <= p /\ p # 1 /\ p \in Nat /\ p <= Len(c)
    BY <1>2, <1>4 DEF c
  <2>2. PICK u \in 1..n : At(f, l, u) <= p /\ p <= At(f, l, u) + l.pes[u].size
    BY <1>1, <2>1, Coverage DEF c
  <2>3. CASE p = At(f, l, u)
    BY <1>1, <1>2, <2>1, <2>3 DEF c
  <2>4. CASE p # At(f, l, u)
    <3>1. l.pes[u].size \in Nat
      BY <1>1, PesTypes
    <3>2. PICK k \in 1..l.pes[u].size : p = At(f, l, u) + k
      <4>1. p - At(f, l, u) \in 1..l.pes[u].size /\ p = At(f, l, u) + (p - At(f, l, u))
        BY <1>2, <2>1, <2>2, <2>4, <3>1
      <4> QED
        BY <4>1
    <3> QED
      BY <1>1, <1>2, <2>1, <3>2 DEF c
  <2> QED
    BY <2>3, <2>4
<1> QED
  BY <1>3, <1>4

(* Only the first cell of a picture is a pack header. *)
LEMMA OnePack ==
    ASSUME NEW f \in 0..MaxFrames, NEW l \in Layouts, NEW p \in 1..Len(FrameCells(f, l)), p # 1
    PROVE  FrameCells(f, l)[p].kind # "pack"
<1> DEFINE cell == FrameCells(f, l)[p]
<1>1. ASSUME NEW u \in 1..Len(l.pes), cell = Cell(l.pes[u].stream, f, u, l.pes[u].size)
      PROVE  cell.kind # "pack"
  <2>1. l.pes[u].stream \in PesKinds
    BY PesTypes
  <2> HIDE DEF cell
  <2> QED
    BY <1>1, <2>1 DEF Cell, PesKinds, Streams
<1>2. ASSUME NEW u, NEW k, cell = Cell("data", f, u, k) PROVE cell.kind # "pack"
  <2> HIDE DEF cell
  <2> QED
    BY <1>2 DEF Cell
<1>3. \/ cell.kind = IF p = 1 THEN "pack" ELSE IF p = 2 THEN "sys" ELSE "map"
      \/ \E u \in 1..Len(l.pes) : cell = Cell(l.pes[u].stream, f, u, l.pes[u].size)
      \/ \E u, k : cell = Cell("data", f, u, k)
  BY CellCases, SMTT(40)
<1> HIDE DEF cell
<1>4. cell.kind # "pack"
  BY <1>1, <1>2, <1>3
<1> QED
  BY <1>4 DEF cell

(* Once a picture has private data, nothing else follows in it: private     *)
(* data is skipped up to the next header at the start of a packet.          *)
PrivateLast == \A l \in Layouts : \A u, v \in 1..Len(l.pes) :
                  l.pes[u].stream = "private" /\ u < v => l.pes[v].stream = "private"

(* The next cell is the header of PES packet u, video or audio. *)
Before(ps, h, d, r, f, u, p, since) ==
    /\ p = At(f, ps[f], u) /\ ps[f].pes[u].stream \in Streams
    /\ Output(ps, h, d, r, f, u - 1, since)

(* From p on the picture has neither video nor audio. *)
Over(ps, h, d, r, f, p, since) ==
    /\ p \in 2..(Len(FrameCells(f, ps[f])) + 1)
    /\ Begun(ps, h, d, r, f + 1, since)
    /\ \A q \in p..Len(FrameCells(f, ps[f])) : FrameCells(f, ps[f])[q].kind \notin Streams

Clear(ps, h, d, r, f, p, since) ==
    \/ \E u \in 2..Len(ps[f].pes) : Before(ps, h, d, r, f, u, p, since)
    \/ Over(ps, h, d, r, f, p, since)

(* When its last video and audio is written, a picture is done. *)
LEMMA PictureEnd ==
    ASSUME NEW since \in Nat, NEW ps \in Seq(Layouts), Len(ps) <= MaxFrames, NEW h, NEW d, NEW r,
           NEW f \in 1..Len(ps), NEW u \in 1..Len(ps[f].pes), Output(ps, h, d, r, f, u, since),
           \A v \in (u + 1)..Len(ps[f].pes) : ps[f].pes[v].stream = "private"
    PROVE  Begun(ps, h, d, r, f + 1, since)
<1>1. /\ ps[f] \in Layouts /\ f \in 0..MaxFrames /\ f # 0 /\ f \in 0..Len(ps)
      /\ (f + 1) - 1 = f
  <2>1. Len(ps) \in Nat /\ ps[f] \in Layouts
    BY LenProperties, ElementOfSeq
  <2> QED
    BY <2>1, SizeAssumption
<1>2. u \in 0..Len(ps[f].pes) /\ u # 0
  <2>1. Len(ps[f].pes) \in Nat
    BY <1>1, PesTypes
  <2> QED
    BY <2>1
<1>3. VideoTo(f, ps[f], u) = VideoAll(f, ps[f]) /\ AudioTo(f, ps[f], u) = AudioAll(f, ps[f])
  BY <1>1, <1>2, PrivateTail
<1>4. AudioThrough(ps, f) = AudioThrough(ps, f - 1) \o AudioAll(f, ps[f])
  BY <1>1, AudioJoined
<1>5. /\ h = VideoTo(f, ps[f], u)
      /\ since = 0 => /\ Pictures(ps, d, f - 1)
                      /\ WithBytes(r) = AudioThrough(ps, f - 1) \o AudioTo(f, ps[f], u)
      /\ since # 0 => AllShown(ps, d, since, f - 1)
  BY <1>2 DEF Output
<1>6. since = 0 => Finished(ps, h, d, f)
  BY <1>1, <1>3, <1>5 DEF Finished
<1>7. since = 0 => WithBytes(r) = AudioThrough(ps, f)
  BY <1>3, <1>4, <1>5
<1>8. since # 0 => Resumed(ps, h, d, since, f)
  BY <1>3, <1>5 DEF Resumed
<1> QED
  BY <1>1, <1>6, <1>7, <1>8 DEF Begun

(* Behind a PES packet comes another one to play, or the picture is over. *)
LEMMA UnitDone ==
    ASSUME NEW since \in Nat, PrivateLast, NEW ps \in Seq(Layouts), Len(ps) <= MaxFrames,
           NEW h, NEW d, NEW r, NEW f \in 1..Len(ps), NEW u \in 1..Len(ps[f].pes),
           Output(ps, h, d, r, f, u, since)
    PROVE  Clear(ps, h, d, r, f, At(f, ps[f], u + 1), since)
<1> DEFINE l == ps[f]
           c == FrameCells(f, l)
           p == At(f, l, u + 1)
<1>1. ps[f] \in Layouts /\ f \in 0..MaxFrames
  <2>1. Len(ps) \in Nat /\ ps[f] \in Layouts
    BY LenProperties, ElementOfSeq
  <2> QED
    BY <2>1, SizeAssumption
<1>2. PICK n \in Nat \ {0} : n = Len(l.pes) /\ u \in 1..n
  BY <1>1, PesTypes
<1>3. p \in 2..(Len(c) + 1)
  <2>1. l.pes[u].size \in Nat
    BY <1>1, <1>2, PesTypes
  <2>2. /\ Len(c) \in Nat /\ At(f, l, u) \in Nat /\ At(f, l, u) + l.pes[u].size <= Len(c)
        /\ p = At(f, l, u) + l.pes[u].size + 1
    BY <1>1, <1>2, PictureCells
  <2>3. At(f, l, u) # 0
    BY <1>1, IntroCells, <2>2 DEF At
  <2> HIDE DEF p, c
  <2> QED
    BY <2>1, <2>2, <2>3
<1>4. ASSUME \A v \in (u + 1)..n : l.pes[v].stream = "private"
      PROVE  Over(ps, h, d, r, f, p, since)
  <2>1. Begun(ps, h, d, r, f + 1, since)
    BY <1>2, <1>4, PictureEnd
  <2>2. ASSUME NEW q \in p..Len(c) PROVE c[q].kind \notin Streams
    <3>1. q \in 1..Len(c) /\ p <= q /\ q \in Nat /\ p \in Nat
      <4>1. Len(c) \in Nat
        BY <1>1, PictureCells
      <4> HIDE DEF p, c
      <4> QED
        BY <1>3, <4>1
    <3>2. CASE c[q].kind \in {"pack", "sys", "map", "data"}
      BY <3>2 DEF Streams
    <3>3. ASSUME NEW v \in 1..n, q = At(f, l, v), c[q] = Cell(l.pes[v].stream, f, v, l.pes[v].size)
          PROVE  c[q].kind = "private"
      <4>1. v \in (u + 1)..n
        <5>1. ASSUME ~(v \in (u + 1)..n) PROVE FALSE
          <6>1. v <= u
            BY <1>2, <5>1
          <6>2. At(f, l, v) < p
            <7>1. CASE v = u
              <8>1. /\ p = At(f, l, u) + l.pes[u].size + 1
                    /\ At(f, l, u) \in Nat /\ l.pes[u].size \in Nat
                BY <1>1, <1>2, PictureCells, PesTypes
              <8> HIDE DEF p
              <8> QED
                BY <7>1, <8>1
            <7>2. CASE v < u
              <8>1. At(f, l, v) < At(f, l, u)
                BY <1>1, <1>2, <7>2, AtGrows
              <8>2. /\ p = At(f, l, u) + l.pes[u].size + 1 /\ At(f, l, u) \in Nat
                    /\ l.pes[u].size \in Nat /\ At(f, l, v) \in Nat
                BY <1>1, <1>2, PictureCells, PesTypes
              <8> HIDE DEF p
              <8> QED
                BY <8>1, <8>2
            <7> QED
              BY <1>2, <6>1, <7>1, <7>2
          <6> HIDE DEF p
          <6> QED
            BY <3>1, <3>3, <6>2
        <5> QED
          BY <5>1
      <4>2. l.pes[v].stream = "private"
        BY <1>4, <4>1
      <4> HIDE DEF c
      <4> QED
        BY <3>3, <4>2 DEF Cell
    <3>4. \/ c[q].kind \in {"pack", "sys", "map", "data"}
          \/ \E v \in 1..n : q = At(f, l, v) /\ c[q] = Cell(l.pes[v].stream, f, v, l.pes[v].size)
      <4>1. \A a, b, e : Cell("data", a, b, e).kind = "data"
        BY DEF Cell
      <4>2. q \in 1..Len(FrameCells(f, l))
        BY <3>1
      <4>3. \/ c[q].kind = IF q = 1 THEN "pack" ELSE IF q = 2 THEN "sys" ELSE "map"
            \/ \E v \in 1..Len(l.pes) :
                  q = At(f, l, v) /\ c[q] = Cell(l.pes[v].stream, f, v, l.pes[v].size)
            \/ \E v, k : c[q] = Cell("data", f, v, k)
        BY <1>1, <4>2, CellCases
      <4> HIDE DEF c
      <4> QED
        BY <1>2, <4>1, <4>3
    <3> QED
      BY <3>2, <3>3, <3>4 DEF Streams
  <2> QED
    BY <1>3, <2>1, <2>2 DEF Over
<1>5. CASE u = n
  <2>1. \A v \in (u + 1)..n : l.pes[v].stream = "private"
    BY <1>5
  <2> QED
    BY <1>4, <2>1 DEF Clear
<1>6. CASE u # n
  <2>1. u + 1 \in 1..n /\ u + 1 \in 2..n /\ (u + 1) - 1 = u
    BY <1>2, <1>6
  <2>2. l.pes[u + 1].stream \in PesKinds
    BY <1>1, <1>2, <2>1, PesTypes
  <2>3. CASE l.pes[u + 1].stream \in Streams
    <3>1. Before(ps, h, d, r, f, u + 1, p, since)
      BY <2>1, <2>3 DEF Before
    <3> QED
      BY <1>2, <2>1, <3>1 DEF Clear
  <2>4. CASE l.pes[u + 1].stream = "private"
    <3>1. ASSUME NEW v \in (u + 1)..n PROVE l.pes[v].stream = "private"
      <4>1. v \in 1..n /\ (v = u + 1 \/ u + 1 < v)
        BY <1>2
      <4> QED
        BY <1>1, <1>2, <2>1, <2>4, <4>1 DEF PrivateLast
    <3> QED
      BY <1>4, <3>1 DEF Clear
  <2> QED
    BY <2>2, <2>3, <2>4 DEF PesKinds
<1> QED
  BY <1>5, <1>6

-----------------------------------------------------------------------------
(* The parser in the stream: what it has collected, and the packets ahead.  *)

(* The next cell belongs to the payload of PES packet u. *)
Inside(f, u, p, since) ==
    /\ At(f, shapes[f], u) < p
    /\ p <= At(f, shapes[f], u) + shapes[f].pes[u].size
    /\ frame = Payload(f, u, p - At(f, shapes[f], u) - 1)
    /\ frameSize = shapes[f].pes[u].size
    /\ curStream = shapes[f].pes[u].stream /\ curStream \in Streams
    /\ curStream = "video" => (isFrameStart <=> u = 1)
    /\ Output(shapes, h264, decoded, heard, f, u - 1, since)

(* The parser has done with the cells of picture f before p. *)
Parsed(f, p, since) ==
    IF p = 1 THEN Ready(f, since) /\ Begun(shapes, h264, decoded, heard, f, since)
    ELSE \/ Quiet /\ Clear(shapes, h264, decoded, heard, f, p, since)
         \/ \E u \in 1..Len(shapes[f].pes) : Inside(f, u, p, since)

(* The m cells from a may be a packet of the picture c. *)
PieceOk(c, first, a, m) ==
    /\ m \in 1..Mtu /\ a + m - 1 <= Len(c)
    /\ a = 1 => first <= m
    /\ \A j \in 2..m : c[a + j - 1].kind \in PesKinds =>
                          /\ j - 1 \in HeaderOffsets
                          /\ c[a + j - 1].kind = "video" => c[a + j - 1].unit = 1

(* Packet k of q has the cells from e[k - 1] + 1 to e[k] of the picture c. *)
CutInto(q, c, first, p, e) ==
    /\ e \in [0..Len(q) -> 0..Len(c)] /\ e[0] = p - 1 /\ e[Len(q)] = Len(c)
    /\ \A k \in 1..Len(q) :
          /\ e[k - 1] < e[k] /\ Len(q[k].cells) = e[k] - e[k - 1]
          /\ \A j \in 1..Len(q[k].cells) : q[k].cells[j] = c[e[k - 1] + j]
          /\ PieceOk(c, first, e[k - 1] + 1, e[k] - e[k - 1])

(* What the camera has sent and the parser has not taken. *)
NoMore(f) == f = Len(shapes) + 1 /\ queue = <<>>

Coming(f, p) == /\ f = Len(shapes) /\ f # 0 /\ p \in 1..Len(FrameCells(f, shapes[f]))
                /\ \E e : CutInto(queue, FrameCells(f, shapes[f]), At(f, shapes[f], 1), p, e)

After(f, p) == IF p <= Len(FrameCells(f, shapes[f])) THEN Coming(f, p)
               ELSE p = Len(FrameCells(f, shapes[f])) + 1 /\ (NoMore(f + 1) \/ Coming(f + 1, 1))

Idle == \E f \in Nat \ {0} : \/ NoMore(f) /\ Parsed(f, 1, 0)
                             \/ \E p \in Nat \ {0} : Coming(f, p) /\ Parsed(f, p, 0)

(* The packet in hand has the cells from a. *)
Holds(f, a) ==
    /\ f \in 1..Len(shapes) /\ a \in 1..Len(FrameCells(f, shapes[f]))
    /\ PieceOk(FrameCells(f, shapes[f]), At(f, shapes[f], 1), a, len)
    /\ \A j \in 1..len : data[j] = FrameCells(f, shapes[f])[a + j - 1]

InHand(f, a) == Holds(f, a) /\ After(f, a + len)

(* Some of them are done with; a further video header is not among the rest. *)
Ahead(f, a, since) ==
    /\ Quiet /\ Clear(shapes, h264, decoded, heard, f, a + pos - 1, since)
    /\ pos <= len \/ (pos = len + 1 /\ a # 1)
    /\ pc = "ps" => a # 1
    /\ pos <= len /\ KindAt(pos) = "video" => ~isFrameStart

Busy(f, a, since) ==
    \/ pc = "access" /\ Parsed(f, a, since)
    \/ /\ a = 1 /\ isFrameStart /\ Ready(f, since)
       /\ Begun(shapes, h264, decoded, heard, f, since)
       /\ (pc = "ps" /\ pos = 1) \/ (pc = "pes" /\ pos = At(f, shapes[f], 1))
    \/ pc \in {"ps", "pes", "crashed"} /\ Ahead(f, a, since)

(* What earlier packets left in data. *)
Stale == \A j \in 1..Mtu : /\ data[j].kind \in PesKinds /\ j # 1 => j - 1 \in HeaderOffsets
                           /\ data[j].kind = "pack" => j = 1

StreamInv == /\ PTypes /\ Stale
             /\ \/ pc = "idle" /\ Idle
                \/ pc # "idle" /\ \E f, a : InHand(f, a) /\ Busy(f, a, 0)

(* The cells of the packet in hand, and behind it. *)
HandFacts(f, a) ==
    LET l == shapes[f]
        c == FrameCells(f, l)
    IN /\ l \in Layouts /\ f \in 0..MaxFrames /\ f \in 1..Len(shapes) /\ Len(shapes) \in Nat
       /\ Len(c) \in Nat /\ len \in 1..Mtu /\ Mtu \in Nat /\ a \in Nat \ {0}
       /\ a + len - 1 <= Len(c) /\ pos \in Nat \ {0}
       /\ \A j \in 1..len : CellAt(j) = c[a + j - 1] /\ KindAt(j) = c[a + j - 1].kind
       /\ KindAt(len + 1) # "pack"
       /\ \A j \in 2..len : KindAt(j) = "video" => c[a + j - 1].unit = 1
       /\ a = 1 => At(f, l, 1) <= len

(* They follow from what is in hand. *)
LEMMA Handed ==
    ASSUME PTypes, Stale, NEW f, NEW a, Holds(f, a)
    PROVE  HandFacts(f, a)
<1> DEFINE l == shapes[f]
           c == FrameCells(f, l)
<1>1. f \in 1..Len(shapes) /\ Len(shapes) \in Nat /\ l \in Layouts /\ f \in 0..MaxFrames
  BY ShapeTypes DEF Holds
<1>2. Len(c) \in Nat
  BY <1>1, PictureCells
<1>3. /\ len \in 1..Mtu /\ a + len - 1 <= Len(c)
      /\ a = 1 => At(f, l, 1) <= len
      /\ \A j \in 2..len : c[a + j - 1].kind \in PesKinds =>
                              (c[a + j - 1].kind = "video" => c[a + j - 1].unit = 1)
      /\ a \in 1..Len(c)
      /\ \A j \in 1..len : data[j] = c[a + j - 1]
  BY DEF Holds, PieceOk
<1> HIDE DEF l, c
<1>4. Mtu \in Nat /\ pos \in Nat \ {0} /\ a \in Nat \ {0}
  BY <1>2, <1>3, SizeAssumption DEF PTypes, TypeOK
<1>5. \A j \in 1..len : CellAt(j) = c[a + j - 1] /\ KindAt(j) = c[a + j - 1].kind
  <2>1. \A j \in 1..len : j <= Mtu
    BY <1>3, <1>4
  <2> QED
    BY <1>3, <2>1 DEF CellAt, KindAt
<1>6. KindAt(len + 1) # "pack"
  <2>1. CASE len + 1 <= Mtu
    <3>1. len + 1 \in 1..Mtu /\ len + 1 # 1
      BY <1>3, <1>4, <2>1
    <3> QED
      BY <2>1, <3>1 DEF Stale, KindAt, CellAt
  <2>2. CASE ~(len + 1 <= Mtu)
    BY <2>2 DEF KindAt, CellAt, Nothing, Cell
  <2> QED
    BY <2>1, <2>2
<1>7. \A j \in 2..len : KindAt(j) = "video" => c[a + j - 1].unit = 1
  <2>1. \A j \in 2..len : j \in 1..len
    BY <1>3
  <2> QED
    BY <1>3, <1>5, <2>1 DEF PesKinds, Streams
<1> QED
  BY <1>1, <1>2, <1>3, <1>4, <1>5, <1>6, <1>7 DEF HandFacts, l, c

(* At a place where nothing is collected. *)
LEMMA ClearCell ==
    ASSUME NEW since \in Nat, NEW ps, NEW f \in 0..MaxFrames, ps[f] \in Layouts,
           NEW h, NEW d, NEW r, NEW p,
           Clear(ps, h, d, r, f, p, since), p <= Len(FrameCells(f, ps[f]))
    PROVE  \/ \E u \in 2..Len(ps[f].pes) :
                 /\ Before(ps, h, d, r, f, u, p, since)
                 /\ FrameCells(f, ps[f])[p] = Cell(ps[f].pes[u].stream, f, u, ps[f].pes[u].size)
                 /\ FrameCells(f, ps[f])[p].kind \in Streams
           \/ Over(ps, h, d, r, f, p, since) /\ FrameCells(f, ps[f])[p].kind \notin Streams
<1>1. ASSUME NEW u \in 2..Len(ps[f].pes), Before(ps, h, d, r, f, u, p, since)
      PROVE  /\ FrameCells(f, ps[f])[p] = Cell(ps[f].pes[u].stream, f, u, ps[f].pes[u].size)
             /\ FrameCells(f, ps[f])[p].kind \in Streams
  <2>1. u \in 1..Len(ps[f].pes)
    BY PesTypes
  <2>2. p = At(f, ps[f], u) /\ ps[f].pes[u].stream \in Streams
    BY <1>1 DEF Before
  <2>3. FrameCells(f, ps[f])[p] = Cell(ps[f].pes[u].stream, f, u, ps[f].pes[u].size)
    BY <2>1, <2>2, PictureCells
  <2> QED
    BY <2>2, <2>3 DEF Cell
<1>2. ASSUME Over(ps, h, d, r, f, p, since) PROVE FrameCells(f, ps[f])[p].kind \notin Streams
  <2>1. p \in p..Len(FrameCells(f, ps[f]))
    <3>1. Len(FrameCells(f, ps[f])) \in Nat /\ p \in 2..(Len(FrameCells(f, ps[f])) + 1)
      BY <1>2, PictureCells DEF Over
    <3> QED
      BY <3>1
  <2> QED
    BY <1>2, <2>1 DEF Over
<1> QED
  BY <1>1, <1>2 DEF Clear

(* ... and inside the payload of a PES packet. *)
LEMMA InsideCell ==
    ASSUME NEW since \in Nat, PTypes, NEW f \in 1..Len(shapes),
           NEW u \in 1..Len(shapes[f].pes), NEW p \in Nat, Inside(f, u, p, since)
    PROVE  p <= Len(FrameCells(f, shapes[f])) /\ FrameCells(f, shapes[f])[p].kind = "data" /\ p # 1
<1>1. shapes[f] \in Layouts /\ f \in 0..MaxFrames
  BY ShapeTypes
<1>2. PICK at \in Nat, size \in Nat, n \in Nat :
         /\ at = At(f, shapes[f], u) /\ size = shapes[f].pes[u].size
         /\ n = Len(FrameCells(f, shapes[f])) /\ at + size <= n /\ at # 0
         /\ \A k \in 1..size : FrameCells(f, shapes[f])[at + k] = Cell("data", f, u, k)
  <2>1. At(f, shapes[f], u) # 0
    BY <1>1, PictureCells, IntroCells, PesTypes DEF At
  <2>2. PICK l : l = shapes[f]
    OBVIOUS
  <2>3. /\ At(f, l, u) \in Nat /\ Len(FrameCells(f, l)) \in Nat
        /\ At(f, l, u) + l.pes[u].size <= Len(FrameCells(f, l))
        /\ \A k \in 1..l.pes[u].size :
              FrameCells(f, l)[At(f, l, u) + k] = Cell("data", f, u, k)
    BY <1>1, <2>2, PictureCells
  <2>4. l.pes[u].size \in Nat
    BY <1>1, <2>2, PesTypes
  <2> QED
    BY <2>1, <2>2, <2>3, <2>4
<1>3. at < p /\ p <= at + size
  BY <1>2 DEF Inside
<1>4. PICK k \in 1..size : p = at + k
  <2>1. p - at \in 1..size /\ p = at + (p - at)
    BY <1>3
  <2> QED
    BY <2>1
<1>5. FrameCells(f, shapes[f])[p].kind = "data"
  <2>1. FrameCells(f, shapes[f])[p] = Cell("data", f, u, k)
    BY <1>2, <1>4
  <2> QED
    BY <2>1 DEF Cell
<1>6. at + size <= n /\ at # 0 /\ n = Len(FrameCells(f, shapes[f]))
  BY <1>2
<1>7. p <= n /\ p # 1
  BY <1>3, <1>6
<1> QED
  BY <1>5, <1>6, <1>7

(* What a packet begins with, and what was collected before it. *)
AccessCases(f, a, since) ==
    LET kind == KindAt(1)
    IN \/ /\ a = 1 /\ kind = "pack" /\ Ready(f, since)
          /\ Begun(shapes, h264, decoded, heard, f, since)
       \/ a # 1 /\ kind \in Streams /\ Quiet /\ Clear(shapes, h264, decoded, heard, f, a, since)
       \/ /\ a # 1 /\ kind \notin Streams /\ kind # "pack"
          /\ Quiet /\ Over(shapes, h264, decoded, heard, f, a, since)
       \/ /\ a # 1 /\ kind = "data"
          /\ \E u \in 1..Len(shapes[f].pes) : Inside(f, u, a, since)

(* These are all the cases. *)
LEMMA PacketBegins ==
    ASSUME NEW since \in Nat, PTypes, NEW f, NEW a, HandFacts(f, a), Parsed(f, a, since)
    PROVE  AccessCases(f, a, since)
<1> DEFINE c == FrameCells(f, shapes[f])
<1>1. /\ shapes[f] \in Layouts /\ f \in 0..MaxFrames /\ f \in 1..Len(shapes)
      /\ Len(c) \in Nat /\ len \in 1..Mtu /\ Mtu \in Nat /\ a \in Nat \ {0}
      /\ a + len - 1 <= Len(c)
      /\ \A j \in 1..len : KindAt(j) = c[a + j - 1].kind
  BY DEF HandFacts
<1>2. KindAt(1) = c[a].kind /\ a <= Len(c) /\ a \in 1..Len(c)
  <2> HIDE DEF c
  <2>1. 1 \in 1..len /\ a + 1 - 1 = a
    BY <1>1
  <2>2. KindAt(1) = c[a].kind
    BY <1>1, <2>1
  <2> QED
    BY <1>1, <2>2
<1>3. CASE a = 1
  <2>1. c[1].kind = "pack"
    BY <1>1, PictureCells
  <2> QED
    BY <1>2, <1>3, <2>1 DEF Parsed, AccessCases
<1>4. CASE a # 1 /\ Quiet /\ Clear(shapes, h264, decoded, heard, f, a, since)
  <2>1. \/ c[a].kind \in Streams
        \/ Over(shapes, h264, decoded, heard, f, a, since) /\ c[a].kind \notin Streams
    BY <1>1, <1>2, <1>4, ClearCell
  <2>2. c[a].kind # "pack"
    BY <1>1, <1>2, <1>4, OnePack
  <2> QED
    BY <1>2, <1>4, <2>1, <2>2 DEF AccessCases
<1>5. ASSUME a # 1, NEW u \in 1..Len(shapes[f].pes), Inside(f, u, a, since)
      PROVE  AccessCases(f, a, since)
  <2>1. c[a].kind = "data"
    BY <1>1, <1>5, InsideCell
  <2> QED
    BY <1>2, <1>5, <2>1 DEF AccessCases
<1> QED
  BY <1>3, <1>4, <1>5 DEF Parsed

(* Where nothing is collected at the end of a picture, it is done. *)
LEMMA ClearEnds ==
    ASSUME NEW since \in Nat, NEW ps, NEW f \in 0..MaxFrames, ps[f] \in Layouts,
           NEW h, NEW d, NEW r, NEW p, p = Len(FrameCells(f, ps[f])) + 1,
           Clear(ps, h, d, r, f, p, since)
    PROVE  Begun(ps, h, d, r, f + 1, since)
<1>1. ASSUME NEW u \in 2..Len(ps[f].pes), Before(ps, h, d, r, f, u, p, since) PROVE FALSE
  <2>1. u \in 1..Len(ps[f].pes)
    BY PesTypes
  <2>2. /\ p = At(f, ps[f], u) /\ ps[f].pes[u].size \in Nat /\ Len(FrameCells(f, ps[f])) \in Nat
        /\ At(f, ps[f], u) \in Nat
        /\ At(f, ps[f], u) + ps[f].pes[u].size <= Len(FrameCells(f, ps[f]))
    BY <1>1, <2>1, PesTypes, PictureCells DEF Before
  <2> QED
    BY <2>2
<1> QED
  BY <1>1 DEF Clear, Over

(* A parser that has done with all cells of a picture is where the next one *)
(* begins.                                                                  *)
LEMMA PictureOver ==
    ASSUME NEW since \in Nat, PTypes, NEW f \in 1..Len(shapes),
           NEW p, p = Len(FrameCells(f, shapes[f])) + 1, Parsed(f, p, since)
    PROVE  Quiet /\ Begun(shapes, h264, decoded, heard, f + 1, since)
<1>1. shapes[f] \in Layouts /\ f \in 0..MaxFrames
  BY ShapeTypes
<1>2. Len(FrameCells(f, shapes[f])) \in Nat /\ p \in Nat
  BY <1>1, PictureCells
<1>3. p # 1
  <2>1. 1 \in 1..Len(shapes[f].pes) /\ shapes[f].pes[1].size \in Nat \ {0}
    BY <1>1, PesTypes
  <2>2. /\ At(f, shapes[f], 1) \in Nat
        /\ At(f, shapes[f], 1) + shapes[f].pes[1].size <= Len(FrameCells(f, shapes[f]))
    BY <1>1, <2>1, PictureCells
  <2> QED
    BY <1>2, <2>1, <2>2
<1>4. ASSUME NEW u \in 1..Len(shapes[f].pes), Inside(f, u, p, since) PROVE FALSE
  <2>1. p <= Len(FrameCells(f, shapes[f]))
    BY <1>2, <1>4, InsideCell
  <2> QED
    BY <1>2, <2>1
<1>5. Quiet /\ Clear(shapes, h264, decoded, heard, f, p, since)
  BY <1>3, <1>4 DEF Parsed
<1> QED
  BY <1>1, <1>5, ClearEnds

(* The packet in hand is done with: the parser waits for the next one. *)
LEMMA Handover ==
    ASSUME PTypes, NEW f \in 1..Len(shapes), NEW p \in Nat \ {0, 1}, After(f, p),
           UNCHANGED <<shapes, queue>>, Parsed(f, p, 0)'
    PROVE  Idle'
<1> DEFINE c == FrameCells(f, shapes[f])
<1>1. Len(shapes) \in Nat /\ shapes[f] \in Layouts /\ f \in 0..MaxFrames /\ f \in Nat \ {0}
  <2>1. Len(shapes) \in Nat
    BY ShapeTypes
  <2> QED
    BY <2>1, ShapeTypes
<1>2. Len(c) \in Nat
  BY <1>1, PictureCells
<1>3. CASE p <= Len(c)
  <2>1. Coming(f, p)
    BY <1>3 DEF After
  <2>2. Coming(f, p)'
    BY <2>1 DEF Coming
  <2> QED
    BY <1>1, <2>2 DEF Idle
<1>4. CASE ~(p <= Len(c))
  <2>1. p = Len(c) + 1 /\ (NoMore(f + 1) \/ Coming(f + 1, 1))
    BY <1>4 DEF After
  <2>2. \/ Quiet' /\ Clear(shapes, h264', decoded', heard', f, p, 0)
        \/ \E u \in 1..Len(shapes[f].pes) : Inside(f, u, p, 0)'
    BY DEF Parsed
  <2>3. ASSUME NEW u \in 1..Len(shapes[f].pes), Inside(f, u, p, 0)' PROVE FALSE
    <3>1. p <= At(f, shapes[f], u) + shapes[f].pes[u].size
      BY <2>3 DEF Inside
    <3>2. At(f, shapes[f], u) \in Nat /\ shapes[f].pes[u].size \in Nat
          /\ At(f, shapes[f], u) + shapes[f].pes[u].size <= Len(c)
      BY <1>1, PictureCells, PesTypes
    <3> HIDE DEF c
    <3> QED
      BY <1>2, <2>1, <3>1, <3>2
  <2>4. Quiet' /\ Clear(shapes, h264', decoded', heard', f, p, 0) /\ 0 \in Nat
    BY <2>2, <2>3
  <2>5. Begun(shapes, h264', decoded', heard', f + 1, 0)
    <3>1. p = Len(FrameCells(f, shapes[f])) + 1
      BY <2>1
    <3> QED
      BY <1>1, <2>4, <3>1, ClearEnds
  <2>6. Quiet' /\ Begun(shapes, h264', decoded', heard', f + 1, 0)
    BY <2>4, <2>5
  <2>7. Parsed(f + 1, 1, 0)'
    BY <2>6 DEF Parsed, Ready
  <2>8. NoMore(f + 1)' \/ Coming(f + 1, 1)'
    BY <2>1 DEF NoMore, Coming
  <2>9. f + 1 \in Nat \ {0} /\ 1 \in Nat \ {0}
    BY <1>1
  <2> QED
    BY <2>7, <2>8, <2>9 DEF Idle
<1> QED
  BY <1>3, <1>4

-----------------------------------------------------------------------------
(* The steps of the parser.                                                 *)

Advanced(f, a, since) ==
    /\ UNCHANGED <<shapes, queue, data, len>>
    /\ \/ pc' = "idle" /\ \E m \in Nat \ {0, 1} : m = a + len /\ Parsed(f, m, since)'
       \/ pc' # "idle" /\ Busy(f, a, since)'

Held(f, a, since) == PTypes /\ HandFacts(f, a) /\ Busy(f, a, since)

(* The packet begins with a header. *)
LEMMA HeaderAccessed ==
    ASSUME NEW since \in Nat, NEW f, NEW a, Held(f, a, since),
           AccessPack \/ AccessPes \/ AccessPrivate
    PROVE  Advanced(f, a, since)
<1>1. pc = "access" /\ pos = 1 /\ KindAt(pos) = KindAt(1)
  BY DEF AccessPack, AccessPes, AccessPrivate, Held, PTypes
<1>2. AccessCases(f, a, since)
  BY <1>1, PacketBegins DEF Held, Busy, Ahead
<1>3. UNCHANGED <<shapes, queue, data, len, pos, frame, frameSize, curStream, h264, decoded, heard>>
  BY DEF AccessPack, AccessPes, AccessPrivate, sender, source, output
<1>4. ASSUME AccessPack PROVE Advanced(f, a, since)
  <2>1. KindAt(1) = "pack" /\ isFrameStart' /\ pc' = "ps"
    BY <1>1, <1>4 DEF AccessPack
  <2>2. a = 1 /\ Ready(f, since) /\ Begun(shapes, h264, decoded, heard, f, since)
    BY <1>2, <2>1 DEF AccessCases, Streams
  <2>3. Busy(f, a, since)'
    BY <1>1, <1>3, <2>1, <2>2 DEF Busy, Ready, Quiet
  <2> QED
    BY <1>3, <2>1, <2>3 DEF Advanced
<1>5. ASSUME AccessPes PROVE Advanced(f, a, since)
  <2>1. KindAt(1) \in Streams /\ pc' = "pes"
        /\ isFrameStart' = IF KindAt(1) = "video" THEN FALSE ELSE isFrameStart
    BY <1>1, <1>5 DEF AccessPes
  <2>2. a # 1 /\ Quiet /\ Clear(shapes, h264, decoded, heard, f, a, since)
    BY <1>2, <2>1 DEF AccessCases, Streams
  <2>3. KindAt(1)' = KindAt(1) /\ KindAt(pos)' = KindAt(1)'
    BY <1>1, <1>3 DEF KindAt, CellAt
  <2>4. a + pos' - 1 = a /\ pos' <= len
    BY <1>1, <1>3 DEF Held, HandFacts
  <2>5. Ahead(f, a, since)'
    <3>1. KindAt(pos)' = "video" => ~isFrameStart'
      BY <2>1, <2>3
    <3>2. Clear(shapes, h264, decoded, heard, f, a + pos - 1, since)'
      BY <1>3, <2>2, <2>4
    <3> QED
      BY <1>3, <2>1, <2>2, <2>4, <3>1, <3>2 DEF Ahead, Quiet
  <2> QED
    BY <1>3, <2>1, <2>5 DEF Advanced, Busy
<1>6. ASSUME AccessPrivate PROVE Advanced(f, a, since)
  <2>1. KindAt(1) = "private" /\ pc' = "idle" /\ isFrameStart' = isFrameStart
    BY <1>1, <1>6 DEF AccessPrivate, source
  <2>2. Quiet /\ Over(shapes, h264, decoded, heard, f, a, since)
    BY <1>2, <2>1 DEF AccessCases, Streams
  <2>3. PICK m \in Nat \ {0, 1} : m = a + len
    BY DEF Held, HandFacts
  <2>4. Over(shapes, h264, decoded, heard, f, m, since)
    <3>1. Len(FrameCells(f, shapes[f])) \in Nat /\ m - 1 <= Len(FrameCells(f, shapes[f])) /\ a <= m
          /\ a \in Nat
      BY <2>3 DEF Held, HandFacts
    <3>2. m \in 2..(Len(FrameCells(f, shapes[f])) + 1)
      BY <3>1
    <3>3. \A q \in m..Len(FrameCells(f, shapes[f])) : q \in a..Len(FrameCells(f, shapes[f]))
      BY <3>1
    <3> QED
      BY <2>2, <3>2, <3>3 DEF Over
  <2>5. Parsed(f, m, since)'
    BY <1>3, <2>2, <2>4 DEF Parsed, Clear, Quiet
  <2> QED
    BY <1>3, <2>1, <2>3, <2>5 DEF Advanced
<1> QED
  BY <1>4, <1>5, <1>6

(* The payload of a PES packet, or the beginning of it. *)
LEMMA PayloadTypes ==
    ASSUME NEW f \in 0..MaxFrames, NEW u \in Nat, NEW k \in Nat
    PROVE  /\ Payload(f, u, k) \in Seq(Cells) /\ Len(Payload(f, u, k)) = k
           /\ \A j \in 1..k : Payload(f, u, k)[j] = Cell("data", f, u, j)
<1>1. \A j \in 1..k : Cell("data", f, u, j) \in Cells
  BY DEF Cell, Cells, CellKinds
<1>2. Payload(f, u, k) = [j \in 1..k |-> Cell("data", f, u, j)]
  BY DEF Payload
<1> QED
  BY <1>1, <1>2

(* The m cells from p are payload of PES packet u, behind the i-th.         *)
HasPayload(d, p, m, f, u, i) ==
    p + m - 1 <= Mtu /\ \A j \in 1..m : d[p + j - 1] = Cell("data", f, u, i + j)

(* The sequence s and then m cells from p.                                  *)
With(s, d, p, m) == s \o SubSeq(d, p, p + m - 1)

(* Payload is collected cell by cell. *)
LEMMA PayloadGrows ==
    ASSUME NEW f \in 0..MaxFrames, NEW u \in Nat, NEW d \in [1..Mtu -> Cells],
           NEW i \in Nat, NEW p \in Nat \ {0}, NEW m \in Nat, HasPayload(d, p, m, f, u, i)
    PROVE  With(Payload(f, u, i), d, p, m) = Payload(f, u, i + m)
<1> DEFINE s == SubSeq(d, p, p + m - 1)
<1>1. PICK x : x = Payload(f, u, i) /\ x \in Seq(Cells) /\ Len(x) = i
               /\ \A j \in 1..i : x[j] = Cell("data", f, u, j)
  BY PayloadTypes
<1>2. s \in Seq(Cells) /\ Len(s) = m /\ \A j \in 1..m : s[j] = d[p + j - 1]
  <2>1. PICK q \in Int : q = p + m - 1 /\ q <= Mtu
    BY DEF HasPayload
  <2>2. /\ SubSeq(d, p, q) \in Seq(Cells)
        /\ Len(SubSeq(d, p, q)) = IF p <= q THEN q - p + 1 ELSE 0
        /\ \A j \in 1..(q - p + 1) : SubSeq(d, p, q)[j] = d[p + j - 1]
    BY <2>1, DataCells
  <2>3. (IF p <= q THEN q - p + 1 ELSE 0) = m /\ q - p + 1 = m
    BY <2>1
  <2> QED
    BY <2>1, <2>2, <2>3
<1> HIDE DEF s
<1>3. PICK y : /\ y = s /\ y \in Seq(Cells) /\ Len(y) = m
               /\ \A j \in 1..m : y[j] = Cell("data", f, u, i + j)
  BY <1>2 DEF HasPayload
<1>4. x \in Seq(Cells) /\ y \in Seq(Cells)
  BY <1>1, <1>3
<1>5. /\ x \o y \in Seq(Cells) /\ Len(x \o y) = Len(x) + Len(y)
      /\ \A j \in 1..(Len(x) + Len(y)) :
            (x \o y)[j] = IF j <= Len(x) THEN x[j] ELSE y[j - Len(x)]
  BY <1>4, ConcatProperties, Zenon
<1>6. Len(x) = i /\ Len(y) = m
  BY <1>1, <1>3
<1>7. PICK z : z = x \o y /\ z \in Seq(Cells) /\ Len(z) = i + m
               /\ \A j \in 1..(i + m) : z[j] = IF j <= i THEN x[j] ELSE y[j - i]
  BY <1>5, <1>6, Zenon
<1>8. ASSUME NEW j \in 1..(i + m) PROVE z[j] = Cell("data", f, u, j)
  <2>1. CASE j <= i
    <3>1. j \in 1..i
      BY <2>1
    <3> QED
      BY <1>1, <1>7, <2>1, <3>1
  <2>2. CASE ~(j <= i)
    <3>1. j - i \in 1..m /\ i + (j - i) = j
      BY <2>2
    <3>2. z[j] = y[j - i]
      BY <1>7, <2>2
    <3>3. y[j - i] = Cell("data", f, u, i + (j - i))
      BY <1>3, <3>1
    <3> QED
      BY <3>1, <3>2, <3>3
  <2> QED
    BY <2>1, <2>2
<1>9. PICK w : w = Payload(f, u, i + m) /\ w \in Seq(Cells) /\ Len(w) = i + m
               /\ \A j \in 1..(i + m) : w[j] = Cell("data", f, u, j)
  <2>1. PICK k \in Nat : k = i + m
    OBVIOUS
  <2>2. /\ Payload(f, u, k) \in Seq(Cells) /\ Len(Payload(f, u, k)) = k
        /\ \A j \in 1..k : Payload(f, u, k)[j] = Cell("data", f, u, j)
    BY PayloadTypes
  <2> QED
    BY <2>1, <2>2, Zenon
<1>10. z = w
  BY <1>7, <1>8, <1>9, SeqEqual
<1> QED
  BY <1>1, <1>3, <1>7, <1>9, <1>10 DEF s, With

(* A PES packet in the packet in hand. *)
UnitFacts(f, a, u, at, size) ==
    /\ u \in 1..Len(shapes[f].pes) /\ u \in Nat \ {0}
    /\ at = At(f, shapes[f], u) /\ at \in Nat \ {0, 1}
    /\ size = shapes[f].pes[u].size /\ size \in Nat \ {0}
    /\ at + size <= Len(FrameCells(f, shapes[f]))
    /\ At(f, shapes[f], u + 1) = at + size + 1
    /\ \A j \in 1..len : \A k \in 1..size :
          a + j - 1 = at + k => data[j] = Cell("data", f, u, k)
    /\ \A j \in 1..len : a + j - 1 = at =>
          CellAt(j) = Cell(shapes[f].pes[u].stream, f, u, size)

(* They hold of every PES packet of the picture. *)
LEMMA UnitInHand ==
    ASSUME NEW f, NEW a, HandFacts(f, a), NEW u \in 1..Len(shapes[f].pes)
    PROVE  \E at, size : UnitFacts(f, a, u, at, size)
<1> DEFINE l == shapes[f]
           c == FrameCells(f, l)
           at == At(f, l, u)
           size == l.pes[u].size
<1>1. /\ l \in Layouts /\ f \in 0..MaxFrames /\ len \in 1..Mtu /\ Mtu \in Nat
      /\ \A j \in 1..len : CellAt(j) = c[a + j - 1]
  BY DEF HandFacts
<1>2. /\ at \in Nat /\ size \in Nat \ {0} /\ at + size <= Len(c)
      /\ At(f, l, u + 1) = at + size + 1
      /\ c[at] = Cell(l.pes[u].stream, f, u, size)
      /\ \A k \in 1..size : c[at + k] = Cell("data", f, u, k)
  BY <1>1, PictureCells, PesTypes
<1>3. at \in Nat \ {0, 1} /\ u \in Nat \ {0}
  <2>1. Len(l.pes) \in Nat /\ 1 \in 1..Len(l.pes)
    BY <1>1, PesTypes
  <2>2. At(f, l, 1) \in Nat \ {0, 1}
    BY <1>1, PictureCells
  <2>3. u # 1 => At(f, l, 1) < at
    BY <1>1, <2>1, AtGrows
  <2> HIDE DEF l, at
  <2>4. u = 1 => at = At(f, l, 1)
    BY DEF at
  <2> QED
    BY <1>2, <2>1, <2>2, <2>3, <2>4 DEF l
<1>4. ASSUME NEW j \in 1..len, NEW k \in 1..size, a + j - 1 = at + k
      PROVE  data[j] = Cell("data", f, u, k)
  <2>1. c[a + j - 1] = Cell("data", f, u, k)
    BY <1>2, <1>4
  <2>2. j <= Mtu
    BY <1>1
  <2> QED
    BY <1>1, <2>1, <2>2 DEF CellAt
<1>5. ASSUME NEW j \in 1..len, a + j - 1 = at
      PROVE  CellAt(j) = Cell(l.pes[u].stream, f, u, size)
  BY <1>1, <1>2, <1>5
<1> QED
  BY <1>2, <1>3, <1>4, <1>5, SMTT(40) DEF UnitFacts

(* Some cells of the packet complete what was collected of a PES packet. *)
LEMMA Collected ==
    ASSUME NEW since \in Nat, PTypes, NEW f, NEW a, HandFacts(f, a), NEW u, NEW at, NEW size,
           UnitFacts(f, a, u, at, size), Inside(f, u, a, since),
           NEW k \in Nat, k <= len, k <= Missing
    PROVE  \E i \in Nat : /\ i = a - at - 1 /\ i < size /\ Missing = size - i
                          /\ frame \o SubSeq(data, 1, k) = Payload(f, u, i + k)
<1>1. /\ f \in 0..MaxFrames /\ a \in Nat \ {0} /\ len \in 1..Mtu /\ Mtu \in Nat
      /\ data \in [1..Mtu -> Cells]
  BY DEF HandFacts, PTypes, TypeOK
<1>2. at \in Nat /\ size \in Nat /\ u \in Nat /\ at = At(f, shapes[f], u)
  BY DEF UnitFacts
<1>3. at < a /\ a <= at + size /\ frame = Payload(f, u, a - at - 1) /\ frameSize = size
  BY <1>2 DEF Inside, UnitFacts
<1>4. PICK i \in Nat : i = a - at - 1 /\ i < size
  BY <1>1, <1>2, <1>3
<1>5. Missing = size - i
  <2>1. Len(frame) = i
    BY <1>1, <1>2, <1>3, <1>4, PayloadTypes
  <2> QED
    BY <1>3, <2>1 DEF Missing
<1>6. \A j \in 1..k : data[1 + j - 1] = Cell("data", f, u, i + j)
  <2>1. ASSUME NEW j \in 1..k PROVE data[1 + j - 1] = Cell("data", f, u, i + j)
    <3>1. k <= size - i
      BY <1>5
    <3>2. a \in Nat /\ at \in Nat /\ size \in Nat /\ len \in Nat
      BY <1>1, <1>2
    <3>3. j \in 1..len /\ i + j \in 1..size /\ 1 + j - 1 = j
      BY <3>1, <3>2
    <3>4. a + j - 1 = at + (i + j)
      BY <1>4, <3>2
    <3> QED
      BY <3>3, <3>4 DEF UnitFacts
  <2> QED
    BY <2>1
<1>7. 1 + k - 1 <= Mtu /\ 1 + k - 1 = k /\ 1 \in Nat \ {0}
  BY <1>1
<1>8. PICK d \in [1..Mtu -> Cells], p \in Nat \ {0} : d = data /\ p = 1 /\ p + k - 1 = k
  BY <1>1
<1>9. \A j \in 1..k : d[p + j - 1] = Cell("data", f, u, i + j)
  BY <1>6, <1>8
<1>10. With(Payload(f, u, i), d, p, k) = Payload(f, u, i + k)
  <2>1. p + k - 1 <= Mtu /\ f \in 0..MaxFrames /\ u \in Nat
    BY <1>1, <1>2, <1>7, <1>8
  <2>2. HasPayload(d, p, k, f, u, i)
    BY <1>9, <2>1, Zenon DEF HasPayload
  <2> QED
    BY <2>1, <2>2, PayloadGrows
<1>11. frame \o SubSeq(data, 1, k) = Payload(f, u, i + k)
  BY <1>3, <1>4, <1>8, <1>10 DEF With
<1> QED
  BY <1>4, <1>5, <1>11

(* The packet ends before the payload begun before it does. *)
LEMMA PartAppended ==
    ASSUME NEW since \in Nat, NEW f, NEW a, Held(f, a, since), AppendPart
    PROVE  Advanced(f, a, since)
<1>1. /\ pc = "access" /\ pos = 1 /\ KindAt(1) \notin PesKinds /\ KindAt(1) # "pack"
      /\ len < Missing /\ frame' = frame \o Remaining(1) /\ pc' = "idle"
  BY DEF AppendPart, Held, PTypes
<1>2. UNCHANGED <<shapes, queue, data, len, frameSize, curStream, isFrameStart,
                  h264, decoded, heard>>
  BY DEF AppendPart, sender, output
<1>3. AccessCases(f, a, since)
  BY <1>1, PacketBegins DEF Held, Busy, Ahead
<1>4. a \in Nat \ {0} /\ len \in Nat \ {0}
  BY DEF Held, HandFacts
<1>5. ASSUME Quiet PROVE FALSE
  <2>1. Missing = 0 - 0
    BY <1>5, EmptySeq DEF Missing, Quiet
  <2> QED
    BY <1>1, <1>4, <2>1
<1>6. PICK u : u \in 1..Len(shapes[f].pes) /\ Inside(f, u, a, since)
  BY <1>1, <1>3, <1>5 DEF AccessCases, PesKinds
<1>7. PICK at, size : UnitFacts(f, a, u, at, size)
  BY <1>6, UnitInHand DEF Held
<1>8. /\ at = At(f, shapes[f], u) /\ size = shapes[f].pes[u].size
      /\ at \in Nat /\ size \in Nat
  BY <1>7 DEF UnitFacts
<1>9. /\ at < a /\ frameSize = size
      /\ curStream = shapes[f].pes[u].stream /\ curStream \in Streams
      /\ curStream = "video" => (isFrameStart <=> u = 1)
      /\ Output(shapes, h264, decoded, heard, f, u - 1, since)
  BY <1>6, <1>8 DEF Inside
<1>10. PICK n \in Nat : n = len /\ n <= Missing
  <2>1. Missing \in Int
    BY LenProperties DEF Missing, Held, PTypes, TypeOK
  <2> QED
    BY <1>1, <1>4, <2>1
<1>11. PICK i \in Nat : /\ i = a - at - 1 /\ i < size /\ Missing = size - i
                        /\ frame \o SubSeq(data, 1, n) = Payload(f, u, i + n)
  <2>1. /\ PTypes /\ HandFacts(f, a) /\ UnitFacts(f, a, u, at, size) /\ Inside(f, u, a, since)
        /\ n \in Nat /\ n <= len /\ n <= Missing
    BY <1>6, <1>7, <1>10 DEF Held
  <2> QED
    BY <2>1, Collected
<1>12. frame' = Payload(f, u, i + n)
  BY <1>1, <1>10, <1>11 DEF Remaining
<1>13. PICK m \in Nat \ {0, 1} : m = a + len /\ m = a + n
  BY <1>4, <1>10
<1>14. at < m /\ m <= at + size /\ m - at - 1 = i + n
  <2>1. n < size - i
    BY <1>1, <1>10, <1>11
  <2>2. i = a - at - 1 /\ m = a + n
    BY <1>11, <1>13
  <2> QED
    BY <1>4, <1>8, <1>9, <2>1, <2>2
<1>15. Inside(f, u, m, since)'
  BY <1>2, <1>8, <1>9, <1>12, <1>14 DEF Inside
<1>16. Parsed(f, m, since)'
  BY <1>2, <1>6, <1>13, <1>15 DEF Parsed
<1> QED
  BY <1>1, <1>2, <1>13, <1>16 DEF Advanced

(* Behind the first cell of a packet no further video begins. *)
LEMMA NoLaterVideo ==
    ASSUME NEW since \in Nat, NEW f, NEW a, HandFacts(f, a), NEW h, NEW d, NEW r, NEW q \in 2..len,
           Clear(shapes, h, d, r, f, a + q - 1, since)
    PROVE  KindAt(q) # "video"
<1> DEFINE c == FrameCells(f, shapes[f])
<1>1. /\ shapes[f] \in Layouts /\ f \in 0..MaxFrames /\ Len(c) \in Nat /\ a \in Nat
      /\ len \in Nat /\ a + len - 1 <= Len(c) /\ q \in 1..len
      /\ KindAt(q) = c[a + q - 1].kind
      /\ KindAt(q) = "video" => c[a + q - 1].unit = 1
  <2>1. len \in Nat /\ q \in 1..len
    BY DEF HandFacts
  <2> QED
    BY <2>1 DEF HandFacts
<1> HIDE DEF c
<1>2. a + q - 1 <= Len(c)
  BY <1>1
<1>3. ASSUME NEW u \in 2..Len(shapes[f].pes), NEW k, NEW size, c[a + q - 1] = Cell(k, f, u, size)
      PROVE  c[a + q - 1].unit # 1
  <2>1. Len(shapes[f].pes) \in Nat
    BY <1>1, PesTypes
  <2>2. u # 1
    BY <2>1
  <2> QED
    BY <1>3, <2>2 DEF Cell
<1>4. \/ \E u \in 2..Len(shapes[f].pes) : \E k, size : c[a + q - 1] = Cell(k, f, u, size)
      \/ c[a + q - 1].kind \notin Streams
  BY <1>1, <1>2, ClearCell DEF c
<1> QED
  BY <1>1, <1>3, <1>4 DEF Streams

(* The packet has the rest of the payload begun before it. *)
LEMMA RestAppended ==
    ASSUME NEW since \in Nat, PrivateLast, NEW f, NEW a, Held(f, a, since), AppendRest
    PROVE  Advanced(f, a, since)
<1>1. /\ pc = "access" /\ pos = 1 /\ KindAt(1) \notin PesKinds /\ KindAt(1) # "pack"
      /\ Missing <= len /\ Write(curStream, frame \o Taken(1, Missing))
      /\ pos' = 1 + Missing /\ pc' = "ps"
  <2>1. Missing \in Int /\ len \in Int
    BY LenProperties DEF Missing, Held, PTypes, TypeOK
  <2> QED
    BY <2>1 DEF AppendRest, Held, PTypes
<1>2. UNCHANGED <<shapes, queue, data, len, curStream, isFrameStart>>
  BY DEF AppendRest, sender
<1>3. AccessCases(f, a, since)
  BY <1>1, PacketBegins DEF Held, Busy, Ahead
<1>4. /\ a \in Nat \ {0} /\ len \in Nat \ {0} /\ f \in 1..Len(shapes) /\ PTypes
      /\ HandFacts(f, a)
  BY DEF Held, HandFacts
<1>5. CASE Quiet /\ Over(shapes, h264, decoded, heard, f, a, since) /\ a # 1
  <2>1. Missing = 0
    <3>1. Missing = 0 - 0
      BY <1>5, EmptySeq DEF Missing, Quiet
    <3> QED
      BY <3>1
  <2>2. frame \o Taken(1, Missing) = <<>>
    <3>1. Taken(1, Missing) = <<>>
      BY <2>1, SubSeqEmpty DEF Taken
    <3> QED
      BY <1>5, <3>1 DEF Quiet
  <2>3. Begun(shapes, h264', decoded', heard', f + 1, since) /\ Quiet'
    <3>1. Begun(shapes, h264, decoded, heard, f + 1, since)
      BY <1>5 DEF Over
    <3> QED
      BY <1>1, <1>4, <1>5, <2>2, <3>1, NothingWritten
  <2>4. Over(shapes, h264', decoded', heard', f, a, since)
    BY <1>5, <2>3 DEF Over
  <2>5. pos' = 1 /\ a + pos' - 1 = a /\ pos' <= len
    BY <1>1, <1>4, <2>1
  <2>6. KindAt(pos)' = KindAt(1)
    BY <1>2, <2>5 DEF KindAt, CellAt
  <2>7. Ahead(f, a, since)'
    BY <1>1, <1>2, <1>5, <2>3, <2>4, <2>5, <2>6 DEF Ahead, Clear, PesKinds, Streams
  <2> QED
    BY <1>1, <1>2, <2>7 DEF Advanced, Busy
<1>6. ASSUME NEW u, u \in 1..Len(shapes[f].pes), Inside(f, u, a, since) PROVE Advanced(f, a, since)
  <2>1. PICK at, size : UnitFacts(f, a, u, at, size)
    BY <1>4, <1>6, UnitInHand
  <2>2. /\ at = At(f, shapes[f], u) /\ size = shapes[f].pes[u].size
        /\ at \in Nat \ {0, 1} /\ size \in Nat /\ At(f, shapes[f], u + 1) = at + size + 1
    BY <2>1 DEF UnitFacts
  <2>3. /\ at < a /\ a <= at + size
        /\ curStream = shapes[f].pes[u].stream /\ curStream \in Streams
        /\ curStream = "video" => (isFrameStart <=> u = 1)
        /\ Output(shapes, h264, decoded, heard, f, u - 1, since)
        /\ frameSize = size /\ frame = Payload(f, u, a - at - 1)
    BY <1>6, <2>2 DEF Inside
  <2>4. PICK k \in Nat : k = Missing
    <3>1. frameSize \in Nat /\ Len(frame) \in Nat /\ Len(frame) <= frameSize
      BY <1>4, LenProperties DEF PTypes, TypeOK
    <3> QED
      BY <3>1 DEF Missing
  <2>5. PICK i \in Nat : /\ i = a - at - 1 /\ i < size /\ Missing = size - i
                         /\ frame \o SubSeq(data, 1, k) = Payload(f, u, i + k)
    <3>1. k <= len /\ k <= Missing
      BY <1>1, <2>4
    <3>2. PTypes /\ HandFacts(f, a) /\ UnitFacts(f, a, u, at, size) /\ Inside(f, u, a, since)
      BY <1>4, <1>6, <2>1
    <3> QED
      BY <3>1, <3>2, Collected
  <2>6. i + k = size /\ 1 + k - 1 = k
    <3>1. k = size - i /\ size \in Nat
      BY <2>2, <2>4, <2>5
    <3> QED
      BY <3>1
  <2>7. Write(curStream, Payload(f, u, size))
    BY <1>1, <2>4, <2>5, <2>6 DEF Taken
  <2>8. Output(shapes, h264', decoded', heard', f, u, since) /\ Quiet'
    <3>1. PICK pes : pes = shapes[f].pes[u] /\ pes.size = size /\ pes.stream = curStream
      BY <2>2, <2>3
    <3> QED
      BY <1>4, <1>6, <2>3, <2>7, <3>1, UnitWritten
  <2>9. Clear(shapes, h264', decoded', heard', f, At(f, shapes[f], u + 1), since)
    <3>1. shapes \in Seq(Layouts) /\ Len(shapes) <= MaxFrames
      BY <1>4, ShapeTypes
    <3> QED
      BY <1>4, <1>6, <2>8, <3>1, UnitDone
  <2>10. /\ a + pos' - 1 = At(f, shapes[f], u + 1) /\ a # 1
         /\ pos' <= len \/ pos' = len + 1
         /\ pos' \in Nat /\ 2 <= pos'
    <3>1. pos' = 1 + k /\ k = size - i /\ i = a - at - 1 /\ i < size
      BY <1>1, <2>4, <2>5
    <3>2. k <= len /\ a \in Nat /\ len \in Nat /\ at \in Nat /\ size \in Nat /\ at < a
      BY <1>1, <1>4, <2>2, <2>3, <2>4
    <3>3. a + pos' - 1 = at + size + 1 /\ a # 1 /\ 2 <= pos'
      <4>1. at \in Nat \ {0, 1}
        BY <2>2
      <4> QED
        BY <3>1, <3>2, <4>1
    <3>4. pos' <= len \/ pos' = len + 1
      BY <3>1, <3>2
    <3>5. pos' \in Nat
      BY <3>1
    <3> QED
      BY <2>2, <3>3, <3>4, <3>5
  <2>11. ASSUME pos' <= len PROVE KindAt(pos)' # "video"
    <3>1. PICK q : q = pos' /\ q \in 2..len
      BY <1>4, <2>10, <2>11
    <3>2. KindAt(pos)' = KindAt(q)
      BY <1>2, <3>1 DEF KindAt, CellAt
    <3>3. KindAt(q) # "video"
      BY <1>4, <2>9, <2>10, <3>1, NoLaterVideo
    <3> QED
      BY <3>2, <3>3
  <2>12. Ahead(f, a, since)'
    BY <1>2, <2>8, <2>9, <2>10, <2>11 DEF Ahead
  <2> QED
    BY <1>1, <1>2, <2>12 DEF Advanced, Busy
<1> QED
  BY <1>1, <1>3, <1>5, <1>6 DEF AccessCases, PesKinds

(* The headers in front of the PES packets are skipped. *)
LEMMA HeadersSkipped ==
    ASSUME NEW since \in Nat, NEW f, NEW a, Held(f, a, since), ResolvePs
    PROVE  Advanced(f, a, since)
<1> DEFINE l == shapes[f]
           c == FrameCells(f, l)
<1>1. /\ UNCHANGED <<shapes, queue, data, len, frame, frameSize, curStream, isFrameStart,
                     h264, decoded, heard>>
      /\ pc = "ps"
  BY DEF ResolvePs, sender, source, output
<1>2. /\ l \in Layouts /\ f \in 0..MaxFrames /\ a \in Nat \ {0} /\ len \in Nat \ {0}
      /\ Len(c) \in Nat /\ a + len - 1 <= Len(c) /\ pos \in Nat \ {0}
      /\ \A j \in 1..len : KindAt(j) = c[a + j - 1].kind
      /\ a # 1 => KindAt(len + 1) # "pack"
      /\ a = 1 => At(f, l, 1) <= len
  BY DEF Held, HandFacts
<1>3. CASE /\ a = 1 /\ isFrameStart /\ Ready(f, since)
           /\ Begun(shapes, h264, decoded, heard, f, since)
           /\ pos = 1
  <2>1. /\ c[1].kind = "pack" /\ At(f, l, 1) = IF l.key THEN 4 ELSE 2
        /\ l.key => c[2].kind = "sys" /\ c[3].kind = "map"
        /\ c[At(f, l, 1)] = Cell("video", f, 1, l.pes[1].size)
    <3>1. l.pes[1].stream = "video" /\ 1 \in 1..Len(l.pes)
      BY <1>2, PesTypes
    <3>2. c[At(f, l, 1)] = Cell(l.pes[1].stream, f, 1, l.pes[1].size)
      BY <1>2, <3>1, PictureCells
    <3> QED
      BY <1>2, <3>1, <3>2, PictureCells
  <2>2. \A j \in 1..len : KindAt(j) = c[j].kind
    <3>1. \A j \in 1..len : 1 + j - 1 = j
      BY <1>2
    <3> QED
      BY <1>2, <1>3, <3>1
  <2> HIDE DEF c, l
  <2>3. CASE l.key
    <3>1. 1 \in 1..len /\ 2 \in 1..len /\ 3 \in 1..len
      BY <1>2, <1>3, <2>1, <2>3
    <3>2. KindAt(1) = "pack" /\ KindAt(2) = "sys" /\ KindAt(3) = "map"
      BY <2>1, <2>2, <2>3, <3>1
    <3>3. pos = 1 /\ pos + 1 = 2 /\ pos + 2 = 3 /\ pos + 3 = 4
      BY <1>3
    <3>4. pos' = 4 /\ pc' = "pes"
      BY <3>2, <3>3 DEF ResolvePs
    <3> QED
      BY <1>1, <1>3, <2>1, <2>3, <3>4 DEF Advanced, Busy, Ready, Quiet, l
  <2>4. CASE ~l.key
    <3>1. 1 \in 1..len /\ 2 \in 1..len
      BY <1>2, <1>3, <2>1, <2>4
    <3>2. KindAt(1) = "pack" /\ KindAt(2) = "video"
      <4>1. c[2] = Cell("video", f, 1, l.pes[1].size)
        BY <2>1, <2>4
      <4>2. c[2].kind = "video"
        BY <4>1 DEF Cell
      <4> QED
        BY <2>1, <2>2, <3>1, <4>2
    <3>3. pos = 1 /\ pos + 1 = 2
      BY <1>3
    <3>4. pos' = 2 /\ pc' = "pes"
      BY <3>2, <3>3 DEF ResolvePs
    <3> QED
      BY <1>1, <1>3, <2>1, <2>4, <3>4 DEF Advanced, Busy, Ready, Quiet, l
  <2> QED
    BY <2>3, <2>4
<1>4. CASE Ahead(f, a, since)
  <2>1. a # 1 /\ (pos <= len \/ pos = len + 1)
    BY <1>1, <1>4 DEF Ahead
  <2>2. KindAt(pos) # "pack"
    <3>1. CASE pos <= len
      <4>1. pos \in 1..len /\ a + pos - 1 \in 1..Len(c) /\ a + pos - 1 # 1
        <5> HIDE DEF c
        <5> QED
          BY <1>2, <2>1, <3>1
      <4>2. c[a + pos - 1].kind # "pack"
        BY <1>2, <4>1, OnePack
      <4> QED
        BY <1>2, <4>1, <4>2
    <3>2. CASE pos = len + 1
      BY <1>2, <2>1, <3>2
    <3> QED
      BY <2>1, <3>1, <3>2
  <2>3. pos' = pos /\ pc' = "pes"
    BY <2>2 DEF ResolvePs
  <2>4. KindAt(pos)' = KindAt(pos)
    BY <1>1, <2>3 DEF KindAt, CellAt
  <2>5. Ahead(f, a, since)'
    BY <1>1, <1>4, <2>3, <2>4 DEF Ahead, Quiet
  <2> QED
    BY <1>1, <2>3, <2>5 DEF Advanced, Busy
<1>5. Busy(f, a, since)
  BY DEF Held
<1> QED
  BY <1>1, <1>3, <1>4, <1>5 DEF Busy

(* The PES header the parser looks at is one of the packet in hand. *)
PesHeader(f, a, u, since) ==
    LET pes == shapes[f].pes[u]
    IN /\ u \in 1..Len(shapes[f].pes) /\ u \in Nat \ {0}
       /\ pos <= len /\ a + pos - 1 = At(f, shapes[f], u)
       /\ KindAt(pos) = pes.stream /\ CellAt(pos).n = pes.size
       /\ KindAt(pos) = "video" => (isFrameStart <=> u = 1)
       /\ Output(shapes, h264, decoded, heard, f, u - 1, since)

(* It is one of them unless the parser stands behind its end. *)
LEMMA HeaderInHand ==
    ASSUME NEW since \in Nat, NEW f, NEW a, Held(f, a, since), pc = "pes",
           KindAt(pos) \in Streams, pos <= len
    PROVE  \E u : PesHeader(f, a, u, since)
<1> DEFINE l == shapes[f]
           c == FrameCells(f, l)
<1>1. /\ l \in Layouts /\ f \in 0..MaxFrames /\ a \in Nat \ {0} /\ len \in 1..Mtu /\ Mtu \in Nat
      /\ Len(c) \in Nat /\ a + len - 1 <= Len(c) /\ pos \in Nat \ {0}
      /\ \A j \in 1..len : CellAt(j) = c[a + j - 1] /\ KindAt(j) = c[a + j - 1].kind
      /\ a = 1 => At(f, l, 1) <= len
  <2>1. HandFacts(f, a)
    BY DEF Held
  <2> QED
    BY <2>1, Zenon DEF HandFacts
<1>2. CASE /\ a = 1 /\ isFrameStart /\ Ready(f, since)
           /\ Begun(shapes, h264, decoded, heard, f, since)
           /\ pos = At(f, l, 1)
  <2>1. pos <= len /\ pos \in 1..len /\ a + pos - 1 = pos
    <3> HIDE DEF c, l
    <3> QED
      BY <1>1, <1>2
  <2>2. 1 \in 1..Len(l.pes)
    BY <1>1, PesTypes
  <2>3. c[pos] = Cell(l.pes[1].stream, f, 1, l.pes[1].size)
    BY <1>1, <1>2, <2>2, PictureCells
  <2>4. CellAt(pos) = c[pos]
    BY <1>1, <2>1
  <2>5. KindAt(pos) = l.pes[1].stream /\ CellAt(pos).n = l.pes[1].size
    BY <2>3, <2>4 DEF Cell, KindAt
  <2>6. Output(shapes, h264, decoded, heard, f, 1 - 1, since)
    BY <1>2 DEF Output
  <2>7. PesHeader(f, a, 1, since)
    BY <1>2, <2>1, <2>2, <2>5, <2>6 DEF PesHeader
  <2> QED
    BY <2>7
<1>3. CASE Ahead(f, a, since)
  <2>1. pos <= len
    OBVIOUS
  <2>2. pos \in 1..len /\ a + pos - 1 <= Len(c)
    <3> HIDE DEF c
    <3> QED
      BY <1>1, <2>1
  <2>3. CellAt(pos) = c[a + pos - 1] /\ KindAt(pos) = c[a + pos - 1].kind
    BY <1>1, <2>2
  <2>4. Clear(shapes, h264, decoded, heard, f, a + pos - 1, since)
    BY <1>3 DEF Ahead
  <2>5. PICK u \in 2..Len(l.pes) :
           /\ Before(shapes, h264, decoded, heard, f, u, a + pos - 1, since)
           /\ c[a + pos - 1] = Cell(l.pes[u].stream, f, u, l.pes[u].size)
    <3>1. /\ f \in 0..MaxFrames /\ shapes[f] \in Layouts
          /\ a + pos - 1 <= Len(FrameCells(f, shapes[f]))
          /\ FrameCells(f, shapes[f])[a + pos - 1].kind \in Streams
      BY <1>1, <2>2, <2>3
    <3> QED
      BY <2>4, <3>1, ClearCell
  <2>6. u \in 1..Len(l.pes) /\ u \in Nat \ {0} /\ u # 1
    BY <1>1, PesTypes
  <2>7. KindAt(pos) = l.pes[u].stream /\ CellAt(pos).n = l.pes[u].size
    BY <2>3, <2>5 DEF Cell
  <2>8. KindAt(pos) = "video" => (isFrameStart <=> u = 1)
    BY <1>3, <2>1, <2>6 DEF Ahead
  <2>9. PesHeader(f, a, u, since)
    BY <1>3, <2>1, <2>5, <2>6, <2>7, <2>8 DEF PesHeader, Before, Ahead
  <2> QED
    BY <2>9
<1>4. Busy(f, a, since)
  BY DEF Held
<1> QED
  BY <1>2, <1>3, <1>4 DEF Busy

(* The payload behind the header of a PES packet. *)
LEMMA PayloadBehind ==
    ASSUME NEW since \in Nat, PTypes, NEW f, NEW a, HandFacts(f, a), NEW u,
           PesHeader(f, a, u, since), NEW k \in Nat, k <= len - pos, k <= shapes[f].pes[u].size
    PROVE  Taken(pos + 1, k) = Payload(f, u, k)
<1>1. PICK at, size : UnitFacts(f, a, u, at, size)
  BY UnitInHand DEF PesHeader
<1>2. /\ f \in 0..MaxFrames /\ a \in Nat \ {0} /\ len \in 1..Mtu /\ Mtu \in Nat
      /\ data \in [1..Mtu -> Cells] /\ pos \in Nat \ {0}
  BY DEF HandFacts, PTypes, TypeOK
<1>3. at \in Nat /\ size \in Nat /\ u \in Nat /\ k <= size
  BY <1>1 DEF UnitFacts
<1>4. at = a + pos - 1
  BY <1>1 DEF UnitFacts, PesHeader
<1>5. PICK d \in [1..Mtu -> Cells], p \in Nat \ {0} : d = data /\ p = pos + 1
  BY <1>2
<1>6. p + k - 1 <= Mtu
  BY <1>2, <1>5
<1>7. \A j \in 1..k : d[p + j - 1] = Cell("data", f, u, 0 + j)
  <2>1. ASSUME NEW j \in 1..k PROVE d[p + j - 1] = Cell("data", f, u, 0 + j)
    <3>1. p + j - 1 \in 1..len /\ j \in 1..size /\ 0 + j = j
      BY <1>2, <1>3, <1>5
    <3>2. a + (p + j - 1) - 1 = at + j
      BY <1>2, <1>4, <1>5
    <3> QED
      BY <1>1, <1>5, <3>1, <3>2 DEF UnitFacts
  <2> QED
    BY <2>1
<1>8. With(Payload(f, u, 0), d, p, k) = Payload(f, u, 0 + k)
  <2>1. HasPayload(d, p, k, f, u, 0)
    BY <1>6, <1>7, Zenon DEF HasPayload
  <2> QED
    BY <1>2, <1>3, <2>1, PayloadGrows
<1>9. Payload(f, u, 0) = <<>> /\ 0 + k = k
  BY <1>2, <1>3, PayloadTypes, EmptySeq
<1>10. SubSeq(d, p, p + k - 1) \in Seq(Cells)
  <2>1. PICK q \in Int : q = p + k - 1
    BY <1>5
  <2> QED
    BY <1>6, <2>1, DataCells
<1>11. <<>> \o SubSeq(d, p, p + k - 1) = SubSeq(d, p, p + k - 1)
  BY <1>10, ConcatEmptySeq
<1> QED
  BY <1>5, <1>8, <1>9, <1>11 DEF With, Taken

(* The whole payload of a PES packet is in the packet. *)
LEMMA FrameGot ==
    ASSUME NEW since \in Nat, PrivateLast, NEW f, NEW a, Held(f, a, since), GetWholeFrame
    PROVE  Advanced(f, a, since)
<1>1. pc = "pes" /\ KindAt(pos) \in Streams /\ PTypes /\ HandFacts(f, a)
  BY DEF GetWholeFrame, Held
<1>21. pos <= len
  <2>1. len \in Nat /\ pos \in Nat \ {0}
    BY <1>1 DEF PTypes, TypeOK
  <2>2. CellAt(pos).n \in Nat
    BY <1>1, <2>1, CellTypes DEF PTypes
  <2> QED
    BY <2>1, <2>2 DEF GetWholeFrame
<1>2. PICK u : PesHeader(f, a, u, since)
  BY <1>1, <1>21, HeaderInHand
<1>3. PICK at, size : UnitFacts(f, a, u, at, size)
  BY <1>1, <1>2, UnitInHand DEF PesHeader
<1>4. /\ u \in 1..Len(shapes[f].pes) /\ pos <= len
      /\ at = a + pos - 1 /\ at \in Nat \ {0, 1} /\ size \in Nat \ {0}
      /\ size = shapes[f].pes[u].size /\ At(f, shapes[f], u + 1) = at + size + 1
      /\ KindAt(pos) = shapes[f].pes[u].stream /\ CellAt(pos).n = size
  BY <1>2, <1>3 DEF PesHeader, UnitFacts
<1>5. /\ f \in 1..Len(shapes) /\ a \in Nat \ {0} /\ len \in Nat /\ pos \in Nat \ {0}
  BY <1>1 DEF HandFacts
<1>20. /\ a \in Nat /\ len \in Nat /\ pos \in Nat \ {0} /\ pos <= len
      /\ at = a + pos - 1 /\ at \in Nat \ {0, 1} /\ size \in Nat \ {0}
  BY <1>4, <1>5
<1>6. size <= len - pos
  BY <1>4 DEF GetWholeFrame
<1>7. Taken(pos + 1, size) = Payload(f, u, size)
  BY <1>1, <1>2, <1>4, <1>6, PayloadBehind
<1>8. Output(shapes, h264', decoded', heard', f, u, since) /\ Quiet'
  <2>1. PICK pes : pes = shapes[f].pes[u] /\ pes.size = size /\ pes.stream = KindAt(pos)
    BY <1>4
  <2>2. Write(pes.stream, Payload(f, u, pes.size))
    BY <1>4, <1>7, <2>1 DEF GetWholeFrame
  <2>3. /\ pes.stream \in Streams /\ pes.stream = "video" => (isFrameStart <=> u = 1)
        /\ Output(shapes, h264, decoded, heard, f, u - 1, since)
    BY <1>1, <1>2, <2>1 DEF PesHeader
  <2> QED
    BY <1>1, <1>4, <1>5, <2>1, <2>2, <2>3, UnitWritten
<1>9. Clear(shapes, h264', decoded', heard', f, At(f, shapes[f], u + 1), since)
  <2>1. shapes \in Seq(Layouts) /\ Len(shapes) <= MaxFrames
    BY <1>1, ShapeTypes
  <2> QED
    BY <1>4, <1>5, <1>8, <2>1, UnitDone
<1>10. UNCHANGED <<shapes, queue, data, len, isFrameStart>>
  BY DEF GetWholeFrame, sender
<1>11. pos' = pos + 1 + size /\ pc' = IF pos + size < len THEN "pes" ELSE "idle"
  BY <1>4 DEF GetWholeFrame, NextPes
<1>12. CASE pos + size < len
  <2>1. /\ a + pos' - 1 = At(f, shapes[f], u + 1) /\ pos' \in 2..len
    <3>1. a + pos' - 1 = at + size + 1 /\ pos' \in 2..len
      BY <1>20, <1>11, <1>12
    <3> QED
      BY <1>4, <3>1
  <2>2. PICK q : q = pos' /\ q \in 2..len
    BY <2>1
  <2>3. KindAt(pos)' = KindAt(q)
    BY <1>10, <2>2 DEF KindAt, CellAt
  <2>4. KindAt(q) # "video"
    BY <1>1, <1>9, <2>1, <2>2, NoLaterVideo
  <2>5. pos' <= len
    BY <1>5, <2>1
  <2>6. Ahead(f, a, since)'
    BY <1>8, <1>9, <1>10, <1>11, <1>12, <2>1, <2>3, <2>4, <2>5 DEF Ahead
  <2> QED
    BY <1>10, <1>11, <1>12, <2>6 DEF Advanced, Busy
<1>13. CASE ~(pos + size < len)
  <2>1. PICK m \in Nat \ {0, 1} : m = a + len /\ m = at + size + 1
    <3>1. a + len = at + size + 1 /\ a + len \in Nat \ {0, 1}
      BY <1>20, <1>6, <1>13
    <3> QED
      BY <3>1
  <2>2. Parsed(f, m, since)'
    BY <1>4, <1>8, <1>9, <1>10, <2>1 DEF Parsed
  <2> QED
    BY <1>10, <1>11, <1>13, <2>1, <2>2 DEF Advanced
<1> QED
  BY <1>12, <1>13

(* Only the beginning of it is there. *)
LEMMA StartGot ==
    ASSUME NEW since \in Nat, NEW f, NEW a, Held(f, a, since), GetFrameStart, pos <= len
    PROVE  Advanced(f, a, since)
<1>1. pc = "pes" /\ KindAt(pos) \in Streams /\ PTypes /\ HandFacts(f, a)
  BY DEF GetFrameStart, Held
<1>2. PICK u : PesHeader(f, a, u, since)
  BY <1>1, HeaderInHand
<1>3. PICK at, size : UnitFacts(f, a, u, at, size)
  BY <1>1, <1>2, UnitInHand DEF PesHeader
<1>4. /\ u \in 1..Len(shapes[f].pes) /\ pos <= len
      /\ at = a + pos - 1 /\ at \in Nat \ {0, 1} /\ size \in Nat \ {0}
      /\ at = At(f, shapes[f], u) /\ size = shapes[f].pes[u].size
      /\ KindAt(pos) = shapes[f].pes[u].stream /\ CellAt(pos).n = size
  BY <1>2, <1>3 DEF PesHeader, UnitFacts
<1>5. /\ f \in 1..Len(shapes) /\ a \in Nat \ {0} /\ len \in Nat /\ pos \in Nat \ {0}
  BY <1>1 DEF HandFacts
<1>20. /\ a \in Nat /\ len \in Nat /\ pos \in Nat \ {0} /\ pos <= len
      /\ at = a + pos - 1 /\ at \in Nat \ {0, 1} /\ size \in Nat \ {0}
  BY <1>4, <1>5
<1>6. size > len - pos
  BY <1>4 DEF GetFrameStart
<1>7. PICK k \in Nat : k = len - pos
  BY <1>4, <1>5
<1>8. Remaining(pos + 1) = Payload(f, u, k)
  <2>1. Taken(pos + 1, k) = Payload(f, u, k)
    <3>1. k <= len - pos /\ k <= size
      BY <1>20, <1>6, <1>7
    <3>2. k <= len - pos /\ k <= shapes[f].pes[u].size
      BY <1>4, <3>1
    <3> QED
      BY <1>1, <1>2, <3>2, PayloadBehind
  <2>2. pos + 1 + k - 1 = len
    BY <1>5, <1>7
  <2> QED
    BY <2>1, <2>2 DEF Taken, Remaining
<1>9. UNCHANGED <<shapes, queue, data, len, isFrameStart, h264, decoded, heard>>
  BY DEF GetFrameStart, sender, output
<1>10. /\ frame' = Payload(f, u, k) /\ frameSize' = size
       /\ curStream' = shapes[f].pes[u].stream /\ curStream' \in Streams
  BY <1>1, <1>4, <1>8 DEF GetFrameStart
<1>11. pc' = "idle"
  <2>1. ~(pos + size < len)
    BY <1>20, <1>6
  <2> QED
    BY <1>4, <2>1 DEF GetFrameStart, NextPes
<1>12. curStream' = "video" => (isFrameStart <=> u = 1)
  BY <1>2, <1>4, <1>10 DEF PesHeader
<1>13. PICK m \in Nat \ {0, 1} : /\ m = a + len /\ m - at - 1 = k
                                 /\ at < m /\ m <= at + size
  <2>1. PICK m \in Nat \ {0, 1} : m = a + len
    <3>1. a + len \in Nat \ {0, 1}
      BY <1>20
    <3> QED
      BY <3>1
  <2>2. m - at - 1 = k /\ at < m /\ m <= at + size
    BY <1>20, <1>6, <1>7, <2>1
  <2> QED
    BY <2>1, <2>2
<1>14. Inside(f, u, m, since)'
  BY <1>2, <1>4, <1>9, <1>10, <1>12, <1>13 DEF Inside, PesHeader
<1>15. Parsed(f, m, since)'
  BY <1>4, <1>9, <1>13, <1>14 DEF Parsed
<1> QED
  BY <1>9, <1>11, <1>13, <1>15 DEF Advanced

(* A header behind the end of the packet ends the process. *)
LEMMA StaleHeader ==
    ASSUME NEW since \in Nat, NEW f, NEW a, Held(f, a, since), GetFrameStart, ~(pos <= len)
    PROVE  Advanced(f, a, since)
<1>1. UNCHANGED <<shapes, queue, data, len, pos, frame, frameSize, isFrameStart,
                  h264, decoded, heard>> /\ pc' = "crashed"
  BY DEF GetFrameStart, sender, output
<1>2. pc = "pes" /\ HandFacts(f, a) /\ Busy(f, a, since)
  BY DEF GetFrameStart, Held
<1>3. Ahead(f, a, since)
  <2>1. a = 1 => At(f, shapes[f], 1) <= len
    BY <1>2, Zenon DEF HandFacts
  <2> QED
    BY <1>2, <2>1 DEF Busy
<1>4. Ahead(f, a, since)'
  BY <1>1, <1>3 DEF Ahead, Quiet
<1> QED
  BY <1>1, <1>4 DEF Advanced, Busy

(* Nothing to play comes next. *)
LEMMA PacketEnds ==
    ASSUME NEW since \in Nat, NEW f, NEW a, Held(f, a, since), PesEnd
    PROVE  Advanced(f, a, since)
<1> DEFINE l == shapes[f]
           c == FrameCells(f, l)
<1>1. pc = "pes" /\ KindAt(pos) \notin Streams /\ pc' = "idle"
  BY DEF PesEnd
<1>2. UNCHANGED <<shapes, queue, data, len, frame, frameSize, curStream, isFrameStart,
                  h264, decoded, heard>>
  BY DEF PesEnd, sender, source, output
<1>3. HandFacts(f, a) /\ Busy(f, a, since)
  BY DEF Held
<1>4. /\ l \in Layouts /\ f \in 0..MaxFrames
      /\ \A j \in 1..len : CellAt(j) = c[a + j - 1] /\ KindAt(j) = c[a + j - 1].kind
      /\ a = 1 => At(f, l, 1) <= len
  BY <1>3, Zenon DEF HandFacts
<1>5. /\ a \in Nat \ {0} /\ len \in 1..Mtu /\ Mtu \in Nat /\ pos \in Nat \ {0}
      /\ Len(c) \in Nat /\ a + len - 1 <= Len(c)
  BY <1>3, Zenon DEF HandFacts
<1>6. CASE a = 1 /\ pos = At(f, l, 1)
  <2>1. 1 \in 1..Len(l.pes) /\ l.pes[1].stream = "video"
    BY <1>4, PesTypes
  <2>2. c[At(f, l, 1)] = Cell(l.pes[1].stream, f, 1, l.pes[1].size)
    BY <1>4, <2>1, PictureCells
  <2>3. c[pos].kind = "video"
    BY <1>6, <2>1, <2>2 DEF Cell
  <2>4. pos <= len
    BY <1>4, <1>6
  <2>5. pos \in 1..len /\ a + pos - 1 = pos
    <3> HIDE DEF c, l
    <3> QED
      BY <1>5, <1>6, <2>4
  <2>6. KindAt(pos) = "video"
    BY <1>4, <2>3, <2>5
  <2> QED
    BY <1>1, <2>6 DEF Streams
<1>7. CASE Ahead(f, a, since)
  <2>1. Quiet /\ Clear(shapes, h264, decoded, heard, f, a + pos - 1, since)
        /\ (pos <= len \/ (pos = len + 1 /\ a # 1))
    BY <1>7 DEF Ahead
  <2>2. PICK m \in Nat \ {0, 1} : m = a + len
    <3>1. a + len \in Nat \ {0, 1}
      <4> HIDE DEF c, l
      <4> QED
        BY <1>5
    <3> QED
      BY <3>1
  <2>3. Clear(shapes, h264, decoded, heard, f, m, since)
    <3>1. CASE pos = len + 1
      <4>1. a + pos - 1 = m
        <5> HIDE DEF c, l
        <5> QED
          BY <1>5, <2>2, <3>1
      <4> QED
        BY <2>1, <4>1
    <3>2. CASE pos <= len
      <4>1. pos \in 1..len /\ a + pos - 1 <= Len(c) /\ a + pos - 1 \in Nat
            /\ a + pos - 1 <= m /\ m <= Len(c) + 1
        <5> HIDE DEF c, l
        <5> QED
          BY <1>5, <2>2, <3>2
      <4>2. c[a + pos - 1].kind \notin Streams
        BY <1>1, <1>4, <4>1
      <4>3. Over(shapes, h264, decoded, heard, f, a + pos - 1, since)
        <5>1. /\ f \in 0..MaxFrames /\ shapes[f] \in Layouts
              /\ a + pos - 1 <= Len(FrameCells(f, shapes[f]))
              /\ FrameCells(f, shapes[f])[a + pos - 1].kind \notin Streams
          BY <1>4, <4>1, <4>2
        <5> QED
          BY <2>1, <5>1, ClearCell
      <4>4. Over(shapes, h264, decoded, heard, f, m, since)
        <5>1. PICK q \in Nat : q = a + pos - 1
          BY <4>1
        <5>2. q <= m /\ m <= Len(c) + 1
          BY <4>1, <5>1
        <5>3. q \in 2..(Len(c) + 1) /\ Begun(shapes, h264, decoded, heard, f + 1, since)
              /\ \A b \in q..Len(c) : c[b].kind \notin Streams
          BY <4>3, <5>1 DEF Over
        <5>4. m \in 2..(Len(c) + 1) /\ \A b \in m..Len(c) : b \in q..Len(c)
          <6>1. Len(c) \in Nat
            BY <1>5
          <6> HIDE DEF c, l
          <6> QED
            BY <5>2, <6>1
        <5> QED
          BY <5>3, <5>4 DEF Over
      <4> QED
        BY <4>4 DEF Clear
    <3> QED
      BY <2>1, <3>1, <3>2
  <2>4. Parsed(f, m, since)'
    BY <1>2, <2>1, <2>2, <2>3 DEF Parsed, Quiet
  <2> QED
    BY <1>1, <1>2, <2>2, <2>4 DEF Advanced
<1> QED
  BY <1>1, <1>3, <1>6, <1>7 DEF Busy

(* A step of the parser. *)
LEMMA ParseStep ==
    ASSUME PrivateLast, StreamInv, Parse
    PROVE  StreamInv'
<1>1. PTypes /\ Stale /\ PTypes'
  BY ParseTypes DEF StreamInv
<1>2. pc # "idle"
  BY DEF Parse, AccessPack, AccessPes, AccessPrivate, AppendRest, AppendPart, ResolvePs,
         GetWholeFrame, GetFrameStart, PesEnd
<1>3. PICK f, a : InHand(f, a) /\ Busy(f, a, 0)
  BY <1>2 DEF StreamInv
<1>4. Held(f, a, 0)
  BY <1>1, <1>3, Handed DEF Held, InHand
<1>5. Advanced(f, a, 0)
  BY <1>4, HeaderAccessed, RestAppended, PartAppended, HeadersSkipped, FrameGot, StartGot,
     StaleHeader, PacketEnds DEF Parse
<1>6. UNCHANGED <<shapes, queue, data, len>>
  BY <1>5 DEF Advanced
<1>7. Stale'
  BY <1>1, <1>6 DEF Stale
<1>8. CASE pc' # "idle" /\ Busy(f, a, 0)'
  <2>1. InHand(f, a)'
    BY <1>3, <1>6 DEF InHand, Holds, After, Coming, NoMore
  <2> QED
    BY <1>1, <1>7, <1>8, <2>1 DEF StreamInv
<1>9. ASSUME pc' = "idle", NEW m, m \in Nat \ {0, 1}, m = a + len, Parsed(f, m, 0)'
      PROVE  StreamInv'
  <2>1. After(f, m) /\ f \in 1..Len(shapes)
    BY <1>3, <1>9 DEF InHand, Holds
  <2>2. Idle'
    BY <1>1, <1>6, <1>9, <2>1, Handover
  <2> QED
    BY <1>1, <1>7, <1>9, <2>2 DEF StreamInv
<1> QED
  BY <1>5, <1>8, <1>9 DEF Advanced

-----------------------------------------------------------------------------
(* The packets of a picture are taken one by one.                           *)

(* The first of some packets, and those behind it. *)
FirstTaken(q, t, c, first, p, m) ==
    /\ m \in Nat \ {0} /\ p + m - 1 <= Len(c)
    /\ PieceOk(c, first, p, m) /\ Len(q[1].cells) = m
    /\ \A j \in 1..m : q[1].cells[j] = c[p + j - 1]
    /\ p + m <= Len(c) => \E e : CutInto(t, c, first, p + m, e)
    /\ ~(p + m <= Len(c)) => Len(q) = 1

(* The others are cut as they were. *)
LEMMA CutTail ==
    ASSUME NEW q, NEW n \in Nat \ {0}, Len(q) = n, NEW t, Len(t) = n - 1,
           \A i \in 1..(n - 1) : t[i] = q[i + 1], NEW c, Len(c) \in Nat, NEW first,
           NEW p \in Nat \ {0}, NEW e, CutInto(q, c, first, p, e)
    PROVE  \E m : FirstTaken(q, t, c, first, p, m)
<1>1. PICK top \in Nat : top = Len(c)
  OBVIOUS
<1>2. e \in [0..n -> 0..top] /\ e[0] = p - 1 /\ e[n] = top
  BY <1>1 DEF CutInto
<1>3. \A k \in 1..n : /\ e[k - 1] < e[k] /\ Len(q[k].cells) = e[k] - e[k - 1]
                      /\ \A j \in 1..Len(q[k].cells) : q[k].cells[j] = c[e[k - 1] + j]
                      /\ PieceOk(c, first, e[k - 1] + 1, e[k] - e[k - 1])
  BY DEF CutInto
<1>4. 1 \in 1..n /\ 1 - 1 = 0
  OBVIOUS
<1>5. PICK b \in Nat : b = e[1] /\ b <= top
  <2>1. e[1] \in 0..top
    BY <1>2, <1>4
  <2> QED
    BY <1>1, <2>1
<1>6. p - 1 < b
  BY <1>2, <1>3, <1>4, <1>5
<1>7. PICK m \in Nat \ {0} : m = b - (p - 1)
  BY <1>6
<1>8. p + m - 1 = b /\ (p - 1) + 1 = p /\ p + m - 1 <= top
  <2>1. p + m - 1 = b /\ (p - 1) + 1 = p
    BY <1>7
  <2> QED
    BY <1>5, <2>1
<1>9. PieceOk(c, first, p, m) /\ Len(q[1].cells) = m
  <2>1. e[1 - 1] = p - 1 /\ e[1] = b /\ e[1 - 1] + 1 = p
    BY <1>2, <1>4, <1>5, <1>8
  <2>2. PieceOk(c, first, e[1 - 1] + 1, e[1] - e[1 - 1]) /\ Len(q[1].cells) = e[1] - e[1 - 1]
    BY <1>3, <1>4
  <2> QED
    BY <1>7, <2>1, <2>2
<1>10. \A j \in 1..m : q[1].cells[j] = c[p + j - 1]
  <2>1. ASSUME NEW j \in 1..m PROVE q[1].cells[j] = c[p + j - 1]
    <3>1. p - 1 + j = p + j - 1
      OBVIOUS
    <3>2. q[1].cells[j] = c[e[1 - 1] + j]
      BY <1>3, <1>4, <1>9
    <3>3. e[1 - 1] = p - 1
      BY <1>2, <1>4
    <3> QED
      BY <3>1, <3>2, <3>3
  <2> QED
    BY <2>1
<1>11. ASSUME n # 1 PROVE p + m <= top
  <2>1. 2 \in 1..n /\ 2 - 1 = 1 /\ 2 \in 0..n
    BY <1>11
  <2>2. e[2 - 1] < e[2] /\ e[2] \in 0..top
    BY <1>2, <1>3, <2>1
  <2>3. b < e[2] /\ e[2] \in 0..top
    BY <1>5, <2>1, <2>2
  <2> QED
    BY <1>8, <2>3
<1>12. ASSUME p + m <= top PROVE \E d : CutInto(t, c, first, p + m, d)
  <2> DEFINE d == [k \in 0..(n - 1) |-> e[k + 1]]
  <2>1. d \in [0..(n - 1) -> 0..top]
    <3>1. \A k \in 0..(n - 1) : k + 1 \in 0..n
      OBVIOUS
    <3> QED
      BY <1>2, <3>1
  <2>2. d[0] = (p + m) - 1 /\ d[n - 1] = top
    <3>1. 0 \in 0..(n - 1) /\ n - 1 \in 0..(n - 1) /\ 0 + 1 = 1 /\ (n - 1) + 1 = n
      OBVIOUS
    <3> QED
      BY <1>2, <1>5, <1>8, <3>1
  <2>3. \A k \in 1..(n - 1) :
           /\ d[k - 1] < d[k] /\ Len(t[k].cells) = d[k] - d[k - 1]
           /\ \A j \in 1..Len(t[k].cells) : t[k].cells[j] = c[d[k - 1] + j]
           /\ PieceOk(c, first, d[k - 1] + 1, d[k] - d[k - 1])
    <3>1. ASSUME NEW k \in 1..(n - 1)
          PROVE  /\ d[k - 1] < d[k] /\ Len(t[k].cells) = d[k] - d[k - 1]
                 /\ \A j \in 1..Len(t[k].cells) : t[k].cells[j] = c[d[k - 1] + j]
                 /\ PieceOk(c, first, d[k - 1] + 1, d[k] - d[k - 1])
      <4>1. /\ k \in 0..(n - 1) /\ k - 1 \in 0..(n - 1) /\ k + 1 \in 1..n
            /\ (k - 1) + 1 = k /\ (k + 1) - 1 = k
        OBVIOUS
      <4>2. d[k] = e[k + 1] /\ d[k - 1] = e[(k + 1) - 1] /\ t[k] = q[k + 1]
        BY <4>1
      <4>3. /\ e[(k + 1) - 1] < e[k + 1]
            /\ Len(q[k + 1].cells) = e[k + 1] - e[(k + 1) - 1]
            /\ \A j \in 1..Len(q[k + 1].cells) :
                  q[k + 1].cells[j] = c[e[(k + 1) - 1] + j]
            /\ PieceOk(c, first, e[(k + 1) - 1] + 1, e[k + 1] - e[(k + 1) - 1])
        BY <1>3, <4>1
      <4> HIDE DEF d
      <4> QED
        BY <4>2, <4>3, Zenon
    <3> QED
      BY <3>1
  <2> HIDE DEF d
  <2>4. CutInto(t, c, first, p + m, d)
    BY <1>1, <2>1, <2>2, <2>3 DEF CutInto
  <2> QED
    BY <2>4
<1>13. FirstTaken(q, t, c, first, p, m)
  BY <1>1, <1>8, <1>9, <1>10, <1>11, <1>12 DEF FirstTaken
<1> QED
  BY <1>13

(* A packet of the m cells of picture f from a on. *)
PacketOf(f, a, m, cells) ==
    /\ f \in 1..Len(shapes) /\ a \in 1..Len(FrameCells(f, shapes[f]))
    /\ PieceOk(FrameCells(f, shapes[f]), At(f, shapes[f], 1), a, m)
    /\ Len(cells) = m
    /\ \A j \in 1..m : cells[j] = FrameCells(f, shapes[f])[a + j - 1]

(* The packet that a parser has been given is in its hands. *)
LEMMA PacketHeld ==
    ASSUME PTypes, Stale, NEW f, NEW a, NEW m, NEW cells, PacketOf(f, a, m, cells),
           TakePacket(cells), shapes' = shapes
    PROVE  Stale' /\ Holds(f, a)' /\ len' = m /\ pc' = "access"
<1> DEFINE c == FrameCells(f, shapes[f])
<1>0. /\ f \in 1..Len(shapes) /\ a \in 1..Len(c) /\ PieceOk(c, At(f, shapes[f], 1), a, m)
      /\ Len(cells) = m /\ \A j \in 1..m : cells[j] = c[a + j - 1]
  BY DEF PacketOf
<1>1. /\ shapes[f] \in Layouts /\ f \in 0..MaxFrames /\ Len(c) \in Nat
  BY <1>0, ShapeTypes, PictureCells
<1>2. /\ len' = m /\ pc' = "access"
      /\ data' = [k \in 1..Mtu |-> IF k <= m THEN cells[k] ELSE data[k]]
  BY <1>0 DEF TakePacket
<1>3. m \in 1..Mtu /\ Mtu \in Nat /\ a + m - 1 <= Len(c)
  BY <1>0, SizeAssumption DEF PieceOk
<1>4. \A j \in 1..m : data'[j] = c[a + j - 1]
  <2>1. \A j \in 1..m : j \in 1..Mtu /\ j <= m
    BY <1>3
  <2> QED
    BY <1>0, <1>2, <2>1
<1>5. \A j \in 1..Mtu : j \notin 1..m => data'[j] = data[j]
  BY <1>2, <1>3
<1>6. Holds(f, a)'
  BY <1>0, <1>2, <1>4 DEF Holds
<1>7. Stale'
  <2>1. ASSUME NEW j \in 1..Mtu
        PROVE  /\ data'[j].kind \in PesKinds /\ j # 1 => j - 1 \in HeaderOffsets
               /\ data'[j].kind = "pack" => j = 1
    <3>1. CASE j \in 1..m
      <4>1. data'[j] = c[a + j - 1]
        BY <1>4, <3>1
      <4>2. ASSUME j # 1
            PROVE  /\ j \in 2..m /\ a + j - 1 \in 1..Len(c) /\ a + j - 1 # 1
        <5>1. PICK top \in Nat : top = Len(c) /\ a \in 1..top /\ a + m - 1 <= top
          BY <1>0, <1>1, <1>3
        <5>2. j \in 2..m /\ a + j - 1 \in 1..top /\ a + j - 1 # 1
          BY <1>3, <3>1, <4>2, <5>1
        <5> QED
          BY <5>1, <5>2
      <4>3. ASSUME j # 1 PROVE c[a + j - 1].kind # "pack"
        BY <1>0, <1>1, <4>2, <4>3, OnePack
      <4>4. ASSUME j # 1, c[a + j - 1].kind \in PesKinds PROVE j - 1 \in HeaderOffsets
        BY <1>0, <4>2, <4>4 DEF PieceOk
      <4> QED
        BY <4>1, <4>3, <4>4
    <3>2. CASE j \notin 1..m
      BY <1>5, <3>2 DEF Stale
    <3> QED
      BY <3>1, <3>2
  <2> QED
    BY <2>1 DEF Stale
<1> QED
  BY <1>2, <1>6, <1>7

(* The parser is given a packet. *)
LEMMA ReceiveStep ==
    ASSUME StreamInv, ReceiveNext
    PROVE  StreamInv'
<1>1. PTypes /\ Stale /\ PTypes'
  BY NextTypes DEF StreamInv, Next
<1>2. /\ queue # <<>> /\ TakePacket(Head(queue).cells) /\ queue' = Tail(queue)
      /\ UNCHANGED <<shapes, frame, frameSize, curStream, isFrameStart, h264, decoded, heard>>
  BY DEF ReceiveNext, source, output
<1>3. Idle
  BY <1>2 DEF StreamInv, TakePacket
<1>4. PICK f \in Nat \ {0}, p \in Nat \ {0} : Coming(f, p) /\ Parsed(f, p, 0)
  BY <1>2, <1>3 DEF Idle, NoMore
<1> DEFINE l == shapes[f]
           c == FrameCells(f, l)
<1>5. /\ f = Len(shapes) /\ f \in 1..Len(shapes) /\ p \in 1..Len(c)
      /\ l \in Layouts /\ f \in 0..MaxFrames /\ Len(c) \in Nat
  <2>1. /\ f = Len(shapes) /\ p \in 1..Len(c)
    BY <1>4 DEF Coming
  <2>2. f \in 1..Len(shapes)
    BY <2>1
  <2>3. l \in Layouts /\ f \in 0..MaxFrames
    BY <1>1, <2>2, ShapeTypes
  <2> QED
    BY <2>1, <2>2, <2>3, PictureCells
<1>6. PICK e : CutInto(queue, c, At(f, l, 1), p, e)
  BY <1>4 DEF Coming
<1>7. PICK n \in Nat \ {0} :
         /\ n = Len(queue) /\ Len(Tail(queue)) = n - 1
         /\ \A i \in 1..(n - 1) : Tail(queue)[i] = queue[i + 1]
  BY <1>1, <1>2, HeadTypes
<1>8. PICK m : FirstTaken(queue, Tail(queue), c, At(f, l, 1), p, m)
  BY <1>5, <1>6, <1>7, CutTail
<1>9. /\ m \in Nat \ {0} /\ p + m - 1 <= Len(c) /\ PieceOk(c, At(f, l, 1), p, m)
      /\ \A j \in 1..m : queue[1].cells[j] = c[p + j - 1]
  BY <1>8 DEF FirstTaken
<1>10. Head(queue) = queue[1] /\ Len(Head(queue).cells) = m
  BY <1>1, <1>2, <1>8, HeadTypes DEF FirstTaken
<1>11. Stale' /\ Holds(f, p)' /\ len' = m /\ pc' = "access"
  <2>1. PacketOf(f, p, m, Head(queue).cells)
    BY <1>5, <1>9, <1>10 DEF PacketOf
  <2> QED
    BY <1>1, <1>2, <2>1, PacketHeld
<1>12. After(f, p + m)'
  <2>1. CASE p + m <= Len(c)
    <3>1. PICK d : CutInto(Tail(queue), c, At(f, l, 1), p + m, d)
      BY <1>8, <2>1 DEF FirstTaken
    <3>2. f # 0 /\ p + m \in 1..Len(c)
      BY <1>5, <1>9, <2>1
    <3>3. Coming(f, p + m)'
      BY <1>2, <1>5, <3>1, <3>2 DEF Coming
    <3> QED
      BY <1>2, <2>1, <3>3 DEF After
  <2>2. CASE ~(p + m <= Len(c))
    <3>1. p + m = Len(c) + 1
      <4>1. PICK top \in Nat : top = Len(c) /\ p + m - 1 <= top /\ ~(p + m <= top)
        BY <1>5, <1>9, <2>2
      <4>2. m \in Nat
        BY <1>9
      <4>3. p + m = top + 1
        BY <4>1, <4>2
      <4> QED
        BY <4>1, <4>3
    <3>2. Tail(queue) = <<>>
      <4>1. n = 1
        BY <1>7, <1>8, <2>2 DEF FirstTaken
      <4>2. Len(Tail(queue)) = 0
        BY <1>7, <4>1
      <4> QED
        BY <1>1, <1>2, <4>2, HeadTypes, EmptySeq
    <3>3. NoMore(f + 1)'
      BY <1>2, <1>5, <3>2 DEF NoMore
    <3> QED
      BY <1>2, <2>2, <3>1, <3>3 DEF After
  <2> QED
    BY <2>1, <2>2
<1>13. InHand(f, p)'
  BY <1>11, <1>12 DEF InHand
<1>14. Parsed(f, p, 0)'
  BY <1>2, <1>4 DEF Parsed, Ready, Quiet, Inside
<1> QED
  BY <1>1, <1>11, <1>13, <1>14 DEF StreamInv, Busy

-----------------------------------------------------------------------------
(* The camera sends another picture.                                        *)

(* What was given to the decoders does not depend on it. *)
LEMMA ClearStays ==
    ASSUME NEW since \in Nat, NEW ps \in Seq(Layouts), NEW qs \in Seq(Layouts),
           NEW h, NEW d, NEW r, NEW f \in Nat \ {0}, ps[f] \in Layouts,
           \A i \in 1..f : ps[i] = qs[i]
    PROVE  /\ Begun(ps, h, d, r, f, since) => Begun(qs, h, d, r, f, since)
           /\ \A u \in 1..Len(ps[f].pes) : Output(ps, h, d, r, f, u - 1, since)
                                              => Output(qs, h, d, r, f, u - 1, since)
           /\ \A p : Clear(ps, h, d, r, f, p, since) => Clear(qs, h, d, r, f, p, since)
<1>1. ps[f] = qs[f] /\ \A i \in 1..(f - 1) : ps[i] = qs[i]
  OBVIOUS
<1>2. Begun(ps, h, d, r, f, since) => Begun(qs, h, d, r, f, since)
  BY <1>1, OutputStays
<1>3. ASSUME NEW u \in 1..Len(ps[f].pes), Output(ps, h, d, r, f, u - 1, since)
      PROVE  Output(qs, h, d, r, f, u - 1, since)
  <2>1. PICK k \in Nat : k = u - 1
    BY PesTypes
  <2> QED
    BY <1>3, <2>1, OutputStays
<1>4. Begun(ps, h, d, r, f + 1, since) => Begun(qs, h, d, r, f + 1, since)
  <2>1. PICK g \in Nat \ {0} : g = f + 1 /\ g - 1 = f
    OBVIOUS
  <2>2. \A i \in 1..(g - 1) : ps[i] = qs[i]
    BY <2>1
  <2> QED
    BY <2>1, <2>2, OutputStays
<1>5. ASSUME NEW p, Clear(ps, h, d, r, f, p, since) PROVE Clear(qs, h, d, r, f, p, since)
  <2>1. \A u \in 2..Len(ps[f].pes) : u \in 1..Len(ps[f].pes)
    BY PesTypes
  <2>2. ASSUME NEW u \in 2..Len(ps[f].pes), Before(ps, h, d, r, f, u, p, since)
        PROVE  Before(qs, h, d, r, f, u, p, since)
    BY <1>1, <1>3, <2>1, <2>2 DEF Before
  <2>3. ASSUME Over(ps, h, d, r, f, p, since) PROVE Over(qs, h, d, r, f, p, since)
    BY <1>1, <1>4, <2>3 DEF Over
  <2> QED
    BY <1>1, <1>5, <2>2, <2>3 DEF Clear
<1> QED
  BY <1>2, <1>3, <1>5

(* Nor does what the parser does with a picture sent before. *)
LEMMA PlaceStays ==
    ASSUME NEW since \in Nat, PTypes, NEW layout \in Layouts, SendFrame(layout),
           NEW f \in 1..Len(shapes)
    PROVE  /\ f \in Nat \ {0} /\ f \in 1..Len(shapes')
           /\ shapes[f] \in Layouts /\ shapes'[f] = shapes[f]
           /\ \A a : Holds(f, a) => Holds(f, a)'
           /\ \A a : Parsed(f, a, since) => Parsed(f, a, since)'
           /\ \A a : Busy(f, a, since) => Busy(f, a, since)'
<1>1. UNCHANGED <<data, len, pc, pos, frame, frameSize, curStream, isFrameStart, h264,
                  decoded, heard>>
  BY DEF SendFrame, parser, source, output
<1>2. shapes \in Seq(Layouts) /\ shapes' \in Seq(Layouts) /\ Len(shapes) \in Nat
  BY ShapeTypes, SendTypes DEF PTypes, TypeOK
<1>3. \A i \in 1..Len(shapes) : shapes'[i] = shapes[i] /\ i \in 1..Len(shapes')
  <2>1. shapes' = Append(shapes, layout)
    BY SendPieces
  <2>2. /\ Len(Append(shapes, layout)) = Len(shapes) + 1
        /\ \A i \in 1..Len(shapes) : Append(shapes, layout)[i] = shapes[i]
    BY <1>2, AppendProperties
  <2> QED
    BY <1>2, <2>1, <2>2
<1>4. f \in Nat \ {0} /\ f \in 1..Len(shapes') /\ shapes[f] \in Layouts /\ shapes'[f] = shapes[f]
  BY <1>2, <1>3, ShapeTypes
<1>5. \A i \in 1..f : shapes[i] = shapes'[i]
  BY <1>2, <1>3
<1>6. /\ Begun(shapes, h264, decoded, heard, f, since)
            => Begun(shapes', h264, decoded, heard, f, since)
      /\ \A u \in 1..Len(shapes[f].pes) :
            Output(shapes, h264, decoded, heard, f, u - 1, since)
               => Output(shapes', h264, decoded, heard, f, u - 1, since)
      /\ \A p : Clear(shapes, h264, decoded, heard, f, p, since)
                   => Clear(shapes', h264, decoded, heard, f, p, since)
  BY <1>2, <1>4, <1>5, ClearStays
<1>7. ASSUME NEW a, Holds(f, a) PROVE Holds(f, a)'
  BY <1>1, <1>4, <1>7 DEF Holds
<1>8. ASSUME NEW a, NEW u \in 1..Len(shapes[f].pes), Inside(f, u, a, since)
      PROVE  Inside(f, u, a, since)'
  BY <1>1, <1>4, <1>6, <1>8 DEF Inside
<1>9. ASSUME NEW a, Parsed(f, a, since) PROVE Parsed(f, a, since)'
  BY <1>1, <1>4, <1>6, <1>8, <1>9 DEF Parsed, Ready, Quiet
<1>10. ASSUME NEW a, Ahead(f, a, since) PROVE Ahead(f, a, since)'
  <2>1. KindAt(pos)' = KindAt(pos)
    BY <1>1 DEF KindAt, CellAt
  <2> QED
    BY <1>1, <1>6, <1>10, <2>1 DEF Ahead, Quiet
<1>11. ASSUME NEW a, Busy(f, a, since) PROVE Busy(f, a, since)'
  BY <1>1, <1>4, <1>6, <1>9, <1>10, <1>11 DEF Busy, Ready, Quiet
<1> QED
  BY <1>4, <1>7, <1>9, <1>11

(* No packet is on its way. *)
LEMMA NoneComing ==
    ASSUME PTypes, queue = <<>>, NEW f, NEW p
    PROVE  ~Coming(f, p)
<1> SUFFICES ASSUME Coming(f, p) PROVE FALSE
  OBVIOUS
<1>1. f = Len(shapes) /\ f # 0 /\ p \in 1..Len(FrameCells(f, shapes[f]))
  BY DEF Coming
<1>2. f \in 1..Len(shapes)
  BY <1>1, ShapeTypes
<1>3. Len(FrameCells(f, shapes[f])) \in Nat
  BY <1>2, ShapeTypes, PictureCells
<1>4. PICK e : CutInto(queue, FrameCells(f, shapes[f]), At(f, shapes[f], 1), p, e)
  BY DEF Coming
<1>5. e[0] = p - 1 /\ e[0] = Len(FrameCells(f, shapes[f]))
  BY <1>4, EmptySeq DEF CutInto
<1> QED
  BY <1>1, <1>3, <1>5

(* The pieces of a picture, as the parser expects its packets. *)
LEMMA PiecesFit ==
    ASSUME PTypes, ~RunOn, NEW layout \in Layouts, NEW f \in 1..MaxFrames, f = Len(shapes) + 1,
           NEW pieces, NEW n, NEW e, Sending(layout, pieces, n, e)
    PROVE  /\ Pieced(layout, pieces, n, e) /\ Len(FrameCells(f, layout)) \in Nat \ {0}
           /\ e \in [0..n -> 0..Len(FrameCells(f, layout))]
           /\ e[0] = 0 /\ e[n] = Len(FrameCells(f, layout))
           /\ \A k \in 1..n :
                 /\ e[k - 1] < e[k] /\ Len(pieces[k]) = e[k] - e[k - 1]
                 /\ \A j \in 1..Len(pieces[k]) :
                       pieces[k][j] = FrameCells(f, layout)[e[k - 1] + j]
                 /\ PieceOk(FrameCells(f, layout), At(f, layout, 1), e[k - 1] + 1, e[k] - e[k - 1])
<1> DEFINE c == FrameCells(f, layout)
<1>1. f = Len(shapes) + 1 /\ f \in 0..MaxFrames
  OBVIOUS
<1>2. Sending(layout, pieces, n, e)
  OBVIOUS
<1>3. Pieced(layout, pieces, n, e)
  BY <1>1, <1>2, PieceTypes
<1>4. n \in Nat \ {0}
  BY <1>3 DEF Pieced
<1>5. PICK top \in Nat \ {0} : top = Len(c)
  <2>1. Len(c) \in Nat /\ At(f, layout, 1) \in Nat /\ At(f, layout, 1) <= Len(c)
    <3>1. 1 \in 1..Len(layout.pes) /\ layout.pes[1].size \in Nat
      BY PesTypes
    <3>2. /\ Len(c) \in Nat /\ At(f, layout, 1) \in Nat
          /\ At(f, layout, 1) + layout.pes[1].size <= Len(c)
      BY <1>1, <3>1, PictureCells
    <3> HIDE DEF c
    <3> QED
      BY <3>1, <3>2
  <2>2. At(f, layout, 1) # 0
    BY <1>1, PictureCells
  <2> HIDE DEF c
  <2> QED
    BY <2>1, <2>2
<1>6. /\ e \in [0..n -> 0..top] /\ e[0] = 0 /\ e[n] = top
      /\ \A k \in 1..n : e[k - 1] < e[k]
  BY <1>2, <1>5 DEF Sending, CutAt
<1>7. \A k \in 1..n :
         /\ Len(pieces[k]) = e[k] - e[k - 1] /\ pieces[k] \in Seq(Cells)
         /\ \A j \in 1..Len(pieces[k]) : pieces[k][j] = c[e[k - 1] + j]
  BY <1>3 DEF Pieced
<1>8. /\ Len(pieces[1]) > Len(Intro(f, layout.key))
       /\ \A k \in 1..n :
             /\ Len(pieces[k]) <= Mtu
             /\ \A j \in 1..Len(pieces[k]) :
                   pieces[k][j].kind \in PesKinds /\ j > 1 =>
                      /\ j - 1 \in HeaderOffsets
                      /\ pieces[k][j].kind = "video" => pieces[k][j].unit = 1
  <2>1. DOMAIN pieces = 1..n
    BY <1>2 DEF Sending, CutAt
  <2>2. \A k \in 1..n : DOMAIN pieces[k] = 1..Len(pieces[k])
    BY <1>7, LenProperties
  <2>3. PackingOk(pieces, Len(Intro(f, layout.key)))
    BY <1>2 DEF Sending
  <2> QED
    BY <2>1, <2>2, <2>3 DEF PackingOk
<1>9. At(f, layout, 1) = Len(Intro(f, layout.key)) + 1 /\ Len(Intro(f, layout.key)) \in Nat
  <2>1. layout.key \in BOOLEAN
    BY PesTypes
  <2>2. Len(Intro(f, layout.key)) = IF layout.key THEN 3 ELSE 1
    BY <1>1, <2>1, IntroCells
  <2>3. At(f, layout, 1) = IF layout.key THEN 4 ELSE 2
    BY <1>1, PictureCells
  <2> QED
    BY <2>1, <2>2, <2>3
<1> HIDE DEF c
<1>10. ASSUME NEW k \in 1..n
       PROVE  /\ e[k - 1] < e[k] /\ Len(pieces[k]) = e[k] - e[k - 1]
              /\ \A j \in 1..Len(pieces[k]) : pieces[k][j] = c[e[k - 1] + j]
              /\ PieceOk(c, At(f, layout, 1), e[k - 1] + 1, e[k] - e[k - 1])
  <2>1. PICK lo \in Nat : lo = e[k - 1] /\ lo <= top
    <3>1. k - 1 \in 0..n
      BY <1>4
    <3> QED
      BY <1>6, <3>1
  <2>2. PICK hi \in Nat : hi = e[k] /\ hi <= top
    <3>1. k \in 0..n
      BY <1>4
    <3> QED
      BY <1>6, <3>1
  <2>3. lo < hi
    BY <1>6, <2>1, <2>2
  <2>4. PICK m \in Nat \ {0} : m = hi - lo
    BY <2>3
  <2>5. Len(pieces[k]) = m
    BY <1>7, <2>1, <2>2, <2>4
  <2>6. m \in 1..Mtu /\ (lo + 1) + m - 1 <= Len(c)
    <3>1. m <= Mtu
      BY <1>8, <2>5
    <3>2. (lo + 1) + m - 1 <= top
      BY <2>2, <2>4, SMTT(40)
    <3> QED
      BY <1>5, <3>1, <3>2, SizeAssumption
  <2>7. k # 1 => lo # 0
    <3>1. ASSUME k # 1 PROVE lo # 0
      <4>1. k - 1 \in 1..n /\ (k - 1) - 1 \in 0..n
        BY <1>4, <3>1
      <4>2. e[(k - 1) - 1] < e[k - 1] /\ e[(k - 1) - 1] \in 0..top
        BY <1>6, <4>1
      <4> QED
        BY <2>1, <4>2
    <3> QED
      BY <3>1
  <2>8. ASSUME k = 1 PROVE At(f, layout, 1) <= m
    <3>1. Len(pieces[1]) > Len(Intro(f, layout.key)) /\ Len(pieces[1]) = m
      BY <1>8, <2>5, <2>8
    <3> QED
      BY <1>9, <3>1
  <2>9. (lo + 1) = 1 => At(f, layout, 1) <= m
    BY <2>7, <2>8
  <2>11. \A j \in 2..m : c[(lo + 1) + j - 1].kind \in PesKinds =>
            /\ j - 1 \in HeaderOffsets
            /\ c[(lo + 1) + j - 1].kind = "video" => c[(lo + 1) + j - 1].unit = 1
    <3>1. ASSUME NEW j \in 2..m, c[(lo + 1) + j - 1].kind \in PesKinds
          PROVE  /\ j - 1 \in HeaderOffsets
                 /\ c[(lo + 1) + j - 1].kind = "video" => c[(lo + 1) + j - 1].unit = 1
      <4>1. j \in 1..m /\ j > 1 /\ (lo + 1) + j - 1 = lo + j
        OBVIOUS
      <4>2. pieces[k][j] = c[lo + j]
        BY <1>7, <2>1, <2>5, <4>1
      <4> QED
        BY <1>8, <2>5, <3>1, <4>1, <4>2
    <3> QED
      BY <3>1
  <2>12. PieceOk(c, At(f, layout, 1), lo + 1, m)
    BY <2>6, <2>9, <2>11 DEF PieceOk
  <2> QED
    BY <1>7, <2>1, <2>2, <2>3, <2>4, <2>12
<1> QED
  BY <1>3, <1>5, <1>6, <1>10 DEF c

(* The packets of a picture just sent. *)
LEMMA SentComes ==
    ASSUME PTypes, ~RunOn, queue = <<>>, NEW layout \in Layouts, SendFrame(layout),
           NEW f, f = Len(shapes) + 1
    PROVE  Coming(f, 1)'
<1> DEFINE c == FrameCells(f, layout)
<1>1. f = Len(shapes) + 1 /\ f \in 1..MaxFrames /\ shapes' = Append(shapes, layout)
  BY SendPieces, SizeAssumption
<1>2. PICK pieces, n, e : Sending(layout, pieces, n, e)
  BY SendPieces
<1>3. Pieced(layout, pieces, n, e)
  BY <1>1, <1>2, PieceTypes
<1>4. f = Len(shapes') /\ f # 0 /\ shapes'[f] = layout
  BY <1>1, ShapeTypes, AppendProperties
<1>5. /\ n \in Nat \ {0} /\ Len(Numbered(n, pieces)) = n
      /\ \A k \in 1..n : Numbered(n, pieces)[k].cells = pieces[k]
      /\ Numbered(n, pieces) \in Seq([seq : 1..(sentCount + n), cells : Seq(Cells)])
  BY <1>3 DEF Pieced
<1>6. queue' = Numbered(n, pieces)
  <2>1. <<>> \o Numbered(n, pieces) = Numbered(n, pieces)
    BY <1>5, ConcatEmptySeq
  <2> QED
    BY <1>2, <2>1 DEF Sending
<1>7. /\ Len(c) \in Nat \ {0} /\ e \in [0..n -> 0..Len(c)] /\ e[0] = 0 /\ e[n] = Len(c)
      /\ \A k \in 1..n :
            /\ e[k - 1] < e[k] /\ Len(pieces[k]) = e[k] - e[k - 1]
            /\ \A j \in 1..Len(pieces[k]) : pieces[k][j] = c[e[k - 1] + j]
            /\ PieceOk(c, At(f, layout, 1), e[k - 1] + 1, e[k] - e[k - 1])
  BY <1>1, <1>2, PiecesFit
<1> HIDE DEF c
<1>8. CutInto(queue', c, At(f, layout, 1), 1, e)
  <2>1. Len(queue') = n /\ 1 - 1 = 0
    BY <1>5, <1>6
  <2>2. e \in [0..Len(queue') -> 0..Len(c)] /\ e[0] = 1 - 1 /\ e[Len(queue')] = Len(c)
    BY <1>7, <2>1
  <2>3. ASSUME NEW k \in 1..Len(queue')
        PROVE  /\ e[k - 1] < e[k] /\ Len(queue'[k].cells) = e[k] - e[k - 1]
               /\ \A j \in 1..Len(queue'[k].cells) : queue'[k].cells[j] = c[e[k - 1] + j]
               /\ PieceOk(c, At(f, layout, 1), e[k - 1] + 1, e[k] - e[k - 1])
    <3>1. k \in 1..n /\ queue'[k].cells = pieces[k]
      BY <1>5, <1>6, <2>1
    <3> QED
      BY <1>7, <3>1
  <2> QED
    BY <2>2, <2>3 DEF CutInto
<1>9. 1 \in 1..Len(c)
  BY <1>7
<1> QED
  BY <1>4, <1>8, <1>9 DEF Coming, c

(* The parser is where it was, with one more picture on its way. *)
LEMMA SendStep ==
    ASSUME StreamInv, ~RunOn, queue = <<>>, NEW layout \in Layouts, SendFrame(layout)
    PROVE  StreamInv'
<1>1. PTypes /\ Stale /\ PTypes'
  BY SendTypes DEF StreamInv
<1>2. UNCHANGED <<data, len, pc, pos, frame, frameSize, curStream, isFrameStart, h264,
                  decoded, heard>>
  BY DEF SendFrame, parser, source, output
<1>3. shapes \in Seq(Layouts) /\ shapes' \in Seq(Layouts) /\ Len(shapes) \in Nat
  BY <1>1, ShapeTypes DEF PTypes, TypeOK
<1>4. \A i \in 1..Len(shapes) : shapes'[i] = shapes[i] /\ i \in 1..Len(shapes')
  <2>1. shapes' = Append(shapes, layout)
    BY <1>1, SendPieces
  <2>2. /\ Len(Append(shapes, layout)) = Len(shapes) + 1
        /\ \A i \in 1..Len(shapes) : Append(shapes, layout)[i] = shapes[i]
    BY <1>3, AppendProperties
  <2> QED
    BY <1>3, <2>1, <2>2
<1>5. PICK g \in Nat \ {0} : g = Len(shapes) + 1
  BY <1>3
<1>6. Coming(g, 1)'
  BY <1>1, <1>5, SentComes
<1>7. Stale'
  BY <1>1, <1>2 DEF Stale
<1>8. CASE pc = "idle" /\ Idle
  <2>1. \A f, p : ~Coming(f, p)
    BY <1>1, NoneComing
  <2>2. PICK f : NoMore(f) /\ Parsed(f, 1, 0)
    BY <1>8, <2>1 DEF Idle
  <2>3. Quiet /\ Begun(shapes, h264, decoded, heard, g, 0)
    BY <1>5, <2>2 DEF NoMore, Parsed, Ready
  <2>4. Begun(shapes', h264, decoded, heard, g, 0)
    <3>1. \A i \in 1..(g - 1) : shapes[i] = shapes'[i]
      BY <1>3, <1>4, <1>5
    <3> QED
      BY <1>3, <2>3, <3>1, OutputStays
  <2>5. Parsed(g, 1, 0)'
    BY <1>2, <2>3, <2>4 DEF Parsed, Ready, Quiet
  <2>6. Idle'
    <3>1. 1 \in Nat \ {0}
      OBVIOUS
    <3> QED
      BY <1>6, <2>5, <3>1 DEF Idle
  <2> QED
    BY <1>1, <1>2, <1>7, <1>8, <2>6 DEF StreamInv
<1>9. ASSUME pc # "idle", NEW f, NEW a, InHand(f, a), Busy(f, a, 0)
      PROVE  StreamInv'
  <2>1. f \in 1..Len(shapes) /\ Holds(f, a)
    BY <1>9 DEF InHand, Holds
  <2>2. \A f1, p : ~Coming(f1, p)
    BY <1>1, NoneComing
  <2>3. /\ ~(a + len <= Len(FrameCells(f, shapes[f])))
        /\ a + len = Len(FrameCells(f, shapes[f])) + 1 /\ NoMore(f + 1)
    BY <1>9, <2>2 DEF InHand, Holds, After
  <2>4. f + 1 = g
    BY <1>5, <2>3 DEF NoMore
  <2>5. shapes'[f] = shapes[f] /\ Holds(f, a)' /\ Busy(f, a, 0)'
    BY <1>1, <1>9, <2>1, PlaceStays
  <2>6. After(f, a + len)'
    BY <1>2, <1>6, <2>3, <2>4, <2>5 DEF After
  <2>7. InHand(f, a)'
    BY <1>2, <2>5, <2>6 DEF InHand
  <2> QED
    BY <1>1, <1>2, <1>7, <1>9, <2>5, <2>7 DEF StreamInv
<1> QED
  BY <1>8, <1>9 DEF StreamInv

(* Nothing was sent yet. *)
LEMMA InitStream == Init => StreamInv
<1> SUFFICES ASSUME Init PROVE StreamInv
  OBVIOUS
<1>1. PTypes /\ SizeAssumption
  BY InitTypes, SizeAssumption
<1>2. Stale
  BY <1>1 DEF Init, NewRtpSource, Stale, Nothing, Cell, PesKinds, Streams
<1>3. /\ shapes = <<>> /\ queue = <<>> /\ pc = "idle" /\ Quiet /\ h264 = <<>>
      /\ decoded = <<>> /\ heard = <<>>
  BY DEF Init, NewRtpSource, Quiet
<1>4. WithBytes(<<>>) = <<>> /\ Len(<<>>) = 0
  <2>1. Len(<<>>) = 0 /\ <<>> \in Seq(Cells)
    BY EmptySeq
  <2>2. DOMAIN <<>> = {}
    OBVIOUS
  <2>3. PICK z : z = [i \in DOMAIN <<>> |-> IF <<>>[i] = <<>> THEN <<>> ELSE <<(<<>>)[i]>>]
    OBVIOUS
  <2>4. z \in Seq(Seq(Cells)) /\ Len(z) = 0
    BY <2>2, <2>3
  <2>5. z = <<>>
    BY <2>4, EmptySeq
  <2>6. FlattenSeq(z) = <<>>
    BY <2>5, FlattenNone
  <2> QED
    BY <2>1, <2>3, <2>6 DEF WithBytes
<1>5. AudioThrough(shapes, 0) = <<>>
  <2>1. shapes \in Seq(Layouts) /\ Len(shapes) <= MaxFrames /\ 0 \in 0..Len(shapes)
    BY <1>1, ShapeTypes
  <2> QED
    BY <2>1, AudioJoined
<1>6. Begun(shapes, h264, decoded, heard, 1, 0)
  <2>1. 1 - 1 = 0
    OBVIOUS
  <2>2. Finished(shapes, h264, decoded, 0)
    BY <1>3, <1>4 DEF Finished, Pictures
  <2> QED
    BY <1>3, <1>4, <1>5, <2>1, <2>2 DEF Begun
<1>7. Idle
  <2>1. NoMore(1) /\ 1 \in Nat \ {0}
    BY <1>3, EmptySeq DEF NoMore
  <2>2. Parsed(1, 1, 0)
    BY <1>3, <1>6 DEF Parsed, Ready
  <2> QED
    BY <2>1, <2>2 DEF Idle
<1> QED
  BY <1>1, <1>2, <1>3, <1>7 DEF StreamInv

(* Every step keeps the stream together. *)
LEMMA StreamStep ==
    ASSUME PrivateLast, ~RunOn, StreamInv, [Next]_vars
    PROVE  StreamInv'
<1>1. ASSUME queue = <<>>, NEW layout \in Layouts, SendFrame(layout) PROVE StreamInv'
  BY <1>1, SendStep
<1>2. CASE ReceiveNext
  BY <1>2, ReceiveStep
<1>3. CASE Parse
  BY <1>3, ParseStep
<1>4. CASE UNCHANGED vars
  <2>1. UNCHANGED <<shapes, lastPlaces, queue, data, len, pc, pos, frame, frameSize, curStream,
                    isFrameStart, h264, decoded, heard>>
    BY <1>4 DEF vars, sender, parser, source, output
  <2>2. PTypes'
    BY NextTypes DEF StreamInv
  <2>3. Stale'
    BY <2>1 DEF StreamInv, Stale
  <2>4. \A f, p : Coming(f, p)' = Coming(f, p)
    BY <2>1 DEF Coming
  <2>5. \A f, p : Parsed(f, p, 0)' = Parsed(f, p, 0)
    BY <2>1 DEF Parsed, Ready, Quiet, Inside
  <2>6. Idle' = Idle
    BY <2>1, <2>4, <2>5 DEF Idle, NoMore
  <2>7. \A f, a : InHand(f, a)' = InHand(f, a)
    BY <2>1, <2>4 DEF InHand, Holds, After, NoMore
  <2>8. \A f, a : Busy(f, a, 0)' = Busy(f, a, 0)
    BY <2>1, <2>5 DEF Busy, Ahead, Ready, Quiet, KindAt, CellAt
  <2> QED
    BY <2>1, <2>2, <2>3, <2>6, <2>7, <2>8 DEF StreamInv
<1> QED
  BY <1>1, <1>2, <1>3, <1>4 DEF Next

-----------------------------------------------------------------------------
(* The parser reads headers of its own packet only, whatever it was given   *)
(* before.                                                                  *)

(* The headers in front of the PES packets are there, and something behind. *)
Introduced(second, third, n) ==
    \/ second # "sys" /\ n > 1
    \/ second = "sys" /\ third = "map" /\ n > 3

(* A packet as the camera packs it. *)
OwnPacket(cells) ==
    /\ Len(cells) \in 1..Mtu
    /\ \A j \in 2..Len(cells) :
          /\ cells[j].kind # "pack"
          /\ cells[j].kind \in PesKinds => j - 1 \in HeaderOffsets
    /\ cells[1].kind = "pack" => Introduced(cells[2].kind, cells[3].kind, Len(cells))

OwnPackets(q) == \A i \in 1..Len(q) : OwnPacket(q[i].cells)

(* The packet in hand is one, and the parser stands in it or right behind;  *)
(* a header that stands there is one of a longer packet before.             *)
OwnHand ==
    /\ len \in 1..Mtu
    /\ KindAt(1) = "pack" => Introduced(KindAt(2), KindAt(3), len)
    /\ KindAt(len + 1) \in PesKinds => len \in HeaderOffsets
    /\ pc = "ps" => IF KindAt(1) = "pack" THEN pos = 1 ELSE pos <= len + 1
    /\ pc = "pes" => (KindAt(pos) \in PesKinds => pos <= len \/ BehindTail)
    /\ pc = "crashed" => BehindTail

OwnInv == Stale /\ OwnPackets(queue) /\ (pc # "idle" => OwnHand)

(* Behind a packet that is taken stands what may stand in a longer one. *)
LEMMA OwnTaken ==
    ASSUME PTypes, Stale, NEW cells, OwnPacket(cells), TakePacket(cells)
    PROVE  Stale' /\ OwnHand' /\ pc' = "access"
<1>1. PICK n \in 1..Mtu : n = Len(cells)
  BY DEF OwnPacket
<1>2. /\ len' = n /\ pc' = "access" /\ Mtu \in Nat
      /\ data' = [k \in 1..Mtu |-> IF k <= n THEN cells[k] ELSE data[k]]
  BY <1>1, SizeAssumption DEF TakePacket
<1>3. \A k \in 1..n : data'[k] = cells[k] /\ KindAt(k)' = cells[k].kind
  <2>1. \A k \in 1..n : k \in 1..Mtu /\ k <= n /\ k <= Mtu
    BY <1>2
  <2> QED
    BY <1>2, <2>1 DEF KindAt, CellAt
<1>4. \A k \in 1..Mtu : k \notin 1..n => data'[k] = data[k]
  BY <1>2
<1>5. \A j \in 2..n : /\ cells[j].kind # "pack"
                      /\ cells[j].kind \in PesKinds => j - 1 \in HeaderOffsets
  BY <1>1 DEF OwnPacket
<1>6. Stale'
  <2>1. ASSUME NEW j \in 1..Mtu
        PROVE  /\ data'[j].kind \in PesKinds /\ j # 1 => j - 1 \in HeaderOffsets
               /\ data'[j].kind = "pack" => j = 1
    <3>1. CASE j \in 1..n
      <4>1. j # 1 => j \in 2..n
        BY <3>1
      <4> QED
        BY <1>3, <1>5, <3>1, <4>1
    <3>2. CASE j \notin 1..n
      BY <1>4, <3>2 DEF Stale
    <3> QED
      BY <3>1, <3>2
  <2> QED
    BY <2>1 DEF Stale
<1>7. KindAt(1)' = cells[1].kind
  BY <1>2, <1>3
<1>8. KindAt(1)' = "pack" => Introduced(KindAt(2), KindAt(3), len)'
  <2> SUFFICES ASSUME cells[1].kind = "pack" PROVE Introduced(KindAt(2), KindAt(3), len)'
    BY <1>7
  <2>1. Introduced(cells[2].kind, cells[3].kind, n)
    BY <1>1 DEF OwnPacket
  <2>2. n > 1 => KindAt(2)' = cells[2].kind
    <3>1. n > 1 => 2 \in 1..n
      OBVIOUS
    <3> QED
      BY <1>3, <3>1
  <2>3. n > 3 => KindAt(3)' = cells[3].kind
    <3>1. n > 3 => 3 \in 1..n
      OBVIOUS
    <3> QED
      BY <1>3, <3>1
  <2>4. n > 3 => n > 1
    OBVIOUS
  <2> QED
    BY <1>2, <2>1, <2>2, <2>3, <2>4 DEF Introduced
<1>9. KindAt(len + 1)' \in PesKinds => len' \in HeaderOffsets
  <2>1. PICK k \in Nat : k = n + 1 /\ k # 1 /\ k - 1 = n
    BY <1>2
  <2>2. KindAt(k)' \in PesKinds => n \in HeaderOffsets
    <3>1. CASE k <= Mtu
      <4>1. k \in 1..Mtu
        BY <1>2, <2>1, <3>1
      <4>2. KindAt(k)' = data[k]'.kind
        BY <3>1 DEF KindAt, CellAt
      <4>3. data[k]'.kind \in PesKinds /\ k # 1 => k - 1 \in HeaderOffsets
        BY <1>6, <4>1 DEF Stale
      <4> QED
        BY <2>1, <4>2, <4>3
    <3>2. CASE ~(k <= Mtu)
      BY <3>2 DEF KindAt, CellAt, Nothing, Cell, PesKinds, Streams
    <3> QED
      BY <3>1, <3>2
  <2> QED
    BY <1>2, <2>1, <2>2
<1> QED
  BY <1>2, <1>6, <1>8, <1>9 DEF OwnHand

(* The packets of a picture are packed so. *)
LEMMA OwnSent ==
    ASSUME PTypes, NEW layout \in Layouts, SendFrame(layout), OwnPackets(queue)
    PROVE  OwnPackets(queue')
<1>1. PICK f \in 1..MaxFrames : f = Len(shapes) + 1
  BY SendPieces
<1>2. PICK pieces, n, e : Sending(layout, pieces, n, e)
  BY SendPieces
<1>3. Pieced(layout, pieces, n, e)
  BY <1>1, <1>2, PieceTypes
<1> DEFINE c == FrameCells(f, layout)
<1>4. f \in 0..MaxFrames /\ n \in Nat \ {0} /\ sentCount \in Nat
  BY <1>1, <1>3, SizeAssumption DEF Pieced
<1>5. /\ DOMAIN pieces = 1..n /\ e \in [0..n -> 0..Len(c)] /\ e[0] = 0
      /\ \A k \in 1..n : e[k - 1] < e[k]
  BY <1>1, <1>2 DEF Sending, CutAt
<1>6. \A k \in 1..n : /\ pieces[k] \in Seq(Cells) /\ Len(pieces[k]) = e[k] - e[k - 1]
                      /\ Len(pieces[k]) <= Mtu
                      /\ \A j \in 1..Len(pieces[k]) : pieces[k][j] = c[e[k - 1] + j]
  BY <1>1, <1>3 DEF Pieced
<1>7. PICK top \in Nat : top = Len(c)
  BY <1>4, PictureCells
<1>8. ASSUME NEW k \in 1..n PROVE OwnPacket(pieces[k])
  <2>1. PICK a \in 0..top, b \in 0..top : a = e[k - 1] /\ b = e[k] /\ a < b
    <3>1. k \in 0..n /\ k - 1 \in 0..n
      BY <1>4
    <3> QED
      BY <1>5, <1>7, <3>1
  <2>2. Len(pieces[k]) = b - a /\ b - a <= Mtu /\ \A j \in 1..(b - a) : pieces[k][j] = c[a + j]
    BY <1>6, <2>1
  <2>3. Len(pieces[k]) \in 1..Mtu
    BY <2>1, <2>2, SizeAssumption
  <2>4. \A j \in 2..(b - a) : j \in 1..(b - a) /\ j > 1 /\ a + j \in 1..top /\ a + j # 1
    BY <2>1
  <2>5. \A j \in 2..(b - a) : pieces[k][j].kind # "pack"
    BY <1>4, <1>7, <2>2, <2>4, OnePack
  <2>6. /\ Len(pieces[1]) > Len(Intro(f, layout.key))
        /\ \A j \in 2..(b - a) : pieces[k][j].kind \in PesKinds => j - 1 \in HeaderOffsets
    <3>1. DOMAIN pieces[k] = 1..(b - a)
      BY <1>6, <2>2, LenProperties
    <3>2. PackingOk(pieces, Len(Intro(f, layout.key)))
      BY <1>1, <1>2 DEF Sending
    <3> QED
      BY <1>5, <2>4, <3>1, <3>2 DEF PackingOk
  <2>7. 1 \in 1..(b - a)
    BY <2>1
  <2>8. CASE k = 1
    <3>1. a = 0
      BY <1>5, <2>1, <2>8
    <3>2. layout.key \in BOOLEAN
      BY PesTypes
    <3>3. /\ c[1].kind = "pack" /\ (layout.key => c[2].kind = "sys" /\ c[3].kind = "map")
          /\ Len(Intro(f, layout.key)) = IF layout.key THEN 3 ELSE 1
      BY <1>4, <3>2, PictureCells, IntroCells
    <3>4. ASSUME ~layout.key PROVE c[2].kind # "sys"
      <4>1. At(f, layout, 1) = 2 /\ layout.pes[1].stream = "video" /\ 1 \in 1..Len(layout.pes)
        BY <1>4, <3>4, PictureCells, PesTypes
      <4>2. c[At(f, layout, 1)] = Cell(layout.pes[1].stream, f, 1, layout.pes[1].size)
        BY <1>4, <4>1, PictureCells
      <4>3. c[2] = Cell("video", f, 1, layout.pes[1].size)
        BY <4>1, <4>2
      <4> QED
        BY <4>3 DEF Cell
    <3>5. \A j \in 1..b : pieces[k][j] = c[j]
      BY <2>1, <2>2, <3>1
    <3>6. b - a = b /\ 1 \in 1..b
      BY <2>1, <3>1
    <3>7. Introduced(pieces[k][2].kind, pieces[k][3].kind, b)
      <4>1. CASE layout.key
        <5>1. b > 3 /\ 2 \in 1..b /\ 3 \in 1..b
          BY <2>1, <2>2, <2>6, <2>8, <3>3, <3>6, <4>1
        <5> QED
          BY <3>3, <3>5, <4>1, <5>1 DEF Introduced
      <4>2. CASE ~layout.key
        <5>1. b > 1 /\ 2 \in 1..b
          BY <2>1, <2>2, <2>6, <2>8, <3>3, <3>6, <4>2
        <5> QED
          BY <3>4, <3>5, <4>2, <5>1 DEF Introduced
      <4> QED
        BY <4>1, <4>2
    <3>8. pieces[k][1].kind = "pack"
      BY <3>3, <3>5, <3>6
    <3> QED
      BY <2>2, <2>3, <2>5, <2>6, <3>6, <3>7, <3>8 DEF OwnPacket
  <2>9. CASE k # 1
    <3>1. a # 0
      <4>1. k - 1 \in 1..n /\ k - 1 \in 0..n /\ (k - 1) - 1 \in 0..n
        BY <1>4, <2>9
      <4>2. e[(k - 1) - 1] < e[k - 1]
        BY <1>5, <4>1
      <4>3. e[(k - 1) - 1] \in 0..top
        BY <1>5, <1>7, <4>1
      <4> QED
        BY <2>1, <4>2, <4>3
    <3>2. a + 1 \in 1..top /\ a + 1 # 1 /\ k > 1
      BY <1>4, <2>1, <2>9, <3>1
    <3>3. pieces[k][1].kind # "pack"
      BY <1>4, <1>7, <2>2, <2>7, <3>2, OnePack
    <3> QED
      BY <2>2, <2>3, <2>5, <2>6, <3>2, <3>3 DEF OwnPacket
  <2> QED
    BY <2>8, <2>9
<1>9. PICK m \in Nat :
         /\ m = Len(queue) /\ Len(queue') = m + n
         /\ \A j \in 1..m : queue'[j] = queue[j] /\ queue[j].seq \in 1..sentCount
         /\ \A k \in 1..n : queue'[m + k] = Numbered(n, pieces)[k]
  <2>1. sentCount' = sentCount + n
    BY <1>2, <1>4, CountGrows
  <2>2. PICK more : more = Numbered(n, pieces)
    OBVIOUS
  <2>3. /\ more \in Seq([seq : 1..sentCount', cells : Seq(Cells)]) /\ Len(more) = n
        /\ queue' = queue \o more
    BY <1>2, <1>3, <2>1, <2>2 DEF Pieced, Sending
  <2>4. sentCount' \in Nat /\ sentCount <= sentCount' /\ n \in Nat
    BY <1>4, <2>1
  <2> QED
    BY <1>4, <2>2, <2>3, <2>4, QueueGrows
<1>10. \A k \in 1..n : Numbered(n, pieces)[k].cells = pieces[k]
  BY DEF Numbered
<1>11. ASSUME NEW j \in 1..(m + n) PROVE OwnPacket(queue'[j].cells)
  <2>1. CASE j \in 1..m
    BY <1>9, <2>1 DEF OwnPackets
  <2>2. CASE j \notin 1..m
    <3>1. PICK k \in 1..n : j = m + k
      <4>1. j - m \in 1..n /\ j = m + (j - m)
        BY <1>4, <2>2
      <4> QED
        BY <4>1
    <3> QED
      BY <1>8, <1>9, <1>10, <3>1
  <2> QED
    BY <2>1, <2>2
<1> QED
  BY <1>9, <1>11 DEF OwnPackets

(* The parser stays in its packet. *)
LEMMA OwnParsed ==
    ASSUME PTypes, OwnInv, Parse
    PROVE  OwnInv'
<1>1. /\ pc \in {"access", "ps", "pes"} /\ pc # "idle" /\ UNCHANGED <<queue, data, len>>
  BY DEF Parse, AccessPack, AccessPes, AccessPrivate, AppendRest, AppendPart, ResolvePs,
         GetWholeFrame, GetFrameStart, PesEnd, sender
<1>2. /\ Stale /\ OwnPackets(queue) /\ OwnHand
  BY <1>1 DEF OwnInv
<1>3. Stale' /\ OwnPackets(queue)' /\ \A p : KindAt(p)' = KindAt(p)
  BY <1>1, <1>2 DEF Stale, OwnPackets, KindAt, CellAt
<1>4. /\ len \in 1..Mtu /\ Mtu \in Nat /\ pos \in Nat \ {0} /\ CellAt(pos).n \in Nat
      /\ Missing \in Nat
  <2>1. CellAt(pos).n \in Nat /\ pos \in Nat \ {0} /\ Mtu \in Nat
    BY CellTypes, SizeAssumption DEF PTypes, TypeOK
  <2>2. PICK x \in Nat, y \in Nat : x = Len(frame) /\ y = frameSize /\ x <= y
    BY LenProperties DEF PTypes, TypeOK
  <2> QED
    BY <1>2, <2>1, <2>2 DEF OwnHand, Missing
<1>5. ASSUME pc' = "idle" PROVE OwnInv'
  BY <1>3, <1>5 DEF OwnInv
<1>6. ASSUME pc' = "ps", IF KindAt(1) = "pack" THEN pos' = 1 ELSE pos' <= len + 1 PROVE OwnInv'
  <2>1. OwnHand'
    BY <1>1, <1>2, <1>3, <1>6 DEF OwnHand
  <2> QED
    BY <1>3, <1>6, <2>1 DEF OwnInv
<1>7. ASSUME pc' = "pes", KindAt(pos') \in PesKinds => pos' <= len \/ BehindTail' PROVE OwnInv'
  <2>1. PICK p : p = pos'
    OBVIOUS
  <2>2. KindAt(pos)' = KindAt(p)
    BY <1>1, <2>1 DEF KindAt, CellAt
  <2>3. OwnHand'
    BY <1>1, <1>2, <1>3, <1>7, <2>1, <2>2 DEF OwnHand
  <2> QED
    BY <1>3, <1>7, <2>3 DEF OwnInv
<1>8. ASSUME NextPes(CellAt(pos).n) PROVE OwnInv'
  <2>1. pc' = "idle" \/ (pc' = "pes" /\ pos' <= len)
    BY <1>4, <1>8 DEF NextPes
  <2> QED
    BY <1>5, <1>7, <2>1
<1>9. CASE AccessPack
  BY <1>1, <1>6, <1>9 DEF AccessPack, PTypes
<1>10. CASE AccessPes
  <2>1. pc' = "pes" /\ pos' = 1
    BY <1>10 DEF AccessPes, PTypes
  <2>2. 1 <= len
    BY <1>4
  <2> QED
    BY <1>7, <2>1, <2>2
<1>11. CASE AccessPrivate
  BY <1>5, <1>11 DEF AccessPrivate
<1>12. CASE AppendRest
  <2>1. pc' = "ps" /\ pos = 1 /\ pos' = 1 + Missing /\ Missing <= len /\ KindAt(1) # "pack"
    BY <1>4, <1>12 DEF AppendRest, PTypes
  <2>2. pos' <= len + 1
    BY <1>4, <2>1
  <2> QED
    BY <1>6, <2>1, <2>2
<1>13. CASE AppendPart
  BY <1>5, <1>13 DEF AppendPart
<1>14. CASE ResolvePs
  <2>1. pc = "ps"
    BY <1>14 DEF ResolvePs
  <2>2. CASE KindAt(1) = "pack"
    <3>1. pos = 1 /\ Introduced(KindAt(2), KindAt(3), len)
      BY <1>2, <2>1, <2>2 DEF OwnHand
    <3>2. pos + 1 = 2 /\ pos + 2 = 3 /\ pos + 3 = 4
      BY <3>1
    <3>3. \/ KindAt(2) # "sys" /\ pos' = 2 /\ pc' = "pes" /\ len > 1
          \/ KindAt(2) = "sys" /\ pos' = 4 /\ pc' = "pes" /\ len > 3
      BY <1>14, <2>2, <3>1, <3>2 DEF ResolvePs, Introduced
    <3>4. pc' = "pes" /\ pos' <= len
      BY <1>4, <3>3
    <3> QED
      BY <1>7, <3>4
  <2>3. CASE KindAt(1) # "pack"
    <3>1. pos <= len + 1 /\ (KindAt(len + 1) \in PesKinds => len \in HeaderOffsets)
      BY <1>2, <2>1, <2>3 DEF OwnHand
    <3>2. KindAt(pos) # "pack"
      <4>1. CASE pos <= Mtu
        <5>1. pos \in 1..Mtu
          BY <1>4, <4>1
        <5>2. data[pos].kind = "pack" => pos = 1
          BY <1>2, <5>1 DEF Stale
        <5>3. KindAt(pos) = data[pos].kind
          BY <4>1 DEF KindAt, CellAt
        <5> QED
          BY <2>3, <5>2, <5>3
      <4>2. CASE ~(pos <= Mtu)
        BY <4>2 DEF KindAt, CellAt, Nothing, Cell
      <4> QED
        BY <4>1, <4>2
    <3>3. pc' = "pes" /\ pos' = pos
      BY <1>14, <3>2 DEF ResolvePs
    <3>4. KindAt(pos) \in PesKinds => pos <= len \/ BehindTail'
      <4>1. CASE pos <= len
        BY <4>1
      <4>2. CASE pos = len + 1
        BY <1>1, <1>3, <2>3, <3>1, <3>3, <4>2 DEF BehindTail
      <4> QED
        BY <1>4, <3>1, <4>1, <4>2
    <3> QED
      BY <1>7, <3>3, <3>4
  <2> QED
    BY <2>2, <2>3
<1>15. CASE GetWholeFrame
  BY <1>8, <1>15 DEF GetWholeFrame
<1>16. CASE GetFrameStart
  <2>1. pos <= len \/ BehindTail
    BY <1>2, <1>16 DEF GetFrameStart, OwnHand, PesKinds
  <2>2. CASE pos <= len
    BY <1>8, <1>16, <2>2 DEF GetFrameStart
  <2>3. CASE ~(pos <= len)
    <3>1. pc' = "crashed" /\ pos' = pos
      BY <1>16, <2>3 DEF GetFrameStart
    <3>2. BehindTail'
      BY <1>1, <1>3, <2>1, <2>3, <3>1 DEF BehindTail
    <3>3. OwnHand'
      BY <1>1, <1>2, <1>3, <3>1, <3>2 DEF OwnHand
    <3> QED
      BY <1>3, <3>3 DEF OwnInv
  <2> QED
    BY <2>2, <2>3
<1>17. CASE PesEnd
  BY <1>5, <1>17 DEF PesEnd
<1> QED
  BY <1>9, <1>10, <1>11, <1>12, <1>13, <1>14, <1>15, <1>16, <1>17 DEF Parse

(* Before anything is sent. *)
LEMMA OwnInit == Init => OwnInv
<1> SUFFICES ASSUME Init PROVE OwnInv
  OBVIOUS
<1>1. queue = <<>> /\ pc = "idle" /\ data = [k \in 1..Mtu |-> Nothing]
  BY DEF Init, NewRtpSource
<1>2. Len(queue) = 0
  BY <1>1, EmptySeq
<1>3. \A j \in 1..Mtu : data[j].kind = "none"
  BY <1>1 DEF Nothing, Cell
<1>4. Stale
  BY <1>3 DEF Stale, PesKinds, Streams
<1> QED
  BY <1>1, <1>2, <1>4 DEF OwnInv, OwnPackets

(* Nothing of it changes unless the parser or the queue does. *)
LEMMA OwnStays ==
    ASSUME OwnInv, UNCHANGED <<data, len, pc, pos>>, OwnPackets(queue')
    PROVE  OwnInv'
<1>1. Stale'
  BY DEF OwnInv, Stale
<1>2. pc # "idle" => OwnHand'
  BY DEF OwnInv, OwnHand, BehindTail, KindAt, CellAt
<1> QED
  BY <1>1, <1>2 DEF OwnInv, OwnPackets

(* Each step keeps it. *)
LEMMA OwnStep ==
    ASSUME PTypes, OwnInv, [Next]_vars
    PROVE  OwnInv'
<1>1. ASSUME NEW layout \in Layouts, SendFrame(layout) PROVE OwnInv'
  <2>1. UNCHANGED <<data, len, pc, pos>> /\ OwnPackets(queue')
    BY <1>1, OwnSent DEF OwnInv, SendFrame, parser
  <2> QED
    BY <2>1, OwnStays
<1>2. CASE ReceiveNext
  <2>1. queue # <<>> /\ TakePacket(Head(queue).cells) /\ queue' = Tail(queue)
    BY <1>2 DEF ReceiveNext
  <2>2. PICK n \in Nat \ {0} : /\ n = Len(queue) /\ Head(queue) = queue[1]
                               /\ Len(Tail(queue)) = n - 1
                               /\ \A i \in 1..(n - 1) : Tail(queue)[i] = queue[i + 1]
    BY <2>1, HeadTypes
  <2>3. \A i \in 1..(n - 1) : i + 1 \in 1..n
    OBVIOUS
  <2>4. OwnPackets(Tail(queue)) /\ OwnPacket(Head(queue).cells)
    BY <2>2, <2>3 DEF OwnInv, OwnPackets
  <2>5. Stale' /\ OwnHand' /\ pc' = "access"
    BY <2>1, <2>4, OwnTaken DEF OwnInv
  <2> QED
    BY <2>1, <2>4, <2>5 DEF OwnInv, OwnPackets
<1>3. CASE Parse
  BY <1>3, OwnParsed
<1>4. CASE UNCHANGED vars
  <2>1. UNCHANGED <<data, len, pc, pos>> /\ OwnPackets(queue')
    BY <1>4 DEF OwnInv, vars, sender, parser
  <2> QED
    BY <2>1, OwnStays
<1> QED
  BY <1>1, <1>2, <1>3, <1>4 DEF Next

(* The statement of the runs. *)
LEMMA OwnBytes ==
    ASSUME PTypes, OwnInv
    PROVE  ParsesOwnBytes
<1>1. ASSUME pc = "pes", KindAt(pos) \in Streams PROVE pos <= len \/ BehindTail
  BY <1>1 DEF OwnInv, OwnHand, PesKinds
<1>2. ASSUME pc = "crashed" PROVE BehindTail
  BY <1>2 DEF OwnInv, OwnHand
<1> QED
  BY <1>1, <1>2 DEF ParsesOwnBytes

(* Whatever the camera's pictures are and wherever they are cut, the parser *)
(* takes PES headers of the packet in hand only, but for one case, which    *)
(* the process does not survive: a packet without a pack header completes a *)
(* frame with its last byte and is as long as what may stand before a PES   *)
(* header in another packet (ParsesOwnBytes).                               *)
THEOREM OwnBytesParsed == Spec => []ParsesOwnBytes
<1>1. Init => OwnInv
  BY OwnInit
<1>2. PTypes /\ OwnInv /\ [Next]_vars => OwnInv'
  BY OwnStep
<1>3. PTypes /\ OwnInv => ParsesOwnBytes
  BY OwnBytes
<1> QED
  BY <1>1, <1>2, <1>3, TypesHold, PTL DEF Spec

(* frameBuff never holds more than the size that was announced (FrameFits), *)
(* however the frame is spread over packets.                                *)
THEOREM FrameBufferFits == Spec => []FrameFits
<1>1. PTypes => FrameFits
  BY DEF PTypes, FrameFits
<1> QED
  BY <1>1, TypesHold, PTL

-----------------------------------------------------------------------------
(* What the decoders are given.                                             *)

(* A sequence begins with its first part. *)
LEMMA BeginsWith ==
    ASSUME NEW S, NEW s \in Seq(S), NEW r \in Seq(S)
    PROVE  IsPrefix(s, s \o r)
<1>1. PICK n \in Nat : n = Len(s)
  BY LenProperties
<1>2. PICK k \in Nat : k = Len(r)
  BY LenProperties
<1>3. /\ s \o r \in Seq(S) /\ Len(s \o r) = n + k
      /\ \A i \in 1..n : (s \o r)[i] = s[i]
  <2>1. /\ s \o r \in Seq(S) /\ Len(s \o r) = Len(s) + Len(r)
        /\ \A i \in 1..(Len(s) + Len(r)) :
              (s \o r)[i] = IF i <= Len(s) THEN s[i] ELSE r[i - Len(s)]
    BY ConcatProperties, Zenon
  <2>2. \A i \in 1..n : i \in 1..(n + k) /\ i <= n
    OBVIOUS
  <2> QED
    BY <1>1, <1>2, <2>1, <2>2
<1>4. PICK t \in Seq(S) : t = s \o r
  BY <1>3
<1>5. n \in 0..Len(t) /\ n \in 0..Len(s)
  BY <1>1, <1>2, <1>3, <1>4
<1>6. /\ SubSeq(t, 1, n) \in Seq(S) /\ Len(SubSeq(t, 1, n)) = n
      /\ \A i \in 1..n : SubSeq(t, 1, n)[i] = t[i]
  BY <1>5, CutInTwo
<1>7. /\ SubSeq(s, 1, n) \in Seq(S) /\ Len(SubSeq(s, 1, n)) = n
      /\ \A i \in 1..n : SubSeq(s, 1, n)[i] = s[i]
  BY <1>5, CutInTwo
<1>8. SubSeq(s, 1, n) = SubSeq(t, 1, n)
  <2>1. PICK x \in Seq(S), y \in Seq(S) : x = SubSeq(s, 1, n) /\ y = SubSeq(t, 1, n)
    BY <1>6, <1>7
  <2>2. Len(x) = Len(y) /\ \A i \in 1..Len(x) : x[i] = y[i]
    BY <1>3, <1>4, <1>6, <1>7, <2>1
  <2> QED
    BY <2>1, <2>2, SeqEqual
<1> QED
  BY <1>1, <1>2, <1>3, <1>4, <1>8 DEF IsPrefix

(* The parser is at the beginning of a picture or within one. *)
Given == \/ \E f \in 1..(Len(shapes) + 1) : Begun(shapes, h264, decoded, heard, f, 0)
         \/ \E f \in 1..Len(shapes) : \E u \in 1..Len(shapes[f].pes) :
               Output(shapes, h264, decoded, heard, f, u - 1, 0)

(* So it always is. *)
LEMMA SoFar ==
    ASSUME StreamInv
    PROVE  Given
<1>1. PTypes /\ Len(shapes) \in Nat
  BY ShapeTypes DEF StreamInv
<1>2. ASSUME NEW f \in 1..Len(shapes), NEW p, Clear(shapes, h264, decoded, heard, f, p, 0)
      PROVE  Given
  <2>1. ASSUME NEW u \in 2..Len(shapes[f].pes), Before(shapes, h264, decoded, heard, f, u, p, 0)
        PROVE  Given
    <3>1. u \in 1..Len(shapes[f].pes)
      BY <1>1, PesTypes, ShapeTypes
    <3> QED
      BY <2>1, <3>1 DEF Before, Given
  <2>2. ASSUME Over(shapes, h264, decoded, heard, f, p, 0) PROVE Given
    <3>1. f + 1 \in 1..(Len(shapes) + 1)
      BY <1>1
    <3> QED
      BY <2>2, <3>1 DEF Over, Given
  <2> QED
    BY <1>2, <2>1, <2>2 DEF Clear
<1>3. ASSUME NEW f, f \in 1..(Len(shapes) + 1), Begun(shapes, h264, decoded, heard, f, 0)
      PROVE  Given
  BY <1>3 DEF Given
<1>4. ASSUME NEW f \in 1..Len(shapes), NEW p, Parsed(f, p, 0) PROVE Given
  <2>1. f \in 1..(Len(shapes) + 1)
    BY <1>1
  <2> QED
    BY <1>2, <1>3, <1>4, <2>1 DEF Parsed, Inside, Given
<1>5. CASE Idle
  <2>1. PICK f \in Nat \ {0} : \/ NoMore(f) /\ Parsed(f, 1, 0)
                               \/ \E p \in Nat \ {0} : Coming(f, p) /\ Parsed(f, p, 0)
    BY <1>5 DEF Idle
  <2>2. CASE NoMore(f) /\ Parsed(f, 1, 0)
    <3>1. f \in 1..(Len(shapes) + 1)
      BY <1>1, <2>2 DEF NoMore
    <3> QED
      BY <1>3, <2>2, <3>1 DEF Parsed
  <2>3. ASSUME NEW p, Coming(f, p), Parsed(f, p, 0) PROVE Given
    <3>1. f \in 1..Len(shapes)
      BY <1>1, <2>3 DEF Coming
    <3> QED
      BY <1>4, <2>3, <3>1
  <2> QED
    BY <2>1, <2>2, <2>3
<1>6. ASSUME NEW f, NEW a, InHand(f, a), Busy(f, a, 0) PROVE Given
  <2>1. f \in 1..Len(shapes)
    BY <1>6 DEF InHand, Holds
  <2>2. f \in 1..(Len(shapes) + 1)
    BY <1>1, <2>1
  <2> QED
    BY <1>2, <1>3, <1>4, <1>6, <2>1, <2>2 DEF Busy, Ahead
<1> QED
  BY <1>5, <1>6 DEF StreamInv

(* Within a picture its predecessors are complete. *)
GivenAt(k, v) ==
    /\ k \in 0..Len(shapes) /\ Pictures(shapes, decoded, k)
    /\ \/ v = 0 /\ \E j \in 0..Len(shapes) : WithBytes(heard) = AudioThrough(shapes, j)
       \/ /\ k + 1 \in 1..Len(shapes) /\ v \in 1..Len(shapes[k + 1].pes)
          /\ WithBytes(heard) = AudioThrough(shapes, k) \o AudioTo(k + 1, shapes[k + 1], v)

(* So the decoders have been given some pictures and the audio of as many. *)
LEMMA SoMany ==
    ASSUME PTypes, Given
    PROVE  \E k, v : GivenAt(k, v)
<1>1. Len(shapes) \in Nat
  BY ShapeTypes
<1>2. ASSUME NEW f \in 1..(Len(shapes) + 1), Begun(shapes, h264, decoded, heard, f, 0)
      PROVE  \E k, v : GivenAt(k, v)
  <2>1. PICK j \in Nat : j = f - 1 /\ j \in 0..Len(shapes)
    BY <1>1
  <2>2. PICK k : k \in 0..Len(shapes) /\ Pictures(shapes, decoded, k)
    <3>1. CASE j # 0 /\ Pictures(shapes, decoded, j - 1)
      <4>1. j - 1 \in 0..Len(shapes)
        BY <1>1, <2>1, <3>1
      <4> QED
        BY <3>1, <4>1
    <3>2. CASE Pictures(shapes, decoded, j)
      BY <2>1, <3>2
    <3> QED
      BY <1>2, <2>1, <3>1, <3>2 DEF Begun, Finished
  <2>3. GivenAt(k, 0)
    BY <1>2, <2>1, <2>2 DEF GivenAt, Begun
  <2> QED
    BY <2>3
<1>3. ASSUME NEW f \in 1..Len(shapes), NEW u \in 1..Len(shapes[f].pes),
             Output(shapes, h264, decoded, heard, f, u - 1, 0)
      PROVE  \E k, v : GivenAt(k, v)
  <2>1. PICK n \in Nat : n = Len(shapes[f].pes)
    BY PesTypes, ShapeTypes
  <2>2. CASE u = 1
    <3>1. Begun(shapes, h264, decoded, heard, f, 0)
      BY <1>3, <2>2 DEF Output
    <3>2. f \in 1..(Len(shapes) + 1)
      BY <1>1
    <3> QED
      BY <1>2, <3>1, <3>2
  <2>3. CASE u # 1
    <3>1. PICK v \in Nat : v = u - 1 /\ v # 0 /\ v \in 1..n
      BY <2>1, <2>3
    <3>2. PICK k \in Nat : k = f - 1 /\ k \in 0..Len(shapes) /\ k + 1 = f
      BY <1>1
    <3>3. GivenAt(k, v)
      BY <1>3, <2>1, <3>1, <3>2 DEF Output, GivenAt
    <3> QED
      BY <3>3
  <2> QED
    BY <2>2, <2>3
<1> QED
  BY <1>2, <1>3 DEF Given

(* The decoder has whole pictures. *)
LEMMA PicturesGiven ==
    ASSUME PTypes, NEW k, NEW v, GivenAt(k, v)
    PROVE  WholePictures
<1>1. Len(shapes) \in Nat /\ k \in 0..Len(shapes) /\ Pictures(shapes, decoded, k)
  BY ShapeTypes DEF GivenAt
<1>2. WithBytes(decoded) \in Seq(Seq(Cells))
  <2>1. decoded \in Seq(Seq(Cells)) /\ <<>> \in Seq(Cells)
    BY EmptySeq DEF PTypes, TypeOK
  <2> QED
    BY <2>1, OneCallMore
<1>3. Len(WithBytes(decoded)) = k /\ DOMAIN WithBytes(decoded) = 1..k
  BY <1>1, <1>2, LenProperties DEF Pictures
<1>4. \A i \in 1..k : WithBytes(decoded)[i] = VideoOf(i)
  <2>1. \A i : VideoOf(i) = VideoAll(i, shapes[i])
    BY DEF VideoOf, VideoAll, VideoParts
  <2> QED
    BY <1>1, <2>1 DEF Pictures
<1> QED
  BY <1>1, <1>3, <1>4 DEF WholePictures, DecodedPictures

(* The audio decoder has the first audio packets. *)
LEMMA AudioGiven ==
    ASSUME PTypes, NEW k, NEW v, GivenAt(k, v)
    PROVE  WholeAudio
<1>1. shapes \in Seq(Layouts) /\ Len(shapes) <= MaxFrames /\ Len(shapes) \in Nat
  BY ShapeTypes
<1>2. AudioSent = AudioThrough(shapes, Len(shapes))
  <2>1. \A f : AudioOf(f) = AudioAll(f, shapes[f])
    BY DEF AudioOf, AudioAll, AudioParts
  <2>2. DOMAIN shapes = 1..Len(shapes)
    BY <1>1, LenProperties
  <2>3. [f \in DOMAIN shapes |-> AudioOf(f)]
          = [f \in 1..Len(shapes) |-> AudioAll(f, shapes[f])]
    BY <2>1, <2>2
  <2> QED
    BY <2>3 DEF AudioSent, AudioThrough
<1>3. ASSUME NEW j, j \in 0..Len(shapes), WithBytes(heard) = AudioThrough(shapes, j)
      PROVE  WholeAudio
  <2>1. PICK rest \in Seq(Seq(Cells)) :
           AudioThrough(shapes, Len(shapes)) = AudioThrough(shapes, j) \o rest
    BY <1>1, <1>3, AudioJoined
  <2>2. AudioThrough(shapes, j) \in Seq(Seq(Cells))
    BY <1>1, <1>3, AudioJoined
  <2> QED
    BY <1>2, <1>3, <2>1, <2>2, BeginsWith DEF WholeAudio
<1>4. ASSUME k + 1 \in 1..Len(shapes), v \in 1..Len(shapes[k + 1].pes),
             WithBytes(heard) = AudioThrough(shapes, k) \o AudioTo(k + 1, shapes[k + 1], v)
      PROVE  WholeAudio
  <2>1. PICK f : f = k + 1 /\ f \in 1..Len(shapes) /\ v \in 1..Len(shapes[f].pes)
    BY <1>4
  <2>2. /\ f \in 0..Len(shapes) /\ f # 0 /\ f - 1 = k /\ k \in 0..Len(shapes)
    BY <1>1, <2>1 DEF GivenAt
  <2>3. PICK l : l = shapes[f] /\ l \in Layouts /\ f \in 0..MaxFrames
    BY <2>1, ShapeTypes
  <2>4. PICK t : t = AudioTo(f, l, v)
    OBVIOUS
  <2>5. PICK x : x = AudioThrough(shapes, k) /\ x \in Seq(Seq(Cells))
    BY <1>1, <2>2, AudioJoined
  <2>6. v \in 0..Len(l.pes)
    BY <2>1, <2>3, PesTypes
  <2>7. PICK r : r \in Seq(Seq(Cells)) /\ AudioAll(f, l) = t \o r
    <3>1. AudioParts(f, l) \in Seq(Seq(Seq(Cells))) /\ Len(AudioParts(f, l)) = Len(l.pes)
      BY <2>3, PartTypes
    <3>2. \E rest \in Seq(Seq(Cells)) :
             FlattenSeq(AudioParts(f, l)) = FlattenSeq(SubSeq(AudioParts(f, l), 1, v)) \o rest
      BY <2>6, <3>1, FlattenCut
    <3> QED
      BY <2>4, <3>2 DEF AudioAll, AudioTo
  <2>8. t \in Seq(Seq(Cells))
    BY <2>3, <2>4, <2>6, AudioGrows
  <2>9. AudioThrough(shapes, f) = x \o AudioAll(f, l)
    BY <1>1, <2>2, <2>3, <2>5, AudioJoined
  <2>10. PICK rest : /\ rest \in Seq(Seq(Cells))
                     /\ AudioThrough(shapes, Len(shapes)) = AudioThrough(shapes, f) \o rest
    BY <1>1, <2>2, AudioJoined
  <2>11. x \o t \in Seq(Seq(Cells)) /\ r \o rest \in Seq(Seq(Cells))
    BY <2>5, <2>7, <2>8, <2>10, ConcatProperties
  <2>12. (x \o (t \o r)) \o rest = (x \o t) \o (r \o rest)
    <3>1. x \in Seq(Seq(Cells)) /\ t \in Seq(Seq(Cells)) /\ r \in Seq(Seq(Cells))
      BY <2>5, <2>7, <2>8
    <3>2. (x \o t) \o r = x \o (t \o r)
      <4>1. Regrouped(x, t, r)
        BY <3>1, Regroups
      <4> QED
        BY <4>1 DEF Regrouped
    <3>3. PICK y : y = x \o t /\ y \in Seq(Seq(Cells))
      BY <2>11
    <3>4. (y \o r) \o rest = y \o (r \o rest)
      <4>1. y \in Seq(Seq(Cells)) /\ r \in Seq(Seq(Cells)) /\ rest \in Seq(Seq(Cells))
        BY <2>7, <2>10, <3>3
      <4>2. Regrouped(y, r, rest)
        BY <4>1, Regroups
      <4> QED
        BY <4>2 DEF Regrouped
    <3> QED
      BY <3>2, <3>3, <3>4
  <2>13. AudioSent = (x \o t) \o (r \o rest)
    BY <1>2, <2>7, <2>9, <2>10, <2>12
  <2>14. WithBytes(heard) = x \o t
    BY <1>4, <2>1, <2>3, <2>4, <2>5
  <2> QED
    BY <2>11, <2>13, <2>14, BeginsWith DEF WholeAudio
<1> QED
  BY <1>3, <1>4 DEF GivenAt

(* The stream is cut into packets as it should be, and the parser knows     *)
(* where in it it is (StreamInv): if further video PES packets begin at the *)
(* beginning of a packet, and private data comes last in a picture.         *)
THEOREM StreamHeld == ASSUME PrivateLast, ~RunOn PROVE Spec => []StreamInv
<1>1. Init => StreamInv
  BY InitStream
<1>2. StreamInv /\ [Next]_vars => StreamInv'
  BY StreamStep
<1> QED
  BY <1>1, <1>2, PTL DEF Spec

(* The decoder is given whole pictures, each once and in order              *)
(* (WholePictures).                                                         *)
THEOREM PicturesWhole == ASSUME PrivateLast, ~RunOn PROVE Spec => []WholePictures
<1>1. StreamInv => WholePictures
  BY SoFar, SoMany, PicturesGiven DEF StreamInv
<1> QED
  BY <1>1, StreamHeld, PTL

(* The audio decoder is given every audio PES packet whole and in order     *)
(* (WholeAudio).                                                            *)
THEOREM AudioWhole == ASSUME PrivateLast, ~RunOn PROVE Spec => []WholeAudio
<1>1. StreamInv => WholeAudio
  BY SoFar, SoMany, AudioGiven DEF StreamInv
<1> QED
  BY <1>1, StreamHeld, PTL

-----------------------------------------------------------------------------
(* The sequence gate in front of the parser: types.                         *)

UTypes == PTypes /\ UdpTypeOK

Datagrams == Seq([seq : 1..sentCount, cells : Seq(Cells)])

(* A datagram that is gone. *)
LEMMA Removed ==
    ASSUME UTypes, NEW i \in DOMAIN queue
    PROVE  /\ i \in 1..Len(queue) /\ Len(queue) \in Nat /\ queue \in Datagrams
           /\ queue[i].seq \in 1..sentCount /\ queue[i].cells \in Seq(Cells)
           /\ Len(queue[i].cells) <= Mtu
           /\ RemoveAt(queue, i) \in Datagrams /\ ShortPackets(RemoveAt(queue, i))
           /\ Len(RemoveAt(queue, i)) = Len(queue) - 1
           /\ \A j \in 1..(Len(queue) - 1) :
                 RemoveAt(queue, i)[j] = IF j < i THEN queue[j] ELSE queue[j + 1]
<1> DEFINE Q == [seq : 1..sentCount, cells : Seq(Cells)]
<1>1. queue \in Seq(Q) /\ \A j \in 1..Len(queue) : Len(queue[j].cells) <= Mtu
  BY DEF UTypes, PTypes, TypeOK, ShortPackets
<1>2. i \in 1..Len(queue) /\ Len(queue) \in Nat
  <2> HIDE DEF Q
  <2> QED
    BY <1>1, LenProperties
<1>3. queue[i].seq \in 1..sentCount /\ queue[i].cells \in Seq(Cells)
  <2>1. queue[i] \in Q
    <3> HIDE DEF Q
    <3> QED
      BY <1>1, <1>2, ElementOfSeq
  <2> QED
    BY <2>1
<1>4. /\ RemoveAt(queue, i) \in Seq(Q) /\ Len(RemoveAt(queue, i)) = Len(queue) - 1
      /\ \A j \in 1..(Len(queue) - 1) :
            RemoveAt(queue, i)[j] = IF j < i THEN queue[j] ELSE queue[j + 1]
  <2> HIDE DEF Q
  <2> QED
    BY <1>1, <1>2, RemoveAtProperties
<1>5. ASSUME NEW j \in 1..Len(RemoveAt(queue, i))
      PROVE  Len(RemoveAt(queue, i)[j].cells) <= Mtu
  <2>1. j \in 1..(Len(queue) - 1) /\ j \in 1..Len(queue) /\ j + 1 \in 1..Len(queue)
    BY <1>2, <1>4
  <2> QED
    BY <1>1, <1>4, <2>1
<1> QED
  BY <1>1, <1>2, <1>3, <1>4, <1>5 DEF Datagrams, ShortPackets

(* Sequence numbers are those of the modulus. *)
LEMMA WireTypes ==
    ASSUME NEW p \in Nat \ {0}
    PROVE  WireSeq(p) \in 0..(SeqModulus - 1)
<1>1. PICK m \in Nat \ {0}, f \in Nat : m = SeqModulus /\ f = FirstSeq
  BY UdpAssumption
<1>2. f + p - 1 \in Int
  OBVIOUS
<1>3. (f + p - 1) % m \in 0..(m - 1)
  BY <1>2
<1> QED
  BY <1>1, <1>3 DEF WireSeq

(* What is sent is numbered on. *)
LEMMA SentGrows ==
    ASSUME PTypes, NEW layout \in Layouts, SendFrame(layout)
    PROVE  /\ sentCount \in Nat /\ sentCount' \in Nat /\ sentCount <= sentCount'
           /\ \E n \in Nat, more \in Seq([seq : 1..sentCount', cells : Seq(Cells)]) :
                 /\ Len(more) = n /\ queue' = queue \o more
                 /\ \A k \in 1..n : more[k].seq = sentCount + k
<1>1. Len(shapes) + 1 \in 1..MaxFrames
  BY SendPieces
<1>2. PICK pieces, n, e : Sending(layout, pieces, n, e)
  BY SendPieces
<1>3. Pieced(layout, pieces, n, e)
  BY <1>1, <1>2, PieceTypes
<1>4. sentCount \in Nat /\ n \in Nat
  BY <1>3 DEF Pieced
<1>5. sentCount' = sentCount + n
  BY <1>2, <1>4, CountGrows
<1>6. Numbered(n, pieces) \in Seq([seq : 1..sentCount', cells : Seq(Cells)])
  BY <1>3, <1>5 DEF Pieced
<1>7. \A k \in 1..n : Numbered(n, pieces)[k].seq = sentCount + k
  BY <1>3 DEF Pieced
<1>8. Len(Numbered(n, pieces)) = n /\ queue' = queue \o Numbered(n, pieces)
  BY <1>2, <1>3 DEF Pieced, Sending
<1>9. sentCount \in Nat /\ sentCount' \in Nat /\ sentCount <= sentCount'
  BY <1>4, <1>5
<1> QED
  BY <1>4, <1>6, <1>7, <1>8, <1>9, Zenon

(* The types hold in every step. *)
LEMMA UdpNextTypes == UTypes /\ [UdpNext]_udpVars => UTypes'
<1> SUFFICES ASSUME UTypes, [UdpNext]_udpVars PROVE UTypes'
  OBVIOUS
<1>1. /\ PTypes /\ seqNo \in 0..(SeqModulus - 1)
      /\ accepted \in Seq(1..sentCount) /\ dups \in 0..MaxDup
  BY DEF UTypes, UdpTypeOK
<1>2. ASSUME PTypes', seqNo' \in 0..(SeqModulus - 1), accepted' \in Seq(1..sentCount'),
             dups' \in 0..MaxDup
      PROVE  UTypes'
  BY <1>2 DEF UTypes, UdpTypeOK, PTypes
<1>3. ASSUME NEW layout \in Layouts, SendFrame(layout), UNCHANGED udp PROVE UTypes'
  <2>1. PTypes'
    BY <1>1, <1>3, SendTypes
  <2>2. 1..sentCount \subseteq 1..sentCount'
    <3>1. sentCount \in Nat /\ sentCount' \in Nat /\ sentCount <= sentCount'
      BY <1>1, <1>3, SentGrows
    <3> QED
      BY <3>1
  <2>3. accepted \in Seq(1..sentCount')
    BY <1>1, <2>2, SeqMonotonic
  <2> QED
    BY <1>1, <1>2, <1>3, <2>1, <2>3 DEF udp
<1>4. ASSUME NEW q \in Datagrams, ShortPackets(q), queue' = q,
             UNCHANGED <<shapes, lastPlaces, source, output>>,
             data' \in [1..Mtu -> Cells], len' \in 0..Mtu, pc' \in {pc, "access"},
             pos' \in Nat \ {0}, pc' = "access" => pos' = 1
      PROVE  PTypes' /\ sentCount' = sentCount
  BY <1>1, <1>4 DEF PTypes, TypeOK, Datagrams, sentCount, source, output
<1>5. ASSUME NEW i \in DOMAIN queue, Receive(i) PROVE UTypes'
  <2>1. /\ queue[i].seq \in 1..sentCount /\ queue[i].cells \in Seq(Cells)
        /\ Len(queue[i].cells) <= Mtu
        /\ RemoveAt(queue, i) \in Datagrams /\ ShortPackets(RemoveAt(queue, i))
    BY Removed
  <2>2. /\ queue' = RemoveAt(queue, i) /\ UNCHANGED <<shapes, lastPlaces, source, output, dups>>
        /\ seqNo' = WireSeq(queue[i].seq)
    BY <1>5 DEF Receive
  <2>3. seqNo' \in 0..(SeqModulus - 1)
    <3>1. queue[i].seq \in Nat \ {0}
      BY <2>1
    <3> QED
      BY <2>2, <3>1, WireTypes
  <2>4. CASE TakePacket(queue[i].cells) /\ accepted' = Append(accepted, queue[i].seq)
    <3>1. /\ data' \in [1..Mtu -> Cells] /\ len' \in 0..Mtu
          /\ pc' = "access" /\ pos' = 1
      BY <1>1, <2>1, <2>4, TakeTypes
    <3>2. PTypes' /\ sentCount' = sentCount
      BY <1>4, <2>1, <2>2, <3>1
    <3>3. accepted' \in Seq(1..sentCount')
      BY <1>1, <2>1, <2>4, <3>2, AppendProperties
    <3> QED
      BY <1>1, <1>2, <2>2, <2>3, <3>2, <3>3
  <2>5. CASE UNCHANGED <<parser, accepted>>
    <3>1. /\ data' \in [1..Mtu -> Cells] /\ len' \in 0..Mtu /\ pc' = pc
          /\ pos' \in Nat \ {0} /\ (pc' = "access" => pos' = 1)
      BY <1>1, <2>5 DEF parser, PTypes, TypeOK
    <3>2. PTypes' /\ sentCount' = sentCount
      BY <1>4, <2>1, <2>2, <3>1
    <3> QED
      BY <1>1, <1>2, <2>2, <2>3, <2>5, <3>2
  <2> QED
    BY <1>5, <2>4, <2>5 DEF Receive
<1>6. ASSUME NEW i \in DOMAIN queue, Lose(i) PROVE UTypes'
  <2>1. RemoveAt(queue, i) \in Datagrams /\ ShortPackets(RemoveAt(queue, i))
    BY Removed
  <2>2. /\ queue' = RemoveAt(queue, i)
        /\ UNCHANGED <<shapes, lastPlaces, parser, source, output, udp>>
    BY <1>6 DEF Lose
  <2>3. /\ data' \in [1..Mtu -> Cells] /\ len' \in 0..Mtu /\ pc' = pc
        /\ pos' \in Nat \ {0} /\ (pc' = "access" => pos' = 1)
    BY <1>1, <2>2 DEF parser, PTypes, TypeOK
  <2>4. PTypes' /\ sentCount' = sentCount
    BY <1>4, <2>1, <2>2, <2>3
  <2> QED
    BY <1>1, <1>2, <2>2, <2>4 DEF udp
<1>7. ASSUME NEW i \in DOMAIN queue, Duplicate(i) PROVE UTypes'
  <2>1. /\ queue' = Append(queue, queue[i]) /\ dups' = dups + 1 /\ dups < MaxDup
        /\ UNCHANGED <<shapes, lastPlaces, parser, source, output, seqNo, accepted>>
    BY <1>7 DEF Duplicate
  <2>2. Append(queue, queue[i]) \in Datagrams /\ ShortPackets(Append(queue, queue[i]))
    <3> DEFINE Q == [seq : 1..sentCount, cells : Seq(Cells)]
    <3>1. queue \in Seq(Q) /\ i \in 1..Len(queue) /\ Len(queue) \in Nat
      BY Removed DEF Datagrams
    <3> HIDE DEF Q
    <3>2. queue[i] \in Q
      BY <3>1, ElementOfSeq
    <3>3. /\ Append(queue, queue[i]) \in Seq(Q)
          /\ Len(Append(queue, queue[i])) = Len(queue) + 1
          /\ \A j \in 1..Len(queue) : Append(queue, queue[i])[j] = queue[j]
          /\ Append(queue, queue[i])[Len(queue) + 1] = queue[i]
      BY <3>1, <3>2, AppendProperties
    <3>4. \A j \in 1..Len(queue) : Len(queue[j].cells) <= Mtu
      BY <1>1 DEF PTypes, ShortPackets
    <3>5. ASSUME NEW j \in 1..(Len(queue) + 1) PROVE Len(Append(queue, queue[i])[j].cells) <= Mtu
      <4>1. j \in 1..Len(queue) \/ j = Len(queue) + 1
        BY <3>1
      <4> QED
        BY <3>1, <3>3, <3>4, <4>1
    <3> QED
      BY <3>3, <3>5 DEF Q, Datagrams, ShortPackets
  <2>3. /\ data' \in [1..Mtu -> Cells] /\ len' \in 0..Mtu /\ pc' = pc
        /\ pos' \in Nat \ {0} /\ (pc' = "access" => pos' = 1)
    BY <1>1, <2>1 DEF parser, PTypes, TypeOK
  <2>4. PTypes' /\ sentCount' = sentCount
    <3>1. UNCHANGED <<shapes, lastPlaces, source, output>>
      BY <2>1
    <3> QED
      BY <1>4, <2>1, <2>2, <2>3, <3>1
  <2>5. dups' \in 0..MaxDup
    BY <1>1, <2>1, UdpAssumption
  <2> QED
    BY <1>1, <1>2, <2>1, <2>4, <2>5
<1>8. ASSUME Parse, UNCHANGED udp PROVE UTypes'
  <2>1. PTypes'
    BY <1>1, <1>8, ParseTypes
  <2>2. lastPlaces' = lastPlaces
    BY <1>8 DEF Parse, AccessPack, AccessPes, AccessPrivate, AppendRest, AppendPart, ResolvePs,
                GetWholeFrame, GetFrameStart, PesEnd, sender
  <2>3. sentCount' = sentCount
    BY <2>2 DEF sentCount
  <2> QED
    BY <1>1, <1>2, <1>8, <2>1, <2>3 DEF udp
<1>9. CASE UNCHANGED udpVars
  <2>1. PTypes' /\ sentCount' = sentCount
    BY <1>1, <1>9 DEF PTypes, TypeOK, sentCount, ShortPackets, udpVars, vars, sender, parser,
                      source, output
  <2> QED
    BY <1>1, <1>2, <1>9, <2>1 DEF udpVars, udp
<1> QED
  BY <1>3, <1>5, <1>6, <1>7, <1>8, <1>9 DEF UdpNext

(* The types hold at first. *)
LEMMA UdpInitTypes == UdpInit => UTypes
<1> SUFFICES ASSUME UdpInit PROVE UTypes
  OBVIOUS
<1>1. PTypes
  BY InitTypes DEF UdpInit
<1>2. seqNo \in 0..(SeqModulus - 1) /\ dups \in 0..MaxDup
  BY UdpAssumption DEF UdpInit
<1>3. accepted \in Seq(1..sentCount)
  BY EmptySeq DEF UdpInit
<1> QED
  BY <1>1, <1>2, <1>3 DEF UTypes, UdpTypeOK, PTypes

(* The types of the stream over UDP (UdpTypeOK): in particular frameBuff    *)
(* stays within the announced size whatever the network does.               *)
THEOREM UdpTypesHold == UdpSpec => []UTypes
<1>1. UdpInit => UTypes
  BY UdpInitTypes
<1>2. UTypes /\ [UdpNext]_udpVars => UTypes'
  BY UdpNextTypes
<1> QED
  BY <1>1, <1>2, PTL DEF UdpSpec

-----------------------------------------------------------------------------
(* The gate.  last is the place of the datagram that came before, parsed or *)
(* not; twice the one the network has duplicated, if any.  What was parsed  *)
(* does not wait in the network any more, unless it is the duplicated one;  *)
(* and behind a parsed datagram that may come again, the one before it will *)
(* not, and was not the last one either.                                    *)

Waits(q, p) == \E i \in 1..Len(q) : q[i].seq = p

Distinct(q, twice) ==
    \A i, j \in 1..Len(q) : q[i].seq = q[j].seq /\ q[i].seq # twice => i = j

AtLast(no, acc, last) == IF last = 0 THEN acc = <<>> ELSE no = WireSeq(last)

Gone(q, p, twice) == p # twice => ~Waits(q, p)

Passed(q, acc, last, twice) ==
    /\ Gone(q, last, twice)
    /\ \A k \in 2..Len(acc) :
          /\ Gone(q, acc[k], twice)
          /\ Gone(q, acc[k] - 1, twice)
          /\ acc[k] - 1 # twice => last # acc[k] - 1

Once(acc) == \A j, k \in 2..Len(acc) : acc[j] = acc[k] => j = k

Gate(last, twice) ==
    /\ AtLast(seqNo, accepted, last)
    /\ dups = 0 => twice = 0
    /\ Distinct(queue, twice)
    /\ Passed(queue, accepted, last, twice)
    /\ Once(accepted)

GateInv == \E last, twice \in 0..sentCount : Gate(last, twice)

(* While fewer packets are sent than there are numbers, the number tells    *)
(* which packet follows which.                                              *)
LEMMA NextNumber ==
    ASSUME NEW n \in Nat, n < SeqModulus, NEW last \in 1..n, NEW p \in 1..n,
           (WireSeq(last) + 1) % SeqModulus = WireSeq(p)
    PROVE  p = last + 1
<1>1. PICK m \in Nat \ {0}, f \in Nat : m = SeqModulus /\ f = FirstSeq /\ f < m
  BY UdpAssumption
<1>2. ASSUME NEW x \in 0..(2 * m - 1) PROVE x % m = IF x < m THEN x ELSE x - m
  <2>1. x % m \in 0..(m - 1)
    OBVIOUS
  <2>2. CASE x < m
    BY <2>2
  <2>3. CASE ~(x < m)
    BY <2>3
  <2> QED
    BY <2>2, <2>3
<1>3. n < m
  BY <1>1
<1>4. PICK a \in 0..(2 * m - 1), b \in 0..(2 * m - 1) : a = f + last - 1 /\ b = f + p - 1
  BY <1>1, <1>3
<1>5. WireSeq(last) = (IF a < m THEN a ELSE a - m) /\ WireSeq(p) = (IF b < m THEN b ELSE b - m)
  BY <1>1, <1>2, <1>4 DEF WireSeq
<1>6. PICK c \in 0..(2 * m - 1) : c = WireSeq(last) + 1
  <2>1. PICK w : w = WireSeq(last)
    OBVIOUS
  <2>2. w = (IF a < m THEN a ELSE a - m)
    BY <1>5, <2>1
  <2>3. w \in 0..(m - 1)
    BY <2>2
  <2>4. w + 1 \in 0..(2 * m - 1)
    BY <2>3
  <2> QED
    BY <2>1, <2>4, Zenon
<1>7. (IF c < m THEN c ELSE c - m) = WireSeq(p)
  BY <1>1, <1>2, <1>6
<1> QED
  BY <1>3, <1>4, <1>5, <1>6, <1>7

(* With fewer datagrams on their way nothing waits that did not before.     *)
LEMMA FewerWait ==
    ASSUME UTypes, NEW i \in DOMAIN queue, NEW twice, Distinct(queue, twice)
    PROVE  /\ Distinct(RemoveAt(queue, i), twice)
           /\ \A p : Waits(RemoveAt(queue, i), p) => Waits(queue, p)
           /\ \A p : Gone(queue, p, twice) => Gone(RemoveAt(queue, i), p, twice)
           /\ Gone(RemoveAt(queue, i), queue[i].seq, twice)
<1> DEFINE q == RemoveAt(queue, i)
<1>1. PICK n \in Nat : n = Len(queue) /\ i \in 1..n
  BY Removed
<1>2. Len(q) = n - 1 /\ \A j \in 1..(n - 1) : q[j] = IF j < i THEN queue[j] ELSE queue[j + 1]
  BY <1>1, Removed
<1> HIDE DEF q
<1> DEFINE w(j) == IF j < i THEN j ELSE j + 1
<1>3. \A j \in 1..(n - 1) : w(j) \in 1..n /\ w(j) # i /\ q[j] = queue[w(j)]
  BY <1>1, <1>2
<1>4. \A j, k \in 1..(n - 1) : w(j) = w(k) => j = k
  BY <1>1
<1> HIDE DEF w
<1>5. ASSUME NEW p, Waits(q, p) PROVE Waits(queue, p)
  BY <1>1, <1>2, <1>3, <1>5 DEF Waits
<1>6. Distinct(q, twice)
  <2>1. ASSUME NEW j \in 1..(n - 1), NEW k \in 1..(n - 1), q[j].seq = q[k].seq, q[j].seq # twice
        PROVE  j = k
    <3>1. w(j) = w(k)
      <4>1. w(j) \in 1..n /\ w(k) \in 1..n
        BY <1>3
      <4>2. queue[w(j)].seq = queue[w(k)].seq /\ queue[w(j)].seq # twice
        BY <1>3, <2>1
      <4> QED
        BY <1>1, <4>1, <4>2 DEF Distinct
    <3> QED
      BY <1>4, <3>1
  <2> QED
    BY <1>2, <2>1 DEF Distinct
<1>7. Gone(q, queue[i].seq, twice)
  <2>1. ASSUME NEW j \in 1..(n - 1), q[j].seq = queue[i].seq, queue[i].seq # twice PROVE FALSE
    <3>1. w(j) \in 1..n /\ w(j) # i /\ queue[w(j)].seq = queue[i].seq
      BY <1>3, <2>1
    <3> QED
      BY <1>1, <2>1, <3>1 DEF Distinct
  <2> QED
    BY <1>2, <2>1 DEF Gone, Waits
<1> QED
  BY <1>5, <1>6, <1>7 DEF Gone, q

(* What is gone stays so. *)
LEMMA StillPassed ==
    ASSUME NEW q, NEW r, NEW acc, NEW last, NEW twice, Passed(q, acc, last, twice),
           \A p : Gone(q, p, twice) => Gone(r, p, twice)
    PROVE  Passed(r, acc, last, twice)
BY DEF Passed

(* A lost datagram. *)
LEMMA LoseKeeps ==
    ASSUME UTypes, NEW i \in DOMAIN queue, Lose(i), GateInv
    PROVE  GateInv'
<1>1. PICK last \in 0..sentCount, twice \in 0..sentCount : Gate(last, twice)
  BY DEF GateInv
<1>2. queue' = RemoveAt(queue, i) /\ UNCHANGED <<lastPlaces, seqNo, accepted, dups>>
  BY DEF Lose, udp
<1>3. sentCount' = sentCount
  BY <1>2 DEF sentCount
<1>4. Distinct(queue', twice) /\ \A p : Gone(queue, p, twice) => Gone(queue', p, twice)
  BY <1>1, <1>2, FewerWait DEF Gate
<1>5. Passed(queue', accepted, last, twice)
  BY <1>1, <1>4, StillPassed DEF Gate
<1>6. Gate(last, twice)'
  BY <1>1, <1>2, <1>4, <1>5 DEF Gate
<1> QED
  BY <1>3, <1>6 DEF GateInv

(* A datagram that is parsed or not: if it is parsed, it was not before.    *)
LEMMA ReceiveKeeps ==
    ASSUME UTypes, sentCount < SeqModulus, NEW i \in DOMAIN queue, Receive(i), GateInv
    PROVE  GateInv'
<1>1. PICK last \in 0..sentCount, twice \in 0..sentCount : Gate(last, twice)
  BY DEF GateInv
<1>2. /\ queue' = RemoveAt(queue, i) /\ seqNo' = WireSeq(queue[i].seq)
      /\ UNCHANGED <<lastPlaces, dups>>
  BY DEF Receive
<1>3. sentCount' = sentCount
  BY <1>2 DEF sentCount
<1>4. PICK p \in 1..sentCount : p = queue[i].seq
  BY Removed
<1>5. /\ Distinct(queue', twice)
      /\ \A x : Gone(queue, x, twice) => Gone(queue', x, twice)
      /\ Gone(queue', p, twice)
  BY <1>1, <1>2, <1>4, FewerWait DEF Gate
<1>6. Waits(queue, p)
  BY <1>4, Removed DEF Waits
<1>7. p \in 0..sentCount /\ p # 0 /\ AtLast(seqNo', accepted', p)
  BY <1>2, <1>4 DEF AtLast
<1>8. accepted \in Seq(1..sentCount) /\ sentCount \in Nat
  <2>1. accepted \in Seq(1..sentCount) /\ PTypes
    BY DEF UTypes, UdpTypeOK
  <2>2. sentCount \in Nat
    BY <1>4, <2>1, CountType
  <2> QED
    BY <2>1, <2>2
<1>9. PICK n \in Nat : n = Len(accepted)
  BY <1>8, LenProperties
<1>10. ASSUME NEW k \in 2..n
       PROVE  /\ Gone(queue', accepted[k], twice) /\ Gone(queue', accepted[k] - 1, twice)
              /\ accepted[k] - 1 # twice => p # accepted[k] - 1
  <2>1. Gone(queue, accepted[k], twice) /\ Gone(queue, accepted[k] - 1, twice)
    BY <1>1, <1>9 DEF Gate, Passed
  <2>2. accepted[k] - 1 # twice => ~Waits(queue, accepted[k] - 1)
    BY <2>1 DEF Gone
  <2> QED
    BY <1>5, <1>6, <2>1, <2>2
<1>11. CASE accepted' = accepted
  <2>1. Passed(queue', accepted, p, twice)
    BY <1>5, <1>9, <1>10 DEF Passed
  <2>2. Gate(p, twice)'
    BY <1>1, <1>2, <1>5, <1>7, <1>11, <2>1 DEF Gate
  <2> QED
    BY <1>3, <1>7, <2>2 DEF GateInv
<1>12. CASE accepted' = Append(accepted, p) /\ (seqNo + 1) % SeqModulus = WireSeq(p)
  <2>1. /\ Len(accepted') = n + 1 /\ accepted'[n + 1] = p
        /\ \A k \in 1..n : accepted'[k] = accepted[k]
    BY <1>8, <1>9, <1>12, AppendProperties
  <2>2. ASSUME n >= 1 PROVE last \in 1..sentCount /\ p = last + 1
    <3>1. accepted # <<>>
      BY <1>9, <2>2
    <3>2. last # 0 /\ seqNo = WireSeq(last)
      BY <1>1, <3>1 DEF Gate, AtLast
    <3>3. last \in 1..sentCount
      BY <1>8, <3>2
    <3>4. p = last + 1
      BY <1>8, <1>12, <3>2, <3>3, NextNumber
    <3> QED
      BY <3>3, <3>4
  <2>3. Passed(queue', accepted', p, twice)
    <3>1. ASSUME NEW k \in 2..(n + 1)
          PROVE  /\ Gone(queue', accepted'[k], twice) /\ Gone(queue', accepted'[k] - 1, twice)
                 /\ accepted'[k] - 1 # twice => p # accepted'[k] - 1
      <4>1. CASE k = n + 1
        <5>1. accepted'[k] = p /\ p - 1 = last /\ p # p - 1
          BY <2>1, <2>2, <4>1
        <5>2. Gone(queue', last, twice)
          BY <1>1, <1>5 DEF Gate, Passed
        <5> QED
          BY <1>5, <5>1, <5>2
      <4>2. CASE k # n + 1
        <5>1. k \in 2..n /\ k \in 1..n
          BY <4>2
        <5> QED
          BY <1>10, <2>1, <5>1
      <4> QED
        BY <4>1, <4>2
    <3> QED
      BY <1>5, <2>1, <3>1 DEF Passed
  <2>4. ASSUME NEW k \in 2..n, accepted[k] = p PROVE FALSE
    <3>1. last \in 1..sentCount /\ p - 1 = last /\ p # p - 1
      BY <2>2
    <3>2. p = twice
      BY <1>1, <1>6, <1>9, <2>4 DEF Gate, Passed, Gone
    <3>3. accepted[k] - 1 # twice /\ last = accepted[k] - 1
      BY <2>4, <3>1, <3>2
    <3> QED
      BY <1>1, <1>9, <3>3 DEF Gate, Passed
  <2>5. Once(accepted')
    <3>1. \A j, k \in 2..n : accepted[j] = accepted[k] => j = k
      BY <1>1, <1>9 DEF Gate, Once
    <3>2. ASSUME NEW j \in 2..(n + 1), NEW k \in 2..(n + 1), accepted'[j] = accepted'[k] PROVE j = k
      <4>1. CASE j = n + 1 /\ k = n + 1
        BY <4>1
      <4>2. CASE j = n + 1 /\ k # n + 1
        <5>1. k \in 2..n /\ accepted[k] = p
          BY <2>1, <3>2, <4>2
        <5> QED
          BY <2>4, <5>1
      <4>3. CASE j # n + 1 /\ k = n + 1
        <5>1. j \in 2..n /\ accepted[j] = p
          BY <2>1, <3>2, <4>3
        <5> QED
          BY <2>4, <5>1
      <4>4. CASE j # n + 1 /\ k # n + 1
        <5>1. j \in 2..n /\ k \in 2..n /\ accepted[j] = accepted[k]
          BY <2>1, <3>2, <4>4
        <5> QED
          BY <3>1, <5>1
      <4> QED
        BY <4>1, <4>2, <4>3, <4>4
    <3> QED
      BY <2>1, <3>2 DEF Once
  <2>6. Gate(p, twice)'
    BY <1>1, <1>2, <1>5, <1>7, <2>3, <2>5 DEF Gate
  <2> QED
    BY <1>3, <1>7, <2>6 DEF GateInv
<1> QED
  BY <1>4, <1>11, <1>12 DEF Receive

(* A duplicated datagram: there was none before. *)
LEMMA DuplicateKeeps ==
    ASSUME MaxDup <= 1, UTypes, NEW i \in DOMAIN queue, Duplicate(i), GateInv
    PROVE  GateInv'
<1>1. PICK last \in 0..sentCount, twice \in 0..sentCount : Gate(last, twice)
  BY DEF GateInv
<1>2. /\ queue' = Append(queue, queue[i]) /\ dups < MaxDup /\ dups' = dups + 1
      /\ UNCHANGED <<lastPlaces, seqNo, accepted>>
  BY DEF Duplicate
<1>3. sentCount' = sentCount
  BY <1>2 DEF sentCount
<1>4. PICK p \in 1..sentCount : p = queue[i].seq
  BY Removed
<1>5. dups = 0 /\ twice = 0 /\ dups' # 0
  <2>1. dups \in Nat
    BY UdpAssumption DEF UTypes, UdpTypeOK
  <2> QED
    BY <1>1, <1>2, <2>1, UdpAssumption DEF Gate
<1>6. PICK n \in Nat : /\ n = Len(queue) /\ i \in 1..n
                       /\ \A j \in 1..n : queue[j].seq \in 1..sentCount
  <2>1. \A j \in DOMAIN queue : queue[j].seq \in 1..sentCount
    BY Removed
  <2>2. Len(queue) \in Nat /\ i \in 1..Len(queue) /\ DOMAIN queue = 1..Len(queue)
    BY Removed, LenProperties DEF Datagrams
  <2> QED
    BY <2>1, <2>2
<1>7. /\ Len(queue') = n + 1 /\ queue'[n + 1].seq = p
      /\ \A j \in 1..n : queue'[j] = queue[j]
  <2> DEFINE Q == [seq : 1..sentCount, cells : Seq(Cells)]
  <2>1. queue \in Seq(Q)
    BY Removed DEF Datagrams
  <2> HIDE DEF Q
  <2>2. queue[i] \in Q
    BY <1>6, <2>1, ElementOfSeq
  <2> QED
    BY <1>2, <1>4, <1>6, <2>1, <2>2, AppendProperties
<1>8. \A x : Waits(queue', x) => Waits(queue, x)
  <2>1. ASSUME NEW j \in 1..(n + 1) PROVE \E k \in 1..n : queue[k].seq = queue'[j].seq
    <3>1. CASE j = n + 1
      BY <1>4, <1>6, <1>7, <3>1
    <3>2. CASE j # n + 1
      BY <1>7, <3>2
    <3> QED
      BY <3>1, <3>2
  <2> QED
    BY <1>6, <1>7, <2>1 DEF Waits
<1>9. ~Waits(queue, 0)
  BY <1>6 DEF Waits
<1>10. \A x : Gone(queue, x, twice) => Gone(queue', x, p) /\ ~Waits(queue, x)
  BY <1>5, <1>8, <1>9 DEF Gone
<1>11. Distinct(queue', p)
  <2>1. ASSUME NEW j \in 1..(n + 1), NEW k \in 1..(n + 1),
               queue'[j].seq = queue'[k].seq, queue'[j].seq # p
        PROVE  j = k
    <3>1. j \in 1..n /\ k \in 1..n
      BY <1>7, <2>1
    <3>2. queue[j].seq = queue[k].seq /\ queue[j].seq # 0
      <4>1. queue'[j].seq = queue[j].seq /\ queue'[k].seq = queue[k].seq
        BY <1>7, <3>1
      <4>2. queue[j].seq \in 1..sentCount
        BY <1>6, <3>1
      <4>3. \A x \in 1..sentCount : x # 0
        OBVIOUS
      <4> QED
        BY <2>1, <4>1, <4>2, <4>3
    <3> QED
      BY <1>1, <1>5, <1>6, <3>1, <3>2 DEF Gate, Distinct
  <2> QED
    BY <1>7, <2>1 DEF Distinct
<1>12. Passed(queue', accepted, last, p)
  <2>1. Gone(queue', last, p)
    BY <1>1, <1>10 DEF Gate, Passed
  <2>2. ASSUME NEW k \in 2..Len(accepted)
        PROVE  /\ Gone(queue', accepted[k], p) /\ Gone(queue', accepted[k] - 1, p)
               /\ accepted[k] - 1 # p => last # accepted[k] - 1
    <3>1. Gone(queue, accepted[k], twice) /\ Gone(queue, accepted[k] - 1, twice)
      BY <1>1 DEF Gate, Passed
    <3>2. last # 0
      <4>1. accepted # <<>>
        BY EmptySeq
      <4> QED
        BY <1>1, <4>1 DEF Gate, AtLast
    <3>3. last # accepted[k] - 1
      <4>1. CASE accepted[k] - 1 = 0
        BY <3>2, <4>1
      <4>2. CASE accepted[k] - 1 # 0
        BY <1>1, <1>5, <4>2 DEF Gate, Passed
      <4> QED
        BY <4>1, <4>2
    <3> QED
      BY <1>10, <3>1, <3>3
  <2> QED
    BY <2>1, <2>2 DEF Passed
<1>13. Gate(last, p)'
  BY <1>1, <1>2, <1>5, <1>11, <1>12 DEF Gate
<1>14. p \in 0..sentCount
  OBVIOUS
<1> QED
  BY <1>3, <1>13, <1>14 DEF GateInv

(* A picture that is sent: its packets are new. *)
LEMMA SendKeeps ==
    ASSUME UTypes, NEW layout \in Layouts, SendFrame(layout), UNCHANGED udp, GateInv
    PROVE  GateInv'
<1>1. PICK last \in 0..sentCount, twice \in 0..sentCount : Gate(last, twice)
  BY DEF GateInv
<1>2. PTypes /\ accepted \in Seq(1..sentCount) /\ UNCHANGED <<seqNo, accepted, dups>>
  BY DEF UTypes, UdpTypeOK, udp
<1>3. sentCount \in Nat /\ sentCount' \in Nat /\ sentCount <= sentCount'
  BY <1>2, SentGrows
<1>4. PICK n \in Nat, more \in Seq([seq : 1..sentCount', cells : Seq(Cells)]) :
         /\ Len(more) = n /\ queue' = queue \o more
         /\ \A k \in 1..n : more[k].seq = sentCount + k
  BY <1>2, SentGrows
<1>5. PICK m \in Nat : /\ m = Len(queue) /\ Len(queue') = m + n
                       /\ \A j \in 1..m : queue'[j] = queue[j] /\ queue[j].seq \in 1..sentCount
                       /\ \A k \in 1..n : queue'[m + k] = more[k]
  BY <1>2, <1>3, <1>4, QueueGrows
<1>6. Len(queue') = m + n /\ \A j \in 1..m : queue'[j] = queue[j]
  BY <1>5
<1>7. ASSUME NEW j \in 1..(m + n)
      PROVE  \/ j \in 1..m /\ queue'[j] = queue[j] /\ queue[j].seq \in 1..sentCount
             \/ queue'[j].seq = sentCount + (j - m) /\ j > m
  <2>1. CASE j <= m
    BY <1>5, <1>6, <2>1
  <2>2. CASE ~(j <= m)
    <3>1. PICK k \in 1..n : j = m + k /\ k = j - m
      BY <2>2
    <3> QED
      BY <1>4, <1>5, <3>1
  <2> QED
    BY <2>1, <2>2
<1>8. ASSUME NEW x \in Int, x <= sentCount PROVE Gone(queue, x, twice) => Gone(queue', x, twice)
  <2>1. ASSUME NEW j \in 1..(m + n), queue'[j].seq = x
        PROVE  j \in 1..m /\ queue[j].seq = x
    BY <1>3, <1>7, <1>8, <2>1
  <2>2. Waits(queue', x) => Waits(queue, x)
    BY <1>5, <1>6, <2>1 DEF Waits
  <2> QED
    BY <2>2 DEF Gone
<1>9. Distinct(queue', twice)
  <2>1. ASSUME NEW j \in 1..(m + n), NEW k \in 1..(m + n),
               queue'[j].seq = queue'[k].seq, queue'[j].seq # twice
        PROVE  j = k
    <3>1. CASE j \in 1..m /\ k \in 1..m
      BY <1>1, <1>5, <1>6, <2>1, <3>1 DEF Gate, Distinct
    <3>2. CASE ~(j \in 1..m /\ k \in 1..m)
      <4>1. PICK a, b : a = queue'[j].seq /\ b = queue'[k].seq /\ a = b
        BY <2>1
      <4>2. \/ j \in 1..m /\ a \in 1..sentCount
            \/ a = sentCount + (j - m) /\ j > m
        BY <1>7, <4>1, Zenon
      <4>3. \/ k \in 1..m /\ b \in 1..sentCount
            \/ b = sentCount + (k - m) /\ k > m
        BY <1>7, <4>1, Zenon
      <4> QED
        BY <1>3, <3>2, <4>1, <4>2, <4>3
    <3> QED
      BY <3>1, <3>2
  <2> QED
    BY <1>6, <2>1 DEF Distinct
<1>10. Passed(queue', accepted, last, twice)
  <2>1. Gone(queue', last, twice)
    BY <1>1, <1>3, <1>8 DEF Gate, Passed
  <2>2. ASSUME NEW k \in 2..Len(accepted)
        PROVE  Gone(queue', accepted[k], twice) /\ Gone(queue', accepted[k] - 1, twice)
    <3>1. Gone(queue, accepted[k], twice) /\ Gone(queue, accepted[k] - 1, twice)
      BY <1>1 DEF Gate, Passed
    <3>2. accepted[k] \in 1..sentCount
      <4>1. k \in 1..Len(accepted)
        <5>1. Len(accepted) \in Nat
          BY <1>2, LenProperties
        <5> QED
          BY <5>1
      <4> QED
        BY <1>2, <4>1, ElementOfSeq
    <3>3. accepted[k] \in Int /\ accepted[k] <= sentCount
          /\ accepted[k] - 1 \in Int /\ accepted[k] - 1 <= sentCount
      BY <1>3, <3>2
    <3> QED
      BY <1>8, <3>1, <3>3
  <2> QED
    BY <1>1, <2>1, <2>2 DEF Gate, Passed
<1>11. Gate(last, twice)'
  BY <1>1, <1>2, <1>9, <1>10 DEF Gate
<1>12. last \in 0..sentCount' /\ twice \in 0..sentCount'
  BY <1>3
<1> QED
  BY <1>11, <1>12 DEF GateInv

(* The gate is kept in every step. *)
LEMMA GateStep ==
    MaxDup <= 1 =>
      (UTypes /\ GateInv /\ sentCount < SeqModulus /\ [UdpNext]_udpVars => GateInv')
<1> SUFFICES ASSUME MaxDup <= 1, UTypes, GateInv, sentCount < SeqModulus, [UdpNext]_udpVars
             PROVE  GateInv'
  OBVIOUS
<1>1. ASSUME NEW layout \in Layouts, SendFrame(layout), UNCHANGED udp PROVE GateInv'
  BY <1>1, SendKeeps
<1>2. ASSUME NEW i \in DOMAIN queue, Receive(i) PROVE GateInv'
  BY <1>2, ReceiveKeeps
<1>3. ASSUME NEW i \in DOMAIN queue, Lose(i) PROVE GateInv'
  BY <1>3, LoseKeeps
<1>4. ASSUME NEW i \in DOMAIN queue, Duplicate(i) PROVE GateInv'
  BY <1>4, DuplicateKeeps
<1>5. ASSUME lastPlaces' = lastPlaces, queue' = queue, UNCHANGED udp PROVE GateInv'
  <2>1. PICK last \in 0..sentCount, twice \in 0..sentCount : Gate(last, twice)
    BY DEF GateInv
  <2>2. sentCount' = sentCount
    BY <1>5 DEF sentCount
  <2>3. Gate(last, twice)'
    BY <1>5, <2>1 DEF Gate, udp
  <2> QED
    BY <2>2, <2>3 DEF GateInv
<1>6. ASSUME Parse, UNCHANGED udp PROVE GateInv'
  <2>1. lastPlaces' = lastPlaces /\ queue' = queue
    BY <1>6 DEF Parse, AccessPack, AccessPes, AccessPrivate, AppendRest, AppendPart, ResolvePs,
                GetWholeFrame, GetFrameStart, PesEnd, sender
  <2> QED
    BY <1>5, <1>6, <2>1
<1>7. CASE UNCHANGED udpVars
  BY <1>5, <1>7 DEF udpVars, vars, sender
<1> QED
  BY <1>1, <1>2, <1>3, <1>4, <1>6, <1>7 DEF UdpNext

(* The gate before anything was sent. *)
LEMMA GateInit == UdpInit => GateInv
<1> SUFFICES ASSUME UdpInit PROVE GateInv
  OBVIOUS
<1>1. queue = <<>> /\ accepted = <<>> /\ sentCount = 0
  BY DEF UdpInit, Init, sentCount
<1>2. Len(queue) = 0 /\ Len(accepted) = 0
  BY <1>1, EmptySeq
<1>3. AtLast(seqNo, accepted, 0) /\ Distinct(queue, 0) /\ Passed(queue, accepted, 0, 0)
      /\ Once(accepted)
  BY <1>1, <1>2 DEF AtLast, Distinct, Passed, Gone, Waits, Once
<1>4. Gate(0, 0)
  BY <1>3 DEF Gate
<1> QED
  BY <1>1, <1>4 DEF GateInv

(* The statement of the runs. *)
LEMMA OnceIsInjective ==
    ASSUME UTypes, GateInv
    PROVE  AcceptedOnce
<1>1. Once(accepted) /\ accepted \in Seq(1..sentCount)
  BY DEF GateInv, Gate, UTypes, UdpTypeOK
<1>2. PICK n \in Nat : n = Len(accepted)
  BY <1>1, LenProperties
<1> DEFINE s == SubSeq(accepted, 2, n)
<1>3. \A i \in 2..n : accepted[i] \in 1..sentCount
  <2>1. \A i \in 2..n : i \in 1..Len(accepted)
    BY <1>2
  <2> QED
    BY <1>1, <2>1, ElementOfSeq
<1>4. /\ s \in Seq(1..sentCount) /\ Len(s) = (IF 2 <= n THEN n - 2 + 1 ELSE 0)
      /\ \A i \in 1..(n - 2 + 1) : s[i] = accepted[2 + i - 1]
  BY <1>3, SubSeqProperties
<1> HIDE DEF s
<1>5. DOMAIN s = 1..Len(s)
  BY <1>4, LenProperties
<1>6. ASSUME NEW a \in DOMAIN s, NEW b \in DOMAIN s, s[a] = s[b] PROVE a = b
  <2>1. a \in 1..(n - 2 + 1) /\ b \in 1..(n - 2 + 1)
    BY <1>4, <1>5
  <2>2. /\ 2 + a - 1 \in 2..n /\ 2 + b - 1 \in 2..n
        /\ accepted[2 + a - 1] = accepted[2 + b - 1]
    BY <1>4, <1>6, <2>1
  <2>3. 2 + a - 1 = 2 + b - 1
    BY <1>1, <1>2, <2>2 DEF Once
  <2> QED
    BY <2>1, <2>3
<1>7. IsInjective(s)
  BY <1>6 DEF IsInjective
<1> QED
  BY <1>2, <1>7 DEF AcceptedOnce, s

(* The gate lets no packet through twice, but perhaps the very first, if    *)
(* the network duplicates at most one datagram and no more packets are sent *)
(* than there are sequence numbers (AcceptedOnce).                          *)
THEOREM ParsedOnce ==
    ASSUME MaxDup <= 1
    PROVE  UdpSpec /\ [](sentCount < SeqModulus) => []AcceptedOnce
<1>1. UdpInit => GateInv
  BY GateInit
<1>2. UTypes /\ GateInv /\ sentCount < SeqModulus /\ [UdpNext]_udpVars => GateInv'
  BY GateStep
<1>3. UTypes /\ GateInv => AcceptedOnce
  BY OnceIsInjective
<1> QED
  BY <1>1, <1>2, <1>3, UdpTypesHold, PTL DEF UdpSpec

(* The type invariant of the runs. *)
THEOREM UdpTypeCorrect == UdpSpec => []UdpTypeOK
<1>1. UTypes => UdpTypeOK
  BY DEF UTypes
<1> QED
  BY <1>1, UdpTypesHold, PTL

-----------------------------------------------------------------------------
(* Whatever the network does, the parser stays in its packet.               *)

(* So it does in every step. *)
LEMMA UdpOwnStep == UTypes /\ OwnInv /\ [UdpNext]_udpVars => OwnInv'
<1> SUFFICES ASSUME UTypes, OwnInv, [UdpNext]_udpVars PROVE OwnInv'
  OBVIOUS
<1>1. PTypes /\ Stale /\ OwnPackets(queue)
  BY DEF UTypes, OwnInv
<1>2. ASSUME NEW i \in DOMAIN queue
      PROVE  /\ OwnPackets(RemoveAt(queue, i)) /\ OwnPacket(queue[i].cells)
             /\ OwnPackets(Append(queue, queue[i]))
  <2>1. PICK n \in Nat : n = Len(queue) /\ i \in 1..n
    BY Removed
  <2>2. /\ Len(RemoveAt(queue, i)) = n - 1
        /\ \A j \in 1..(n - 1) : RemoveAt(queue, i)[j] = IF j < i THEN queue[j] ELSE queue[j + 1]
    BY <2>1, Removed
  <2>3. \A j \in 1..(n - 1) : j \in 1..n /\ j + 1 \in 1..n
    BY <2>1
  <2>4. OwnPackets(RemoveAt(queue, i))
    BY <1>1, <2>1, <2>2, <2>3 DEF OwnPackets
  <2>5. /\ Len(Append(queue, queue[i])) = n + 1
        /\ \A j \in 1..n : Append(queue, queue[i])[j] = queue[j]
        /\ Append(queue, queue[i])[n + 1] = queue[i]
    <3> DEFINE Q == [seq : 1..sentCount, cells : Seq(Cells)]
    <3>1. queue \in Seq(Q)
      BY Removed DEF Datagrams
    <3> HIDE DEF Q
    <3>2. queue[i] \in Q
      BY <2>1, <3>1, ElementOfSeq
    <3> QED
      BY <2>1, <3>1, <3>2, AppendProperties
  <2>6. \A j \in 1..(n + 1) : j \in 1..n \/ j = n + 1
    BY <2>1
  <2>7. OwnPackets(Append(queue, queue[i]))
    BY <1>1, <2>1, <2>5, <2>6 DEF OwnPackets
  <2> QED
    BY <1>1, <2>1, <2>4, <2>7 DEF OwnPackets
<1>3. ASSUME NEW layout \in Layouts, SendFrame(layout) PROVE OwnInv'
  <2>1. UNCHANGED <<data, len, pc, pos>> /\ OwnPackets(queue')
    BY <1>1, <1>3, OwnSent DEF SendFrame, parser
  <2> QED
    BY <2>1, OwnStays
<1>4. ASSUME NEW i \in DOMAIN queue, Receive(i) PROVE OwnInv'
  <2>1. pc = "idle" /\ queue' = RemoveAt(queue, i) /\ OwnPackets(queue')
    BY <1>2, <1>4 DEF Receive
  <2>2. CASE UNCHANGED parser
    BY <2>1, <2>2, OwnStays DEF parser
  <2>3. CASE TakePacket(queue[i].cells)
    <3>1. Stale' /\ OwnHand' /\ pc' = "access"
      BY <1>1, <1>2, <2>3, OwnTaken
    <3> QED
      BY <2>1, <3>1 DEF OwnInv, OwnPackets
  <2> QED
    BY <1>4, <2>2, <2>3 DEF Receive
<1>5. ASSUME NEW i \in DOMAIN queue, Lose(i) PROVE OwnInv'
  <2>1. UNCHANGED <<data, len, pc, pos>> /\ OwnPackets(queue')
    BY <1>2, <1>5 DEF Lose, parser
  <2> QED
    BY <2>1, OwnStays
<1>6. ASSUME NEW i \in DOMAIN queue, Duplicate(i) PROVE OwnInv'
  <2>1. UNCHANGED <<data, len, pc, pos>> /\ OwnPackets(queue')
    BY <1>2, <1>6 DEF Duplicate, parser
  <2> QED
    BY <2>1, OwnStays
<1>7. CASE Parse
  BY <1>1, <1>7, OwnParsed
<1>8. CASE UNCHANGED udpVars
  <2>1. UNCHANGED <<data, len, pc, pos>> /\ OwnPackets(queue')
    BY <1>1, <1>8 DEF udpVars, vars, sender, parser
  <2> QED
    BY <2>1, OwnStays
<1> QED
  BY <1>3, <1>4, <1>5, <1>6, <1>7, <1>8 DEF UdpNext

(* Out of step with the pictures the parser takes payload for what it is    *)
(* not, but no loss, no reordering and no duplicate makes it take a PES     *)
(* header behind the end of its packet in any other case than that of a     *)
(* stream that is whole (ParsesOwnBytes).                                   *)
THEOREM OwnBytesOverUdp == UdpSpec => []ParsesOwnBytes
<1>1. UdpInit => OwnInv
  BY OwnInit DEF UdpInit
<1>2. UTypes /\ OwnInv /\ [UdpNext]_udpVars => OwnInv'
  BY UdpOwnStep
<1>3. UTypes /\ OwnInv => ParsesOwnBytes
  BY OwnBytes DEF UTypes
<1> QED
  BY <1>1, <1>2, <1>3, UdpTypesHold, PTL DEF UdpSpec

-----------------------------------------------------------------------------
(* The stream heals.  b tells which cells each packet has: those of picture *)
(* b[q].pic from b[q].from on, b[q].size of them.                           *)

PlaceOk(b, q) ==
    LET f == b[q].pic
        c == FrameCells(f, shapes[f])
    IN /\ f \in 1..Len(shapes) /\ b[q].from \in 1..Len(c)
       /\ PieceOk(c, At(f, shapes[f], 1), b[q].from, b[q].size)
       /\ q \in FirstPlace(f)..lastPlaces[f]
       /\ IF q = lastPlaces[f] THEN b[q].from + b[q].size = Len(c) + 1
          ELSE b[q + 1].pic = f /\ b[q + 1].from = b[q].from + b[q].size

Placed(b) ==
    /\ Len(lastPlaces) = Len(shapes)
    /\ \A q \in 1..sentCount : PlaceOk(b, q)
    /\ \A f \in 1..Len(shapes) :
          /\ FirstPlace(f) \in 1..lastPlaces[f] /\ lastPlaces[f] <= sentCount
          /\ b[FirstPlace(f)].pic = f /\ b[FirstPlace(f)].from = 1
          /\ b[lastPlaces[f]].pic = f

Carries(cells, place) ==
    /\ Len(cells) = place.size
    /\ \A j \in 1..place.size :
          cells[j] = FrameCells(place.pic, shapes[place.pic])[place.from + j - 1]

Carried(b) == \A i \in 1..Len(queue) : Carries(queue[i].cells, b[queue[i].seq])

(* The packets p to q were parsed in a row, from accepted[i] on, ...        *)
RowAt(acc, p, q, i) ==
    /\ i \in 1..Len(acc) /\ i + q - p <= Len(acc)
    /\ \A k \in p..q : acc[i + k - p] = k

(* ... and were the last ones parsed.                                       *)
EndsWith(acc, p, q) == RowAt(acc, p, q, Len(acc) - (q - p))

(* A parser that came in with the first packet of F is behind that of place *)
(* q, or within it, and owes the decoder the pictures from F on.            *)
InPlace(b, F, q) ==
    \/ pc = "idle" /\ Parsed(b[q].pic, b[q].from + b[q].size, F)
    \/ /\ pc # "idle" /\ len = b[q].size
       /\ Holds(b[q].pic, b[q].from) /\ Busy(b[q].pic, b[q].from, F)

Follows(b) ==
    \A F \in 1..Len(shapes) : \A q \in FirstPlace(F)..sentCount :
       EndsWith(accepted, FirstPlace(F), q) => InPlace(b, F, q)

(* Where the parser has gone on since, the decoder has been given F.        *)
PastShown ==
    \A F \in 1..(Len(shapes) - 1) : \A i \in 1..Len(accepted) :
       RowAt(accepted, FirstPlace(F), lastPlaces[F + 1], i) =>
          (i + lastPlaces[F + 1] - FirstPlace(F) < Len(accepted) =>
             Shown(decoded, VideoAll(F, shapes[F])))

HealInv == Stale /\ PastShown /\ \E b : Placed(b) /\ Carried(b) /\ Follows(b)

(* The end of a row. *)
LEMMA RowEnd ==
    ASSUME NEW S, NEW acc \in Seq(S), NEW p \in Nat, NEW q \in Nat, p <= q,
           NEW i, RowAt(acc, p, q, i)
    PROVE  /\ i + q - p \in 1..Len(acc) /\ acc[i + q - p] = q
           /\ i + q - p < Len(acc) \/ EndsWith(acc, p, q)
<1>1. PICK n \in Nat : n = Len(acc)
  BY LenProperties
<1>2. i \in 1..n /\ i + q - p <= n /\ \A k \in p..q : acc[i + k - p] = k
  BY <1>1 DEF RowAt
<1>3. i + q - p \in 1..n /\ acc[i + q - p] = q
  <2>1. q \in p..q
    OBVIOUS
  <2> QED
    BY <1>2, <2>1
<1>4. ASSUME ~(i + q - p < n) PROVE EndsWith(acc, p, q)
  <2>1. i = n - (q - p)
    BY <1>2, <1>4
  <2> QED
    BY <1>1, <2>1 DEF EndsWith
<1> QED
  BY <1>1, <1>3, <1>4

(* The last of the packets in a row was the last one parsed. *)
LEMMA RowLast ==
    ASSUME NEW S, NEW acc \in Seq(S), NEW p \in Nat, NEW q \in Nat, p <= q, EndsWith(acc, p, q)
    PROVE  acc[Len(acc)] = q /\ Len(acc) \in 1..Len(acc)
<1>1. PICK n \in Nat : n = Len(acc)
  BY LenProperties
<1>2. PICK i : i = n - (q - p) /\ RowAt(acc, p, q, i)
  BY <1>1 DEF EndsWith
<1>3. i + q - p \in 1..n /\ acc[i + q - p] = q
  BY <1>1, <1>2, RowEnd
<1>4. i + q - p = n
  BY <1>2
<1> QED
  BY <1>1, <1>3, <1>4

(* A row that goes on with the packet just parsed. *)
LEMMA RowGoesOn ==
    ASSUME NEW S, NEW acc \in Seq(S), NEW r \in S, NEW p \in Nat, NEW q \in Nat, p <= q,
           EndsWith(Append(acc, r), p, q)
    PROVE  r = q /\ (p # q => EndsWith(acc, p, q - 1))
<1>1. PICK n \in Nat : n = Len(acc)
  BY LenProperties
<1> DEFINE new == Append(acc, r)
<1>2. Len(new) = n + 1 /\ new[n + 1] = r /\ \A j \in 1..n : new[j] = acc[j]
  BY <1>1, AppendProperties
<1> HIDE DEF new
<1>3. EndsWith(new, p, q)
  BY DEF new
<1>4. PICK i \in 1..(n + 1) : i = n + 1 - (q - p)
  BY <1>2, <1>3 DEF EndsWith, RowAt
<1>5. \A k \in p..q : new[i + k - p] = k
  BY <1>2, <1>3, <1>4 DEF EndsWith, RowAt
<1>6. q \in p..q /\ i + q - p = n + 1
  BY <1>4
<1>7. r = q
  BY <1>2, <1>5, <1>6
<1>8. ASSUME p # q PROVE EndsWith(acc, p, q - 1)
  <2>1. n - ((q - 1) - p) = i /\ i \in 1..n /\ i + (q - 1) - p <= n
    BY <1>4, <1>8
  <2>2. \A k \in p..(q - 1) : k \in p..q /\ i + k - p \in 1..n
    BY <1>4
  <2>3. \A k \in p..(q - 1) : acc[i + k - p] = k
    BY <1>2, <1>5, <2>2
  <2> QED
    BY <1>1, <2>1, <2>3 DEF EndsWith, RowAt
<1> QED
  BY <1>7, <1>8

(* A row that was there before the packet just parsed. *)
LEMMA RowBefore ==
    ASSUME NEW S, NEW acc \in Seq(S), NEW r \in S, NEW p \in Nat, NEW q \in Nat, p <= q,
           NEW i, RowAt(Append(acc, r), p, q, i), i + q - p < Len(Append(acc, r))
    PROVE  RowAt(acc, p, q, i)
<1>1. PICK n \in Nat : n = Len(acc)
  BY LenProperties
<1> DEFINE new == Append(acc, r)
<1>2. Len(new) = n + 1 /\ \A j \in 1..n : new[j] = acc[j]
  BY <1>1, AppendProperties
<1> HIDE DEF new
<1>3. RowAt(new, p, q, i) /\ i + q - p < Len(new)
  BY DEF new
<1>4. i \in 1..(n + 1) /\ i + q - p <= n
  BY <1>2, <1>3 DEF RowAt
<1>5. i \in 1..n /\ \A k \in p..q : i + k - p \in 1..n
  BY <1>4
<1>6. \A k \in p..q : acc[i + k - p] = k
  BY <1>2, <1>3, <1>5 DEF RowAt
<1> QED
  BY <1>1, <1>4, <1>5, <1>6 DEF RowAt

(* The places of pictures and packets. *)
LEMMA PlaceFacts ==
    ASSUME PTypes, NEW b, Placed(b), NEW q \in 1..sentCount
    PROVE  /\ b[q].pic \in 1..Len(shapes) /\ shapes[b[q].pic] \in Layouts
           /\ b[q].pic \in 0..MaxFrames /\ b[q].pic \in Nat \ {0} /\ Len(shapes) \in Nat
           /\ Len(FrameCells(b[q].pic, shapes[b[q].pic])) \in Nat
           /\ b[q].from \in Nat \ {0} /\ b[q].size \in Nat \ {0}
           /\ sentCount \in Nat /\ PlaceOk(b, q)
<1>1. PlaceOk(b, q) /\ sentCount \in Nat
  BY CountType DEF Placed
<1>2. b[q].pic \in 1..Len(shapes) /\ b[q].from \in 1..Len(FrameCells(b[q].pic, shapes[b[q].pic]))
      /\ b[q].size \in 1..Mtu
  BY <1>1 DEF PlaceOk, PieceOk
<1>3. shapes[b[q].pic] \in Layouts /\ b[q].pic \in 0..MaxFrames /\ Len(shapes) \in Nat
  BY <1>2, ShapeTypes
<1>4. Len(FrameCells(b[q].pic, shapes[b[q].pic])) \in Nat
  BY <1>3, PictureCells
<1> QED
  BY <1>1, <1>2, <1>3, <1>4, SizeAssumption

(* The last places are those of the packets sent. *)
LEMMA LastPlaces ==
    ASSUME PTypes, NEW b, Placed(b), NEW f \in 1..Len(shapes)
    PROVE  /\ f \in Nat \ {0} /\ Len(shapes) \in Nat
           /\ FirstPlace(f) \in Nat \ {0} /\ lastPlaces[f] \in Nat /\ FirstPlace(f) <= lastPlaces[f]
           /\ lastPlaces[f] <= sentCount /\ sentCount \in Nat
           /\ f # Len(shapes) => FirstPlace(f + 1) = lastPlaces[f] + 1
           /\ f = Len(shapes) => lastPlaces[f] = sentCount
<1>1. Len(shapes) \in Nat /\ sentCount \in Nat /\ lastPlaces \in Seq(Nat)
  BY ShapeTypes, CountType DEF PTypes, TypeOK
<1>2. /\ Len(lastPlaces) = Len(shapes) /\ FirstPlace(f) \in 1..lastPlaces[f]
      /\ lastPlaces[f] <= sentCount
  BY DEF Placed
<1>3. lastPlaces[f] \in Nat
  BY <1>1, <1>2, ElementOfSeq
<1>4. f + 1 # 1 /\ (f + 1) - 1 = f
  BY <1>1
<1>5. FirstPlace(f + 1) = lastPlaces[f] + 1
  BY <1>4 DEF FirstPlace
<1>6. lastPlaces # <<>>
  BY <1>1, <1>2, EmptySeq
<1>7. f = Len(shapes) => lastPlaces[f] = sentCount
  BY <1>2, <1>6 DEF sentCount, Last
<1> QED
  BY <1>1, <1>2, <1>3, <1>5, <1>7

(* A parser that has done with a packet is where the next one begins. *)
LEMMA NextPlace ==
    ASSUME PTypes, NEW b, Placed(b), NEW q \in 1..sentCount, q + 1 \in 1..sentCount,
           NEW F \in Nat \ {0}, Parsed(b[q].pic, b[q].from + b[q].size, F)
    PROVE  Parsed(b[q + 1].pic, b[q + 1].from, F)
<1>1. PICK f : f = b[q].pic
  OBVIOUS
<1>2. /\ f \in 1..Len(shapes) /\ f \in Nat \ {0} /\ Len(shapes) \in Nat /\ sentCount \in Nat
      /\ PlaceOk(b, q)
  BY <1>1, PlaceFacts
<1>3. CASE q # lastPlaces[f]
  BY <1>1, <1>2, <1>3 DEF PlaceOk
<1>4. CASE q = lastPlaces[f]
  <2>1. f # Len(shapes) /\ FirstPlace(f + 1) = q + 1
    <3>1. f = Len(shapes) => lastPlaces[f] = sentCount
      BY <1>2, LastPlaces
    <3>2. f # Len(shapes)
      BY <1>2, <1>4, <3>1
    <3> QED
      BY <1>2, <1>4, <3>2, LastPlaces
  <2>2. f + 1 \in 1..Len(shapes)
    BY <1>2, <2>1
  <2>3. b[q + 1].pic = f + 1 /\ b[q + 1].from = 1
    BY <2>1, <2>2 DEF Placed
  <2>4. b[q].from + b[q].size = Len(FrameCells(f, shapes[f])) + 1
    BY <1>1, <1>2, <1>4 DEF PlaceOk
  <2>5. Quiet /\ Begun(shapes, h264, decoded, heard, f + 1, F)
    BY <1>1, <1>2, <2>4, PictureOver
  <2> QED
    BY <2>3, <2>5 DEF Parsed, Ready
<1> QED
  BY <1>3, <1>4

(* Behind the last packet of the picture after F it has given F away. *)
LEMMA ShownBehind ==
    ASSUME PTypes, pc = "idle", NEW b, Placed(b), Follows(b), NEW F \in 1..(Len(shapes) - 1),
           EndsWith(accepted, FirstPlace(F), lastPlaces[F + 1])
    PROVE  Shown(decoded, VideoAll(F, shapes[F]))
<1>1. Len(shapes) \in Nat
  BY ShapeTypes
<1>2. F \in 1..Len(shapes) /\ F # Len(shapes) /\ F + 1 \in 1..Len(shapes) /\ F \in Nat \ {0}
  BY <1>1
<1>3. PICK q \in Nat : q = lastPlaces[F + 1] /\ q <= sentCount /\ FirstPlace(F + 1) <= q
  BY <1>2, LastPlaces
<1>4. /\ FirstPlace(F) \in Nat \ {0} /\ lastPlaces[F] \in Nat /\ FirstPlace(F) <= lastPlaces[F]
      /\ FirstPlace(F + 1) = lastPlaces[F] + 1 /\ sentCount \in Nat
  BY <1>2, LastPlaces
<1>5. q \in FirstPlace(F)..sentCount /\ q \in 1..sentCount
  BY <1>3, <1>4
<1>6. Parsed(b[q].pic, b[q].from + b[q].size, F)
  BY <1>2, <1>3, <1>5 DEF Follows, InPlace
<1>7. b[q].pic = F + 1
  BY <1>2, <1>3 DEF Placed
<1>8. b[q].from + b[q].size = Len(FrameCells(F + 1, shapes[F + 1])) + 1
  <2>1. PlaceOk(b, q)
    BY <1>5 DEF Placed
  <2> QED
    BY <1>3, <1>7, <2>1 DEF PlaceOk
<1>9. Begun(shapes, h264, decoded, heard, (F + 1) + 1, F)
  <2>1. PICK g \in 1..Len(shapes) : g = F + 1
    BY <1>2
  <2>2. Parsed(g, Len(FrameCells(g, shapes[g])) + 1, F)
    BY <1>6, <1>7, <1>8, <2>1
  <2>3. Begun(shapes, h264, decoded, heard, g + 1, F)
    BY <1>2, <2>2, PictureOver
  <2> QED
    BY <2>1, <2>3
<1>10. Resumed(shapes, h264, decoded, F, F + 1)
  <2>1. ((F + 1) + 1) - 1 = F + 1 /\ F # 0
    BY <1>2
  <2> QED
    BY <1>9, <2>1 DEF Begun
<1>11. AllShown(shapes, decoded, F, F + 1) \/ AllShown(shapes, decoded, F, (F + 1) - 1)
  BY <1>10 DEF Resumed
<1>12. F \in F..(F + 1) /\ F \in F..((F + 1) - 1)
  BY <1>2
<1> QED
  BY <1>11, <1>12 DEF AllShown

(* Nothing of this depends on the network. *)
LEMMA HealStays ==
    ASSUME NEW b, UNCHANGED <<shapes, lastPlaces, parser, source, output, accepted>>
    PROVE  /\ Stale => Stale'
           /\ PastShown => PastShown'
           /\ Placed(b) => Placed(b)'
           /\ Follows(b) => Follows(b)'
<1>1. UNCHANGED <<shapes, lastPlaces, data, len, pc, pos, frame, frameSize, curStream,
                  isFrameStart, h264, decoded, heard, accepted>>
  BY DEF parser, source, output
<1>2. sentCount' = sentCount /\ \A f : FirstPlace(f)' = FirstPlace(f)
  BY <1>1 DEF sentCount, FirstPlace
<1>3. Placed(b) => Placed(b)'
  BY <1>1, <1>2 DEF Placed, PlaceOk
<1>4. \A f, p, F : Parsed(f, p, F)' = Parsed(f, p, F)
  BY <1>1 DEF Parsed, Ready, Quiet, Inside
<1>5. \A f, p, F : Busy(f, p, F)' = Busy(f, p, F)
  BY <1>1, <1>4 DEF Busy, Ahead, Ready, Quiet, KindAt, CellAt
<1>6. \A F, q : InPlace(b, F, q)' = InPlace(b, F, q)
  BY <1>1, <1>4, <1>5 DEF InPlace, Holds
<1>7. Follows(b) => Follows(b)'
  BY <1>1, <1>2, <1>6 DEF Follows
<1>8. PastShown => PastShown'
  BY <1>1, <1>2 DEF PastShown
<1>9. Stale => Stale'
  BY <1>1 DEF Stale
<1> QED
  BY <1>3, <1>7, <1>8, <1>9

(* The datagrams that are left, and one that comes twice, are as sent. *)
LEMMA StillCarried ==
    ASSUME UTypes, NEW b, Carried(b), NEW i \in DOMAIN queue, UNCHANGED shapes
    PROVE  /\ queue' = RemoveAt(queue, i) => Carried(b)'
           /\ queue' = Append(queue, queue[i]) => Carried(b)'
           /\ Carries(queue[i].cells, b[queue[i].seq])
<1>1. PICK n \in Nat : n = Len(queue) /\ i \in 1..n
  BY Removed
<1>2. \A j \in 1..n : Carries(queue[j].cells, b[queue[j].seq])
  BY <1>1 DEF Carried
<1>3. \A cells, place : Carries(cells, place)' = Carries(cells, place)
  BY DEF Carries
<1>4. ASSUME queue' = RemoveAt(queue, i) PROVE Carried(b)'
  <2>1. /\ Len(queue') = n - 1
        /\ \A j \in 1..(n - 1) : queue'[j] = IF j < i THEN queue[j] ELSE queue[j + 1]
    BY <1>1, <1>4, Removed
  <2>2. \A j \in 1..(n - 1) : j \in 1..n /\ j + 1 \in 1..n
    BY <1>1
  <2>3. \A j \in 1..(n - 1) : Carries(queue'[j].cells, b[queue'[j].seq])
    BY <1>2, <2>1, <2>2
  <2> QED
    BY <1>3, <2>1, <2>3 DEF Carried
<1>5. ASSUME queue' = Append(queue, queue[i]) PROVE Carried(b)'
  <2> DEFINE Q == [seq : 1..sentCount, cells : Seq(Cells)]
  <2>1. queue \in Seq(Q)
    BY Removed DEF Datagrams
  <2> HIDE DEF Q
  <2>2. queue[i] \in Q
    BY <1>1, <2>1, ElementOfSeq
  <2>3. /\ Len(queue') = n + 1 /\ queue'[n + 1] = queue[i]
        /\ \A j \in 1..n : queue'[j] = queue[j]
    BY <1>1, <1>5, <2>1, <2>2, AppendProperties
  <2>4. \A j \in 1..(n + 1) : j \in 1..n \/ j = n + 1
    BY <1>1
  <2>5. \A j \in 1..(n + 1) : Carries(queue'[j].cells, b[queue'[j].seq])
    BY <1>1, <1>2, <2>3, <2>4
  <2> QED
    BY <1>3, <2>3, <2>5 DEF Carried
<1> QED
  BY <1>1, <1>2, <1>4, <1>5

(* A datagram comes: one that is parsed goes on where the one before it     *)
(* ended, and a first packet of a picture brings a parser that owes the     *)
(* pictures from there on.                                                  *)
LEMMA ReceiveHeals ==
    ASSUME UTypes, NEW i \in DOMAIN queue, Receive(i), HealInv
    PROVE  HealInv'
<1>1. PICK b : Placed(b) /\ Carried(b) /\ Follows(b)
  BY DEF HealInv
<1>2. /\ PTypes /\ Stale /\ PastShown /\ accepted \in Seq(1..sentCount)
  BY DEF UTypes, UdpTypeOK, HealInv
<1>3. /\ pc = "idle" /\ queue' = RemoveAt(queue, i)
      /\ UNCHANGED <<shapes, lastPlaces, frame, frameSize, curStream, isFrameStart, h264,
                     decoded, heard, source, output>>
  BY DEF Receive, source, output
<1>4. Carried(b)' /\ Carries(queue[i].cells, b[queue[i].seq])
  BY <1>1, <1>3, StillCarried
<1>5. CASE UNCHANGED <<parser, accepted>>
  <2>1. Stale' /\ PastShown' /\ Placed(b)' /\ Follows(b)'
    BY <1>1, <1>2, <1>3, <1>5, HealStays
  <2> QED
    BY <1>4, <2>1 DEF HealInv
<1>6. CASE TakePacket(queue[i].cells) /\ accepted' = Append(accepted, queue[i].seq)
  <2>1. sentCount' = sentCount /\ \A f : FirstPlace(f)' = FirstPlace(f)
    BY <1>3 DEF sentCount, FirstPlace
  <2>2. Placed(b)'
    BY <1>1, <1>3, <2>1 DEF Placed, PlaceOk
  <2>3. PICK r \in 1..sentCount : r = queue[i].seq
    BY Removed
  <2>4. PICK f \in 1..Len(shapes) : f = b[r].pic
    BY <1>1, <1>2, PlaceFacts
  <2>5. PICK a : a = b[r].from
    OBVIOUS
  <2>6. PICK m : m = b[r].size
    OBVIOUS
  <2>7. /\ a \in 1..Len(FrameCells(f, shapes[f]))
        /\ PieceOk(FrameCells(f, shapes[f]), At(f, shapes[f], 1), a, m)
    BY <1>1, <2>4, <2>5, <2>6 DEF Placed, PlaceOk
  <2>8. /\ Len(queue[i].cells) = m
        /\ \A j \in 1..m : queue[i].cells[j] = FrameCells(f, shapes[f])[a + j - 1]
    BY <1>4, <2>3, <2>4, <2>5, <2>6 DEF Carries
  <2>9. Stale' /\ Holds(f, a)' /\ len' = m /\ pc' = "access"
    <3>1. PTypes /\ Stale /\ TakePacket(queue[i].cells) /\ shapes' = shapes
      BY <1>2, <1>3, <1>6
    <3>2. PacketOf(f, a, m, queue[i].cells)
      BY <2>7, <2>8 DEF PacketOf
    <3> QED
      BY <3>1, <3>2, PacketHeld
  <2>10. ASSUME NEW F \in 1..Len(shapes), NEW q \in FirstPlace(F)..sentCount
         PROVE  /\ FirstPlace(F) \in Nat \ {0} /\ q \in Nat /\ FirstPlace(F) <= q
                /\ q \in 1..sentCount /\ F \in Nat \ {0} /\ sentCount \in Nat
    <3>1. FirstPlace(F) \in Nat \ {0} /\ sentCount \in Nat /\ F \in Nat \ {0}
      BY <1>1, <1>2, LastPlaces
    <3> QED
      BY <3>1
  <2>11. ASSUME NEW F \in 1..Len(shapes), NEW q \in FirstPlace(F)..sentCount,
                EndsWith(accepted', FirstPlace(F), q)
         PROVE  InPlace(b, F, q)'
    <3>1. r = q /\ (FirstPlace(F) # q => EndsWith(accepted, FirstPlace(F), q - 1))
      <4>1. PICK p \in Nat : p = FirstPlace(F) /\ p <= q /\ q \in Nat
        BY <2>10
      <4>2. EndsWith(Append(accepted, r), p, q)
        BY <1>6, <2>3, <2>11, <4>1
      <4>3. r = q /\ (p # q => EndsWith(accepted, p, q - 1))
        BY <1>2, <4>1, <4>2, RowGoesOn
      <4> QED
        BY <4>1, <4>3
    <3>2. Parsed(f, a, F)
      <4>1. CASE FirstPlace(F) = q
        <5>1. f = F /\ a = 1 /\ F # 0
          BY <1>1, <2>4, <2>5, <2>10, <3>1, <4>1 DEF Placed
        <5>2. \A g : g \notin F..(F - 1)
          BY <2>10
        <5>3. Resumed(shapes, h264, decoded, F, F - 1)
          BY <5>2 DEF Resumed, AllShown
        <5> QED
          BY <5>1, <5>3 DEF Parsed, Ready, Begun
      <4>2. CASE FirstPlace(F) # q
        <5>1. q - 1 \in FirstPlace(F)..sentCount /\ q - 1 \in 1..sentCount /\ (q - 1) + 1 = q
          BY <2>10, <4>2
        <5>2. InPlace(b, F, q - 1)
          BY <1>1, <3>1, <4>2, <5>1 DEF Follows
        <5>3. Parsed(b[q - 1].pic, b[q - 1].from + b[q - 1].size, F)
          BY <1>3, <5>2 DEF InPlace
        <5>4. PICK k \in 1..sentCount : k = q - 1 /\ k + 1 = q /\ k + 1 \in 1..sentCount
          BY <2>10, <5>1
        <5>5. Parsed(b[k + 1].pic, b[k + 1].from, F)
          BY <1>1, <1>2, <2>10, <5>3, <5>4, NextPlace
        <5> QED
          BY <2>4, <2>5, <3>1, <5>4, <5>5
      <4> QED
        BY <4>1, <4>2
    <3>3. Parsed(f, a, F)'
      BY <1>3, <3>2 DEF Parsed, Ready, Quiet, Inside
    <3> QED
      BY <2>4, <2>5, <2>6, <2>9, <3>1, <3>3 DEF InPlace, Busy
  <2>12. Follows(b)'
    BY <1>3, <2>1, <2>11 DEF Follows
  <2>13. ASSUME NEW F \in 1..(Len(shapes) - 1), NEW j \in 1..Len(accepted'),
                RowAt(accepted', FirstPlace(F), lastPlaces[F + 1], j),
                j + lastPlaces[F + 1] - FirstPlace(F) < Len(accepted')
         PROVE  Shown(decoded, VideoAll(F, shapes[F]))
    <3>1. Len(shapes) \in Nat
      BY <1>2, ShapeTypes
    <3>2. F \in 1..Len(shapes) /\ F # Len(shapes) /\ F + 1 \in 1..Len(shapes)
      BY <3>1
    <3>3. PICK p \in Nat, q \in Nat : p = FirstPlace(F) /\ q = lastPlaces[F + 1] /\ p <= q
      <4>1. /\ FirstPlace(F) \in Nat /\ lastPlaces[F] \in Nat /\ FirstPlace(F) <= lastPlaces[F]
            /\ FirstPlace(F + 1) = lastPlaces[F] + 1
        BY <1>1, <1>2, <3>2, LastPlaces
      <4>2. lastPlaces[F + 1] \in Nat /\ FirstPlace(F + 1) <= lastPlaces[F + 1]
        BY <1>1, <1>2, <3>2, LastPlaces
      <4> QED
        BY <4>1, <4>2
    <3>4. RowAt(accepted, p, q, j)
      <4>1. /\ RowAt(Append(accepted, r), p, q, j)
            /\ j + q - p < Len(Append(accepted, r))
        BY <1>6, <2>3, <2>13, <3>3
      <4> QED
        BY <1>2, <3>3, <4>1, RowBefore
    <3>5. j \in 1..Len(accepted)
      BY <3>4 DEF RowAt
    <3>6. j + q - p < Len(accepted) \/ EndsWith(accepted, p, q)
      BY <1>2, <3>3, <3>4, RowEnd
    <3>7. CASE j + q - p < Len(accepted)
      BY <1>2, <3>3, <3>4, <3>5, <3>7 DEF PastShown
    <3>8. CASE EndsWith(accepted, p, q)
      BY <1>1, <1>2, <1>3, <3>3, <3>8, ShownBehind
    <3> QED
      BY <3>6, <3>7, <3>8
  <2>14. PastShown'
    <3>1. ASSUME NEW F \in 1..(Len(shapes) - 1), NEW j \in 1..Len(accepted')
          PROVE  RowAt(accepted', FirstPlace(F), lastPlaces[F + 1], j) =>
                    (j + lastPlaces[F + 1] - FirstPlace(F) < Len(accepted') =>
                       Shown(decoded, VideoAll(F, shapes[F])))
      BY <2>13
    <3> QED
      BY <1>3, <2>1, <3>1 DEF PastShown
  <2> QED
    BY <1>4, <2>2, <2>9, <2>12, <2>14 DEF HealInv
<1> QED
  BY <1>5, <1>6 DEF Receive

(* The parser only adds to what the decoder was given. *)
LEMMA DecodedGrows ==
    ASSUME PTypes, Parse
    PROVE  decoded' = decoded \/ decoded' = Append(decoded, h264)
<1>1. ASSUME NEW stream, NEW payload, Write(stream, payload)
      PROVE  decoded' = decoded \/ decoded' = Append(decoded, h264)
  BY <1>1 DEF Write, WriteVideoFrame, WriteAudioFrame
<1>2. CASE AppendRest
  BY <1>1, <1>2 DEF AppendRest
<1>3. CASE GetWholeFrame
  BY <1>1, <1>3 DEF GetWholeFrame
<1> QED
  BY <1>2, <1>3 DEF Parse, AccessPack, AccessPes, AccessPrivate, AppendPart, ResolvePs,
                    GetFrameStart, PesEnd, output

(* The parser goes on with the packet in hand. *)
LEMMA ParseHeals ==
    ASSUME PrivateLast, UTypes, Parse, UNCHANGED udp, HealInv
    PROVE  HealInv'
<1>1. PICK b : Placed(b) /\ Carried(b) /\ Follows(b)
  BY DEF HealInv
<1>2. PTypes /\ Stale /\ PastShown
  BY DEF UTypes, HealInv
<1>3. pc # "idle" /\ UNCHANGED <<shapes, lastPlaces, queue, data, len, accepted>>
  BY DEF Parse, AccessPack, AccessPes, AccessPrivate, AppendRest, AppendPart, ResolvePs,
         GetWholeFrame, GetFrameStart, PesEnd, sender, udp
<1>4. sentCount' = sentCount /\ \A f : FirstPlace(f)' = FirstPlace(f)
  BY <1>3 DEF sentCount, FirstPlace
<1>5. Stale' /\ Placed(b)' /\ Carried(b)'
  BY <1>1, <1>2, <1>3, <1>4, SMTT(40) DEF Stale, Placed, PlaceOk, Carried, Carries
<1>6. PastShown'
  <2>1. decoded \in Seq(Seq(Cells)) /\ h264 \in Seq(Cells)
    BY <1>2 DEF PTypes, TypeOK
  <2>2. \A video : Shown(decoded, video) => Shown(decoded', video)
    BY <1>2, <2>1, DecodedGrows, ShownStays
  <2> QED
    BY <1>2, <1>3, <1>4, <2>2 DEF PastShown
<1>7. ASSUME NEW F \in 1..Len(shapes), NEW q \in FirstPlace(F)..sentCount,
             EndsWith(accepted, FirstPlace(F), q)
      PROVE  InPlace(b, F, q)'
  <2>1. PICK f, a : f = b[q].pic /\ a = b[q].from
    OBVIOUS
  <2>2. /\ pc # "idle" /\ len = b[q].size
        /\ Holds(f, a) /\ Busy(f, a, F)
    BY <1>1, <1>3, <1>7, <2>1 DEF Follows, InPlace
  <2>3. F \in Nat
    BY <1>2, ShapeTypes
  <2>4. Held(f, a, F)
    BY <1>2, <2>2, Handed DEF Held
  <2>5. Advanced(f, a, F)
    BY <2>3, <2>4, HeaderAccessed, RestAppended, PartAppended, HeadersSkipped, FrameGot, StartGot,
       StaleHeader, PacketEnds DEF Parse
  <2>6. CASE pc' = "idle" /\ \E m \in Nat \ {0, 1} : m = a + len /\ Parsed(f, m, F)'
    BY <2>1, <2>2, <2>6 DEF InPlace
  <2>7. CASE pc' # "idle" /\ Busy(f, a, F)'
    <3>1. Holds(f, a)'
      BY <1>3, <2>2 DEF Holds
    <3> QED
      BY <1>3, <2>1, <2>2, <2>7, <3>1 DEF InPlace
  <2> QED
    BY <2>5, <2>6, <2>7 DEF Advanced
<1>8. Follows(b)'
  BY <1>3, <1>4, <1>7 DEF Follows
<1> QED
  BY <1>5, <1>6, <1>8 DEF HealInv

(* The places of the packets, with those of another picture f.              *)
WithPicture(b, old, n, e, f) ==
    [q \in 1..(old + n) |->
       IF q <= old THEN b[q]
       ELSE [pic |-> f, from |-> e[q - old - 1] + 1, size |-> e[q - old] - e[q - old - 1]]]

(* They stand behind the old ones. *)
Extended(B, b, old, n, e, f) ==
    /\ \A q \in 1..old : B[q] = b[q]
    /\ \A k \in 1..n : B[old + k] = [pic |-> f, from |-> e[k - 1] + 1, size |-> e[k] - e[k - 1]]

(* There are such places. *)
LEMMA NewPlaces ==
    ASSUME NEW b, NEW old \in Nat, NEW n \in Nat \ {0}, NEW e, NEW f
    PROVE  \E B : Extended(B, b, old, n, e, f)
<1>1. \A q \in 1..old : q \in 1..(old + n) /\ q <= old
  OBVIOUS
<1>2. \A k \in 1..n : /\ old + k \in 1..(old + n) /\ ~(old + k <= old)
                      /\ (old + k) - old = k /\ (old + k) - old - 1 = k - 1
  OBVIOUS
<1> DEFINE new == WithPicture(b, old, n, e, f)
<1>3. /\ \A q \in 1..old : new[q] = b[q]
      /\ \A k \in 1..n : new[old + k] = [pic |-> f, from |-> e[k - 1] + 1, size |-> e[k] - e[k - 1]]
  BY <1>1, <1>2 DEF WithPicture
<1>4. Extended(new, b, old, n, e, f)
  BY <1>3, Zenon DEF Extended
<1> HIDE DEF new
<1> QED
  BY <1>4

(* Picture f is sent in n packets, the first of them behind the old ones.   *)
SentBehind(layout, old, n, f) ==
    /\ old \in Nat /\ n \in Nat \ {0} /\ f \in Nat \ {0} /\ sentCount = old /\ sentCount' = old + n
    /\ f = Len(shapes) + 1 /\ Len(shapes') = f /\ shapes'[f] = layout
    /\ \A g \in 1..(f - 1) : shapes'[g] = shapes[g]
    /\ Len(lastPlaces') = f /\ lastPlaces'[f] = old + n
    /\ \A g \in 1..(f - 1) : lastPlaces'[g] = lastPlaces[g]

PackedAs(c, first, n, e, pieces) ==
    /\ Len(c) \in Nat \ {0} /\ e \in [0..n -> 0..Len(c)] /\ e[0] = 0 /\ e[n] = Len(c)
    /\ \A k \in 1..n :
          /\ e[k - 1] < e[k] /\ Len(pieces[k]) = e[k] - e[k - 1]
          /\ \A j \in 1..Len(pieces[k]) : pieces[k][j] = c[e[k - 1] + j]
          /\ PieceOk(c, first, e[k - 1] + 1, e[k] - e[k - 1])

QueuedBehind(old, n, pieces) ==
    \E m \in Nat :
       /\ m = Len(queue) /\ Len(queue') = m + n
       /\ \A j \in 1..m : queue'[j] = queue[j] /\ queue[j].seq \in 1..old
       /\ \A k \in 1..n : queue'[m + k] = [seq |-> old + k, cells |-> pieces[k]]

(* So is every picture. *)
LEMMA PictureSent ==
    ASSUME PTypes, ~RunOn, Len(lastPlaces) = Len(shapes), NEW layout \in Layouts, SendFrame(layout)
    PROVE  \E old, n, e, f, pieces :
              /\ SentBehind(layout, old, n, f) /\ QueuedBehind(old, n, pieces)
              /\ PackedAs(FrameCells(f, layout), At(f, layout, 1), n, e, pieces)
<1>1. PICK f \in 1..MaxFrames : f = Len(shapes) + 1 /\ shapes' = Append(shapes, layout)
  BY SendPieces
<1>2. PICK pieces, n, e : Sending(layout, pieces, n, e)
  BY SendPieces
<1>3. /\ PackedAs(FrameCells(f, layout), At(f, layout, 1), n, e, pieces)
      /\ Pieced(layout, pieces, n, e)
  BY <1>1, <1>2, PiecesFit DEF PackedAs
<1>4. PICK old \in Nat : old = sentCount
  BY CountType
<1>5. n \in Nat \ {0}
  BY <1>3 DEF Pieced
<1>6. sentCount' = old + n
  BY <1>2, <1>4, <1>5, CountGrows
<1>7. f \in Nat \ {0} /\ Len(shapes) = f - 1 /\ Len(lastPlaces) = f - 1
  BY <1>1, SizeAssumption
<1>8. Len(shapes') = f /\ shapes'[f] = layout /\ \A g \in 1..(f - 1) : shapes'[g] = shapes[g]
  <2>1. shapes \in Seq(Layouts)
    BY ShapeTypes
  <2>2. /\ Len(Append(shapes, layout)) = (f - 1) + 1
        /\ Append(shapes, layout)[(f - 1) + 1] = layout
        /\ \A g \in 1..(f - 1) : Append(shapes, layout)[g] = shapes[g]
    BY <1>7, <2>1, AppendProperties
  <2>3. (f - 1) + 1 = f
    BY <1>7
  <2> QED
    BY <1>1, <2>2, <2>3
<1>9. /\ Len(lastPlaces') = f /\ lastPlaces'[f] = old + n
      /\ \A g \in 1..(f - 1) : lastPlaces'[g] = lastPlaces[g]
  <2>1. PICK m \in Nat : m = old + n
    BY <1>5
  <2>2. lastPlaces \in Seq(Nat) /\ lastPlaces' = Append(lastPlaces, m)
    BY <1>2, <1>4, <2>1 DEF Sending, PTypes, TypeOK
  <2>3. /\ Len(Append(lastPlaces, m)) = (f - 1) + 1
        /\ Append(lastPlaces, m)[(f - 1) + 1] = m
        /\ \A g \in 1..(f - 1) : Append(lastPlaces, m)[g] = lastPlaces[g]
    BY <1>7, <2>2, AppendProperties
  <2>4. (f - 1) + 1 = f
    BY <1>7
  <2> QED
    BY <2>1, <2>2, <2>3, <2>4
<1>10. QueuedBehind(old, n, pieces)
  <2>1. /\ Numbered(n, pieces) \in Seq([seq : 1..(old + n), cells : Seq(Cells)])
        /\ Len(Numbered(n, pieces)) = n
        /\ \A k \in 1..n : Numbered(n, pieces)[k] = [seq |-> old + k, cells |-> pieces[k]]
    BY <1>3, <1>4 DEF Pieced
  <2>2. PICK more : more = Numbered(n, pieces)
    OBVIOUS
  <2>3. queue' = queue \o more
    BY <1>2, <2>2 DEF Sending
  <2>4. sentCount \in Nat /\ sentCount' \in Nat /\ sentCount <= sentCount' /\ n \in Nat
    BY <1>4, <1>5, <1>6
  <2>5. more \in Seq([seq : 1..sentCount', cells : Seq(Cells)]) /\ Len(more) = n
    BY <1>6, <2>1, <2>2
  <2>6. PICK m \in Nat :
           /\ m = Len(queue) /\ Len(queue') = m + n
           /\ \A j \in 1..m : queue'[j] = queue[j] /\ queue[j].seq \in 1..sentCount
           /\ \A k \in 1..n : queue'[m + k] = more[k]
    BY <2>3, <2>4, <2>5, QueueGrows
  <2> QED
    BY <1>4, <2>1, <2>2, <2>6, ZenonT(40) DEF QueuedBehind
<1>11. SentBehind(layout, old, n, f)
  BY <1>1, <1>4, <1>5, <1>6, <1>7, <1>8, <1>9 DEF SentBehind
<1> QED
  BY <1>3, <1>10, <1>11

(* The first packets of the pictures: that of the new one is new. *)
LEMMA FirstPlaces ==
    ASSUME PTypes, NEW b, Placed(b), NEW layout, NEW old, NEW n, NEW f,
           SentBehind(layout, old, n, f)
    PROVE  /\ FirstPlace(f)' = old + 1
           /\ \A g \in 1..(f - 1) : FirstPlace(g)' = FirstPlace(g)
<1>1. /\ old \in Nat /\ f \in Nat \ {0} /\ sentCount = old /\ Len(shapes) = f - 1
      /\ \A g \in 1..(f - 1) : lastPlaces'[g] = lastPlaces[g]
  BY DEF SentBehind
<1>2. FirstPlace(f)' = old + 1
  <2>1. CASE f = 1
    <3>1. Len(lastPlaces) = 0 /\ lastPlaces \in Seq(Nat)
      BY <1>1, <2>1 DEF Placed, PTypes, TypeOK
    <3>2. lastPlaces = <<>>
      BY <3>1, EmptySeq
    <3>3. old = 0
      BY <1>1, <3>2 DEF sentCount
    <3> QED
      BY <2>1, <3>3 DEF FirstPlace
  <2>2. CASE f # 1
    <3>1. PICK g \in 1..Len(shapes) : g = f - 1 /\ g = Len(shapes)
      BY <1>1, <2>2
    <3>2. lastPlaces[g] = old
      BY <1>1, <3>1, LastPlaces
    <3>3. lastPlaces'[f - 1] = old
      BY <1>1, <3>1, <3>2
    <3> QED
      BY <2>2, <3>3 DEF FirstPlace
  <2> QED
    BY <2>1, <2>2
<1>3. ASSUME NEW g \in 1..(f - 1) PROVE FirstPlace(g)' = FirstPlace(g)
  <2>1. g # 1 => g - 1 \in 1..(f - 1)
    BY <1>1
  <2> QED
    BY <1>1, <2>1 DEF FirstPlace
<1> QED
  BY <1>2, <1>3

(* A packet that was sent before keeps its place. *)
LEMMA OldPlaceOk ==
    ASSUME PTypes, NEW b, Placed(b), NEW B, NEW layout, NEW old, NEW n, NEW f,
           SentBehind(layout, old, n, f), \A q \in 1..old : B[q] = b[q],
           NEW q \in 1..old
    PROVE  PlaceOk(B, q)'
<1>1. PICK g : g = b[q].pic
  OBVIOUS
<1>2. /\ old \in Nat /\ f \in Nat \ {0} /\ sentCount = old
      /\ f = Len(shapes) + 1 /\ Len(shapes') = f
      /\ \A i \in 1..(f - 1) : shapes'[i] = shapes[i]
      /\ \A i \in 1..(f - 1) : lastPlaces'[i] = lastPlaces[i]
  BY DEF SentBehind
<1>3. PlaceOk(b, q) /\ g \in 1..Len(shapes)
  BY <1>1, <1>2, PlaceFacts
<1>4. /\ g \in 1..(f - 1) /\ g \in 1..f /\ shapes'[g] = shapes[g] /\ lastPlaces'[g] = lastPlaces[g]
      /\ FirstPlace(g)' = FirstPlace(g)
  <2>1. g \in 1..(f - 1) /\ g \in 1..f
    BY <1>2, <1>3
  <2> QED
    BY <1>2, <2>1, FirstPlaces
<1>5. B[q] = b[q]
  OBVIOUS
<1>6. q # lastPlaces[g] => B[q + 1] = b[q + 1]
  <2>1. PICK l \in Nat : l = lastPlaces[g] /\ l <= old
    BY <1>2, <1>3, LastPlaces
  <2>2. q \in FirstPlace(g)..l
    BY <1>1, <1>3, <2>1 DEF PlaceOk
  <2>3. FirstPlace(g) \in Nat
    BY <1>3, LastPlaces
  <2>4. q # l => q + 1 \in 1..old
    BY <1>2, <2>1, <2>2, <2>3
  <2> QED
    BY <2>1, <2>4
<1>7. /\ b[q].from \in 1..Len(FrameCells(g, shapes[g]))
      /\ PieceOk(FrameCells(g, shapes[g]), At(g, shapes[g], 1), b[q].from, b[q].size)
      /\ q \in FirstPlace(g)..lastPlaces[g]
      /\ IF q = lastPlaces[g] THEN b[q].from + b[q].size = Len(FrameCells(g, shapes[g])) + 1
         ELSE b[q + 1].pic = g /\ b[q + 1].from = b[q].from + b[q].size
  BY <1>1, <1>3 DEF PlaceOk
<1>8. B[q].pic = g /\ g \in 1..Len(shapes')
  BY <1>1, <1>2, <1>4, <1>5
<1> QED
  BY <1>4, <1>5, <1>6, <1>7, <1>8 DEF PlaceOk

(* A packet of the new picture has its place. *)
LEMMA NewPlaceOk ==
    ASSUME PTypes, NEW b, Placed(b), NEW B, NEW layout \in Layouts, NEW old, NEW n, NEW f, NEW e,
           NEW pieces, SentBehind(layout, old, n, f),
           PackedAs(FrameCells(f, layout), At(f, layout, 1), n, e, pieces),
           \A k \in 1..n : B[old + k] = [pic |-> f, from |-> e[k - 1] + 1,
                                         size |-> e[k] - e[k - 1]],
           NEW k \in 1..n
    PROVE  PlaceOk(B, old + k)'
<1> DEFINE c == FrameCells(f, layout)
<1>1. /\ old \in Nat /\ n \in Nat \ {0} /\ f \in Nat \ {0}
      /\ Len(shapes') = f /\ shapes'[f] = layout /\ lastPlaces'[f] = old + n
      /\ FirstPlace(f)' = old + 1
  <2>1. FirstPlace(f)' = old + 1
    BY FirstPlaces
  <2> QED
    BY <2>1 DEF SentBehind
<1>2. PICK top \in Nat : top = Len(c)
  BY DEF PackedAs
<1>3. /\ e \in [0..n -> 0..top] /\ e[n] = top /\ e[k - 1] < e[k]
      /\ PieceOk(c, At(f, layout, 1), e[k - 1] + 1, e[k] - e[k - 1])
  BY <1>2 DEF PackedAs
<1>4. B[old + k] = [pic |-> f, from |-> e[k - 1] + 1, size |-> e[k] - e[k - 1]]
  OBVIOUS
<1>5. PICK place : place = B[old + k]
  OBVIOUS
<1>6. place.pic = f /\ place.from = e[k - 1] + 1 /\ place.size = e[k] - e[k - 1]
  BY <1>4, <1>5
<1>7. PICK x \in 0..top, y \in 0..top : x = e[k - 1] /\ y = e[k] /\ x < y
  <2>1. k \in 0..n /\ k - 1 \in 0..n
    BY <1>1
  <2> QED
    BY <1>3, <2>1
<1>8. x + 1 \in 1..top /\ (x + 1) + (y - x) = y + 1
  BY <1>7
<1>9. place.from \in 1..Len(c) /\ place.from + place.size = y + 1
  BY <1>2, <1>6, <1>7, <1>8
<1>10. old + k \in (old + 1)..(old + n) /\ (old + k = old + n => k = n)
  BY <1>1
<1>11. CASE k = n
  <2>1. y = top
    BY <1>3, <1>7, <1>11
  <2>2. place.from + place.size = Len(c) + 1
    BY <1>2, <1>9, <2>1
  <2>3. f \in 1..Len(shapes')
    BY <1>1
  <2> HIDE DEF c
  <2>4. PieceOk(c, At(f, layout, 1), place.from, place.size)
    BY <1>3, <1>6
  <2> QED
    BY <1>1, <1>5, <1>6, <1>9, <1>10, <1>11, <2>2, <2>3, <2>4 DEF PlaceOk, c
<1>12. CASE k # n
  <2>1. PICK i \in 1..n : i = k + 1 /\ i - 1 = k /\ old + i = (old + k) + 1
    BY <1>1, <1>12
  <2>2. B[(old + k) + 1] = [pic |-> f, from |-> e[k] + 1, size |-> e[i] - e[k]]
    BY <2>1
  <2>3. B[(old + k) + 1].pic = f /\ B[(old + k) + 1].from = place.from + place.size
    BY <1>7, <1>9, <2>2
  <2>4. f \in 1..Len(shapes')
    BY <1>1
  <2> HIDE DEF c
  <2>5. PieceOk(c, At(f, layout, 1), place.from, place.size)
    BY <1>3, <1>6
  <2> QED
    BY <1>1, <1>5, <1>6, <1>9, <1>10, <1>12, <2>3, <2>4, <2>5 DEF PlaceOk, c
<1> QED
  BY <1>11, <1>12

(* So all packets have one. *)
LEMMA PlacesSent ==
    ASSUME PTypes, NEW b, Placed(b), NEW B, NEW layout \in Layouts, NEW old, NEW n, NEW f, NEW e,
           NEW pieces, SentBehind(layout, old, n, f),
           PackedAs(FrameCells(f, layout), At(f, layout, 1), n, e, pieces),
           \A q \in 1..old : B[q] = b[q],
           \A k \in 1..n : B[old + k] = [pic |-> f, from |-> e[k - 1] + 1, size |-> e[k] - e[k - 1]]
    PROVE  Placed(B)'
<1>1. /\ old \in Nat /\ n \in Nat \ {0} /\ f \in Nat \ {0} /\ sentCount = old
      /\ sentCount' = old + n /\ f = Len(shapes) + 1 /\ Len(shapes') = f
      /\ Len(lastPlaces') = f /\ lastPlaces'[f] = old + n
      /\ \A g \in 1..(f - 1) : lastPlaces'[g] = lastPlaces[g]
  BY DEF SentBehind
<1>2. FirstPlace(f)' = old + 1 /\ \A g \in 1..(f - 1) : FirstPlace(g)' = FirstPlace(g)
  BY FirstPlaces
<1>3. ASSUME NEW q \in 1..sentCount' PROVE PlaceOk(B, q)'
  <2>1. CASE q <= old
    <3>1. q \in 1..old
      BY <1>1, <2>1
    <3> QED
      BY <3>1, OldPlaceOk
  <2>2. CASE ~(q <= old)
    <3>1. PICK k \in 1..n : q = old + k
      <4>1. q - old \in 1..n /\ q = old + (q - old)
        BY <1>1, <2>2
      <4> QED
        BY <4>1
    <3>2. PlaceOk(B, old + k)'
      BY NewPlaceOk
    <3> QED
      BY <3>1, <3>2
  <2> QED
    BY <2>1, <2>2
<1>4. ASSUME NEW g \in 1..(f - 1)
      PROVE  /\ FirstPlace(g)' \in 1..lastPlaces'[g] /\ lastPlaces'[g] <= sentCount'
             /\ B[FirstPlace(g)'].pic = g /\ B[FirstPlace(g)'].from = 1
             /\ B[lastPlaces'[g]].pic = g
  <2>1. g \in 1..Len(shapes)
    BY <1>1
  <2>2. /\ FirstPlace(g) \in Nat \ {0} /\ lastPlaces[g] \in Nat /\ FirstPlace(g) <= lastPlaces[g]
        /\ lastPlaces[g] <= old
    BY <1>1, <2>1, LastPlaces
  <2>3. /\ FirstPlace(g) \in 1..lastPlaces[g] /\ b[FirstPlace(g)].pic = g
        /\ b[FirstPlace(g)].from = 1 /\ b[lastPlaces[g]].pic = g
    BY <2>1 DEF Placed
  <2>4. FirstPlace(g) \in 1..old /\ lastPlaces[g] \in 1..old /\ lastPlaces[g] <= old + n
    BY <1>1, <2>2
  <2> QED
    BY <1>1, <1>2, <2>3, <2>4
<1>5. /\ FirstPlace(f)' \in 1..lastPlaces'[f] /\ lastPlaces'[f] <= sentCount'
      /\ B[FirstPlace(f)'].pic = f /\ B[FirstPlace(f)'].from = 1
      /\ B[lastPlaces'[f]].pic = f
  <2>1. 1 \in 1..n /\ n \in 1..n /\ old + 1 \in 1..(old + n) /\ 1 - 1 = 0
    BY <1>1
  <2>2. e[0] = 0
    BY DEF PackedAs
  <2>3. B[old + 1].pic = f /\ B[old + 1].from = 1 /\ B[old + n].pic = f
    <3>1. /\ B[old + 1] = [pic |-> f, from |-> e[1 - 1] + 1, size |-> e[1] - e[1 - 1]]
          /\ B[old + n] = [pic |-> f, from |-> e[n - 1] + 1, size |-> e[n] - e[n - 1]]
      BY <2>1, Zenon
    <3>2. e[1 - 1] + 1 = 1
      BY <2>2
    <3> QED
      BY <3>1, <3>2
  <2> QED
    BY <1>1, <1>2, <2>1, <2>3
<1>6. \A g \in 1..Len(shapes') : g = f \/ g \in 1..(f - 1)
  BY <1>1
<1>7. \A g \in 1..Len(shapes') :
          /\ FirstPlace(g)' \in 1..lastPlaces'[g] /\ lastPlaces'[g] <= sentCount'
          /\ B[FirstPlace(g)'].pic = g /\ B[FirstPlace(g)'].from = 1
          /\ B[lastPlaces'[g]].pic = g
  BY <1>4, <1>5, <1>6
<1> QED
  BY <1>1, <1>3, <1>7 DEF Placed

(* The datagrams on their way are as sent. *)
LEMMA CellsSent ==
    ASSUME PTypes, NEW b, Placed(b), Carried(b), NEW B, NEW layout \in Layouts, NEW old, NEW n,
           NEW f, NEW e, NEW pieces, SentBehind(layout, old, n, f), QueuedBehind(old, n, pieces),
           PackedAs(FrameCells(f, layout), At(f, layout, 1), n, e, pieces),
           \A q \in 1..old : B[q] = b[q],
           \A k \in 1..n : B[old + k] = [pic |-> f, from |-> e[k - 1] + 1, size |-> e[k] - e[k - 1]]
    PROVE  Carried(B)'
<1>1. /\ old \in Nat /\ n \in Nat \ {0} /\ sentCount = old /\ f = Len(shapes) + 1
      /\ shapes'[f] = layout /\ \A g \in 1..(f - 1) : shapes'[g] = shapes[g]
  BY DEF SentBehind
<1>2. PICK m \in Nat :
         /\ m = Len(queue) /\ Len(queue') = m + n
         /\ \A j \in 1..m : queue'[j] = queue[j] /\ queue[j].seq \in 1..old
         /\ \A k \in 1..n : queue'[m + k] = [seq |-> old + k, cells |-> pieces[k]]
  BY DEF QueuedBehind
<1>3. ASSUME NEW j \in 1..m PROVE Carries(queue[j].cells, B[queue[j].seq])'
  <2>1. PICK r \in 1..old : r = queue[j].seq /\ queue'[j] = queue[j]
    BY <1>2
  <2>2. PICK place : place = b[r] /\ place = B[r]
    OBVIOUS
  <2>3. Carries(queue[j].cells, place)
    BY <1>2, <2>1, <2>2 DEF Carried
  <2>4. place.pic \in 1..(f - 1)
    <3>1. place.pic \in 1..Len(shapes) /\ Len(shapes) \in Nat
      BY <1>1, <2>2, PlaceFacts
    <3> QED
      BY <1>1, <3>1
  <2>5. shapes'[place.pic] = shapes[place.pic]
    BY <1>1, <2>4
  <2>6. Carries(queue[j].cells, place)'
    BY <2>1, <2>3, <2>5 DEF Carries
  <2> QED
    BY <2>1, <2>2, <2>6
<1>4. ASSUME NEW k \in 1..n PROVE Carries(queue[m + k].cells, B[queue[m + k].seq])'
  <2>1. queue'[m + k].seq = old + k /\ queue'[m + k].cells = pieces[k]
    <3>1. queue'[m + k] = [seq |-> old + k, cells |-> pieces[k]]
      BY <1>2, Zenon
    <3> QED
      BY <3>1
  <2>2. PICK place : place = B[old + k]
    OBVIOUS
  <2>3. place.pic = f /\ place.from = e[k - 1] + 1 /\ place.size = e[k] - e[k - 1]
    <3>1. place = [pic |-> f, from |-> e[k - 1] + 1, size |-> e[k] - e[k - 1]]
      BY <2>2, Zenon
    <3> QED
      BY <3>1
  <2>4. PICK top \in Nat : top = Len(FrameCells(f, layout)) /\ e \in [0..n -> 0..top]
    BY DEF PackedAs
  <2>5. PICK x \in Nat, y \in Nat : x = e[k - 1] /\ y = e[k]
    <3>1. k \in 0..n /\ k - 1 \in 0..n
      BY <1>1
    <3> QED
      BY <2>4, <3>1
  <2>6. Len(pieces[k]) = y - x /\ \A j \in 1..(y - x) : pieces[k][j] = FrameCells(f, layout)[x + j]
    BY <2>5 DEF PackedAs
  <2>7. \A j \in 1..(y - x) : place.from + j - 1 = x + j
    BY <2>3, <2>5
  <2> QED
    BY <1>1, <2>1, <2>2, <2>3, <2>5, <2>6, <2>7, SMTT(40) DEF Carries
<1>5. \A j \in 1..(m + n) : j \in 1..m \/ \E k \in 1..n : j = m + k
  <2>1. ASSUME NEW j \in 1..(m + n), j \notin 1..m PROVE \E k \in 1..n : j = m + k
    <3>1. j - m \in 1..n /\ j = m + (j - m)
      BY <1>1, <2>1
    <3> QED
      BY <3>1
  <2> QED
    BY <2>1
<1>6. ASSUME NEW j \in 1..(m + n) PROVE Carries(queue[j].cells, B[queue[j].seq])'
  BY <1>3, <1>4, <1>5
<1> QED
  BY <1>2, <1>6 DEF Carried

(* The parser is where it was: the new packets are not parsed yet. *)
LEMMA FollowsSent ==
    ASSUME UTypes, NEW b, Placed(b), Follows(b), NEW B, NEW layout \in Layouts, SendFrame(layout),
           NEW old, NEW n, NEW f, SentBehind(layout, old, n, f),
           \A q \in 1..old : B[q] = b[q], accepted' = accepted
    PROVE  Follows(B)'
<1>1. /\ old \in Nat /\ n \in Nat \ {0} /\ f \in Nat \ {0} /\ sentCount = old
      /\ sentCount' = old + n /\ f = Len(shapes) + 1 /\ Len(shapes') = f
  BY DEF SentBehind
<1>2. /\ PTypes /\ accepted \in Seq(1..old) /\ accepted' = accepted
  BY <1>1 DEF UTypes, UdpTypeOK
<1>3. pc' = pc /\ len' = len
  BY DEF SendFrame, parser
<1>4. FirstPlace(f)' = old + 1 /\ \A g \in 1..(f - 1) : FirstPlace(g)' = FirstPlace(g)
  BY <1>2, FirstPlaces
<1>5. ASSUME NEW F \in 1..f, NEW p \in Nat \ {0}, NEW q \in p..(old + n), p = FirstPlace(F)',
             EndsWith(accepted, p, q)
      PROVE  InPlace(B, F, q)'
  <2>1. q \in Nat /\ p <= q /\ q \in 1..old
    <3>1. q \in Nat /\ p <= q
      BY <1>1
    <3>2. accepted[Len(accepted)] = q /\ Len(accepted) \in 1..Len(accepted)
      BY <1>2, <1>5, <3>1, RowLast
    <3>3. q \in 1..old
      BY <1>2, <3>2, ElementOfSeq
    <3> QED
      BY <3>1, <3>3
  <2>2. F \in 1..(f - 1) /\ F \in 1..Len(shapes) /\ F \in Nat
    <3>1. F # f
      BY <1>1, <1>4, <1>5, <2>1
    <3> QED
      BY <1>1, <3>1
  <2>3. p = FirstPlace(F)
    BY <1>4, <1>5, <2>2
  <2>4. InPlace(b, F, q)
    <3>1. q \in FirstPlace(F)..sentCount
      BY <1>1, <2>1, <2>3
    <3> QED
      BY <1>5, <2>2, <2>3, <3>1 DEF Follows
  <2>5. PICK g \in 1..Len(shapes) : g = b[q].pic
    BY <1>1, <1>2, <2>1, PlaceFacts
  <2>6. PICK a : a = b[q].from
    OBVIOUS
  <2>7. B[q] = b[q]
    BY <2>1
  <2>8. /\ \A x : Holds(g, x) => Holds(g, x)'
        /\ \A x : Parsed(g, x, F) => Parsed(g, x, F)'
        /\ \A x : Busy(g, x, F) => Busy(g, x, F)'
    BY <1>2, <2>2, PlaceStays
  <2>9. CASE pc = "idle" /\ Parsed(g, a + b[q].size, F)
    <3>1. PICK x : x = a + b[q].size
      OBVIOUS
    <3>2. Parsed(g, x, F)'
      BY <2>8, <2>9, <3>1
    <3> QED
      BY <1>3, <2>5, <2>6, <2>7, <2>9, <3>1, <3>2 DEF InPlace
  <2>10. CASE /\ pc # "idle" /\ len = b[q].size
              /\ Holds(g, a) /\ Busy(g, a, F)
    <3>1. Holds(g, a)' /\ Busy(g, a, F)'
      BY <2>8, <2>10
    <3> QED
      BY <1>3, <2>5, <2>6, <2>7, <2>10, <3>1 DEF InPlace
  <2> QED
    BY <2>4, <2>5, <2>6, <2>9, <2>10 DEF InPlace
<1>6. ASSUME NEW F \in 1..f PROVE FirstPlace(F)' \in Nat \ {0}
  <2>1. CASE F = f
    BY <1>1, <1>4, <2>1
  <2>2. CASE F # f
    <3>1. F \in 1..(f - 1) /\ F \in 1..Len(shapes)
      BY <1>1, <2>2
    <3>2. FirstPlace(F) \in Nat \ {0}
      BY <1>2, <3>1, LastPlaces
    <3> QED
      BY <1>4, <3>1, <3>2
  <2> QED
    BY <2>1, <2>2
<1>7. ASSUME NEW F \in 1..f, NEW q \in (FirstPlace(F)')..(old + n),
             EndsWith(accepted, FirstPlace(F)', q)
      PROVE  InPlace(B, F, q)'
  BY <1>5, <1>6, <1>7
<1> QED
  BY <1>1, <1>2, <1>7 DEF Follows

(* Nor is a row of packets that ends with one of them. *)
LEMMA PastStays ==
    ASSUME UTypes, PastShown, NEW b, Placed(b), NEW layout \in Layouts, SendFrame(layout),
           NEW old, NEW n, NEW f, SentBehind(layout, old, n, f), accepted' = accepted
    PROVE  PastShown'
<1>1. /\ old \in Nat /\ n \in Nat \ {0} /\ f \in Nat \ {0} /\ sentCount = old
      /\ f = Len(shapes) + 1 /\ Len(shapes') = f /\ lastPlaces'[f] = old + n
      /\ \A g \in 1..(f - 1) : shapes'[g] = shapes[g]
      /\ \A g \in 1..(f - 1) : lastPlaces'[g] = lastPlaces[g]
  BY DEF SentBehind
<1>2. /\ PTypes /\ accepted \in Seq(1..old) /\ accepted' = accepted /\ decoded' = decoded
  BY <1>1 DEF UTypes, UdpTypeOK, SendFrame, output
<1>3. \A g \in 1..(f - 1) : FirstPlace(g)' = FirstPlace(g)
  BY <1>2, FirstPlaces
<1>4. ASSUME NEW F \in 1..(f - 1), NEW i \in 1..Len(accepted),
             RowAt(accepted, FirstPlace(F), lastPlaces'[F + 1], i),
             i + lastPlaces'[F + 1] - FirstPlace(F) < Len(accepted)
      PROVE  Shown(decoded, VideoAll(F, shapes[F]))
  <2>1. F \in 1..Len(shapes)
    BY <1>1
  <2>2. /\ FirstPlace(F) \in Nat \ {0} /\ FirstPlace(F) <= lastPlaces[F]
        /\ lastPlaces[F] \in Nat /\ lastPlaces[F] <= old
    BY <1>1, <1>2, <2>1, LastPlaces
  <2>3. CASE F + 1 = f
    <3>1. PICK p \in Nat, q \in Nat : p = FirstPlace(F) /\ q = lastPlaces'[F + 1]
                                       /\ p <= q /\ q > old
      BY <1>1, <2>2, <2>3
    <3>2. i + q - p \in 1..Len(accepted) /\ accepted[i + q - p] = q
      BY <1>2, <1>4, <3>1, RowEnd
    <3>3. q \in 1..old
      BY <1>2, <3>2, ElementOfSeq
    <3> QED
      BY <1>1, <3>1, <3>3
  <2>4. CASE F + 1 # f
    <3>1. F + 1 \in 1..(f - 1) /\ F \in 1..(Len(shapes) - 1)
      BY <1>1, <2>4
    <3>2. lastPlaces'[F + 1] = lastPlaces[F + 1]
      BY <1>1, <3>1
    <3> QED
      BY <1>4, <3>1, <3>2 DEF PastShown
  <2> QED
    BY <2>3, <2>4
<1> QED
  BY <1>1, <1>2, <1>3, <1>4 DEF PastShown

(* The camera sends another picture. *)
LEMMA SendHeals ==
    ASSUME ~RunOn, UTypes, NEW layout \in Layouts, SendFrame(layout), UNCHANGED udp, HealInv
    PROVE  HealInv'
<1>1. PICK b : Placed(b) /\ Carried(b) /\ Follows(b)
  BY DEF HealInv
<1>2. PTypes /\ Stale /\ PastShown /\ accepted' = accepted /\ data' = data
  BY DEF UTypes, HealInv, udp, SendFrame, parser
<1>3. PICK old, n, e, f, pieces :
         /\ SentBehind(layout, old, n, f) /\ QueuedBehind(old, n, pieces)
         /\ PackedAs(FrameCells(f, layout), At(f, layout, 1), n, e, pieces)
  <2>1. Len(lastPlaces) = Len(shapes)
    BY <1>1 DEF Placed
  <2> QED
    BY <1>2, <2>1, PictureSent
<1>4. old \in Nat /\ n \in Nat \ {0}
  BY <1>3 DEF SentBehind
<1>5. PICK B :
         /\ \A q \in 1..old : B[q] = b[q]
         /\ \A k \in 1..n : B[old + k] = [pic |-> f, from |-> e[k - 1] + 1,
                                          size |-> e[k] - e[k - 1]]
  <2>1. PICK B : Extended(B, b, old, n, e, f)
    BY <1>4, NewPlaces
  <2> QED
    BY <2>1, Zenon DEF Extended
<1>6. Placed(B)' /\ Carried(B)'
  BY <1>1, <1>2, <1>3, <1>5, PlacesSent, CellsSent
<1>7. Follows(B)'
  BY <1>1, <1>2, <1>3, <1>5, FollowsSent
<1>8. PastShown'
  BY <1>1, <1>2, <1>3, PastStays
<1>9. Stale'
  BY <1>2 DEF Stale
<1> QED
  BY <1>6, <1>7, <1>8, <1>9 DEF HealInv

(* The parser follows the stream in every step. *)
LEMMA HealStep ==
    PrivateLast /\ ~RunOn => (UTypes /\ HealInv /\ [UdpNext]_udpVars => HealInv')
<1> SUFFICES ASSUME PrivateLast, ~RunOn, UTypes, HealInv, [UdpNext]_udpVars
             PROVE  HealInv'
  OBVIOUS
<1>1. ASSUME NEW layout \in Layouts, SendFrame(layout), UNCHANGED udp PROVE HealInv'
  BY <1>1, SendHeals
<1>2. ASSUME NEW i \in DOMAIN queue, Receive(i) PROVE HealInv'
  BY <1>2, ReceiveHeals
<1>3. ASSUME UNCHANGED <<shapes, lastPlaces, parser, source, output, accepted>>,
             \A b : Carried(b) => Carried(b)'
      PROVE  HealInv'
  <2>1. PICK b : Placed(b) /\ Carried(b) /\ Follows(b)
    BY DEF HealInv
  <2>2. Stale' /\ PastShown' /\ Placed(b)' /\ Follows(b)'
    BY <1>3, <2>1, HealStays DEF HealInv
  <2>3. Carried(b)'
    BY <1>3, <2>1
  <2> QED
    BY <2>2, <2>3 DEF HealInv
<1>4. ASSUME NEW i \in DOMAIN queue, Lose(i) PROVE HealInv'
  <2>1. /\ UNCHANGED <<shapes, lastPlaces, parser, source, output, accepted>>
        /\ queue' = RemoveAt(queue, i)
    BY <1>4 DEF Lose, udp
  <2>2. \A b : Carried(b) => Carried(b)'
    BY <2>1, StillCarried
  <2> QED
    BY <1>3, <2>1, <2>2
<1>5. ASSUME NEW i \in DOMAIN queue, Duplicate(i) PROVE HealInv'
  <2>1. /\ UNCHANGED <<shapes, lastPlaces, parser, source, output, accepted>>
        /\ queue' = Append(queue, queue[i])
    BY <1>5 DEF Duplicate
  <2>2. \A b : Carried(b) => Carried(b)'
    BY <2>1, StillCarried
  <2> QED
    BY <1>3, <2>1, <2>2
<1>6. ASSUME Parse, UNCHANGED udp PROVE HealInv'
  BY <1>6, ParseHeals
<1>7. CASE UNCHANGED udpVars
  <2>1. UNCHANGED <<shapes, lastPlaces, queue, parser, source, output, accepted>>
    BY <1>7 DEF udpVars, vars, sender, udp
  <2>2. \A b : Carried(b) => Carried(b)'
    BY <2>1 DEF Carried, Carries
  <2> QED
    BY <1>3, <2>1, <2>2
<1> QED
  BY <1>1, <1>2, <1>4, <1>5, <1>6, <1>7 DEF UdpNext

(* Before anything is sent there is nothing to follow. *)
LEMMA HealInit == UdpInit => HealInv
<1> SUFFICES ASSUME UdpInit PROVE HealInv
  OBVIOUS
<1>1. /\ shapes = <<>> /\ lastPlaces = <<>> /\ queue = <<>> /\ sentCount = 0
      /\ data = [k \in 1..Mtu |-> Nothing]
  BY DEF UdpInit, Init, NewRtpSource, sentCount
<1>2. Len(shapes) = 0 /\ Len(lastPlaces) = 0 /\ Len(queue) = 0
  BY <1>1, EmptySeq
<1>3. Stale
  <2>1. \A j \in 1..Mtu : data[j].kind = "none"
    BY <1>1 DEF Nothing, Cell
  <2> QED
    BY <2>1 DEF Stale, PesKinds, Streams
<1>4. PastShown
  BY <1>2 DEF PastShown
<1>5. PICK b : b = <<>>
  OBVIOUS
<1>6. Placed(b) /\ Carried(b) /\ Follows(b)
  BY <1>1, <1>2 DEF Placed, Carried, Follows
<1> QED
  BY <1>3, <1>4, <1>6 DEF HealInv

(* The statement of the runs. *)
LEMMA FollowingHeals ==
    ASSUME UTypes, HealInv
    PROVE  Healed
<1> SUFFICES ASSUME pc = "idle", NEW f \in 1..(Len(shapes) - 1),
                    ParsedInARow(FirstPlace(f), lastPlaces[f + 1])
             PROVE  \E i \in DOMAIN decoded : decoded[i] = VideoOf(f)
  BY DEF Healed
<1>1. PICK b : Placed(b) /\ Follows(b)
  BY DEF HealInv
<1>2. PTypes /\ PastShown /\ accepted \in Seq(1..sentCount)
  BY DEF UTypes, UdpTypeOK, HealInv
<1>3. Len(shapes) \in Nat
  BY <1>2, ShapeTypes
<1>4. f \in 1..Len(shapes) /\ f # Len(shapes) /\ f + 1 \in 1..Len(shapes)
  BY <1>3
<1>5. PICK p \in Nat, q \in Nat : p = FirstPlace(f) /\ q = lastPlaces[f + 1] /\ p <= q
  <2>1. /\ FirstPlace(f) \in Nat /\ lastPlaces[f] \in Nat /\ FirstPlace(f) <= lastPlaces[f]
        /\ FirstPlace(f + 1) = lastPlaces[f] + 1
    BY <1>1, <1>2, <1>4, LastPlaces
  <2>2. lastPlaces[f + 1] \in Nat /\ FirstPlace(f + 1) <= lastPlaces[f + 1]
    BY <1>1, <1>2, <1>4, LastPlaces
  <2> QED
    BY <2>1, <2>2
<1>6. PICK i \in DOMAIN accepted :
         \A k \in p..q : i + k - p <= Len(accepted) /\ accepted[i + k - p] = k
  BY <1>5 DEF ParsedInARow
<1>7. RowAt(accepted, p, q, i)
  <2>1. i \in 1..Len(accepted)
    BY <1>2, LenProperties
  <2>2. q \in p..q
    BY <1>5
  <2> QED
    BY <1>6, <2>1, <2>2 DEF RowAt
<1>8. i + q - p < Len(accepted) \/ EndsWith(accepted, p, q)
  BY <1>2, <1>5, <1>7, RowEnd
<1>9. Shown(decoded, VideoAll(f, shapes[f]))
  <2>1. CASE i + q - p < Len(accepted)
    <3>1. i \in 1..Len(accepted)
      BY <1>7 DEF RowAt
    <3> QED
      BY <1>2, <1>5, <1>7, <2>1, <3>1 DEF PastShown
  <2>2. CASE EndsWith(accepted, p, q)
    BY <1>1, <1>2, <1>5, <2>2, ShownBehind
  <2> QED
    BY <1>8, <2>1, <2>2
<1>10. VideoOf(f) = VideoAll(f, shapes[f])
  BY DEF VideoOf, VideoAll, VideoParts
<1>11. DOMAIN decoded = 1..Len(decoded)
  BY <1>2, LenProperties DEF PTypes, TypeOK
<1> QED
  BY <1>9, <1>10, <1>11 DEF Shown

(* A parser that came in with the first packet of a picture and was given   *)
(* the next ones in a row follows the stream from there on, whatever was    *)
(* collected before.                                                        *)
THEOREM StreamFollowed == ASSUME PrivateLast, ~RunOn PROVE UdpSpec => []HealInv
<1>1. UdpInit => HealInv
  BY HealInit
<1>2. UTypes /\ HealInv /\ [UdpNext]_udpVars => HealInv'
  BY HealStep
<1> QED
  BY <1>1, <1>2, UdpTypesHold, PTL DEF UdpSpec

(* The stream heals: whatever was lost, mixed up or came twice before, when *)
(* the packets of a picture and of the next one are parsed without a gap,   *)
(* the decoder is given that picture whole (Healed), if private data comes  *)
(* last in a picture and no further video header stands within a packet.    *)
THEOREM StreamHeals == ASSUME PrivateLast, ~RunOn PROVE UdpSpec => []Healed
<1>1. UTypes /\ HealInv => Healed
  BY FollowingHeals
<1> QED
  BY <1>1, StreamFollowed, UdpTypesHold, PTL

=============================================================================
