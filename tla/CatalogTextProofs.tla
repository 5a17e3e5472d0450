--------------------------- MODULE CatalogTextProofs ---------------------------
(***************************************************************************)
(* What the helpers find in a message, for messages of any number of       *)
(* channels, wherever they are damaged.                                    *)
(*                                                                         *)
(* Safe says that wherever the parser gets from a point of its way, it     *)
(* leaves a tree that it may leave (DocOk).  Reads and Yields say what it  *)
(* makes of a part of a message that is whole, Bears that the damage of    *)
(* a part leads to nothing but safe points.  Both go from the single       *)
(* pieces up to the whole body.  What the helpers find is then read off    *)
(* the trees, and the invariant is that the parser is at a safe point.     *)
(***************************************************************************)
EXTENDS CatalogText, SequenceLemmas

-----------------------------------------------------------------------------
(* Sequences of whatever it may be. *)

IsSeq(s) == \E S : s \in Seq(S)

(* A sequence with one element more. *)
LEMMA SeqAppend ==
    ASSUME NEW s, IsSeq(s), NEW x
    PROVE  /\ IsSeq(Append(s, x))
           /\ Len(s) \in Nat /\ Len(Append(s, x)) = Len(s) + 1
           /\ Append(s, x)[Len(s) + 1] = x
           /\ \A i \in 1..Len(s) : Append(s, x)[i] = s[i]
           /\ Append(s, x) # <<>> /\ Last(Append(s, x)) = x /\ Front(Append(s, x)) = s
<1>1. PICK S : s \in Seq(S)
  BY DEF IsSeq
<1>2. PICK T : T = S \cup {x}
  OBVIOUS
<1>3. s \in Seq(T) /\ x \in T
  <2>1. \A i \in 1..Len(s) : s[i] \in T
    BY <1>1, <1>2
  <2> QED
    BY <1>1, <1>2, <2>1
<1>4. Append(s, x) \in Seq(T)
  BY <1>3
<1>5. /\ Len(s) \in Nat /\ Len(Append(s, x)) = Len(s) + 1
      /\ Append(s, x)[Len(s) + 1] = x
      /\ \A i \in 1..Len(s) : Append(s, x)[i] = s[i]
  BY <1>3
<1>6. Append(s, x) # <<>> /\ Last(Append(s, x)) = x
  BY <1>5 DEF Last
<1>7. Front(Append(s, x)) = s
  <2>1. Front(Append(s, x)) = SubSeq(Append(s, x), 1, Len(s))
    BY <1>5 DEF Front
  <2>2. Len(SubSeq(Append(s, x), 1, Len(s))) = Len(s)
    BY <1>4, <1>5
  <2>3. \A i \in 1..Len(s) : SubSeq(Append(s, x), 1, Len(s))[i] = s[i]
    BY <1>4, <1>5
  <2>4. SubSeq(Append(s, x), 1, Len(s)) \in Seq(T)
    BY <1>4, <1>5
  <2> QED
    BY <1>3, <2>1, <2>2, <2>3, <2>4, SeqEqual
<1> QED
  BY <1>4, <1>5, <1>6, <1>7 DEF IsSeq

(* Nothing is a sequence. *)
LEMMA SeqNone == IsSeq(<<>>)
<1>1. <<>> \in Seq({})
  OBVIOUS
<1> QED
  BY <1>1 DEF IsSeq

(* Two sequences one behind the other. *)
LEMMA SeqConcat ==
    ASSUME NEW p, NEW q, IsSeq(p), IsSeq(q)
    PROVE  /\ IsSeq(p \o q) /\ Len(p) \in Nat /\ Len(q) \in Nat
           /\ Len(p \o q) = Len(p) + Len(q)
           /\ \A i \in 1..Len(p) : (p \o q)[i] = p[i]
           /\ \A i \in 1..Len(q) : (p \o q)[Len(p) + i] = q[i]
<1>1. PICK S : p \in Seq(S)
  BY DEF IsSeq
<1>2. PICK T : q \in Seq(T)
  BY DEF IsSeq
<1>3. PICK U : U = S \cup T
  OBVIOUS
<1>4. p \in Seq(U) /\ q \in Seq(U)
  <2>1. (\A i \in 1..Len(p) : p[i] \in U) /\ (\A i \in 1..Len(q) : q[i] \in U)
    BY <1>1, <1>2, <1>3
  <2> QED
    BY <1>1, <1>2, <2>1
<1>5. p \o q \in Seq(U)
  BY <1>4
<1> QED
  BY <1>4, <1>5 DEF IsSeq

-----------------------------------------------------------------------------
(* Elements picked out of a sequence. *)

(* What is picked of a sequence with one element more. *)
LEMMA PickedAppend ==
    ASSUME NEW s, IsSeq(s), NEW x, NEW places, NEW more,
           \A i \in 1..Len(s) : i \in places <=> i \in more
    PROVE  /\ IsSeq(Picked(s, places))
           /\ Picked(Append(s, x), more) =
                 IF Len(s) + 1 \in more THEN Append(Picked(s, places), x)
                 ELSE Picked(s, places)
<1>1. PICK T : s \in Seq(T)
  BY DEF IsSeq
<1>2. PICK S : S = T \cup {x}
  OBVIOUS
<1>3. s \in Seq(S) /\ x \in S
  <2>1. \A i \in 1..Len(s) : s[i] \in S
    BY <1>1, <1>2
  <2> QED
    BY <1>1, <1>2, <2>1
<1>4. PICK n \in Nat : n = Len(s)
  BY <1>3
<1> DEFINE Parts == [i \in 1..n |-> IF i \in places THEN <<s[i]>> ELSE <<>>]
           one == IF n + 1 \in more THEN <<x>> ELSE <<>>
           all == [i \in 1..(n + 1) |-> IF i \in more THEN <<Append(s, x)[i]>> ELSE <<>>]
<1>5. Parts \in Seq(Seq(S)) /\ Len(Parts) = n /\ one \in Seq(S)
  BY <1>3, <1>4
<1>6. all = Append(Parts, one)
  <2>1. /\ Append(Parts, one) \in Seq(Seq(S)) /\ Len(Append(Parts, one)) = n + 1
        /\ Append(Parts, one)[n + 1] = one
        /\ \A i \in 1..n : Append(Parts, one)[i] = Parts[i]
    <3> HIDE DEF Parts, one
    <3> QED
      BY <1>4, <1>5, AppendProperties
  <2>2. all \in Seq(Seq(S)) /\ Len(all) = n + 1
    <3>1. \A i \in 1..(n + 1) : Append(s, x)[i] \in S
      BY <1>3, <1>4
    <3>2. ASSUME NEW i \in 1..(n + 1) PROVE all[i] \in Seq(S)
      <4>1. PICK y \in S : y = Append(s, x)[i]
        BY <3>1
      <4>2. all[i] = IF i \in more THEN <<y>> ELSE <<>>
        BY <4>1
      <4> HIDE DEF all
      <4>3. <<y>> \in Seq(S) /\ <<>> \in Seq(S)
        OBVIOUS
      <4> QED
        BY <4>2, <4>3
    <3>3. all = [i \in 1..(n + 1) |-> all[i]]
      OBVIOUS
    <3> HIDE DEF all
    <3> QED
      BY <3>2, <3>3
  <2>3. \A i \in 1..n : all[i] = Parts[i]
    BY <1>3, <1>4
  <2>4. all[n + 1] = one
    BY <1>3, <1>4
  <2> HIDE DEF Parts, one, all
  <2>5. \A i \in 1..(n + 1) : all[i] = Append(Parts, one)[i]
    <3> TAKE i \in 1..(n + 1)
    <3>1. i \in 1..n \/ i = n + 1
      OBVIOUS
    <3> QED
      BY <2>1, <2>3, <2>4, <3>1
  <2> QED
    BY <2>1, <2>2, <2>5, SeqEqual
<1>7. Picked(s, places) = FlattenSeq(Parts)
  BY <1>3, <1>4 DEF Picked
<1>8. Picked(Append(s, x), more) = FlattenSeq(all)
  <2>1. DOMAIN Append(s, x) = 1..(n + 1)
    BY <1>3, <1>4
  <2> QED
    BY <2>1 DEF Picked
<1> HIDE DEF Parts, all, one
<1>9. FlattenSeq(Parts) \in Seq(S) /\ FlattenSeq(Append(Parts, one)) = FlattenSeq(Parts) \o one
  BY <1>5, FlattenAppend
<1>10. CASE n + 1 \in more
  <2>1. one = <<x>>
    BY <1>10 DEF one
  <2>2. FlattenSeq(Parts) \o one = Append(FlattenSeq(Parts), x)
    BY <1>3, <1>9, <2>1
  <2> QED
    BY <1>4, <1>6, <1>7, <1>8, <1>9, <1>10, <2>2 DEF IsSeq
<1>11. CASE n + 1 \notin more
  <2>1. one = <<>>
    BY <1>11 DEF one
  <2>2. FlattenSeq(Parts) \o one = FlattenSeq(Parts)
    BY <1>9, <2>1
  <2> QED
    BY <1>4, <1>6, <1>7, <1>8, <1>9, <1>11, <2>2 DEF IsSeq
<1> QED
  BY <1>10, <1>11

(* Nothing is picked of nothing. *)
LEMMA PickedNone == ASSUME NEW places PROVE Picked(<<>>, places) = <<>>
<1>1. [i \in DOMAIN <<>> |-> IF i \in places THEN <<<<>>[i]>> ELSE <<>>] = <<>>
  OBVIOUS
<1> QED
  BY <1>1, FlattenNone DEF Picked

(* Where every place is picked, all is.                                     *)
LEMMA PickedAll ==
    ASSUME NEW s, IsSeq(s), NEW places, 1..Len(s) \subseteq places
    PROVE  Picked(s, places) = s
<1>1. PICK S : s \in Seq(S)
  BY DEF IsSeq
<1>2. PICK n \in Nat : n = Len(s)
  BY <1>1
<1> DEFINE Bad(m) == Picked(SubSeq(s, 1, m), places) # SubSeq(s, 1, m)
           T == {m \in 0..n : Bad(m)}
<1>3. ASSUME T # {} PROVE FALSE
  <2>1. T \subseteq Nat
    OBVIOUS
  <2>2. PICK m \in T : \A y \in T : m <= y
    <3> HIDE DEF T
    <3> QED
      BY <1>3, <2>1, LeastNumber
  <2>3. m \in 0..n /\ Bad(m)
    OBVIOUS
  <2>4. m # 0
    <3>1. SubSeq(s, 1, 0) = <<>>
      BY <1>1
    <3> QED
      BY <2>3, <3>1, PickedNone
  <2>5. m - 1 \in 0..n /\ m - 1 \notin T
    BY <2>2, <2>3, <2>4
  <2>6. Picked(SubSeq(s, 1, m - 1), places) = SubSeq(s, 1, m - 1)
    BY <2>5
  <2>7. m \in 1..Len(s)
    BY <1>2, <2>3, <2>4
  <2>8. PICK u : u = SubSeq(s, 1, m - 1)
    OBVIOUS
  <2>9. u \in Seq(S) /\ SubSeq(s, 1, m) = Append(u, s[m])
    BY <1>1, <2>7, <2>8, OneMore
  <2>10. Len(u) = m - 1
    BY <1>1, <1>2, <2>3, <2>4, <2>8
  <2>11. Len(u) + 1 \in places
    BY <2>7, <2>10
  <2>12. IsSeq(u)
    BY <2>9 DEF IsSeq
  <2>13. Picked(Append(u, s[m]), places) = Append(Picked(u, places), s[m])
    BY <2>11, <2>12, PickedAppend
  <2> QED
    BY <2>3, <2>6, <2>8, <2>9, <2>13
<1>4. n \in 0..n /\ n \notin T
  BY <1>3
<1>5. SubSeq(s, 1, n) = s
  BY <1>1, <1>2
<1> QED
  BY <1>4, <1>5

(* One more of them. *)
LEMMA PickedMore ==
    ASSUME NEW s, IsSeq(s), NEW x, NEW places
    PROVE  Picked(Append(s, x), places) =
              IF Len(s) + 1 \in places THEN Append(Picked(s, places), x) ELSE Picked(s, places)
BY PickedAppend

(* Short sequences grow one by one. *)
LEMMA ShortSeqs ==
    ASSUME NEW a, NEW b, NEW c
    PROVE  /\ Append(<<>>, a) = <<a>> /\ Append(<<a>>, b) = <<a, b>>
           /\ Append(<<a, b>>, c) = <<a, b, c>>
           /\ <<a>> \o <<b>> = <<a, b>> /\ <<a, b>> \o <<c>> = <<a, b, c>>
           /\ IsSeq(<<a>>) /\ IsSeq(<<a, b>>) /\ IsSeq(<<a, b, c>>)
<1>1. PICK S : S = {a, b, c}
  OBVIOUS
<1>2. a \in S /\ b \in S /\ c \in S
  BY <1>1
<1>3. PICK one, other, third, two, three :
         /\ one = <<a>> /\ other = <<b>> /\ third = <<c>> /\ two = <<a, b>> /\ three = <<a, b, c>>
  OBVIOUS
<1>4. /\ one \in Seq(S) /\ other \in Seq(S) /\ third \in Seq(S)
      /\ two \in Seq(S) /\ three \in Seq(S)
  BY <1>2, <1>3
<1>5. /\ Len(one) = 1 /\ one[1] = a /\ Len(other) = 1 /\ other[1] = b
      /\ Len(third) = 1 /\ third[1] = c /\ Len(two) = 2 /\ two[1] = a /\ two[2] = b
      /\ Len(three) = 3 /\ three[1] = a /\ three[2] = b /\ three[3] = c
  BY <1>3
<1>6. Append(<<>>, a) = one
  BY <1>3
<1>7. Append(one, b) = two
  <2>1. /\ Append(one, b) \in Seq(S) /\ Len(Append(one, b)) = 2
        /\ Append(one, b)[1] = a /\ Append(one, b)[2] = b
    <3>1. /\ Append(one, b) \in Seq(S) /\ Len(Append(one, b)) = Len(one) + 1
          /\ Append(one, b)[Len(one) + 1] = b
          /\ \A i \in 1..Len(one) : Append(one, b)[i] = one[i]
      BY <1>2, <1>4, AppendProperties
    <3>2. Len(one) + 1 = 2 /\ 1 \in 1..Len(one)
      BY <1>5
    <3> QED
      BY <1>5, <3>1, <3>2
  <2>2. \A i \in 1..2 : Append(one, b)[i] = two[i]
    BY <1>5, <2>1
  <2> QED
    BY <1>4, <1>5, <2>1, <2>2, SeqEqual
<1>8. Append(two, c) = three
  <2>1. /\ Append(two, c) \in Seq(S) /\ Len(Append(two, c)) = 3
        /\ Append(two, c)[1] = a /\ Append(two, c)[2] = b /\ Append(two, c)[3] = c
    <3>1. /\ Append(two, c) \in Seq(S) /\ Len(Append(two, c)) = Len(two) + 1
          /\ Append(two, c)[Len(two) + 1] = c
          /\ \A i \in 1..Len(two) : Append(two, c)[i] = two[i]
      BY <1>2, <1>4, AppendProperties
    <3>2. Len(two) + 1 = 3 /\ 1 \in 1..Len(two) /\ 2 \in 1..Len(two)
      BY <1>5
    <3> QED
      BY <1>5, <3>1, <3>2
  <2>2. \A i \in 1..3 : Append(two, c)[i] = three[i]
    BY <1>5, <2>1
  <2> QED
    BY <1>4, <1>5, <2>1, <2>2, SeqEqual
<1>9. one \o other = two /\ two \o third = three
  BY <1>2, <1>3, <1>4, <1>7, <1>8, AppendIsConcat
<1> QED
  BY <1>3, <1>4, <1>6, <1>7, <1>8, <1>9 DEF IsSeq

(* What is picked of short sequences. *)
LEMMA PickedShort ==
    ASSUME NEW a, NEW b, NEW c, NEW places
    PROVE  /\ Picked(<<a>>, places) = IF 1 \in places THEN <<a>> ELSE <<>>
           /\ Picked(<<a, b>>, places) =
                 IF 2 \in places THEN Append(Picked(<<a>>, places), b) ELSE Picked(<<a>>, places)
           /\ Picked(<<a, b, c>>, places) =
                 IF 3 \in places THEN Append(Picked(<<a, b>>, places), c)
                 ELSE Picked(<<a, b>>, places)
<1>0. PICK none, one, two : none = <<>> /\ one = <<a>> /\ two = <<a, b>>
  OBVIOUS
<1>1. /\ none = <<>> /\ one = <<a>> /\ two = <<a, b>>
      /\ Len(none) = 0 /\ Len(one) = 1 /\ Len(two) = 2
      /\ 0 + 1 = 1 /\ 1 + 1 = 2 /\ 2 + 1 = 3
  BY <1>0
<1>2. IsSeq(none) /\ IsSeq(one) /\ IsSeq(two)
  BY <1>1, SeqNone, ShortSeqs
<1>3. /\ Picked(Append(none, a), places) =
            IF Len(none) + 1 \in places THEN Append(Picked(none, places), a)
            ELSE Picked(none, places)
      /\ Picked(Append(one, b), places) =
            IF Len(one) + 1 \in places THEN Append(Picked(one, places), b)
            ELSE Picked(one, places)
      /\ Picked(Append(two, c), places) =
            IF Len(two) + 1 \in places THEN Append(Picked(two, places), c)
            ELSE Picked(two, places)
  BY <1>2, PickedMore, Zenon
<1>4. Append(none, a) = one /\ Append(one, b) = two /\ Append(two, c) = <<a, b, c>>
  BY <1>0, ShortSeqs
<1>5. Picked(none, places) = none
  BY <1>0, PickedNone
<1>6. /\ Picked(one, places) = IF 1 \in places THEN one ELSE none
      /\ Picked(two, places) = IF 2 \in places THEN Append(Picked(one, places), b)
                               ELSE Picked(one, places)
      /\ Picked(<<a, b, c>>, places) = IF 3 \in places THEN Append(Picked(two, places), c)
                                       ELSE Picked(two, places)
  BY <1>1, <1>3, <1>4, <1>5
<1> QED
  BY <1>0, <1>6

-----------------------------------------------------------------------------
(* The trees of messages.                                                   *)

Tree(is, of, kids) == [is |-> is, of |-> of, kids |-> kids]
MiscNode == Node("misc", "")
LeafNode(k, name) == Tree("element", name, <<Node("text", Value(k, name))>>)

ItemKids(k, layout) ==
    CASE layout = "plain" -> <<LeafNode(k, "DeviceID"), LeafNode(k, "Name")>>
      [] layout = "nameFirst" ->
            <<LeafNode(k, "Name"), MiscNode, LeafNode(k, "DeviceID")>>
      [] layout = "nested" ->
            <<LeafNode(k, "DeviceID"), Tree("element", "Info", <<LeafNode(k, "Kind")>>),
              LeafNode(k, "Name")>>
      [] layout = "unnamed" -> <<LeafNode(k, "DeviceID"), Node("element", "Name")>>

ItemNode(k, layout) == Tree("element", "Item", ItemKids(k, layout))

CommandNode(m) == IF m.cmd = "empty" THEN Node("element", "CmdType") ELSE LeafNode(0, "CmdType")

ItemNodes(m) == [k \in 1..Len(m.items) |-> ItemNode(k, m.items[k])]
ListNode(m) == Tree("element", "DeviceList", ItemNodes(m))

RootKids(m) == IF m.idLast THEN <<CommandNode(m), ListNode(m), LeafNode(0, "DeviceID")>>
               ELSE <<CommandNode(m), LeafNode(0, "DeviceID"), ListNode(m)>>
RootNode(m) == Tree("element", m.root, RootKids(m))

DocumentNode(m) == Tree("document", "", <<MiscNode, RootNode(m)>>)
(* The document before anything has been read.                              *)
Unread == Node("document", "")
Document(kids) == Tree("document", "", kids)

(* Of a damaged message, a node in the element of channel k has a text of   *)
(* just this channel, if it is one of those that count; ...                 *)
ItemKid(k, node) ==
    node.is = "element" /\ node.of \in {"DeviceID", "Name"} =>
       \/ GetText(node) = NoText
       \/ GetText(node).item = k /\ GetText(node).field = node.of

(* ... the list has some of the channels, complete, and behind them perhaps *)
(* one that is not, or nodes that are none; ...                             *)
ListOk(m, nodes) ==
    \E j \in 0..Len(m.items) : \E rest :
       /\ IsSeq(rest) /\ nodes = SubSeq(ItemNodes(m), 1, j) \o rest
       /\ \/ \A i \in 1..Len(rest) : rest[i].of # "Item"
          \/ \E node : /\ j < Len(m.items) /\ rest = <<node>>
                       /\ node.is = "element" /\ node.of = "Item" /\ IsSeq(node.kids)
                       /\ \A i \in 1..Len(node.kids) : ItemKid(j + 1, node.kids[i])

(* ... and a node in the root is such a list, or has a text if it has to,   *)
(* unless the body ends just before that.                                   *)
Behind(d, k) == d.kind \in {"ends", "cut"} /\ d.at = k

EndsInHead(m, d) ==
    \E k \in DOMAIN Body(m), name \in {"CmdType", "DeviceID"} :
       Behind(d, k) /\ Body(m)[k] = Piece("start", name) /\ Body(m)[k + 1].of.item = 0

RootKid(m, d, node) ==
    node.is = "element" =>
       /\ node.of = "DeviceList" => ListOk(m, node.kids)
       /\ node.of \in {"CmdType", "DeviceID"} /\ GetText(node) = NoText =>
             m.cmd = "empty" \/ EndsInHead(m, d)

(* Of a message that ends before the first letter of its root's name the    *)
(* parser leaves a document without an element.                             *)
BeforeRoot(d) == (d.kind = "ends" /\ d.at <= 1) \/ (d.kind = "cut" /\ d.at <= 2)
Rootless == {Unread, Document(<<MiscNode>>), Document(<<MiscNode, MiscNode>>)}

(* What the parser may leave of message m with damage d.                    *)
DocOk(m, d, document) ==
    IF m.root \in {"none", "noBody"} THEN document = Unread
    ELSE IF d.kind = "none" THEN document = DocumentNode(m)
    ELSE \/ BeforeRoot(d) /\ document \in Rootless
         \/ \E root, rest :
               /\ IsSeq(rest) /\ document = Document(<<MiscNode, root>> \o rest)
               /\ root.is = "element" /\ IsSeq(root.kids)
               /\ \A i \in 1..Len(root.kids) : RootKid(m, d, root.kids[i])

Final(m, d, nodes) == \E document : nodes = <<document>> /\ DocOk(m, d, document)

-----------------------------------------------------------------------------
(* What the parser makes of the pieces b with the stack t, step by step.    *)

Up(t) == WithKid(Front(t), Last(t))

StepOf(t, piece) ==
    IF piece.is = "misc" \/ (piece.is = "end" /\ ~(Len(t) > 1)) THEN WithKid(t, MiscNode)
    ELSE IF piece.is = "start" THEN Append(t, Node("element", piece.of))
    ELSE IF piece.is = "empty" THEN WithKid(t, Node("element", piece.of))
    ELSE IF piece.is = "text" THEN WithKid(t, Node("text", piece.of))
    ELSE Up(t)

CutTag(piece) == piece.cut /\ piece.is \in {"start", "empty"}

CutNodes(name) == {Node("element", name), Node("element", "part of a name"), MiscNode}

Stops(t, piece) ==
    \/ piece.is = "text" /\ ~(Len(t) > 1)
    \/ piece.is = "end" /\ Len(t) > 1 /\ (piece.of # Last(t).of \/ piece.cut)

Moves(b, t) ==
    IF b = <<>> THEN IF Len(t) > 1 THEN {<<b, Up(t)>>} ELSE {}
    ELSE IF CutTag(Head(b))
         THEN {<<<<>>, WithKid(t, node)>> : node \in CutNodes(Head(b).of)}
    ELSE IF Stops(t, Head(b)) THEN {<<<<>>, t>>}
    ELSE {<<Tail(b), StepOf(t, Head(b))>>}

(* Wherever the parser gets from there, it leaves a tree that it may leave: *)
(* R has every point it can get to.                                         *)
Safe(m, d, b, t) ==
    \E R : /\ <<b, t>> \in R
           /\ \A r \in R : /\ Moves(r[1], r[2]) \subseteq R
                           /\ r[1] = <<>> /\ ~(Len(r[2]) > 1) => Final(m, d, r[2])

(* The next step stays on the safe side, ...                                *)
LEMMA SafeMove ==
    ASSUME NEW m, NEW d, NEW b, NEW t, Safe(m, d, b, t), NEW c, NEW u, <<c, u>> \in Moves(b, t)
    PROVE  Safe(m, d, c, u)
<1>1. PICK R : /\ <<b, t>> \in R
               /\ \A r \in R : /\ Moves(r[1], r[2]) \subseteq R
                               /\ r[1] = <<>> /\ ~(Len(r[2]) > 1) => Final(m, d, r[2])
  BY DEF Safe
<1>2. PICK r : r = <<b, t>>
  OBVIOUS
<1>3. r \in R /\ r[1] = b /\ r[2] = t
  BY <1>1, <1>2
<1>4. <<c, u>> \in R
  BY <1>1, <1>3
<1> QED
  BY <1>1, <1>4 DEF Safe

(* ... and the last one has led to such a tree.                             *)
LEMMA SafeEnd ==
    ASSUME NEW m, NEW d, NEW t, Safe(m, d, <<>>, t), ~(Len(t) > 1)
    PROVE  Final(m, d, t)
<1>0. PICK none : none = <<>>
  OBVIOUS
<1>1. PICK R : /\ <<none, t>> \in R
               /\ \A r \in R : r[1] = <<>> /\ ~(Len(r[2]) > 1) => Final(m, d, r[2])
  BY <1>0 DEF Safe
<1>2. PICK r : r = <<none, t>>
  OBVIOUS
<1>3. r \in R /\ r[1] = none /\ r[2] = t
  BY <1>1, <1>2
<1> QED
  BY <1>0, <1>1, <1>3

(* What leads to nothing but safe points is safe.                           *)
LEMMA SafeBy ==
    ASSUME NEW m, NEW d, NEW b, NEW t,
           \A r \in Moves(b, t) : Safe(m, d, r[1], r[2]) /\ r = <<r[1], r[2]>>,
           b = <<>> /\ ~(Len(t) > 1) => Final(m, d, t)
    PROVE  Safe(m, d, b, t)
<1> DEFINE Closed(R) == \A r \in R : /\ Moves(r[1], r[2]) \subseteq R
                                     /\ r[1] = <<>> /\ ~(Len(r[2]) > 1) => Final(m, d, r[2])
           From(r) == CHOOSE R : r \in R /\ Closed(R)
           All == {<<b, t>>} \cup UNION {From(r) : r \in Moves(b, t)}
<1>1. ASSUME NEW r \in Moves(b, t) PROVE r \in From(r) /\ Closed(From(r))
  <2>1. \E R : <<r[1], r[2]>> \in R /\ Closed(R)
    BY DEF Safe
  <2>2. \E R : r \in R /\ Closed(R)
    <3> HIDE DEF Closed
    <3> QED
      BY <2>1
  <2> HIDE DEF Closed
  <2> QED
    BY <2>2
<1>2. ASSUME NEW r \in All
      PROVE  /\ Moves(r[1], r[2]) \subseteq All
             /\ r[1] = <<>> /\ ~(Len(r[2]) > 1) => Final(m, d, r[2])
  <2>1. CASE r = <<b, t>>
    <3>1. r[1] = b /\ r[2] = t
      BY <2>1
    <3>2. ASSUME NEW x \in Moves(b, t) PROVE x \in All
      BY <1>1
    <3> QED
      BY <3>1, <3>2
  <2>2. CASE r # <<b, t>>
    <3>1. PICK x \in Moves(b, t) : r \in From(x)
      BY <2>2
    <3>2. Closed(From(x))
      BY <1>1
    <3>3. Moves(r[1], r[2]) \subseteq From(x)
      BY <3>1, <3>2
    <3>4. From(x) \subseteq All
      OBVIOUS
    <3> QED
      BY <3>1, <3>2, <3>3, <3>4
  <2> QED
    BY <2>1, <2>2
<1>3. <<b, t>> \in All
  OBVIOUS
<1> HIDE DEF All
<1> QED
  BY <1>2, <1>3 DEF Safe

(* Sequences put together in another order. *)
LEMMA SeqRegroup ==
    ASSUME NEW p, NEW q, NEW r, IsSeq(p), IsSeq(q), IsSeq(r)
    PROVE  (p \o q) \o r = p \o (q \o r)
<1>1. PICK S : p \in Seq(S)
  BY DEF IsSeq
<1>2. PICK T : q \in Seq(T)
  BY DEF IsSeq
<1>3. PICK V : r \in Seq(V)
  BY DEF IsSeq
<1>4. PICK U : U = S \cup T \cup V
  OBVIOUS
<1>5. p \in Seq(U) /\ q \in Seq(U) /\ r \in Seq(U)
  <2>1. /\ \A i \in 1..Len(p) : p[i] \in U
        /\ \A i \in 1..Len(q) : q[i] \in U
        /\ \A i \in 1..Len(r) : r[i] \in U
    BY <1>1, <1>2, <1>3, <1>4
  <2> QED
    BY <1>1, <1>2, <1>3, <2>1
<1> QED
  BY <1>5, Regroup

(* Short sequences and nothing. *)
LEMMA SeqShort ==
    ASSUME NEW x, NEW s, IsSeq(s)
    PROVE  /\ IsSeq(<<>>) /\ IsSeq(<<x>>) /\ s \o <<x>> = Append(s, x)
           /\ <<>> \o s = s /\ s \o <<>> = s
<1>1. PICK S : s \in Seq(S)
  BY DEF IsSeq
<1>2. <<>> \in Seq({x}) /\ <<x>> \in Seq({x})
  OBVIOUS
<1>3. <<>> \o s = s /\ s \o <<>> = s
  BY <1>1, ConcatEmptySeq
<1>4. s \o <<x>> = Append(s, x)
  BY <1>1, AppendIsConcat
<1> QED
  BY <1>2, <1>3, <1>4 DEF IsSeq

(* The pieces behind the first.                                             *)
LEMMA Behead ==
    ASSUME NEW piece, NEW b, IsSeq(b)
    PROVE  /\ <<piece>> \o b # <<>> /\ Head(<<piece>> \o b) = piece
           /\ Tail(<<piece>> \o b) = b /\ IsSeq(<<piece>> \o b)
<1>1. PICK S : b \in Seq(S)
  BY DEF IsSeq
<1>2. PICK T, one : T = S \cup {piece} /\ one = <<piece>>
  OBVIOUS
<1>3. b \in Seq(T) /\ one \in Seq(T) /\ Len(one) = 1 /\ one[1] = piece
  <2>1. \A i \in 1..Len(b) : b[i] \in T
    BY <1>1, <1>2
  <2> QED
    BY <1>1, <1>2, <2>1
<1>4. /\ one \o b \in Seq(T) /\ Len(one \o b) = 1 + Len(b) /\ (one \o b)[1] = piece
      /\ \A i \in 1..Len(b) : (one \o b)[1 + i] = b[i]
  <2>1. one \o b \in Seq(T)
    BY <1>3, ConcatProperties
  <2>2. IsSeq(one) /\ IsSeq(b) /\ 1 \in 1..Len(one)
    BY <1>3 DEF IsSeq
  <2>3. /\ Len(one \o b) = Len(one) + Len(b) /\ (one \o b)[1] = one[1]
        /\ \A i \in 1..Len(b) : (one \o b)[Len(one) + i] = b[i]
    BY <2>2, SeqConcat
  <2> QED
    BY <1>3, <2>1, <2>3
<1>5. one \o b # <<>> /\ Head(one \o b) = piece
  <2>1. PICK all : all = one \o b
    OBVIOUS
  <2>2. all \in Seq(T) /\ Len(all) # 0 /\ all[1] = piece
    BY <1>3, <1>4, <2>1
  <2>3. all # <<>> /\ Head(all) = piece
    BY <2>2, EmptySeq
  <2> QED
    BY <2>1, <2>3
<1>6. /\ Tail(one \o b) \in Seq(T) /\ Len(Tail(one \o b)) = Len(b)
      /\ \A i \in 1..Len(b) : Tail(one \o b)[i] = b[i]
  <2>1. /\ Tail(one \o b) \in Seq(T) /\ Len(Tail(one \o b)) = Len(one \o b) - 1
        /\ \A i \in 1..(Len(one \o b) - 1) : Tail(one \o b)[i] = (one \o b)[i + 1]
    BY <1>4, <1>5, HeadTailProperties
  <2> QED
    BY <1>3, <1>4, <2>1
<1>7. Tail(one \o b) = b
  BY <1>3, <1>6, SeqEqual
<1> QED
  BY <1>2, <1>4, <1>5, <1>7 DEF IsSeq

(* Reading part leads from stack s to stack t, ...                          *)
Reads(part, s, t) ==
    \A m, d, b : IsSeq(b) /\ Safe(m, d, b, t) => Safe(m, d, part \o b, s)

(* ... and gives an element that is being parsed new children.              *)
Yields(part, new) ==
    /\ IsSeq(part) /\ IsSeq(new)
    /\ \A s, is, of, kids :
          IsSeq(s) /\ s # <<>> /\ IsSeq(kids) =>
             Reads(part, Append(s, Tree(is, of, kids)), Append(s, Tree(is, of, kids \o new)))

(* One piece: the next stack is that of its step.                           *)
LEMMA ReadsPiece ==
    ASSUME NEW piece, NEW s, ~CutTag(piece), ~Stops(s, piece)
    PROVE  Reads(<<piece>>, s, StepOf(s, piece))
<1> SUFFICES ASSUME NEW m, NEW d, NEW b, IsSeq(b), Safe(m, d, b, StepOf(s, piece))
             PROVE  Safe(m, d, <<piece>> \o b, s)
  BY DEF Reads
<1>1. PICK all : all = <<piece>> \o b
  OBVIOUS
<1>2. all # <<>> /\ Head(all) = piece /\ Tail(all) = b
  BY <1>1, Behead
<1>3. Moves(all, s) = {<<b, StepOf(s, piece)>>}
  BY <1>2 DEF Moves
<1>4. Safe(m, d, all, s)
  <2>1. PICK u : u = StepOf(s, piece)
    OBVIOUS
  <2>2. ASSUME NEW r \in Moves(all, s) PROVE Safe(m, d, r[1], r[2]) /\ r = <<r[1], r[2]>>
    <3>1. r = <<b, u>> /\ Safe(m, d, b, u)
      BY <1>3, <2>1
    <3>2. r[1] = b /\ r[2] = u
      BY <3>1
    <3> QED
      BY <3>1, <3>2
  <2> QED
    BY <1>2, <2>2, SafeBy
<1> QED
  BY <1>1, <1>4

(* One part behind the other.                                               *)
LEMMA ReadsConcat ==
    ASSUME NEW p, NEW q, IsSeq(p), IsSeq(q), NEW s, NEW t, NEW u,
           Reads(p, s, t), Reads(q, t, u)
    PROVE  Reads(p \o q, s, u)
<1> SUFFICES ASSUME NEW m, NEW d, NEW b, IsSeq(b), Safe(m, d, b, u)
             PROVE  Safe(m, d, (p \o q) \o b, s)
  BY DEF Reads
<1>1. IsSeq(q \o b)
  BY SeqConcat
<1>2. Safe(m, d, q \o b, t)
  BY DEF Reads
<1>3. Safe(m, d, p \o (q \o b), s)
  BY <1>1, <1>2 DEF Reads
<1>4. (p \o q) \o b = p \o (q \o b)
  BY SeqRegroup
<1> QED
  BY <1>3, <1>4

(* No part, no step. *)
LEMMA ReadsNone == ASSUME NEW s PROVE Reads(<<>>, s, s)
<1>1. ASSUME NEW b, IsSeq(b) PROVE <<>> \o b = b
  BY <1>1, SeqShort
<1> QED
  BY <1>1 DEF Reads

(* A node with a child more.                                                *)
LEMMA TreeKid ==
    ASSUME NEW is, NEW of, NEW kids, NEW kid
    PROVE  [Tree(is, of, kids) EXCEPT !.kids = Append(@, kid)] = Tree(is, of, Append(kids, kid))
BY DEF Tree

(* A node on top of the stack is given a child.                             *)
LEMMA KidOnTop ==
    ASSUME NEW s, IsSeq(s), NEW is, NEW of, NEW kids, NEW kid
    PROVE  WithKid(Append(s, Tree(is, of, kids)), kid)
              = Append(s, Tree(is, of, Append(kids, kid)))
<1>1. PICK S : s \in Seq(S)
  BY DEF IsSeq
<1>2. PICK old, new : old = Tree(is, of, kids) /\ new = Tree(is, of, Append(kids, kid))
  OBVIOUS
<1>3. PICK U : U = S \cup {old, new}
  OBVIOUS
<1>4. PICK n \in Nat : n = Len(s)
  BY <1>1
<1>5. s \in Seq(U) /\ old \in U /\ new \in U
  <2>1. \A i \in 1..Len(s) : s[i] \in U
    BY <1>1, <1>3
  <2> QED
    BY <1>1, <1>3, <2>1
<1>6. /\ Append(s, old) \in Seq(U) /\ Append(s, new) \in Seq(U)
      /\ Len(Append(s, old)) = n + 1 /\ Len(Append(s, new)) = n + 1
      /\ Append(s, old)[n + 1] = old /\ Append(s, new)[n + 1] = new
      /\ \A i \in 1..n : Append(s, old)[i] = s[i] /\ Append(s, new)[i] = s[i]
  BY <1>4, <1>5, AppendProperties
<1>7. PICK before : before = Append(s, old)
  OBVIOUS
<1>8. WithKid(before, kid) = [before EXCEPT ![n + 1] = new]
  <2>1. [old EXCEPT !.kids = Append(@, kid)] = new
    BY <1>2, TreeKid
  <2> QED
    BY <1>6, <1>7, <2>1 DEF WithKid
<1>9. /\ [before EXCEPT ![n + 1] = new] \in Seq(U)
      /\ Len([before EXCEPT ![n + 1] = new]) = n + 1
      /\ [before EXCEPT ![n + 1] = new][n + 1] = new
      /\ \A i \in 1..n : [before EXCEPT ![n + 1] = new][i] = s[i]
  <2>1. before \in Seq(U) /\ n + 1 \in 1..Len(before)
    BY <1>4, <1>6, <1>7
  <2>2. /\ [before EXCEPT ![n + 1] = new] \in Seq(U)
        /\ Len([before EXCEPT ![n + 1] = new]) = Len(before)
        /\ \A j \in 1..Len(before) :
              [before EXCEPT ![n + 1] = new][j] = IF j = n + 1 THEN new ELSE before[j]
    BY <1>5, <2>1, ExceptSeq
  <2> QED
    BY <1>6, <1>7, <2>1, <2>2
<1>10. \A i \in 1..(n + 1) : [before EXCEPT ![n + 1] = new][i] = Append(s, new)[i]
  <2> TAKE i \in 1..(n + 1)
  <2>1. i \in 1..n \/ i = n + 1
    OBVIOUS
  <2> QED
    BY <1>6, <1>9, <2>1
<1>11. [before EXCEPT ![n + 1] = new] = Append(s, new)
  BY <1>6, <1>9, <1>10, SeqEqual
<1> QED
  BY <1>2, <1>7, <1>8, <1>11

(* Children of one part and of the next. *)
LEMMA YieldsConcat ==
    ASSUME NEW p, NEW q, NEW x, NEW y, Yields(p, x), Yields(q, y)
    PROVE  Yields(p \o q, x \o y)
<1>1. IsSeq(p) /\ IsSeq(q) /\ IsSeq(x) /\ IsSeq(y)
  BY DEF Yields
<1>2. IsSeq(p \o q) /\ IsSeq(x \o y)
  BY <1>1, SeqConcat
<1>3. ASSUME NEW s, NEW is, NEW of, NEW kids, IsSeq(s), s # <<>>, IsSeq(kids)
      PROVE  Reads(p \o q, Append(s, Tree(is, of, kids)),
                   Append(s, Tree(is, of, kids \o (x \o y))))
  <2>1. IsSeq(kids \o x) /\ (kids \o x) \o y = kids \o (x \o y)
    BY <1>1, <1>3, SeqConcat, SeqRegroup
  <2>2. Reads(p, Append(s, Tree(is, of, kids)), Append(s, Tree(is, of, kids \o x)))
    BY <1>3 DEF Yields
  <2>3. Reads(q, Append(s, Tree(is, of, kids \o x)),
              Append(s, Tree(is, of, (kids \o x) \o y)))
    BY <1>3, <2>1 DEF Yields
  <2> QED
    BY <1>1, <2>1, <2>2, <2>3, ReadsConcat
<1> QED
  BY <1>2, <1>3 DEF Yields

(* No children of nothing. *)
LEMMA YieldsNone == Yields(<<>>, <<>>)
<1>1. IsSeq(<<>>)
  BY SeqNone
<1>2. ASSUME NEW kids, IsSeq(kids) PROVE kids \o <<>> = kids
  BY <1>2, SeqShort
<1> QED
  BY <1>1, <1>2, ReadsNone DEF Yields

(* One child of a piece that is linked as it is. *)
LEMMA YieldsPiece ==
    ASSUME NEW piece, NEW kid,
           \A t : IsSeq(t) /\ Len(t) > 1 => StepOf(t, piece) = WithKid(t, kid) /\ ~Stops(t, piece),
           ~CutTag(piece)
    PROVE  Yields(<<piece>>, <<kid>>)
<1>1. IsSeq(<<>>)
  BY SeqNone
<1>2. IsSeq(<<piece>>) /\ IsSeq(<<kid>>)
  BY <1>1, SeqShort
<1>3. ASSUME NEW s, NEW is, NEW of, NEW kids, IsSeq(s), s # <<>>, IsSeq(kids)
      PROVE  Reads(<<piece>>, Append(s, Tree(is, of, kids)),
                   Append(s, Tree(is, of, kids \o <<kid>>)))
  <2>1. PICK t : t = Append(s, Tree(is, of, kids))
    OBVIOUS
  <2>2. Len(s) # 0
    BY <1>3, EmptySeq DEF IsSeq
  <2>3. IsSeq(t) /\ Len(t) > 1
    BY <1>3, <2>1, <2>2, SeqAppend
  <2>4. StepOf(t, piece) = WithKid(t, kid) /\ ~Stops(t, piece)
    BY <2>3
  <2>5. WithKid(t, kid) = Append(s, Tree(is, of, Append(kids, kid)))
    BY <1>3, <2>1, KidOnTop
  <2>6. Append(kids, kid) = kids \o <<kid>>
    BY <1>3, SeqShort
  <2>7. Reads(<<piece>>, t, StepOf(t, piece))
    BY <2>4, ReadsPiece
  <2> QED
    BY <2>1, <2>4, <2>5, <2>6, <2>7
<1> QED
  BY <1>2, <1>3 DEF Yields

(* An element with what stands between its tags.                            *)
LEMMA GroupReads ==
    ASSUME NEW name, NEW inside, NEW new, Yields(inside, new),
           NEW s, IsSeq(s), NEW is, NEW of, NEW kids, IsSeq(kids)
    PROVE  Reads(Group(name, inside), Append(s, Tree(is, of, kids)),
                 Append(s, Tree(is, of, Append(kids, Tree("element", name, new)))))
<1>1. PICK s0, s1 : /\ s0 = Append(s, Tree(is, of, kids))
                    /\ s1 = Append(s0, Tree("element", name, new))
  OBVIOUS
<1>2. IsSeq(inside) /\ IsSeq(new) /\ IsSeq(<<>>)
  BY SeqNone DEF Yields
<1>3. PICK first, last : first = Piece("start", name) /\ last = Piece("end", name)
  OBVIOUS
<1>4. /\ IsSeq(s0) /\ s0 # <<>> /\ IsSeq(s1) /\ s1 # <<>> /\ Len(s1) > 1
      /\ Last(s1) = Tree("element", name, new) /\ Front(s1) = s0
  <2>1. IsSeq(s0) /\ s0 # <<>> /\ Len(s) \in Nat /\ Len(s0) = Len(s) + 1
    BY <1>1, SeqAppend
  <2>2. /\ IsSeq(s1) /\ s1 # <<>> /\ Len(s1) = Len(s0) + 1
        /\ Last(s1) = Tree("element", name, new) /\ Front(s1) = s0
    BY <1>1, <2>1, SeqAppend
  <2> QED
    BY <2>1, <2>2
<1>5. Reads(<<first>>, s0, Append(s0, Tree("element", name, <<>>)))
  <2>1. StepOf(s0, first) = Append(s0, Tree("element", name, <<>>))
    BY <1>3, <1>4 DEF StepOf, Piece, Node, Tree
  <2>2. ~Stops(s0, first) /\ ~CutTag(first)
    BY <1>3 DEF Stops, CutTag, Piece
  <2> QED
    BY <2>1, <2>2, ReadsPiece
<1>6. Reads(inside, Append(s0, Tree("element", name, <<>>)), s1)
  <2>1. <<>> \o new = new
    BY <1>2, SeqShort
  <2>2. Reads(inside, Append(s0, Tree("element", name, <<>>)),
              Append(s0, Tree("element", name, <<>> \o new)))
    BY <1>2, <1>4 DEF Yields
  <2> QED
    BY <1>1, <2>1, <2>2
<1>7. Reads(<<last>>, s1, Append(s, Tree(is, of, Append(kids, Tree("element", name, new)))))
  <2>1. last.is = "end" /\ last.of = name /\ ~last.cut
    BY <1>3 DEF Piece
  <2>2. Last(s1).of = name
    BY <1>4 DEF Tree
  <2>3. StepOf(s1, last) = WithKid(s0, Tree("element", name, new))
    BY <1>4, <2>1, <2>2 DEF StepOf, Up
  <2>4. WithKid(s0, Tree("element", name, new))
           = Append(s, Tree(is, of, Append(kids, Tree("element", name, new))))
    BY <1>1, KidOnTop
  <2>5. ~Stops(s1, last) /\ ~CutTag(last)
    BY <2>1, <2>2 DEF Stops, CutTag
  <2> QED
    BY <2>3, <2>4, <2>5, ReadsPiece
<1>8. IsSeq(<<first>>) /\ IsSeq(<<last>>) /\ IsSeq(<<first>> \o inside)
  BY <1>2, SeqShort, SeqConcat
<1>9. Reads(<<first>> \o inside, s0, s1)
  BY <1>2, <1>5, <1>6, <1>8, ReadsConcat
<1>10. Reads((<<first>> \o inside) \o <<last>>, s0,
             Append(s, Tree(is, of, Append(kids, Tree("element", name, new)))))
  BY <1>7, <1>8, <1>9, ReadsConcat
<1> QED
  BY <1>1, <1>3, <1>10 DEF Group

(* ... is one child of what it stands in.                                   *)
LEMMA YieldsGroup ==
    ASSUME NEW name, NEW inside, NEW new, Yields(inside, new)
    PROVE  Yields(Group(name, inside), <<Tree("element", name, new)>>)
<1>1. PICK node : node = Tree("element", name, new)
  OBVIOUS
<1>2. IsSeq(Group(name, inside))
  <2>1. IsSeq(<<Piece("start", name)>>) /\ IsSeq(<<Piece("end", name)>>) /\ IsSeq(inside)
    BY SeqNone, SeqShort DEF Yields
  <2> QED
    BY <2>1, SeqConcat DEF Group
<1>3. IsSeq(<<node>>)
  BY SeqNone, SeqShort
<1>4. ASSUME NEW s, NEW is, NEW of, NEW kids, IsSeq(s), IsSeq(kids)
      PROVE  Reads(Group(name, inside), Append(s, Tree(is, of, kids)),
                   Append(s, Tree(is, of, kids \o <<node>>)))
  <2>1. kids \o <<node>> = Append(kids, node)
    BY <1>4, SeqShort
  <2> QED
    BY <1>1, <1>4, <2>1, GroupReads
<1> QED
  BY <1>1, <1>2, <1>3, <1>4 DEF Yields

(* An element with a text.                                                  *)
LEMMA YieldsLeaf == ASSUME NEW k, NEW name PROVE Yields(Leaf(k, name), <<LeafNode(k, name)>>)
<1>1. PICK piece, kid : /\ piece = Piece("text", Value(k, name))
                        /\ kid = Node("text", Value(k, name))
  OBVIOUS
<1>2. ASSUME NEW t, IsSeq(t), Len(t) > 1
      PROVE  StepOf(t, piece) = WithKid(t, kid) /\ ~Stops(t, piece)
  BY <1>1, <1>2 DEF StepOf, Stops, Piece
<1>3. Yields(<<piece>>, <<kid>>)
  <2>1. ~CutTag(piece)
    BY <1>1 DEF CutTag, Piece
  <2> QED
    BY <1>2, <2>1, YieldsPiece
<1>4. Leaf(k, name) = Group(name, <<piece>>)
  BY <1>1 DEF Leaf, Group
<1> QED
  BY <1>1, <1>3, <1>4, YieldsGroup DEF LeafNode

(* What is read over, and an element without anything in it.                *)
LEMMA YieldsOthers ==
    ASSUME NEW name
    PROVE  /\ Yields(<<Misc>>, <<MiscNode>>)
           /\ Yields(<<Piece("empty", name)>>, <<Node("element", name)>>)
<1>1. ASSUME NEW t, IsSeq(t), Len(t) > 1
      PROVE  /\ StepOf(t, Misc) = WithKid(t, MiscNode) /\ ~Stops(t, Misc)
             /\ StepOf(t, Piece("empty", name)) = WithKid(t, Node("element", name))
             /\ ~Stops(t, Piece("empty", name))
  BY <1>1 DEF StepOf, Stops, Misc, Piece
<1>2. ~CutTag(Misc) /\ ~CutTag(Piece("empty", name))
  BY DEF CutTag, Misc, Piece
<1> QED
  BY <1>1, <1>2, YieldsPiece

(* Many parts in a row, each with its child.                                *)
LEMMA YieldsAll ==
    ASSUME NEW S, NEW ss \in Seq(Seq(S)), NEW T, NEW x \in Seq(T), Len(x) = Len(ss),
           \A k \in 1..Len(ss) : Yields(ss[k], <<x[k]>>)
    PROVE  Yields(FlattenSeq(ss), x)
<1>1. PICK n \in Nat : n = Len(ss)
  OBVIOUS
<1> DEFINE Good(m) == Yields(FlattenSeq(SubSeq(ss, 1, m)), SubSeq(x, 1, m))
           Bad == {m \in 0..n : ~Good(m)}
<1>2. ASSUME Bad # {} PROVE FALSE
  <2>1. Bad \subseteq Nat
    OBVIOUS
  <2>2. PICK m \in Bad : \A y \in Bad : m <= y
    <3> HIDE DEF Bad
    <3> QED
      BY <1>2, <2>1, LeastNumber
  <2>3. m \in 0..n /\ ~Good(m)
    OBVIOUS
  <2>4. m # 0
    <3>1. SubSeq(ss, 1, 0) = <<>> /\ SubSeq(x, 1, 0) = <<>>
      OBVIOUS
    <3>2. Good(0)
      BY <3>1, FlattenNone, YieldsNone
    <3> QED
      BY <2>3, <3>2
  <2>5. m - 1 \in 0..n /\ m - 1 \notin Bad
    BY <2>2, <2>3, <2>4
  <2>6. Good(m - 1)
    BY <2>5
  <2>7. m \in 1..Len(ss) /\ m \in 1..Len(x)
    BY <1>1, <2>3, <2>4
  <2>8. PICK u, v : u = SubSeq(ss, 1, m - 1) /\ v = SubSeq(x, 1, m - 1)
    OBVIOUS
  <2>9. /\ u \in Seq(Seq(S)) /\ SubSeq(ss, 1, m) = Append(u, ss[m])
        /\ v \in Seq(T) /\ SubSeq(x, 1, m) = Append(v, x[m])
    BY <2>7, <2>8, OneMore
  <2>10. ss[m] \in Seq(S)
    BY <2>7
  <2>11. FlattenSeq(Append(u, ss[m])) = FlattenSeq(u) \o ss[m]
    BY <2>9, <2>10, FlattenAppend
  <2>12. v \o <<x[m]>> = Append(v, x[m])
    BY <2>9, SeqShort DEF IsSeq
  <2>13. Yields(FlattenSeq(u) \o ss[m], v \o <<x[m]>>)
    BY <2>6, <2>7, <2>8, YieldsConcat
  <2> QED
    BY <2>3, <2>9, <2>11, <2>12, <2>13
<1>3. n \in 0..n /\ n \notin Bad
  BY <1>2
<1>4. SubSeq(ss, 1, n) = ss /\ SubSeq(x, 1, n) = x
  BY <1>1
<1> QED
  BY <1>3, <1>4

-----------------------------------------------------------------------------
(* The parts of messages. *)

(* Two or three parts in a row.                                             *)
LEMMA YieldsShort ==
    ASSUME NEW p, NEW q, NEW r, NEW a, NEW b, NEW c, Yields(p, <<a>>), Yields(q, <<b>>)
    PROVE  /\ Yields(p \o q, <<a, b>>)
           /\ Yields(r, <<c>>) => Yields((p \o q) \o r, <<a, b, c>>)
<1>1. <<a>> \o <<b>> = <<a, b>> /\ <<a, b>> \o <<c>> = <<a, b, c>>
  BY ShortSeqs
<1>2. Yields(p \o q, <<a, b>>)
  BY <1>1, YieldsConcat
<1>3. ASSUME Yields(r, <<c>>) PROVE Yields((p \o q) \o r, <<a, b, c>>)
  BY <1>1, <1>2, <1>3, YieldsConcat
<1> QED
  BY <1>2, <1>3

(* A channel in each of the layouts.                                        *)
LEMMA YieldsItem ==
    ASSUME NEW k, NEW layout \in ItemLayouts
    PROVE  Yields(Item(k, layout), <<ItemNode(k, layout)>>)
<1> DEFINE Id == Leaf(k, "DeviceID")
           Title == Leaf(k, "Name")
           Info == Group("Info", Leaf(k, "Kind"))
<1>1. /\ Yields(Id, <<LeafNode(k, "DeviceID")>>) /\ Yields(Title, <<LeafNode(k, "Name")>>)
      /\ Yields(Info, <<Tree("element", "Info", <<LeafNode(k, "Kind")>>)>>)
      /\ Yields(<<Misc>>, <<MiscNode>>)
      /\ Yields(<<Piece("empty", "Name")>>, <<Node("element", "Name")>>)
  BY YieldsLeaf, YieldsGroup, YieldsOthers
<1> HIDE DEF Id, Title, Info
<1>2. CASE layout = "plain"
  <2>1. Yields(Id \o Title, ItemKids(k, layout))
    BY <1>1, <1>2, YieldsShort DEF ItemKids
  <2>2. Item(k, layout) = Group("Item", Id \o Title)
    BY <1>2 DEF Item, Id, Title
  <2> QED
    BY <2>1, <2>2, YieldsGroup DEF ItemNode
<1>3. CASE layout = "nameFirst"
  <2>1. Yields((Title \o <<Misc>>) \o Id, ItemKids(k, layout))
    BY <1>1, <1>3, YieldsShort DEF ItemKids
  <2>2. Item(k, layout) = Group("Item", (Title \o <<Misc>>) \o Id)
    BY <1>3 DEF Item, Id, Title
  <2> QED
    BY <2>1, <2>2, YieldsGroup DEF ItemNode
<1>4. CASE layout = "nested"
  <2>1. Yields((Id \o Info) \o Title, ItemKids(k, layout))
    BY <1>1, <1>4, YieldsShort DEF ItemKids
  <2>2. Item(k, layout) = Group("Item", (Id \o Info) \o Title)
    BY <1>4 DEF Item, Id, Title, Info
  <2> QED
    BY <2>1, <2>2, YieldsGroup DEF ItemNode
<1>5. CASE layout = "unnamed"
  <2>1. Yields(Id \o <<Piece("empty", "Name")>>, ItemKids(k, layout))
    BY <1>1, <1>5, YieldsShort DEF ItemKids
  <2>2. Item(k, layout) = Group("Item", Id \o <<Piece("empty", "Name")>>)
    BY <1>5 DEF Item, Id
  <2> QED
    BY <2>1, <2>2, YieldsGroup DEF ItemNode
<1> QED
  BY <1>2, <1>3, <1>4, <1>5 DEF ItemLayouts

(* Three parts, the last two put together first.                            *)
LEMMA YieldsThree ==
    ASSUME NEW p, NEW q, NEW r, NEW a, NEW b, NEW c,
           Yields(p, <<a>>), Yields(q, <<b>>), Yields(r, <<c>>)
    PROVE  Yields(p \o (q \o r), <<a, b, c>>)
<1>1. IsSeq(p) /\ IsSeq(q) /\ IsSeq(r)
  BY DEF Yields
<1>2. (p \o q) \o r = p \o (q \o r)
  BY <1>1, SeqRegroup
<1> QED
  BY <1>2, YieldsShort

(* Pieces, as devices write them.                                           *)
Kinds == {"misc", "start", "text", "end", "empty"}
Fields == {"CmdType", "DeviceID", "Name", "Kind", "plain"}
Tags == {"CmdType", "DeviceID", "Name", "Kind", "Info", "Item", "DeviceList",
         "Response", "Notify", ""}
Written == [is : Kinds, of : Tags \cup Texts, cut : {FALSE}]

(* The parts of messages consist of them.                                   *)
LEMMA PartTypes ==
    ASSUME NEW k \in Nat, NEW name \in Tags, NEW inside \in Seq(Written)
    PROVE  /\ Misc \in Written /\ Piece("empty", name) \in Written
           /\ <<Misc>> \in Seq(Written) /\ <<Piece("empty", name)>> \in Seq(Written)
           /\ name \in Fields => Leaf(k, name) \in Seq(Written)
           /\ Group(name, inside) \in Seq(Written)
<1>1. name \in Fields => Value(k, name) \in Texts
  BY DEF Value, Texts, Fields
<1>2. ASSUME NEW is \in Kinds, NEW of \in Tags \cup Texts PROVE Piece(is, of) \in Written
  BY DEF Piece, Written
<1>3. /\ Piece("empty", name) \in Written /\ Piece("start", name) \in Written
      /\ Piece("end", name) \in Written
      /\ name \in Fields => Piece("text", Value(k, name)) \in Written
      /\ Misc \in Written
  BY <1>1, <1>2 DEF Kinds, Misc, Tags
<1>4. /\ <<Misc>> \in Seq(Written) /\ <<Piece("empty", name)>> \in Seq(Written)
      /\ <<Piece("start", name)>> \in Seq(Written) /\ <<Piece("end", name)>> \in Seq(Written)
      /\ name \in Fields => Leaf(k, name) \in Seq(Written)
  BY <1>3 DEF Leaf
<1>5. Group(name, inside) \in Seq(Written)
  BY <1>4, ConcatProperties DEF Group
<1> QED
  BY <1>3, <1>4, <1>5

(* A channel is a sequence of them.                                         *)
LEMMA ItemTypes ==
    ASSUME NEW k \in Nat, NEW layout \in ItemLayouts
    PROVE  Item(k, layout) \in Seq(Written)
<1>1. \A p, q \in Seq(Written) : p \o q \in Seq(Written)
  BY ConcatProperties
<1>2. PICK inside : inside \in Seq(Written)
  <2>1. <<>> \in Seq(Written)
    OBVIOUS
  <2> QED
    BY <2>1
<1>3. /\ Leaf(k, "DeviceID") \in Seq(Written) /\ Leaf(k, "Name") \in Seq(Written)
      /\ Leaf(k, "Kind") \in Seq(Written) /\ <<Misc>> \in Seq(Written)
      /\ <<Piece("empty", "Name")>> \in Seq(Written)
      /\ \A part \in Seq(Written) :
            Group("Item", part) \in Seq(Written) /\ Group("Info", part) \in Seq(Written)
  <2>1. "DeviceID" \in Tags /\ "Name" \in Tags /\ "Kind" \in Tags /\ "Item" \in Tags
    BY DEF Tags
  <2>2. "DeviceID" \in Fields /\ "Name" \in Fields /\ "Kind" \in Fields /\ "Info" \in Tags
    BY DEF Tags, Fields
  <2> QED
    BY <1>2, <2>1, <2>2, PartTypes
<1>4. CASE layout = "plain"
  BY <1>1, <1>3, <1>4 DEF Item
<1>5. CASE layout = "nameFirst"
  BY <1>1, <1>3, <1>5 DEF Item
<1>6. CASE layout = "nested"
  BY <1>1, <1>3, <1>6 DEF Item
<1>7. CASE layout = "unnamed"
  BY <1>1, <1>3, <1>7 DEF Item
<1> QED
  BY <1>4, <1>5, <1>6, <1>7 DEF ItemLayouts

(* What devices mean to say.                                                *)
LEMMA MessageTypes ==
    ASSUME NEW m \in Messages
    PROVE  /\ m.root \in {"Response", "Notify", "none", "noBody"} /\ m.idLast \in BOOLEAN
           /\ m.cmd \in {"Catalog", "Keepalive", "Alarm", "empty", "none"}
           /\ m.items \in Seq(ItemLayouts) /\ DOMAIN m.items = 1..Len(m.items)
           /\ m.root # "Response" => m.items = <<>>
           /\ m.root \in {"none", "noBody"} <=> m.cmd = "none"
           /\ m.root = "Response" => m.cmd = "Catalog"
<1>1. ASSUME NEW q \in SeqOf(ItemLayouts, MaxItems) PROVE q \in Seq(ItemLayouts)
  <2>1. PICK l \in 0..MaxItems : q \in [1..l -> ItemLayouts]
    BY DEF SeqOf
  <2> QED
    BY <2>1
<1>2. <<>> \in Seq(ItemLayouts)
  OBVIOUS
<1>a. \A q \in Seq(ItemLayouts) : DOMAIN q = 1..Len(q)
  OBVIOUS
<1>3. CASE m \in [root : {"Response"}, cmd : {"Catalog"}, idLast : BOOLEAN,
                  items : SeqOf(ItemLayouts, MaxItems)]
  BY <1>1, <1>3, <1>a
<1>4. CASE m \in [root : {"Notify"}, cmd : {"Catalog", "Keepalive", "Alarm", "empty"},
                  idLast : {FALSE}, items : {<<>>}]
  BY <1>2, <1>4, <1>a
<1>5. CASE m \in [root : {"none", "noBody"}, cmd : {"none"}, idLast : {FALSE}, items : {<<>>}]
  BY <1>2, <1>5, <1>a
<1> QED
  BY <1>3, <1>4, <1>5 DEF Messages

(* The channels of a message, as pieces and as the nodes they become, ...   *)
LEMMA ListInside ==
    ASSUME NEW m \in Messages
    PROVE  \E inside : /\ DeviceList(m) = Group("DeviceList", inside)
                       /\ inside \in Seq(Written) /\ Yields(inside, ItemNodes(m))
<1>1. PICK n \in Nat : n = Len(m.items)
  BY MessageTypes
<1>2. m.items \in Seq(ItemLayouts) /\ DOMAIN m.items = 1..n
  BY <1>1, MessageTypes
<1> DEFINE ss == [k \in 1..n |-> Item(k, m.items[k])]
<1>3. ASSUME NEW k \in 1..n
      PROVE  /\ ss[k] \in Seq(Written) /\ ItemNodes(m)[k] = ItemNode(k, m.items[k])
             /\ Yields(ss[k], <<ItemNodes(m)[k]>>)
  <2>1. m.items[k] \in ItemLayouts
    BY <1>1, <1>2
  <2>2. ItemNodes(m)[k] = ItemNode(k, m.items[k])
    BY <1>1 DEF ItemNodes
  <2>3. Item(k, m.items[k]) \in Seq(Written) /\ Yields(Item(k, m.items[k]), <<ItemNodes(m)[k]>>)
    BY <2>1, <2>2, ItemTypes, YieldsItem
  <2> QED
    BY <2>2, <2>3
<1>4. ss \in Seq(Seq(Written)) /\ Len(ss) = n
  <2>1. ss = [k \in 1..n |-> ss[k]]
    OBVIOUS
  <2>2. \A k \in 1..n : ss[k] \in Seq(Written)
    BY <1>3
  <2> HIDE DEF ss
  <2> QED
    BY <2>1, <2>2
<1>5. PICK T : T = {ItemNodes(m)[k] : k \in 1..n}
  OBVIOUS
<1>6. ItemNodes(m) \in Seq(T) /\ Len(ItemNodes(m)) = n
  BY <1>1, <1>5 DEF ItemNodes
<1>7. DeviceList(m) = Group("DeviceList", FlattenSeq(ss))
  BY <1>2 DEF DeviceList
<1> HIDE DEF ss
<1>8. FlattenSeq(ss) \in Seq(Written)
  <2>1. <<>> \in Seq(Written)
    OBVIOUS
  <2> QED
    BY <1>4, <2>1, FlattenAppend
<1>9. Yields(FlattenSeq(ss), ItemNodes(m))
  BY <1>3, <1>4, <1>6, YieldsAll
<1> QED
  BY <1>7, <1>8, <1>9

(* ... and the element they stand in.                                       *)
LEMMA YieldsList ==
    ASSUME NEW m \in Messages
    PROVE  /\ DeviceList(m) \in Seq(Written)
           /\ Yields(DeviceList(m), <<ListNode(m)>>)
<1>1. PICK inside : /\ DeviceList(m) = Group("DeviceList", inside)
                    /\ inside \in Seq(Written) /\ Yields(inside, ItemNodes(m))
  BY ListInside
<1>2. Group("DeviceList", inside) \in Seq(Written)
  <2>1. "DeviceList" \in Tags /\ 0 \in Nat
    BY DEF Tags
  <2> QED
    BY <1>1, <2>1, PartTypes
<1> QED
  BY <1>1, <1>2, YieldsGroup DEF ListNode

(* What stands in the root element.                                         *)
Inside(m) == Command(m) \o IF m.idLast THEN DeviceList(m) \o Leaf(0, "DeviceID")
                           ELSE Leaf(0, "DeviceID") \o DeviceList(m)

(* ... and becomes its children.                                            *)
LEMMA YieldsInside ==
    ASSUME NEW m \in Messages
    PROVE  Inside(m) \in Seq(Written) /\ Yields(Inside(m), RootKids(m))
<1>1. /\ DeviceList(m) \in Seq(Written) /\ Yields(DeviceList(m), <<ListNode(m)>>)
      /\ m.idLast \in BOOLEAN
  BY YieldsList, MessageTypes
<1>2. /\ <<Piece("empty", "CmdType")>> \in Seq(Written)
      /\ Leaf(0, "CmdType") \in Seq(Written) /\ Leaf(0, "DeviceID") \in Seq(Written)
  <2>1. "CmdType" \in Tags /\ "DeviceID" \in Tags /\ 0 \in Nat
    BY DEF Tags
  <2>2. "CmdType" \in Fields /\ "DeviceID" \in Fields /\ DeviceList(m) \in Seq(Written)
    BY <1>1 DEF Fields
  <2> QED
    BY <2>1, <2>2, PartTypes
<1>3. /\ Leaf(0, "DeviceID") \in Seq(Written)
      /\ Yields(Leaf(0, "DeviceID"), <<LeafNode(0, "DeviceID")>>)
  BY <1>2, YieldsLeaf
<1>4. Command(m) \in Seq(Written) /\ Yields(Command(m), <<CommandNode(m)>>)
  <2>1. CASE m.cmd = "empty"
    <3>1. <<Piece("empty", "CmdType")>> \in Seq(Written)
      BY <1>2
    <3>2. Yields(<<Piece("empty", "CmdType")>>, <<Node("element", "CmdType")>>)
      BY YieldsOthers
    <3> QED
      BY <2>1, <3>1, <3>2 DEF Command, CommandNode
  <2>2. CASE m.cmd # "empty"
    <3>1. Leaf(0, "CmdType") \in Seq(Written)
      BY <1>2
    <3>2. Yields(Leaf(0, "CmdType"), <<LeafNode(0, "CmdType")>>)
      BY YieldsLeaf
    <3> QED
      BY <2>2, <3>1, <3>2 DEF Command, CommandNode
  <2> QED
    BY <2>1, <2>2
<1>5. \A p, q \in Seq(Written) : p \o q \in Seq(Written)
  BY ConcatProperties
<1>6. CASE m.idLast
  <2>1. Inside(m) = Command(m) \o (DeviceList(m) \o Leaf(0, "DeviceID"))
    BY <1>6 DEF Inside
  <2>2. RootKids(m) = <<CommandNode(m), ListNode(m), LeafNode(0, "DeviceID")>>
    BY <1>6 DEF RootKids
  <2>3. Yields(Command(m) \o (DeviceList(m) \o Leaf(0, "DeviceID")),
               <<CommandNode(m), ListNode(m), LeafNode(0, "DeviceID")>>)
    BY <1>1, <1>3, <1>4, YieldsThree
  <2> QED
    BY <1>1, <1>3, <1>4, <1>5, <2>1, <2>2, <2>3
<1>7. CASE ~m.idLast
  <2>1. Inside(m) = Command(m) \o (Leaf(0, "DeviceID") \o DeviceList(m))
    BY <1>7 DEF Inside
  <2>2. RootKids(m) = <<CommandNode(m), LeafNode(0, "DeviceID"), ListNode(m)>>
    BY <1>7 DEF RootKids
  <2>3. Yields(Command(m) \o (Leaf(0, "DeviceID") \o DeviceList(m)),
               <<CommandNode(m), LeafNode(0, "DeviceID"), ListNode(m)>>)
    BY <1>1, <1>3, <1>4, YieldsThree
  <2> QED
    BY <1>1, <1>3, <1>4, <1>5, <2>1, <2>2, <2>3
<1> QED
  BY <1>1, <1>6, <1>7

(* The document has but one node on the stack.                              *)
LEMMA DocumentStacks ==
    ASSUME NEW kids
    PROVE  /\ Append(<<>>, Tree("document", "", kids)) = <<Document(kids)>>
           /\ Tree("document", "", <<>>) = Unread
           /\ IsSeq(<<Document(kids)>>) /\ ~(Len(<<Document(kids)>>) > 1)
<1>1. PICK node : node = Document(kids)
  OBVIOUS
<1>2. Append(<<>>, node) = <<node>> /\ IsSeq(<<node>>)
  BY ShortSeqs
<1>3. ~(Len(<<node>>) > 1)
  OBVIOUS
<1>4. Tree("document", "", <<>>) = Unread
  BY Zenon DEF Tree, Unread, Node
<1>5. Tree("document", "", kids) = node
  BY <1>1, Zenon DEF Document
<1> QED
  BY <1>1, <1>2, <1>3, <1>4, <1>5, Zenon

(* A group in the document.                                                 *)
LEMMA DocumentReads ==
    ASSUME NEW name, NEW inside, NEW new, Yields(inside, new), NEW kids, IsSeq(kids)
    PROVE  Reads(Group(name, inside), <<Document(kids)>>,
                 <<Document(Append(kids, Tree("element", name, new)))>>)
<1>1. PICK none : none = <<>>
  OBVIOUS
<1>2. IsSeq(none)
  BY <1>1, SeqNone
<1>3. PICK is, of : is = "document" /\ of = ""
  OBVIOUS
<1>4. PICK more : more = Append(kids, Tree("element", name, new))
  OBVIOUS
<1>5. Reads(Group(name, inside), Append(none, Tree(is, of, kids)), Append(none, Tree(is, of, more)))
  BY <1>2, <1>4, GroupReads
<1>6. Append(none, Tree(is, of, kids)) = <<Document(kids)>>
  BY <1>1, <1>3, DocumentStacks, Zenon
<1>7. Append(none, Tree(is, of, more)) = <<Document(more)>>
  BY <1>1, <1>3, DocumentStacks, Zenon
<1> QED
  BY <1>4, <1>5, <1>6, <1>7, Zenon

(* A node more in the document.                                             *)
LEMMA DocumentKid ==
    ASSUME NEW kids, IsSeq(kids), NEW kid
    PROVE  WithKid(<<Document(kids)>>, kid) = <<Document(Append(kids, kid))>>
<1>0. PICK is, of : is = "document" /\ of = ""
  OBVIOUS
<1>1. PICK none, more : none = <<>> /\ more = Append(kids, kid)
  OBVIOUS
<1>2. IsSeq(none)
  BY <1>1, SeqNone
<1>3. WithKid(Append(none, Tree(is, of, kids)), kid) = Append(none, Tree(is, of, more))
  <2>1. WithKid(Append(none, Tree(is, of, kids)), kid)
           = Append(none, Tree(is, of, Append(kids, kid)))
    BY <1>2, KidOnTop
  <2> QED
    BY <1>1, <2>1
<1>4. Append(none, Tree(is, of, kids)) = <<Document(kids)>>
  BY <1>0, <1>1, DocumentStacks, Zenon
<1>5. Append(none, Tree(is, of, more)) = <<Document(more)>>
  BY <1>0, <1>1, DocumentStacks, Zenon
<1> QED
  BY <1>1, <1>3, <1>4, <1>5

(* What is read over there.                                                 *)
LEMMA DocumentMisc ==
    ASSUME NEW piece, ~CutTag(piece), piece.is \in {"misc", "end"}, NEW kids, IsSeq(kids)
    PROVE  Reads(<<piece>>, <<Document(kids)>>, <<Document(Append(kids, MiscNode))>>)
<1>1. PICK s : s = <<Document(kids)>>
  OBVIOUS
<1>2. ~(Len(s) > 1)
  BY <1>1, DocumentStacks
<1>3. ~Stops(s, piece) /\ StepOf(s, piece) = WithKid(s, MiscNode)
  BY <1>2 DEF Stops, StepOf
<1>4. Reads(<<piece>>, s, WithKid(s, MiscNode))
  BY <1>3, ReadsPiece
<1> QED
  BY <1>1, <1>4, DocumentKid

(* The beginning of every message that is one.                              *)
LEMMA FirstRead == Reads(<<Misc>>, <<Unread>>, <<Document(<<MiscNode>>)>>)
<1>1. ~CutTag(Misc) /\ Misc.is \in {"misc", "end"}
  BY DEF CutTag, Misc, Piece
<1>2. PICK none : none = <<>>
  OBVIOUS
<1>3. Reads(<<Misc>>, <<Document(none)>>, <<Document(Append(none, MiscNode))>>)
  BY <1>1, <1>2, SeqNone, DocumentMisc
<1>4. Document(none) = Unread
  BY <1>2, DocumentStacks, Zenon DEF Document
<1>5. Append(none, MiscNode) = <<MiscNode>>
  BY <1>2, ShortSeqs
<1> QED
  BY <1>3, <1>4, <1>5

(* What the parser makes of a message that is one.                          *)
LEMMA BodyReads ==
    ASSUME NEW m \in Messages
    PROVE  /\ Body(m) \in Seq(Written)
           /\ m.root \notin {"none", "noBody"} => /\ Body(m) = <<Misc>> \o Group(m.root, Inside(m))
                                 /\ Reads(Body(m), <<Unread>>, <<DocumentNode(m)>>)
<1>0. CASE m.root = "noBody"
  BY <1>0 DEF Body
<1>1. CASE m.root = "none"
  <2>1. Value(0, "plain") \in Texts
    BY DEF Value, Texts
  <2>2. Piece("text", Value(0, "plain")) \in Written
    BY <2>1 DEF Piece, Written, Kinds
  <2> QED
    BY <1>1, <2>2 DEF Body
<1>2. CASE m.root \notin {"none", "noBody"}
  <2>1. PICK group, misc : /\ group = Group(m.root, Inside(m)) /\ misc = MiscNode
    OBVIOUS
  <2>2. Body(m) = <<Misc>> \o group
    BY <1>2, <2>1 DEF Body, Inside
  <2>3. <<Misc>> \in Seq(Written) /\ group \in Seq(Written)
    <3>1. m.root \in Tags /\ Inside(m) \in Seq(Written) /\ 0 \in Nat
      BY <1>2, YieldsInside, MessageTypes DEF Tags
    <3> QED
      BY <2>1, <3>1, PartTypes
  <2>4. Body(m) \in Seq(Written)
    BY <2>2, <2>3, ConcatProperties
  <2>5. Reads(group, <<Document(<<misc>>)>>, <<DocumentNode(m)>>)
    <3>1. IsSeq(<<misc>>) /\ Yields(Inside(m), RootKids(m))
      BY ShortSeqs, YieldsInside
    <3>2. Reads(group, <<Document(<<misc>>)>>, <<Document(Append(<<misc>>, RootNode(m)))>>)
      BY <2>1, <3>1, DocumentReads DEF RootNode
    <3>3. Append(<<misc>>, RootNode(m)) = <<misc, RootNode(m)>>
      BY ShortSeqs
    <3>4. Document(<<misc, RootNode(m)>>) = DocumentNode(m)
      BY <2>1, Zenon DEF Document, DocumentNode
    <3> QED
      BY <3>2, <3>3, <3>4
  <2>6. Reads(Body(m), <<Unread>>, <<DocumentNode(m)>>)
    BY <2>1, <2>2, <2>3, <2>5, FirstRead, ReadsConcat DEF IsSeq
  <2> QED
    BY <2>1, <2>2, <2>4, <2>6
<1> QED
  BY <1>0, <1>1, <1>2

-----------------------------------------------------------------------------
(* What damage does to a part p of a message that stands behind its first n *)
(* pieces, and in front of the pieces q.                                    *)

Arrives(p, e, q) == IF e.kind = "untagged" THEN Arrived(p, e) \o q ELSE Arrived(p, e)

Local(d, n) == [kind |-> d.kind, at |-> d.at - n]

Bears(m, d, p, n, q, t) ==
    d.kind # "none" /\ Local(d, n) \in Damages(p) => Safe(m, d, Arrives(p, Local(d, n), q), t)

(* The damages there are.                                                   *)
LEMMA DamageKinds ==
    ASSUME NEW d, NEW n \in Nat, d.at \in Nat, d.kind # "none", NEW p, IsSeq(p)
    PROVE  Local(d, n) \in Damages(p) <=>
              \/ d.kind = "ends" /\ d.at - n \in 0..(Len(p) - 1)
              \/ d.kind = "cut" /\ d.at - n \in 1..Len(p)
              \/ /\ d.kind = "untagged" /\ d.at - n \in 1..Len(p)
                 /\ p[d.at - n].is \in {"start", "end"}
<1>1. DOMAIN p = 1..Len(p)
  BY DEF IsSeq
<1> QED
  BY <1>1 DEF Damages, Local

(* What arrives with each of them.                                          *)
LEMMA ArrivesAs ==
    ASSUME NEW d, NEW n, NEW p, NEW q
    PROVE  /\ d.kind = "ends" => Arrives(p, Local(d, n), q) = SubSeq(p, 1, d.at - n)
           /\ d.kind = "cut" =>
                 Arrives(p, Local(d, n), q)
                    = Append(SubSeq(p, 1, (d.at - n) - 1), CutPiece(p[d.at - n]))
           /\ d.kind = "untagged" => Arrives(p, Local(d, n), q) = RemoveAt(p, d.at - n) \o q
BY DEF Arrives, Local, Arrived

(* The beginning of two parts.                                              *)
LEMMA PrefixConcat ==
    ASSUME NEW S, NEW p \in Seq(S), NEW r \in Seq(S), NEW k \in 0..(Len(p) + Len(r))
    PROVE  /\ k <= Len(p) => SubSeq(p \o r, 1, k) = SubSeq(p, 1, k)
           /\ Len(p) <= k => SubSeq(p \o r, 1, k) = p \o SubSeq(r, 1, k - Len(p))
<1>1. PICK a, b, all : a = Len(p) /\ b = Len(r) /\ all = p \o r
  OBVIOUS
<1>n. a \in Nat /\ b \in Nat
  BY <1>1
<1>2. /\ all \in Seq(S) /\ Len(all) = a + b
      /\ \A i \in 1..a : all[i] = p[i]
      /\ \A i \in 1..b : all[a + i] = r[i]
  <2>1. /\ p \o r \in Seq(S) /\ Len(p \o r) = Len(p) + Len(r)
        /\ \A i \in 1..(Len(p) + Len(r)) :
              (p \o r)[i] = IF i <= Len(p) THEN p[i] ELSE r[i - Len(p)]
    BY ConcatProperties
  <2> QED
    BY <1>1, <1>n, <2>1
<1>3. PICK part : part = SubSeq(all, 1, k)
  OBVIOUS
<1>4. part \in Seq(S) /\ Len(part) = k /\ \A i \in 1..k : part[i] = all[i]
  BY <1>1, <1>n, <1>2, <1>3
<1>5. ASSUME k <= a PROVE part = SubSeq(p, 1, k)
  <2>1. /\ SubSeq(p, 1, k) \in Seq(S) /\ Len(SubSeq(p, 1, k)) = k
        /\ \A i \in 1..k : SubSeq(p, 1, k)[i] = p[i]
    BY <1>1, <1>n, <1>5
  <2>2. \A i \in 1..k : i \in 1..a
    BY <1>n, <1>5
  <2> QED
    BY <1>2, <1>4, <2>1, <2>2, SeqEqual
<1>6. ASSUME a <= k PROVE part = p \o SubSeq(r, 1, k - a)
  <2>1. PICK head : head = SubSeq(r, 1, k - a)
    OBVIOUS
  <2>2. head \in Seq(S) /\ Len(head) = k - a /\ \A i \in 1..(k - a) : head[i] = r[i]
    BY <1>1, <1>n, <1>6, <2>1
  <2>3. /\ p \o head \in Seq(S) /\ Len(p \o head) = k
        /\ \A i \in 1..k : (p \o head)[i] = IF i <= a THEN p[i] ELSE head[i - a]
    <3>1. /\ p \o head \in Seq(S) /\ Len(p \o head) = Len(p) + Len(head)
          /\ \A i \in 1..(Len(p) + Len(head)) :
                (p \o head)[i] = IF i <= Len(p) THEN p[i] ELSE head[i - Len(p)]
      BY <2>2, ConcatProperties
    <3> QED
      BY <1>1, <1>n, <1>6, <2>2, <3>1
  <2>4. ASSUME NEW i \in 1..k PROVE part[i] = (p \o head)[i]
    <3>1. CASE i <= a
      BY <1>2, <1>4, <2>3, <3>1
    <3>2. CASE ~(i <= a)
      <4>1. i - a \in 1..(k - a) /\ i - a \in 1..b /\ a + (i - a) = i
        BY <1>1, <1>n, <3>2
      <4> QED
        BY <1>2, <1>4, <2>2, <2>3, <3>2, <4>1
    <3> QED
      BY <3>1, <3>2
  <2> QED
    BY <1>4, <2>1, <2>3, <2>4, SeqEqual
<1> QED
  BY <1>1, <1>n, <1>3, <1>5, <1>6

(* Two parts without one piece.                                             *)
LEMMA RemoveConcat ==
    ASSUME NEW S, NEW p \in Seq(S), NEW r \in Seq(S), NEW k \in 1..(Len(p) + Len(r))
    PROVE  /\ k <= Len(p) => RemoveAt(p \o r, k) = RemoveAt(p, k) \o r
           /\ Len(p) < k => RemoveAt(p \o r, k) = p \o RemoveAt(r, k - Len(p))
<1>1. PICK a, b, all : a = Len(p) /\ b = Len(r) /\ all = p \o r
  OBVIOUS
<1>2. a \in Nat /\ b \in Nat
  BY <1>1
<1>3. ASSUME NEW u \in Seq(S), NEW v \in Seq(S)
      PROVE  /\ u \o v \in Seq(S) /\ Len(u \o v) = Len(u) + Len(v)
             /\ \A i \in 1..(Len(u) + Len(v)) :
                   (u \o v)[i] = IF i <= Len(u) THEN u[i] ELSE v[i - Len(u)]
  BY ConcatProperties
<1>4. /\ all \in Seq(S) /\ Len(all) = a + b
      /\ \A i \in 1..(a + b) : all[i] = IF i <= a THEN p[i] ELSE r[i - a]
  BY <1>3, <1>1, <1>2
<1>5. PICK part : part = RemoveAt(all, k)
  OBVIOUS
<1>6. /\ part \in Seq(S) /\ Len(part) = (a + b) - 1
      /\ \A j \in 1..((a + b) - 1) : part[j] = IF j < k THEN all[j] ELSE all[j + 1]
  <2>1. k \in 1..Len(all)
    BY <1>1, <1>2, <1>4
  <2> QED
    BY <1>4, <1>5, <2>1, RemoveAtProperties
<1>7. ASSUME k <= a PROVE part = RemoveAt(p, k) \o r
  <2>1. PICK less : less = RemoveAt(p, k)
    OBVIOUS
  <2>2. /\ less \in Seq(S) /\ Len(less) = a - 1
        /\ \A j \in 1..(a - 1) : less[j] = IF j < k THEN p[j] ELSE p[j + 1]
    <3>1. k \in 1..Len(p)
      BY <1>1, <1>2, <1>7
    <3> QED
      BY <1>1, <1>2, <2>1, <3>1, RemoveAtProperties
  <2>3. /\ less \o r \in Seq(S) /\ Len(less \o r) = (a + b) - 1
        /\ \A i \in 1..((a + b) - 1) :
              (less \o r)[i] = IF i <= a - 1 THEN less[i] ELSE r[i - (a - 1)]
    <3>1. Len(less) + Len(r) = (a + b) - 1
      BY <1>1, <1>2, <2>2
    <3> QED
      BY <1>3, <2>2, <3>1
  <2>4. ASSUME NEW j \in 1..((a + b) - 1) PROVE part[j] = (less \o r)[j]
    <3>1. j \in 1..(a + b) /\ j + 1 \in 1..(a + b)
      BY <1>1, <1>2
    <3>2. CASE j < k
      BY <1>2, <1>4, <1>6, <1>7, <2>2, <2>3, <3>1, <3>2
    <3>3. CASE ~(j < k) /\ j <= a - 1
      <4>1. part[j] = all[j + 1] /\ all[j + 1] = p[j + 1]
        BY <1>2, <1>4, <1>6, <3>1, <3>3
      <4>2. (less \o r)[j] = p[j + 1]
        BY <2>2, <2>3, <3>3
      <4> QED
        BY <4>1, <4>2
    <3>4. CASE ~(j < k) /\ ~(j <= a - 1)
      <4>1. (j + 1) - a = j - (a - 1)
        BY <1>1, <1>2
      <4>2. part[j] = all[j + 1] /\ all[j + 1] = r[(j + 1) - a]
        BY <1>2, <1>4, <1>6, <3>1, <3>4
      <4>3. (less \o r)[j] = r[j - (a - 1)]
        BY <2>3, <3>4
      <4> QED
        BY <4>1, <4>2, <4>3
    <3> QED
      BY <3>2, <3>3, <3>4
  <2> QED
    BY <1>6, <2>1, <2>3, <2>4, SeqEqual
<1>8. ASSUME a < k PROVE part = p \o RemoveAt(r, k - a)
  <2>1. PICK less : less = RemoveAt(r, k - a)
    OBVIOUS
  <2>2. /\ less \in Seq(S) /\ Len(less) = b - 1
        /\ \A j \in 1..(b - 1) : less[j] = IF j < k - a THEN r[j] ELSE r[j + 1]
    <3>1. k - a \in 1..Len(r)
      BY <1>1, <1>2, <1>8
    <3> QED
      BY <1>1, <1>2, <2>1, <3>1, RemoveAtProperties
  <2>3. /\ p \o less \in Seq(S) /\ Len(p \o less) = (a + b) - 1
        /\ \A i \in 1..((a + b) - 1) : (p \o less)[i] = IF i <= a THEN p[i] ELSE less[i - a]
    <3>1. Len(p) + Len(less) = (a + b) - 1
      BY <1>1, <1>2, <2>2
    <3>2. /\ p \o less \in Seq(S) /\ Len(p \o less) = Len(p) + Len(less)
          /\ \A i \in 1..(Len(p) + Len(less)) :
                (p \o less)[i] = IF i <= Len(p) THEN p[i] ELSE less[i - Len(p)]
      BY <1>3, <2>2
    <3> QED
      BY <1>1, <3>1, <3>2
  <2>4. ASSUME NEW j \in 1..((a + b) - 1) PROVE part[j] = (p \o less)[j]
    <3>1. j \in 1..(a + b) /\ j + 1 \in 1..(a + b)
      BY <1>1, <1>2
    <3>2. CASE j <= a
      BY <1>2, <1>4, <1>6, <1>8, <2>3, <3>1, <3>2
    <3>3. CASE ~(j <= a)
      <4>1. /\ j - a \in 1..(b - 1) /\ (j + 1) - a = (j - a) + 1
            /\ j - a < k - a <=> j < k
        BY <1>1, <1>2, <3>3
      <4>2. (p \o less)[j] = less[j - a]
        BY <2>3, <3>3
      <4>3. less[j - a] = IF j < k THEN r[j - a] ELSE r[(j + 1) - a]
        BY <2>2, <4>1
      <4>4. part[j] = IF j < k THEN r[j - a] ELSE r[(j + 1) - a]
        <5>1. all[j] = r[j - a] /\ all[j + 1] = r[(j + 1) - a]
          BY <1>2, <1>4, <3>1, <3>3
        <5> QED
          BY <1>6, <5>1
      <4> QED
        BY <4>2, <4>3, <4>4
    <3> QED
      BY <3>2, <3>3
  <2> QED
    BY <1>6, <2>1, <2>3, <2>4, SeqEqual
<1> QED
  BY <1>1, <1>2, <1>5, <1>7, <1>8

(* Pieces of any kind, together.                                            *)
LEMMA SeqsOfOne ==
    ASSUME NEW p, NEW q, NEW r, IsSeq(p), IsSeq(q), IsSeq(r), NEW x
    PROVE  \E S : p \in Seq(S) /\ q \in Seq(S) /\ r \in Seq(S) /\ x \in S
<1>1. PICK A : p \in Seq(A)
  BY DEF IsSeq
<1>2. PICK B : q \in Seq(B)
  BY DEF IsSeq
<1>3. PICK C : r \in Seq(C)
  BY DEF IsSeq
<1>4. PICK S : S = A \cup B \cup C \cup {x}
  OBVIOUS
<1>5. /\ \A i \in 1..Len(p) : p[i] \in S
      /\ \A i \in 1..Len(q) : q[i] \in S
      /\ \A i \in 1..Len(r) : r[i] \in S
  BY <1>1, <1>2, <1>3, <1>4
<1>6. p \in Seq(S) /\ q \in Seq(S) /\ r \in Seq(S)
  BY <1>1, <1>2, <1>3, <1>5
<1> QED
  BY <1>4, <1>6

(* What arrives is a sequence.                                              *)
LEMMA ArrivesSeq ==
    ASSUME NEW d, NEW n \in Nat, d.at \in Nat, d.kind # "none", NEW p, IsSeq(p),
           NEW q, IsSeq(q), Local(d, n) \in Damages(p)
    PROVE  IsSeq(Arrives(p, Local(d, n), q))
<1>1. PICK S : p \in Seq(S) /\ q \in Seq(S) /\ CutPiece(p[d.at - n]) \in S
  BY SeqsOfOne
<1>2. CASE d.kind = "ends"
  <2>1. d.at - n \in 0..(Len(p) - 1)
    BY <1>2, DamageKinds
  <2>2. SubSeq(p, 1, d.at - n) \in Seq(S)
    BY <1>1, <2>1
  <2> QED
    BY <1>2, <2>2, ArrivesAs DEF IsSeq
<1>3. CASE d.kind = "cut"
  <2>1. d.at - n \in 1..Len(p)
    BY <1>3, DamageKinds
  <2>2. SubSeq(p, 1, (d.at - n) - 1) \in Seq(S)
    BY <1>1, <2>1
  <2>3. Append(SubSeq(p, 1, (d.at - n) - 1), CutPiece(p[d.at - n])) \in Seq(S)
    BY <1>1, <2>2
  <2> QED
    BY <1>3, <2>3, ArrivesAs DEF IsSeq
<1>4. CASE d.kind = "untagged"
  <2>1. d.at - n \in 1..Len(p)
    BY <1>4, DamageKinds
  <2>2. RemoveAt(p, d.at - n) \in Seq(S)
    BY <1>1, <2>1, RemoveAtProperties
  <2>3. RemoveAt(p, d.at - n) \o q \in Seq(S)
    BY <1>1, <2>2, ConcatProperties
  <2> QED
    BY <1>4, <2>3, ArrivesAs DEF IsSeq
<1> QED
  BY <1>2, <1>3, <1>4, DamageKinds


(* Damage to two parts is damage to the first or to the second.             *)
LEMMA DamageSplit ==
    ASSUME NEW d, NEW n \in Nat, d.at \in Nat, d.kind # "none",
           NEW p, NEW r, NEW q, IsSeq(p), IsSeq(r), IsSeq(q), Local(d, n) \in Damages(p \o r)
    PROVE  \/ /\ Local(d, n) \in Damages(p)
              /\ Arrives(p \o r, Local(d, n), q) = Arrives(p, Local(d, n), r \o q)
           \/ /\ Local(d, n + Len(p)) \in Damages(r)
              /\ Arrives(p \o r, Local(d, n), q) = p \o Arrives(r, Local(d, n + Len(p)), q)
<1>1. PICK k, a, b, all : k = d.at - n /\ a = Len(p) /\ b = Len(r) /\ all = p \o r
  OBVIOUS
<1>2. /\ IsSeq(all) /\ a \in Nat /\ b \in Nat /\ Len(all) = a + b /\ k \in Int
      /\ \A i \in 1..a : all[i] = p[i]
      /\ \A i \in 1..b : all[a + i] = r[i]
  BY <1>1, SeqConcat
<1>3. /\ n + a \in Nat /\ d.at - (n + a) = k - a
  BY <1>1, <1>2
<1>4. PICK x : x = CutPiece(all[k])
  OBVIOUS
<1>5. PICK S : p \in Seq(S) /\ r \in Seq(S) /\ q \in Seq(S) /\ x \in S
  BY SeqsOfOne
<1>6. /\ Local(d, n) \in Damages(all) <=>
            \/ d.kind = "ends" /\ k \in 0..((a + b) - 1)
            \/ d.kind = "cut" /\ k \in 1..(a + b)
            \/ d.kind = "untagged" /\ k \in 1..(a + b) /\ all[k].is \in {"start", "end"}
      /\ Local(d, n) \in Damages(p) <=>
            \/ d.kind = "ends" /\ k \in 0..(a - 1)
            \/ d.kind = "cut" /\ k \in 1..a
            \/ d.kind = "untagged" /\ k \in 1..a /\ p[k].is \in {"start", "end"}
      /\ Local(d, n + a) \in Damages(r) <=>
            \/ d.kind = "ends" /\ k - a \in 0..(b - 1)
            \/ d.kind = "cut" /\ k - a \in 1..b
            \/ d.kind = "untagged" /\ k - a \in 1..b /\ r[k - a].is \in {"start", "end"}
  <2>1. Local(d, n) \in Damages(all) <=>
            \/ d.kind = "ends" /\ d.at - n \in 0..(Len(all) - 1)
            \/ d.kind = "cut" /\ d.at - n \in 1..Len(all)
            \/ /\ d.kind = "untagged" /\ d.at - n \in 1..Len(all)
               /\ all[d.at - n].is \in {"start", "end"}
    BY <1>2, DamageKinds
  <2>2. Local(d, n) \in Damages(p) <=>
            \/ d.kind = "ends" /\ d.at - n \in 0..(Len(p) - 1)
            \/ d.kind = "cut" /\ d.at - n \in 1..Len(p)
            \/ d.kind = "untagged" /\ d.at - n \in 1..Len(p) /\ p[d.at - n].is \in {"start", "end"}
    BY DamageKinds
  <2>3. Local(d, n + a) \in Damages(r) <=>
            \/ d.kind = "ends" /\ d.at - (n + a) \in 0..(Len(r) - 1)
            \/ d.kind = "cut" /\ d.at - (n + a) \in 1..Len(r)
            \/ /\ d.kind = "untagged" /\ d.at - (n + a) \in 1..Len(r)
               /\ r[d.at - (n + a)].is \in {"start", "end"}
    BY <1>3, DamageKinds
  <2> QED
    BY <1>1, <1>2, <1>3, <2>1, <2>2, <2>3
<1>a. ASSUME NEW part, NEW more
      PROVE  /\ d.kind = "ends" => Arrives(part, Local(d, n), more) = SubSeq(part, 1, k)
             /\ d.kind = "cut" =>
                   Arrives(part, Local(d, n), more)
                      = Append(SubSeq(part, 1, k - 1), CutPiece(part[k]))
             /\ d.kind = "untagged" => Arrives(part, Local(d, n), more) = RemoveAt(part, k) \o more
  <2>1. /\ d.kind = "ends" => Arrives(part, Local(d, n), more) = SubSeq(part, 1, d.at - n)
        /\ d.kind = "cut" =>
              Arrives(part, Local(d, n), more)
                 = Append(SubSeq(part, 1, (d.at - n) - 1), CutPiece(part[d.at - n]))
        /\ d.kind = "untagged" =>
              Arrives(part, Local(d, n), more) = RemoveAt(part, d.at - n) \o more
    BY ArrivesAs
  <2> QED
    BY <1>1, <2>1
<1>b. /\ d.kind = "ends" => Arrives(r, Local(d, n + a), q) = SubSeq(r, 1, k - a)
      /\ d.kind = "cut" =>
            Arrives(r, Local(d, n + a), q) = Append(SubSeq(r, 1, (k - a) - 1), CutPiece(r[k - a]))
      /\ d.kind = "untagged" => Arrives(r, Local(d, n + a), q) = RemoveAt(r, k - a) \o q
  <2>1. PICK l : l = n + a
    OBVIOUS
  <2>2. /\ d.kind = "ends" => Arrives(r, Local(d, l), q) = SubSeq(r, 1, d.at - l)
        /\ d.kind = "cut" =>
              Arrives(r, Local(d, l), q)
                 = Append(SubSeq(r, 1, (d.at - l) - 1), CutPiece(r[d.at - l]))
        /\ d.kind = "untagged" => Arrives(r, Local(d, l), q) = RemoveAt(r, d.at - l) \o q
    BY ArrivesAs
  <2> QED
    BY <1>3, <2>1, <2>2
<1>7. CASE d.kind = "ends"
  <2>1. k \in 0..((a + b) - 1)
    BY <1>1, <1>6, <1>7
  <2>2. /\ k <= a => SubSeq(all, 1, k) = SubSeq(p, 1, k)
        /\ a <= k => SubSeq(all, 1, k) = p \o SubSeq(r, 1, k - a)
    <3>1. k \in 0..(Len(p) + Len(r))
      BY <1>1, <1>2, <2>1
    <3> QED
      BY <1>1, <1>5, <3>1, PrefixConcat
  <2>3. /\ Arrives(all, Local(d, n), q) = SubSeq(all, 1, k)
        /\ Arrives(p, Local(d, n), r \o q) = SubSeq(p, 1, k)
        /\ Arrives(r, Local(d, n + a), q) = SubSeq(r, 1, k - a)
    BY <1>a, <1>b, <1>7
  <2>4. CASE k < a
    <3>1. k \in 0..(a - 1) /\ k <= a
      BY <1>2, <2>1, <2>4
    <3> QED
      BY <1>1, <1>6, <1>7, <2>2, <2>3, <3>1
  <2>5. CASE ~(k < a)
    <3>1. k - a \in 0..(b - 1) /\ a <= k
      BY <1>2, <2>1, <2>5
    <3> QED
      BY <1>1, <1>6, <1>7, <2>2, <2>3, <3>1
  <2> QED
    BY <2>4, <2>5
<1>8. CASE d.kind = "cut"
  <2>1. k \in 1..(a + b)
    BY <1>1, <1>6, <1>8
  <2>2. /\ k - 1 <= a => SubSeq(all, 1, k - 1) = SubSeq(p, 1, k - 1)
        /\ a <= k - 1 => SubSeq(all, 1, k - 1) = p \o SubSeq(r, 1, (k - 1) - a)
    <3>1. k - 1 \in 0..(Len(p) + Len(r))
      BY <1>1, <1>2, <2>1
    <3> QED
      BY <1>1, <1>5, <3>1, PrefixConcat
  <2>3. /\ Arrives(all, Local(d, n), q) = Append(SubSeq(all, 1, k - 1), CutPiece(all[k]))
        /\ Arrives(p, Local(d, n), r \o q) = Append(SubSeq(p, 1, k - 1), CutPiece(p[k]))
        /\ Arrives(r, Local(d, n + a), q)
              = Append(SubSeq(r, 1, (k - a) - 1), CutPiece(r[k - a]))
    BY <1>a, <1>b, <1>8
  <2>4. CASE k <= a
    <3>1. k \in 1..a /\ k - 1 <= a
      BY <1>2, <2>1, <2>4
    <3>2. all[k] = p[k]
      BY <1>2, <3>1
    <3> QED
      BY <1>1, <1>6, <1>8, <2>2, <2>3, <3>1, <3>2
  <2>5. CASE ~(k <= a)
    <3>1. k - a \in 1..b /\ a <= k - 1 /\ a + (k - a) = k /\ (k - a) - 1 = (k - 1) - a
      BY <1>2, <2>1, <2>5
    <3>2. all[k] = r[k - a]
      BY <1>2, <3>1
    <3>3. PICK head : head = SubSeq(r, 1, (k - 1) - a)
      OBVIOUS
    <3>4. head \in Seq(S)
      <4>1. (k - 1) - a \in 0..b
        BY <1>2, <3>1
      <4>2. b = Len(r)
        BY <1>1
      <4> QED
        BY <1>5, <3>3, <4>1, <4>2
    <3>5. Append(p \o head, x) = p \o Append(head, x)
      <4>1. /\ p \o head \in Seq(S) /\ <<x>> \in Seq(S)
            /\ Append(p \o head, x) = (p \o head) \o <<x>> /\ Append(head, x) = head \o <<x>>
        BY <1>5, <3>4, ConcatProperties, AppendIsConcat
      <4>2. (p \o head) \o <<x>> = p \o (head \o <<x>>)
        <5>1. PICK last : last = <<x>>
          OBVIOUS
        <5>2. (p \o head) \o last = p \o (head \o last)
          <6>1. p \in Seq(S) /\ head \in Seq(S) /\ last \in Seq(S)
            BY <1>5, <3>4, <4>1, <5>1
          <6>2. \A u, v, w \in Seq(S) : (u \o v) \o w = u \o (v \o w)
            BY Regroup
          <6> QED
            BY <6>1, <6>2
        <5> QED
          BY <5>1, <5>2
      <4> QED
        BY <4>1, <4>2
    <3>6. Arrives(all, Local(d, n), q) = Append(p \o head, x)
      BY <1>4, <2>2, <2>3, <3>1, <3>3
    <3>7. Arrives(r, Local(d, n + a), q) = Append(head, x)
      BY <1>4, <2>3, <3>1, <3>2, <3>3
    <3> QED
      BY <1>1, <1>6, <1>8, <3>1, <3>5, <3>6, <3>7
  <2> QED
    BY <2>4, <2>5
<1>9. CASE d.kind = "untagged"
  <2>1. k \in 1..(a + b) /\ all[k].is \in {"start", "end"}
    BY <1>1, <1>6, <1>9
  <2>2. /\ k <= a => RemoveAt(all, k) = RemoveAt(p, k) \o r
        /\ a < k => RemoveAt(all, k) = p \o RemoveAt(r, k - a)
    <3>1. k \in 1..(Len(p) + Len(r))
      BY <1>1, <1>2, <2>1
    <3> QED
      <4>1. /\ k <= Len(p) => RemoveAt(p \o r, k) = RemoveAt(p, k) \o r
            /\ Len(p) < k => RemoveAt(p \o r, k) = p \o RemoveAt(r, k - Len(p))
        BY <1>5, <3>1, RemoveConcat
      <4> QED
        BY <1>1, <4>1
  <2>3. /\ Arrives(all, Local(d, n), q) = RemoveAt(all, k) \o q
        /\ Arrives(p, Local(d, n), r \o q) = RemoveAt(p, k) \o (r \o q)
        /\ Arrives(r, Local(d, n + a), q) = RemoveAt(r, k - a) \o q
    BY <1>a, <1>b, <1>9
  <2>4. CASE k <= a
    <3>1. k \in 1..a /\ all[k] = p[k]
      BY <1>2, <2>1, <2>4
    <3>2. RemoveAt(p, k) \in Seq(S)
      BY <1>1, <1>5, <3>1, RemoveAtProperties
    <3>3. (RemoveAt(p, k) \o r) \o q = RemoveAt(p, k) \o (r \o q)
      BY <1>5, <3>2, Regroup
    <3> QED
      BY <1>1, <1>6, <1>9, <2>1, <2>2, <2>3, <2>4, <3>1, <3>3
  <2>5. CASE ~(k <= a)
    <3>1. k - a \in 1..b /\ a < k /\ a + (k - a) = k
      BY <1>2, <2>1, <2>5
    <3>2. RemoveAt(r, k - a) \in Seq(S)
      BY <1>1, <1>5, <3>1, RemoveAtProperties
    <3>3. (p \o RemoveAt(r, k - a)) \o q = p \o (RemoveAt(r, k - a) \o q)
      BY <1>5, <3>2, Regroup
    <3>4. all[k] = r[k - a]
      BY <1>2, <3>1
    <3> QED
      BY <1>1, <1>6, <1>9, <2>1, <2>2, <2>3, <3>1, <3>3, <3>4
  <2> QED
    BY <2>4, <2>5
<1> QED
  BY <1>1, <1>6, <1>7, <1>8, <1>9

(* So if both of them bear it, they bear it together.                       *)
LEMMA BearsConcat ==
    ASSUME NEW m, NEW d, d.at \in Nat, NEW n \in Nat,
           NEW p, NEW r, NEW q, IsSeq(p), IsSeq(r), IsSeq(q), NEW t, NEW u,
           Bears(m, d, p, n, r \o q, t), Reads(p, t, u), Bears(m, d, r, n + Len(p), q, u)
    PROVE  Bears(m, d, p \o r, n, q, t)
<1> SUFFICES ASSUME d.kind # "none", Local(d, n) \in Damages(p \o r)
             PROVE  Safe(m, d, Arrives(p \o r, Local(d, n), q), t)
  BY DEF Bears
<1>1. CASE /\ Local(d, n) \in Damages(p)
           /\ Arrives(p \o r, Local(d, n), q) = Arrives(p, Local(d, n), r \o q)
  BY <1>1 DEF Bears
<1>2. CASE /\ Local(d, n + Len(p)) \in Damages(r)
           /\ Arrives(p \o r, Local(d, n), q) = p \o Arrives(r, Local(d, n + Len(p)), q)
  <2>1. Safe(m, d, Arrives(r, Local(d, n + Len(p)), q), u)
    BY <1>2 DEF Bears
  <2>2. n + Len(p) \in Nat
    BY SeqConcat
  <2>3. IsSeq(Arrives(r, Local(d, n + Len(p)), q))
    BY <1>2, <2>2, ArrivesSeq
  <2> QED
    BY <1>2, <2>1, <2>3 DEF Reads
<1> QED
  BY <1>1, <1>2, DamageSplit

(* One piece.                                                               *)
LEMMA BearsOne ==
    ASSUME NEW m, NEW d, d.at \in Nat, NEW n \in Nat, NEW x, NEW q, IsSeq(q), NEW t,
           d.kind = "ends" /\ d.at = n => Safe(m, d, <<>>, t),
           d.kind = "cut" /\ d.at = n + 1 => Safe(m, d, <<CutPiece(x)>>, t),
           d.kind = "untagged" /\ d.at = n + 1 /\ x.is \in {"start", "end"} => Safe(m, d, q, t)
    PROVE  Bears(m, d, <<x>>, n, q, t)
<1> SUFFICES ASSUME d.kind # "none", Local(d, n) \in Damages(<<x>>)
             PROVE  Safe(m, d, Arrives(<<x>>, Local(d, n), q), t)
  BY DEF Bears
<1>1. PICK p, cut, none : p = <<x>> /\ cut = <<CutPiece(x)>> /\ none = <<>>
  OBVIOUS
<1>2. IsSeq(p) /\ Len(p) = 1 /\ p[1] = x
  BY <1>1, ShortSeqs
<1>3. \/ d.kind = "ends" /\ d.at - n \in 0..(Len(p) - 1)
      \/ d.kind = "cut" /\ d.at - n \in 1..Len(p)
      \/ d.kind = "untagged" /\ d.at - n \in 1..Len(p) /\ p[d.at - n].is \in {"start", "end"}
  BY <1>1, <1>2, DamageKinds
<1>4. CASE d.kind = "ends"
  <2>1. d.at = n /\ d.at - n = 0
    BY <1>2, <1>3, <1>4
  <2>2. Arrives(p, Local(d, n), q) = SubSeq(p, 1, 0)
    BY <1>4, <2>1, ArrivesAs
  <2>3. SubSeq(p, 1, 0) = <<>>
    BY <1>2 DEF IsSeq
  <2> QED
    BY <1>1, <1>4, <2>1, <2>2, <2>3
<1>5. CASE d.kind = "cut"
  <2>1. d.at = n + 1 /\ d.at - n = 1
    BY <1>2, <1>3, <1>5
  <2>2. Arrives(p, Local(d, n), q) = Append(SubSeq(p, 1, 1 - 1), CutPiece(p[1]))
    BY <1>5, <2>1, ArrivesAs
  <2>3. SubSeq(p, 1, 1 - 1) = none
    BY <1>1, <1>2 DEF IsSeq
  <2>4. Append(none, CutPiece(x)) = cut
    BY <1>1, ShortSeqs
  <2> QED
    BY <1>1, <1>2, <1>5, <2>1, <2>2, <2>3, <2>4
<1>6. CASE d.kind = "untagged"
  <2>1. d.at = n + 1 /\ d.at - n = 1
    BY <1>2, <1>3, <1>6
  <2>2. Arrives(p, Local(d, n), q) = RemoveAt(p, 1) \o q
    BY <1>6, <2>1, ArrivesAs
  <2>3. RemoveAt(p, 1) = none
    <3>1. p \in Seq({x}) /\ 1 \in 1..Len(p)
      BY <1>1, <1>2
    <3>2. RemoveAt(p, 1) \in Seq({x}) /\ Len(RemoveAt(p, 1)) = Len(p) - 1
      BY <3>1, RemoveAtProperties
    <3> QED
      BY <1>1, <1>2, <3>2, EmptySeq
  <2>4. none \o q = q
    BY <1>1, SeqShort
  <2> QED
    BY <1>1, <1>2, <1>3, <1>6, <2>1, <2>2, <2>3, <2>4
<1> QED
  BY <1>3, <1>4, <1>5, <1>6


(* At the end of the body or an error the parser goes home.                 *)
Settles(m, d, t) == Safe(m, d, <<>>, t)

Open(s, of, kids) == Append(s, Tree("element", of, kids))

(* It links every node that is open.                                        *)
LEMMA SettlesUp ==
    ASSUME NEW m, NEW d, NEW s, IsSeq(s), NEW is, NEW of, NEW kids, NEW node,
           Settles(m, d, Append(s, Tree(is, of, Append(kids, node))))
    PROVE  Settles(m, d, Append(Append(s, Tree(is, of, kids)), node))
<1>1. PICK none, t, u, up :
         /\ none = <<>> /\ t = Append(s, Tree(is, of, kids)) /\ u = Append(t, node)
         /\ up = Append(s, Tree(is, of, Append(kids, node)))
  OBVIOUS
<1>2. IsSeq(t) /\ Len(t) \in Nat /\ Len(t) > 0
  <2>1. IsSeq(t) /\ Len(s) \in Nat /\ Len(t) = Len(s) + 1
    BY <1>1, SeqAppend
  <2> QED
    BY <2>1
<1>3. Len(u) > 1 /\ Last(u) = node /\ Front(u) = t
  <2>1. Len(u) = Len(t) + 1 /\ Last(u) = node /\ Front(u) = t
    BY <1>1, <1>2, SeqAppend
  <2> QED
    BY <1>2, <2>1
<1>4. Up(u) = up
  <2>1. WithKid(t, node) = up
    BY <1>1, KidOnTop
  <2> QED
    BY <1>3, <2>1 DEF Up
<1>5. Moves(none, u) = {<<none, up>>}
  BY <1>1, <1>3, <1>4 DEF Moves
<1>6. Safe(m, d, none, up)
  BY <1>1 DEF Settles
<1>7. ASSUME NEW r \in Moves(none, u) PROVE Safe(m, d, r[1], r[2]) /\ r = <<r[1], r[2]>>
  <2>1. r = <<none, up>>
    BY <1>5
  <2>2. r[1] = none /\ r[2] = up
    BY <2>1
  <2> QED
    BY <1>6, <2>1, <2>2
<1>8. Safe(m, d, none, u)
  BY <1>3, <1>7, SafeBy
<1> QED
  BY <1>1, <1>8 DEF Settles

(* Home.                                                                    *)
LEMMA SettlesHome ==
    ASSUME NEW m, NEW d, NEW kids, DocOk(m, d, Document(kids))
    PROVE  Settles(m, d, <<Document(kids)>>)
<1>1. PICK t, none : t = <<Document(kids)>> /\ none = <<>>
  OBVIOUS
<1>2. ~(Len(t) > 1)
  BY <1>1, DocumentStacks
<1>3. Final(m, d, t)
  BY <1>1 DEF Final
<1>4. Moves(none, t) = {}
  BY <1>1, <1>2 DEF Moves
<1>5. Safe(m, d, none, t)
  BY <1>3, <1>4, SafeBy
<1> QED
  BY <1>1, <1>5 DEF Settles

(* A piece that is an error.                                                *)
LEMMA SafeStop ==
    ASSUME NEW m, NEW d, NEW piece, NEW t, ~CutTag(piece), Stops(t, piece),
           NEW b, IsSeq(b), Settles(m, d, t)
    PROVE  Safe(m, d, <<piece>> \o b, t)
<1>1. PICK all, none : all = <<piece>> \o b /\ none = <<>>
  OBVIOUS
<1>2. all # <<>> /\ Head(all) = piece
  BY <1>1, Behead
<1>3. Moves(all, t) = {<<none, t>>}
  BY <1>1, <1>2 DEF Moves
<1>4. Safe(m, d, none, t)
  BY <1>1 DEF Settles
<1>5. ASSUME NEW r \in Moves(all, t) PROVE Safe(m, d, r[1], r[2]) /\ r = <<r[1], r[2]>>
  <2>1. r = <<none, t>>
    BY <1>3
  <2>2. r[1] = none /\ r[2] = t
    BY <2>1
  <2> QED
    BY <1>4, <2>1, <2>2
<1>6. Safe(m, d, all, t)
  BY <1>2, <1>5, SafeBy
<1> QED
  BY <1>1, <1>6

(* A tag that is cut off.                                                   *)
LEMMA SafeCut ==
    ASSUME NEW m, NEW d, NEW piece, NEW t, CutTag(piece), NEW b, IsSeq(b),
           \A node \in CutNodes(piece.of) : Settles(m, d, WithKid(t, node))
    PROVE  Safe(m, d, <<piece>> \o b, t)
<1>1. PICK all, none : all = <<piece>> \o b /\ none = <<>>
  OBVIOUS
<1>2. all # <<>> /\ Head(all) = piece
  BY <1>1, Behead
<1>3. Moves(all, t) = {<<none, WithKid(t, node)>> : node \in CutNodes(piece.of)}
  BY <1>1, <1>2 DEF Moves
<1>4. ASSUME NEW r \in Moves(all, t) PROVE Safe(m, d, r[1], r[2]) /\ r = <<r[1], r[2]>>
  <2>1. PICK node \in CutNodes(piece.of) : r = <<none, WithKid(t, node)>>
    BY <1>3
  <2>2. r[1] = none /\ r[2] = WithKid(t, node)
    BY <2>1
  <2>3. Safe(m, d, none, WithKid(t, node))
    BY <1>1, <2>1 DEF Settles
  <2> QED
    BY <2>1, <2>2, <2>3
<1>5. Safe(m, d, all, t)
  BY <1>2, <1>4, SafeBy
<1> QED
  BY <1>1, <1>5

(* A part and nothing behind it.                                            *)
LEMMA SafeLast ==
    ASSUME NEW m, NEW d, NEW p, IsSeq(p), NEW t, NEW u, Reads(p, t, u), Settles(m, d, u)
    PROVE  Safe(m, d, p, t)
<1>1. PICK none : none = <<>>
  OBVIOUS
<1>2. IsSeq(none) /\ p \o none = p
  BY <1>1, SeqNone, SeqShort
<1>3. Safe(m, d, p \o none, t)
  BY <1>1, <1>2 DEF Settles, Reads
<1> QED
  BY <1>2, <1>3

(* A single piece: an error, or a tag cut off.                              *)
LEMMA SafeOne ==
    ASSUME NEW m, NEW d, NEW piece, NEW t
    PROVE  /\ ~CutTag(piece) /\ Stops(t, piece) /\ Settles(m, d, t) => Safe(m, d, <<piece>>, t)
           /\ /\ CutTag(piece)
              /\ \A node \in CutNodes(piece.of) : Settles(m, d, WithKid(t, node))
              => Safe(m, d, <<piece>>, t)
<1>1. PICK none, one : none = <<>> /\ one = <<piece>>
  OBVIOUS
<1>2. IsSeq(none) /\ one \o none = one
  BY <1>1, SeqNone, SeqShort, ShortSeqs
<1>3. /\ ~CutTag(piece) /\ Stops(t, piece) /\ Settles(m, d, t) => Safe(m, d, one \o none, t)
      /\ /\ CutTag(piece)
         /\ \A node \in CutNodes(piece.of) : Settles(m, d, WithKid(t, node))
         => Safe(m, d, one \o none, t)
  BY <1>1, <1>2, SafeStop, SafeCut
<1> QED
  BY <1>1, <1>2, <1>3

(* What is left of a piece.                                                 *)
LEMMA CutPieceIs ==
    ASSUME NEW is, NEW of
    PROVE  LET piece == CutPiece(Piece(is, of))
           IN /\ piece.is = is /\ piece.cut
              /\ is # "text" => piece.of = of
              /\ is = "text" => piece.of = [of EXCEPT !.cut = TRUE]
BY DEF CutPiece, Piece

(* Reading on into an end tag of something else: all that stood before it   *)
(* is linked to the element that is open.                                   *)
LEMMA Mismatch ==
    ASSUME NEW m, NEW d, NEW s, IsSeq(s), s # <<>>, NEW of, NEW kids, IsSeq(kids),
           NEW r, NEW new, Yields(r, new), NEW q, IsSeq(q), NEW wrong, wrong # of,
           Settles(m, d, Open(s, of, kids \o new))
    PROVE  Safe(m, d, r \o (<<Piece("end", wrong)>> \o q), Open(s, of, kids))
<1>1. PICK piece, t, u : /\ piece = Piece("end", wrong) /\ t = Open(s, of, kids)
                         /\ u = Open(s, of, kids \o new)
  OBVIOUS
<1>2. piece.is = "end" /\ piece.of = wrong
  BY <1>1 DEF Piece
<1>3. Len(u) > 1 /\ Last(u).of = of
  <2>1. PICK node : node = Tree("element", of, kids \o new)
    OBVIOUS
  <2>2. u = Append(s, node) /\ node.of = of
    BY <1>1, <2>1 DEF Open, Tree
  <2>3. Len(s) \in Nat /\ Len(u) = Len(s) + 1 /\ Last(u) = node
    BY <2>2, SeqAppend
  <2>4. Len(s) # 0
    BY EmptySeq DEF IsSeq
  <2> QED
    BY <2>2, <2>3, <2>4
<1>4. ~CutTag(piece) /\ Stops(u, piece)
  BY <1>2, <1>3 DEF CutTag, Stops
<1>5. Safe(m, d, <<piece>> \o q, u)
  BY <1>1, <1>4, SafeStop
<1>6. IsSeq(<<piece>> \o q)
  BY Behead
<1>7. Reads(r, t, u)
  BY <1>1 DEF Yields, Open
<1>8. Safe(m, d, r \o (<<piece>> \o q), t)
  BY <1>5, <1>6, <1>7 DEF Reads
<1> QED
  BY <1>1, <1>8


(* An element and what stands in it.                                        *)
LEMMA BearsGroup ==
    ASSUME NEW m, NEW d, d.at \in Nat, NEW n \in Nat, NEW name, NEW inside, NEW new,
           Yields(inside, new), NEW q, IsSeq(q),
           NEW s, IsSeq(s), NEW is, NEW of, NEW kids, IsSeq(kids),
           NEW t, t = Append(s, Tree(is, of, kids)),
           d.kind = "ends" /\ d.at = n => Settles(m, d, t),
           \A cut \in CutNodes(name) : d.kind = "cut" /\ d.at = n + 1 =>
              Settles(m, d, Append(s, Tree(is, of, Append(kids, cut)))),
           d.kind = "untagged" /\ d.at = n + 1 =>
              Safe(m, d, inside \o (<<Piece("end", name)>> \o q), t),
           Bears(m, d, inside, n + 1, <<Piece("end", name)>> \o q, Open(t, name, <<>>)),
           Settles(m, d, Append(s, Tree(is, of, Append(kids, Tree("element", name, new))))),
           d.kind = "untagged" => Safe(m, d, q, Open(t, name, new))
    PROVE  Bears(m, d, Group(name, inside), n, q, t)
<1>1. PICK first, last, none : /\ first = Piece("start", name) /\ last = Piece("end", name)
                               /\ none = <<>>
  OBVIOUS
<1>2. /\ first.is = "start" /\ first.of = name /\ ~CutTag(first)
      /\ last.is = "end" /\ last.of = name /\ ~CutTag(last)
  BY <1>1 DEF Piece, CutTag
<1>3. /\ CutPiece(first).is = "start" /\ CutPiece(first).of = name /\ CutTag(CutPiece(first))
      /\ CutPiece(last).is = "end" /\ CutPiece(last).cut /\ ~CutTag(CutPiece(last))
  <2>1. /\ CutPiece(first).is = "start" /\ CutPiece(first).of = name /\ CutPiece(first).cut
    BY <1>1 DEF CutPiece, Piece
  <2>2. /\ CutPiece(last).is = "end" /\ CutPiece(last).cut
    BY <1>1, CutPieceIs
  <2> QED
    BY <2>1, <2>2 DEF CutTag
<1>4. /\ IsSeq(inside) /\ IsSeq(new) /\ IsSeq(<<first>>) /\ IsSeq(<<last>>)
      /\ IsSeq(<<last>> \o q) /\ IsSeq(inside \o (<<last>> \o q)) /\ IsSeq(none)
  BY <1>1, ShortSeqs, SeqNone, SeqConcat DEF Yields
<1>5. IsSeq(t) /\ t # <<>> /\ Len(t) \in Nat /\ Len(t) > 0
  <2>1. IsSeq(t) /\ t # <<>> /\ Len(s) \in Nat /\ Len(t) = Len(s) + 1
    BY SeqAppend
  <2> QED
    BY <2>1
<1>6. PICK top, full : top = Open(t, name, none) /\ full = Open(t, name, new)
  OBVIOUS
<1>7. Len(full) > 1 /\ Last(full).of = name
  <2>1. PICK node : node = Tree("element", name, new)
    OBVIOUS
  <2>2. full = Append(t, node) /\ node.of = name
    BY <1>6, <2>1 DEF Open, Tree
  <2>3. Len(full) = Len(t) + 1 /\ Last(full) = node
    BY <1>5, <2>2, SeqAppend
  <2> QED
    BY <1>5, <2>2, <2>3
<1>8. Bears(m, d, <<first>>, n, inside \o (<<last>> \o q), t)
  <2>1. ASSUME d.kind = "cut", d.at = n + 1 PROVE Safe(m, d, <<CutPiece(first)>>, t)
    <3>1. ASSUME NEW cut \in CutNodes(CutPiece(first).of)
          PROVE  Settles(m, d, WithKid(t, cut))
      <4>1. WithKid(t, cut) = Append(s, Tree(is, of, Append(kids, cut)))
        BY KidOnTop
      <4> QED
        BY <1>3, <2>1, <4>1
    <3> QED
      BY <1>3, <3>1, SafeOne
  <2>2. d.kind = "ends" /\ d.at = n => Safe(m, d, <<>>, t)
    BY DEF Settles
  <2>3. d.kind = "untagged" /\ d.at = n + 1 => Safe(m, d, inside \o (<<last>> \o q), t)
    BY <1>1
  <2> QED
    BY <1>4, <2>1, <2>2, <2>3, BearsOne
<1>9. Reads(<<first>>, t, top)
  <2>1. StepOf(t, first) = top
    BY <1>1, <1>2, <1>6 DEF StepOf, Open, Node, Tree
  <2>2. ~Stops(t, first)
    BY <1>2 DEF Stops
  <2> QED
    BY <1>2, <2>1, <2>2, ReadsPiece
<1>10. Reads(inside, top, full)
  <2>1. Reads(inside, Open(t, name, none), Open(t, name, none \o new))
    BY <1>4, <1>5 DEF Yields, Open
  <2>2. none \o new = new
    BY <1>1, <1>4, SeqShort
  <2> QED
    BY <1>6, <2>1, <2>2
<1>11. Settles(m, d, full)
  <2>1. PICK node : node = Tree("element", name, new)
    OBVIOUS
  <2>2. Settles(m, d, Append(Append(s, Tree(is, of, kids)), node))
    BY <2>1, SettlesUp
  <2> QED
    BY <1>6, <2>1, <2>2 DEF Open
<1>12. \A l \in Nat : Bears(m, d, <<last>>, l, q, full)
  <2> TAKE l \in Nat
  <2>1. Stops(full, CutPiece(last))
    BY <1>3, <1>7 DEF Stops
  <2>2. Safe(m, d, <<CutPiece(last)>>, full)
    BY <1>3, <1>11, <2>1, SafeOne
  <2>3. Safe(m, d, <<>>, full)
    BY <1>11 DEF Settles
  <2> QED
    BY <1>6, <2>2, <2>3, BearsOne
<1>13. Reads(<<first>> \o inside, t, full)
  BY <1>4, <1>9, <1>10, ReadsConcat
<1>14. Bears(m, d, <<first>> \o inside, n, <<last>> \o q, t)
  <2>1. Len(<<first>>) = 1
    OBVIOUS
  <2>2. Bears(m, d, inside, n + Len(<<first>>), <<last>> \o q, top)
    BY <1>1, <1>6, <2>1
  <2> QED
    BY <1>4, <1>8, <1>9, <2>2, BearsConcat
<1>15. Bears(m, d, (<<first>> \o inside) \o <<last>>, n, q, t)
  <2>1. IsSeq(<<first>> \o inside) /\ Len(<<first>> \o inside) \in Nat
    BY <1>4, SeqConcat DEF IsSeq
  <2>2. n + Len(<<first>> \o inside) \in Nat
    BY <2>1
  <2>3. Bears(m, d, <<last>>, n + Len(<<first>> \o inside), q, full)
    BY <1>12, <2>2
  <2> QED
    BY <1>4, <1>13, <1>14, <2>1, <2>3, BearsConcat
<1> QED
  BY <1>1, <1>15 DEF Group

CutText(k, name) == [Value(k, name) EXCEPT !.cut = TRUE]

(* An element with a text.                                                  *)
LEMMA BearsLeaf ==
    ASSUME NEW m, NEW d, d.at \in Nat, NEW n \in Nat, NEW k, NEW name, NEW q, IsSeq(q),
           NEW s, IsSeq(s), s # <<>>, NEW of, of # name, NEW kids, IsSeq(kids),
           Settles(m, d, Open(s, of, kids)),
           \A cut \in CutNodes(name) : Behind(d, n + 1) =>
              Settles(m, d, Open(s, of, Append(kids, cut))),
           Settles(m, d, Open(s, of, Append(kids, Node("text", Value(k, name))))),
           Settles(m, d, Open(s, of,
              Append(kids, Tree("element", name, <<Node("text", CutText(k, name))>>)))),
           Settles(m, d, Open(s, of, Append(kids, LeafNode(k, name)))),
           d.kind = "untagged" => Safe(m, d, q, Append(Open(s, of, kids), LeafNode(k, name)))
    PROVE  Bears(m, d, Leaf(k, name), n, q, Open(s, of, kids))
<1>1. PICK text, node, part, last, none, t :
         /\ text = Piece("text", Value(k, name)) /\ node = Node("text", Value(k, name))
         /\ part = Node("text", CutText(k, name)) /\ last = Piece("end", name) /\ none = <<>>
         /\ t = Open(s, of, kids)
  OBVIOUS
<1>2. /\ text.is = "text" /\ text.of = Value(k, name) /\ ~CutTag(text)
      /\ CutPiece(text).is = "text" /\ CutPiece(text).of = CutText(k, name)
      /\ ~CutTag(CutPiece(text))
  BY <1>1, CutPieceIs DEF Piece, CutTag, CutText
<1>3. Leaf(k, name) = Group(name, <<text>>)
  BY <1>1 DEF Leaf, Group
<1>4. Yields(<<text>>, <<node>>)
  <2>1. ASSUME NEW u, IsSeq(u), Len(u) > 1
        PROVE  StepOf(u, text) = WithKid(u, node) /\ ~Stops(u, text)
    BY <1>1, <1>2, <2>1 DEF StepOf, Stops
  <2> QED
    BY <1>2, <2>1, YieldsPiece
<1>5. IsSeq(t) /\ t # <<>> /\ Len(t) \in Nat /\ Len(t) > 0 /\ IsSeq(none)
  <2>1. t = Append(s, Tree("element", of, kids))
    BY <1>1 DEF Open
  <2>2. IsSeq(t) /\ t # <<>> /\ Len(s) \in Nat /\ Len(t) = Len(s) + 1
    BY <2>1, SeqAppend
  <2> QED
    BY <1>1, <2>2, SeqNone
<1>6. PICK top : top = Open(t, name, none)
  OBVIOUS
<1>7. Bears(m, d, <<text>>, n + 1, <<last>> \o q, top)
  <2>1. ASSUME d.kind = "ends", d.at = n + 1 PROVE Safe(m, d, <<>>, top)
    <3>1. Behind(d, n + 1)
      BY <2>1 DEF Behind
    <3>2. PICK empty : empty = Node("element", name)
      OBVIOUS
    <3>3. Settles(m, d, Append(s, Tree("element", of, Append(kids, empty))))
      <4>1. empty \in CutNodes(name)
        BY <3>2 DEF CutNodes
      <4> QED
        BY <3>1, <3>2, <4>1 DEF Open
    <3>4. Settles(m, d, Append(Append(s, Tree("element", of, kids)), empty))
      BY <3>3, SettlesUp
    <3>5. top = Append(Append(s, Tree("element", of, kids)), empty)
      BY <1>1, <1>6, <3>2 DEF Open, Node, Tree
    <3> QED
      BY <3>4, <3>5 DEF Settles
  <2>2. Safe(m, d, <<CutPiece(text)>>, top)
    <3>1. Len(top) > 1
      <4>1. Len(top) = Len(t) + 1
        BY <1>5, <1>6, SeqAppend DEF Open
      <4> QED
        BY <1>5, <4>1
    <3>2. StepOf(top, CutPiece(text)) = WithKid(top, part) /\ ~Stops(top, CutPiece(text))
      BY <1>1, <1>2, <3>1 DEF StepOf, Stops
    <3>3. WithKid(top, part) = Append(t, Tree("element", name, Append(none, part)))
      BY <1>5, <1>6, KidOnTop DEF Open
    <3>4. Append(none, part) = <<part>>
      BY <1>1, ShortSeqs
    <3>5. Reads(<<CutPiece(text)>>, top, Append(t, Tree("element", name, <<part>>)))
      BY <1>2, <3>2, <3>3, <3>4, ReadsPiece
    <3>6. PICK leaf : leaf = Tree("element", name, <<part>>)
      OBVIOUS
    <3>7. Settles(m, d, Append(s, Tree("element", of, Append(kids, leaf))))
      BY <1>1, <3>6 DEF Open
    <3>8. Settles(m, d, Append(Append(s, Tree("element", of, kids)), leaf))
      BY <3>7, SettlesUp
    <3>9. Settles(m, d, Append(t, leaf))
      BY <1>1, <3>8 DEF Open
    <3>10. IsSeq(<<CutPiece(text)>>)
      BY ShortSeqs
    <3> QED
      BY <3>5, <3>6, <3>9, <3>10, SafeLast
  <2>3. text.is \notin {"start", "end"}
    BY <1>2
  <2>4. n + 1 \in Nat /\ IsSeq(<<last>> \o q)
    BY Behead
  <2> QED
    BY <2>1, <2>2, <2>3, <2>4, BearsOne
<1>8. Safe(m, d, <<text>> \o (<<last>> \o q), t)
  <2>1. kids \o <<node>> = Append(kids, node)
    BY SeqShort
  <2>2. Settles(m, d, Open(s, of, kids \o <<node>>))
    BY <1>1, <2>1
  <2> QED
    BY <1>1, <1>4, <2>2, Mismatch
<1>9. LeafNode(k, name) = Tree("element", name, <<node>>)
  BY <1>1 DEF LeafNode
<1>10. ASSUME NEW cut \in CutNodes(name), d.kind = "cut", d.at = n + 1
       PROVE  Settles(m, d, Append(s, Tree("element", of, Append(kids, cut))))
  <2>1. Behind(d, n + 1)
    BY <1>10 DEF Behind
  <2> QED
    BY <2>1 DEF Open
<1>11. Settles(m, d, Append(s, Tree("element", of, Append(kids, Tree("element", name, <<node>>)))))
  BY <1>9 DEF Open
<1>12. d.kind = "untagged" => Safe(m, d, q, Open(t, name, <<node>>))
  BY <1>1, <1>9 DEF Open
<1>13. t = Append(s, Tree("element", of, kids))
  BY <1>1 DEF Open
<1>14. Bears(m, d, <<text>>, n + 1, <<Piece("end", name)>> \o q, Open(t, name, <<>>))
  BY <1>1, <1>6, <1>7
<1>15. Safe(m, d, <<text>> \o (<<Piece("end", name)>> \o q), t) /\ Settles(m, d, t)
  BY <1>1, <1>8
<1>16. Bears(m, d, Group(name, <<text>>), n, q, t)
  BY <1>4, <1>10, <1>11, <1>12, <1>13, <1>14, <1>15, BearsGroup
<1> QED
  BY <1>1, <1>3, <1>16


-----------------------------------------------------------------------------
(* Damage to a channel.                                                     *)

(* Where what stands in two sequences comes from.                           *)
LEMMA ConcatFrom ==
    ASSUME NEW a, NEW b, IsSeq(a), IsSeq(b), NEW i \in 1..Len(a \o b)
    PROVE  \/ \E j \in 1..Len(a) : (a \o b)[i] = a[j]
           \/ \E j \in 1..Len(b) : (a \o b)[i] = b[j]
<1>1. PICK l, l2 : l = Len(a) /\ l2 = Len(b)
  OBVIOUS
<1>2. /\ l \in Nat /\ l2 \in Nat /\ Len(a \o b) = l + l2
      /\ \A j \in 1..l : (a \o b)[j] = a[j]
      /\ \A j \in 1..l2 : (a \o b)[l + j] = b[j]
  BY <1>1, SeqConcat
<1>3. CASE i <= l
  BY <1>1, <1>2, <1>3
<1>4. CASE ~(i <= l)
  <2>1. i - l \in 1..l2 /\ l + (i - l) = i
    BY <1>2, <1>4
  <2> QED
    BY <1>1, <1>2, <2>1
<1> QED
  BY <1>2, <1>3, <1>4

(* The text an element begins with is its text.                             *)
LEMMA TextIs ==
    ASSUME NEW name, NEW text, NEW y, IsSeq(y)
    PROVE  /\ GetText(Tree("element", name, <<Node("text", text)>> \o y)) = text
           /\ GetText(Tree("element", name, <<Node("text", text)>>)) = text
<1>1. PICK node, one : node = Node("text", text) /\ one = <<node>>
  OBVIOUS
<1>2. node.is = "text" /\ node.of = text
  BY <1>1 DEF Node
<1>3. PICK both : both = one \o y
  OBVIOUS
<1>4. both # <<>> /\ both[1] = node
  <2>1. both # <<>>
    BY <1>1, <1>3, Behead
  <2>2. IsSeq(one)
    BY <1>1, ShortSeqs
  <2>3. \A i \in 1..Len(one) : (one \o y)[i] = one[i]
    BY <2>2, SeqConcat
  <2>4. Len(one) = 1 /\ one[1] = node /\ 1 \in 1..1
    BY <1>1
  <2> QED
    BY <1>3, <2>1, <2>3, <2>4
<1>5. one # <<>> /\ one[1] = node
  BY <1>1
<1>6. GetText(Tree("element", name, both)) = text
  BY <1>2, <1>4 DEF GetText, Tree
<1>7. GetText(Tree("element", name, one)) = text
  BY <1>2, <1>5 DEF GetText, Tree
<1> QED
  BY <1>1, <1>3, <1>6, <1>7

(* Without its end tag an element takes what follows, up to the next end.   *)
LEMMA MissingEnd ==
    ASSUME NEW m, NEW d, NEW s, IsSeq(s), NEW is, NEW of, NEW kids, NEW t,
           t = Append(s, Tree(is, of, kids)), NEW name, NEW old, IsSeq(old),
           NEW r, NEW y, Yields(r, y), NEW q, IsSeq(q), NEW wrong, wrong # name,
           Settles(m, d, Append(s, Tree(is, of, Append(kids, Tree("element", name, old \o y)))))
    PROVE  Safe(m, d, r \o (<<Piece("end", wrong)>> \o q), Open(t, name, old))
<1>1. IsSeq(t) /\ t # <<>>
  BY SeqAppend
<1>2. Settles(m, d, Open(t, name, old \o y))
  <2>1. PICK node : node = Tree("element", name, old \o y)
    OBVIOUS
  <2>2. Settles(m, d, Append(Append(s, Tree(is, of, kids)), node))
    BY <2>1, SettlesUp
  <2> QED
    BY <2>1, <2>2 DEF Open
<1> QED
  BY <1>1, <1>2, Mismatch

ItemKidsOk(k, kids) == IsSeq(kids) /\ \A i \in 1..Len(kids) : ItemKid(k, kids[i])

(* A channel may be left with such children.                                *)
InItem(m, d, s, k) == \A kids : ItemKidsOk(k, kids) => Settles(m, d, Open(s, "Item", kids))

(* A part of channel k, with the children it gives: damage to it leaves the *)
(* channel with such children, too, whatever nodes follow in the channel.   *)
ItemPart(p, x, k) ==
    /\ Yields(p, x) /\ ItemKidsOk(k, x)
    /\ \A m, d, n, s, kids, r, y, q :
          /\ d.at \in Nat /\ n \in Nat /\ InItem(m, d, s, k) /\ IsSeq(s) /\ s # <<>>
          /\ ItemKidsOk(k, kids) /\ Yields(r, y) /\ IsSeq(q)
          => Bears(m, d, p, n, r \o (<<Piece("end", "Item")>> \o q), Open(s, "Item", kids))

(* One child more, or some.                                                 *)
LEMMA ItemKidsMore ==
    ASSUME NEW k, NEW kids, ItemKidsOk(k, kids)
    PROVE  /\ \A node : ItemKid(k, node) => ItemKidsOk(k, Append(kids, node))
           /\ \A more : ItemKidsOk(k, more) => ItemKidsOk(k, kids \o more)
<1>1. IsSeq(kids)
  BY DEF ItemKidsOk
<1>2. ASSUME NEW more, ItemKidsOk(k, more) PROVE ItemKidsOk(k, kids \o more)
  <2>1. IsSeq(more) /\ IsSeq(kids \o more)
    BY <1>1, <1>2, SeqConcat DEF ItemKidsOk
  <2>2. ASSUME NEW i \in 1..Len(kids \o more) PROVE ItemKid(k, (kids \o more)[i])
    <3>1. \/ \E j \in 1..Len(kids) : (kids \o more)[i] = kids[j]
          \/ \E j \in 1..Len(more) : (kids \o more)[i] = more[j]
      BY <1>1, <2>1, ConcatFrom
    <3> QED
      BY <1>2, <3>1 DEF ItemKidsOk
  <2> QED
    BY <2>1, <2>2 DEF ItemKidsOk
<1>3. ASSUME NEW node, ItemKid(k, node) PROVE ItemKidsOk(k, Append(kids, node))
  <2>1. PICK one : one = <<node>>
    OBVIOUS
  <2>2. IsSeq(one) /\ Len(one) = 1 /\ one[1] = node
    BY <2>1, ShortSeqs
  <2>3. ItemKidsOk(k, one)
    BY <1>3, <2>2 DEF ItemKidsOk
  <2>4. ItemKidsOk(k, kids \o one)
    BY <1>2, <2>3
  <2>5. kids \o <<node>> = Append(kids, node)
    BY <1>1, SeqShort
  <2> QED
    BY <2>1, <2>4, <2>5
<1> QED
  BY <1>2, <1>3

(* Two parts are a part.                                                    *)
LEMMA ItemPartConcat ==
    ASSUME NEW k, NEW p, NEW x, NEW p2, NEW x2, ItemPart(p, x, k), ItemPart(p2, x2, k)
    PROVE  ItemPart(p \o p2, x \o x2, k)
<1>1. /\ Yields(p, x) /\ ItemKidsOk(k, x) /\ Yields(p2, x2) /\ ItemKidsOk(k, x2)
      /\ IsSeq(p) /\ IsSeq(p2) /\ IsSeq(x) /\ IsSeq(x2)
  BY DEF ItemPart, Yields
<1>2. Yields(p \o p2, x \o x2) /\ ItemKidsOk(k, x \o x2)
  BY <1>1, YieldsConcat, ItemKidsMore
<1>3. ASSUME NEW m, NEW d, NEW n, NEW s, NEW kids, NEW r, NEW y, NEW q,
             d.at \in Nat, n \in Nat, InItem(m, d, s, k), IsSeq(s), s # <<>>,
             ItemKidsOk(k, kids), Yields(r, y), IsSeq(q)
      PROVE  Bears(m, d, p \o p2, n, r \o (<<Piece("end", "Item")>> \o q), Open(s, "Item", kids))
  <2>1. PICK last : last = <<Piece("end", "Item")>> \o q
    OBVIOUS
  <2>2. IsSeq(last) /\ IsSeq(r) /\ IsSeq(r \o last)
    BY <1>3, <2>1, Behead, SeqConcat DEF Yields
  <2>3. Yields(p2 \o r, x2 \o y)
    BY <1>1, <1>3, YieldsConcat
  <2>4. Bears(m, d, p, n, (p2 \o r) \o last, Open(s, "Item", kids))
    BY <1>3, <2>1, <2>3 DEF ItemPart
  <2>5. (p2 \o r) \o last = p2 \o (r \o last)
    BY <1>1, <2>2, SeqRegroup
  <2>6. Reads(p, Open(s, "Item", kids), Open(s, "Item", kids \o x))
    BY <1>1, <1>3 DEF Yields, Open, ItemKidsOk
  <2>7. n + Len(p) \in Nat
    BY <1>1, <1>3 DEF IsSeq
  <2>8. ItemKidsOk(k, kids \o x)
    BY <1>1, <1>3, ItemKidsMore
  <2>9. Bears(m, d, p2, n + Len(p), r \o last, Open(s, "Item", kids \o x))
    BY <1>3, <2>1, <2>7, <2>8 DEF ItemPart
  <2> QED
    BY <1>1, <1>3, <2>1, <2>2, <2>4, <2>5, <2>6, <2>9, BearsConcat
<1> QED
  BY <1>2, <1>3 DEF ItemPart

(* What tinyxml does not know is no element.                                *)
LEMMA MiscIs ==
    /\ MiscNode.is # "element"
    /\ MiscNode.of \notin {"Item", "DeviceList", "CmdType", "DeviceID"}
<1>1. PICK is, of : is = "misc" /\ of = ""
  OBVIOUS
<1>2. is # "element" /\ of \notin {"Item", "DeviceList", "CmdType", "DeviceID"}
  BY <1>1, Zenon
<1>3. MiscNode = Node(is, of)
  BY <1>1, Zenon DEF MiscNode
<1> QED
  BY <1>2, <1>3 DEF Node

(* What a start tag that is cut off becomes.                                *)
LEMMA CutIs ==
    ASSUME NEW name, NEW cut \in CutNodes(name)
    PROVE  \/ cut = Node("element", name)
           \/ cut.of \notin {"Item", "DeviceList", "CmdType", "DeviceID"}
<1>1. CASE cut = Node("element", "part of a name")
  BY <1>1 DEF Node
<1>2. CASE cut = MiscNode
  BY <1>2, MiscIs
<1> QED
  BY <1>1, <1>2, Zenon DEF CutNodes

(* Nodes a channel may have.                                                *)
LEMMA ItemKidIs ==
    ASSUME NEW k \in Nat, NEW node
    PROVE  /\ node.is # "element" => ItemKid(k, node)
           /\ node.of \notin {"DeviceID", "Name"} => ItemKid(k, node)
           /\ GetText(node) = NoText => ItemKid(k, node)
           /\ \A name : node.of = name /\ GetText(node) \in {Value(k, name), CutText(k, name)}
                          => ItemKid(k, node)
BY DEF ItemKid, Value, CutText

(* A start tag cut off does no harm to a channel.                           *)
LEMMA ItemCut ==
    ASSUME NEW k \in Nat, NEW name, NEW cut \in CutNodes(name)
    PROVE  ItemKid(k, cut)
<1>1. CASE cut = MiscNode
  BY <1>1, MiscIs, ItemKidIs
<1>2. ASSUME NEW of, cut = Node("element", of) PROVE ItemKid(k, cut)
  <2>1. GetText(cut) = NoText
    BY <1>2 DEF Node, GetText
  <2> QED
    BY <2>1, ItemKidIs
<1> QED
  BY <1>1, <1>2, Zenon DEF CutNodes

(* A channel with one of them more.                                         *)
LEMMA ItemSettles ==
    ASSUME NEW m, NEW d, NEW s, IsSeq(s), NEW k, InItem(m, d, s, k), NEW kids, ItemKidsOk(k, kids)
    PROVE  /\ Settles(m, d, Open(s, "Item", kids))
           /\ \A node : ItemKid(k, node) => Settles(m, d, Open(s, "Item", Append(kids, node)))
           /\ \A of, new : ItemKid(k, Tree("element", of, new)) =>
                 Settles(m, d, Open(Open(s, "Item", kids), of, new))
<1>1. Settles(m, d, Open(s, "Item", kids))
  BY DEF InItem
<1>2. ASSUME NEW node, ItemKid(k, node) PROVE Settles(m, d, Open(s, "Item", Append(kids, node)))
  <2>1. ItemKidsOk(k, Append(kids, node))
    BY <1>2, ItemKidsMore
  <2> QED
    BY <2>1 DEF InItem
<1>3. ASSUME NEW of, NEW new, ItemKid(k, Tree("element", of, new))
      PROVE  Settles(m, d, Open(Open(s, "Item", kids), of, new))
  <2>1. PICK node : node = Tree("element", of, new)
    OBVIOUS
  <2>2. Settles(m, d, Append(s, Tree("element", "Item", Append(kids, node))))
    BY <1>2, <1>3, <2>1 DEF Open
  <2>3. Settles(m, d, Append(Append(s, Tree("element", "Item", kids)), node))
    BY <2>2, SettlesUp
  <2> QED
    BY <2>1, <2>3 DEF Open
<1> QED
  BY <1>1, <1>2, <1>3

(* Its elements with a text, ...                                            *)
LEMMA ItemPartLeaf ==
    ASSUME NEW k \in Nat, NEW name \in {"DeviceID", "Name"}
    PROVE  ItemPart(Leaf(k, name), <<LeafNode(k, name)>>, k)
<1>1. PICK none, text, old, leaf : /\ none = <<>> /\ text = Node("text", Value(k, name))
                                   /\ old = <<text>> /\ leaf = LeafNode(k, name)
  OBVIOUS
<1>2. leaf = Tree("element", name, old) /\ IsSeq(old)
  BY <1>1, ShortSeqs DEF LeafNode
<1>3. \A y : IsSeq(y) => ItemKid(k, Tree("element", name, old \o y))
  <2> TAKE y
  <2> HAVE IsSeq(y)
  <2>1. PICK node : node = Tree("element", name, old \o y)
    OBVIOUS
  <2>2. node.of = name /\ GetText(node) = Value(k, name)
    <3>1. node.of = name
      BY <2>1 DEF Tree
    <3> QED
      BY <1>1, <2>1, <3>1, TextIs
  <2> QED
    BY <2>1, <2>2, ItemKidIs
<1>4. ItemKid(k, leaf)
  <2>1. old \o none = old /\ IsSeq(none)
    BY <1>1, <1>2, SeqShort, SeqNone
  <2>2. ItemKid(k, Tree("element", name, old \o none))
    BY <1>3, <2>1
  <2> QED
    BY <1>2, <2>1, <2>2
<1>5. ItemKid(k, Tree("element", name, <<Node("text", CutText(k, name))>>))
  <2>1. PICK node : node = Tree("element", name, <<Node("text", CutText(k, name))>>)
    OBVIOUS
  <2>2. node.of = name /\ GetText(node) = CutText(k, name)
    <3>1. node.of = name
      BY <2>1 DEF Tree
    <3> QED
      BY <1>1, <1>2, <2>1, <3>1, TextIs
  <2> QED
    BY <2>1, <2>2, ItemKidIs
<1>6. \A cut \in CutNodes(name) : ItemKid(k, cut)
  BY ItemCut
<1>7. ItemKid(k, text)
  <2>1. text.is # "element"
    BY <1>1 DEF Node
  <2> QED
    BY <2>1, ItemKidIs
<1>8. ItemKidsOk(k, <<leaf>>)
  <2>1. PICK one : one = <<leaf>>
    OBVIOUS
  <2>2. IsSeq(one)
    BY <2>1, ShortSeqs
  <2>3. Len(one) = 1 /\ one[1] = leaf
    BY <2>1
  <2> QED
    BY <1>4, <2>1, <2>2, <2>3 DEF ItemKidsOk
<1>9. ASSUME NEW m, NEW d, NEW n, NEW s, NEW kids, NEW r, NEW y, NEW q,
             d.at \in Nat, n \in Nat, InItem(m, d, s, k), IsSeq(s), s # <<>>,
             ItemKidsOk(k, kids), Yields(r, y), IsSeq(q)
      PROVE  Bears(m, d, Leaf(k, name), n, r \o (<<Piece("end", "Item")>> \o q),
                   Open(s, "Item", kids))
  <2>1. PICK t, follow : /\ t = Open(s, "Item", kids)
                         /\ follow = r \o (<<Piece("end", "Item")>> \o q)
    OBVIOUS
  <2>2. IsSeq(follow) /\ IsSeq(kids) /\ IsSeq(y)
    BY <1>9, <2>1, Behead, SeqConcat DEF Yields, ItemKidsOk
  <2>3. Safe(m, d, follow, Append(t, leaf))
    <3>1. ItemKid(k, Tree("element", name, old \o y))
      BY <1>3, <2>2
    <3>2. Settles(m, d, Open(s, "Item", Append(kids, Tree("element", name, old \o y))))
      BY <1>9, <3>1, ItemSettles
    <3>3. t = Append(s, Tree("element", "Item", kids))
      BY <2>1 DEF Open
    <3>4. Settles(m, d, Append(s, Tree("element", "Item",
                                       Append(kids, Tree("element", name, old \o y)))))
      BY <3>2 DEF Open
    <3>5. "Item" # name
      OBVIOUS
    <3>6. Safe(m, d, follow, Open(t, name, old))
      BY <1>2, <1>9, <2>1, <3>3, <3>4, <3>5, MissingEnd
    <3> QED
      BY <1>2, <3>6 DEF Open
  <2>4. "Item" # name
    OBVIOUS
  <2>5. /\ Settles(m, d, Open(s, "Item", kids))
        /\ \A cut \in CutNodes(name) : Settles(m, d, Open(s, "Item", Append(kids, cut)))
        /\ Settles(m, d, Open(s, "Item", Append(kids, text)))
        /\ Settles(m, d, Open(s, "Item",
              Append(kids, Tree("element", name, <<Node("text", CutText(k, name))>>))))
        /\ Settles(m, d, Open(s, "Item", Append(kids, leaf)))
    BY <1>4, <1>5, <1>6, <1>7, <1>9, ItemSettles
  <2>6. Bears(m, d, Leaf(k, name), n, follow, t)
    BY <1>1, <1>9, <2>1, <2>2, <2>3, <2>4, <2>5, BearsLeaf
  <2> QED
    BY <2>1, <2>6
<1>10. Yields(Leaf(k, name), <<leaf>>)
  BY <1>1, YieldsLeaf
<1> QED
  BY <1>1, <1>8, <1>9, <1>10 DEF ItemPart

(* ... single pieces that are not tags with something in between, ...       *)
LEMMA ItemPartOne ==
    ASSUME NEW k \in Nat, NEW piece, NEW kid, Yields(<<piece>>, <<kid>>), ItemKid(k, kid),
           piece.is \notin {"start", "end"},
           \A m, d, s, kids :
              InItem(m, d, s, k) /\ IsSeq(s) /\ s # <<>> /\ ItemKidsOk(k, kids) =>
                 Safe(m, d, <<CutPiece(piece)>>, Open(s, "Item", kids))
    PROVE  ItemPart(<<piece>>, <<kid>>, k)
<1>1. ItemKidsOk(k, <<kid>>)
  <2>1. PICK one : one = <<kid>>
    OBVIOUS
  <2>2. IsSeq(one)
    BY <2>1, ShortSeqs
  <2>3. Len(one) = 1 /\ one[1] = kid
    BY <2>1
  <2> QED
    BY <2>1, <2>2, <2>3 DEF ItemKidsOk
<1>2. ASSUME NEW m, NEW d, NEW n, NEW s, NEW kids, NEW r, NEW y, NEW q,
             d.at \in Nat, n \in Nat, InItem(m, d, s, k), IsSeq(s), s # <<>>,
             ItemKidsOk(k, kids), Yields(r, y), IsSeq(q)
      PROVE  Bears(m, d, <<piece>>, n, r \o (<<Piece("end", "Item")>> \o q), Open(s, "Item", kids))
  <2>1. PICK follow, t : /\ follow = r \o (<<Piece("end", "Item")>> \o q)
                         /\ t = Open(s, "Item", kids)
    OBVIOUS
  <2>2. IsSeq(follow)
    BY <1>2, <2>1, Behead, SeqConcat DEF Yields
  <2>3. Safe(m, d, <<>>, t)
    <3>1. Settles(m, d, t)
      BY <1>2, <2>1, ItemSettles
    <3> QED
      BY <3>1 DEF Settles
  <2>4. Safe(m, d, <<CutPiece(piece)>>, t)
    BY <1>2, <2>1
  <2>5. Bears(m, d, <<piece>>, n, follow, t)
    BY <1>2, <2>2, <2>3, <2>4, BearsOne
  <2> QED
    BY <2>1, <2>5
<1> QED
  BY <1>1, <1>2 DEF ItemPart

(* ... which are these, ...                                                 *)
LEMMA ItemPartOthers ==
    ASSUME NEW k \in Nat
    PROVE  /\ ItemPart(<<Misc>>, <<MiscNode>>, k)
           /\ ItemPart(<<Piece("empty", "Name")>>, <<Node("element", "Name")>>, k)
<1>1. ItemPart(<<Misc>>, <<MiscNode>>, k)
  <2>1. PICK piece, cut, kid : piece = Misc /\ cut = CutPiece(Misc) /\ kid = MiscNode
    OBVIOUS
  <2>2. piece.is = "misc" /\ cut.is = "misc" /\ ~CutTag(cut)
    <3>1. PICK is, of : is = "misc" /\ of = ""
      OBVIOUS
    <3>2. Misc = Piece(is, of) /\ is = "misc"
      BY <3>1, Zenon DEF Misc
    <3>3. piece.is = "misc" /\ cut.is = "misc"
      BY <2>1, <3>2, CutPieceIs DEF Piece
    <3> QED
      BY <3>3 DEF CutTag
  <2>3. kid.is # "element"
    <3>1. PICK is, of : is = "misc" /\ of = ""
      OBVIOUS
    <3>2. MiscNode = Node(is, of) /\ is = "misc"
      BY <3>1, Zenon DEF MiscNode
    <3> QED
      BY <2>1, <3>2 DEF Node
  <2>4. ItemKid(k, kid)
    BY <2>3, ItemKidIs
  <2>5. ASSUME NEW m, NEW d, NEW s, NEW kids,
               InItem(m, d, s, k), IsSeq(s), s # <<>>, ItemKidsOk(k, kids)
        PROVE  Safe(m, d, <<cut>>, Open(s, "Item", kids))
    <3>1. PICK t, u : t = Open(s, "Item", kids) /\ u = Open(s, "Item", Append(kids, kid))
      OBVIOUS
    <3>2. WithKid(t, kid) = u
      BY <2>5, <3>1, KidOnTop DEF Open
    <3>3. StepOf(t, cut) = u /\ ~Stops(t, cut)
      BY <2>1, <2>2, <3>2 DEF StepOf, Stops
    <3>4. Reads(<<cut>>, t, u)
      BY <2>2, <3>3, ReadsPiece
    <3>5. Settles(m, d, u) /\ IsSeq(<<cut>>)
      BY <2>4, <2>5, <3>1, ItemSettles, ShortSeqs
    <3>6. Safe(m, d, <<cut>>, t)
      BY <3>4, <3>5, SafeLast
    <3> QED
      BY <3>1, <3>6
  <2>6. Yields(<<piece>>, <<kid>>)
    BY <2>1, YieldsOthers
  <2>7. ItemPart(<<piece>>, <<kid>>, k)
    BY <2>1, <2>2, <2>4, <2>5, <2>6, ItemPartOne
  <2> QED
    BY <2>1, <2>7
<1>2. ItemPart(<<Piece("empty", "Name")>>, <<Node("element", "Name")>>, k)
  <2>1. PICK piece, cut, kid : /\ piece = Piece("empty", "Name") /\ cut = CutPiece(piece)
                               /\ kid = Node("element", "Name")
    OBVIOUS
  <2>2. piece.is = "empty" /\ cut.is = "empty" /\ CutTag(cut)
    BY <2>1, CutPieceIs DEF CutTag, Piece
  <2>3. ItemKid(k, kid) /\ \A node \in CutNodes(cut.of) : ItemKid(k, node)
    <3>1. ItemKid(k, kid)
      BY <2>1, ItemCut DEF CutNodes
    <3> QED
      BY <3>1, ItemCut
  <2>4. ASSUME NEW m, NEW d, NEW s, NEW kids,
               InItem(m, d, s, k), IsSeq(s), s # <<>>, ItemKidsOk(k, kids)
        PROVE  Safe(m, d, <<cut>>, Open(s, "Item", kids))
    <3>1. PICK t : t = Open(s, "Item", kids)
      OBVIOUS
    <3>2. ASSUME NEW node \in CutNodes(cut.of) PROVE Settles(m, d, WithKid(t, node))
      <4>1. WithKid(t, node) = Open(s, "Item", Append(kids, node))
        BY <2>4, <3>1, KidOnTop DEF Open
      <4> QED
        BY <2>3, <2>4, <4>1, ItemSettles
    <3>3. Safe(m, d, <<cut>>, t)
      BY <2>2, <3>2, SafeOne
    <3> QED
      BY <3>1, <3>3
  <2>5. Yields(<<piece>>, <<kid>>)
    BY <2>1, YieldsOthers
  <2>6. ItemPart(<<piece>>, <<kid>>, k)
    BY <2>1, <2>2, <2>3, <2>4, <2>5, ItemPartOne
  <2> QED
    BY <2>1, <2>6
<1> QED
  BY <1>1, <1>2

(* ... and its element with an element in it.                               *)
LEMMA ItemPartInfo ==
    ASSUME NEW k \in Nat
    PROVE  ItemPart(Group("Info", Leaf(k, "Kind")),
                    <<Tree("element", "Info", <<LeafNode(k, "Kind")>>)>>, k)
<1>1. PICK none, leaf, new, inside, end :
         /\ none = <<>> /\ leaf = LeafNode(k, "Kind") /\ new = <<leaf>>
         /\ inside = Leaf(k, "Kind") /\ end = Piece("end", "Info")
  OBVIOUS
<1>2. Yields(inside, new) /\ IsSeq(new) /\ IsSeq(none)
  BY <1>1, YieldsLeaf, ShortSeqs, SeqNone
<1>3. \A kids : ItemKid(k, Tree("element", "Info", kids))
  <2> TAKE kids
  <2>1. Tree("element", "Info", kids).of \notin {"DeviceID", "Name"}
    BY DEF Tree
  <2> QED
    BY <2>1, ItemKidIs
<1>4. \A cut \in CutNodes("Info") : ItemKid(k, cut)
  BY ItemCut
<1>5. ItemKid(k, leaf)
  <2>1. leaf.of \notin {"DeviceID", "Name"}
    BY <1>1 DEF LeafNode, Tree
  <2> QED
    BY <2>1, ItemKidIs
<1>6. ASSUME NEW m, NEW d, NEW n, NEW s, NEW kids, NEW r, NEW y, NEW q,
             d.at \in Nat, n \in Nat, InItem(m, d, s, k), IsSeq(s), s # <<>>,
             ItemKidsOk(k, kids), Yields(r, y), IsSeq(q)
      PROVE  Bears(m, d, Group("Info", inside), n, r \o (<<Piece("end", "Item")>> \o q),
                   Open(s, "Item", kids))
  <2>1. PICK t, follow : /\ t = Open(s, "Item", kids)
                         /\ follow = r \o (<<Piece("end", "Item")>> \o q)
    OBVIOUS
  <2>2. /\ IsSeq(follow) /\ IsSeq(kids) /\ IsSeq(y) /\ IsSeq(<<end>> \o follow)
        /\ IsSeq(t) /\ t # <<>>
    BY <1>6, <2>1, Behead, SeqConcat, SeqAppend DEF Yields, ItemKidsOk, Open
  <2>3. t = Append(s, Tree("element", "Item", kids))
    BY <2>1 DEF Open
  <2>4. \A x : Settles(m, d, Open(t, "Info", x))
    BY <1>3, <1>6, <2>1, ItemSettles
  <2>5. Settles(m, d, t)
    BY <1>6, <2>1, ItemSettles
  <2>6. \A cut \in CutNodes("Info") :
           Settles(m, d, Append(s, Tree("element", "Item", Append(kids, cut))))
    <3>1. \A cut \in CutNodes("Info") : Settles(m, d, Open(s, "Item", Append(kids, cut)))
      BY <1>4, <1>6, ItemSettles
    <3> QED
      BY <3>1 DEF Open
  <2>7. Safe(m, d, inside \o (<<Piece("end", "Info")>> \o follow), t)
    <3>1. kids \o new = Append(kids, leaf)
      BY <1>1, <2>2, SeqShort
    <3>2. Settles(m, d, Open(s, "Item", kids \o new))
      BY <1>5, <1>6, <3>1, ItemSettles
    <3> QED
      BY <1>2, <1>6, <2>1, <2>2, <3>2, Mismatch
  <2>8. Bears(m, d, inside, n + 1, <<end>> \o follow, Open(t, "Info", none))
    <3>1. PICK text, old : text = Node("text", Value(k, "Kind")) /\ old = <<text>>
      OBVIOUS
    <3>2. leaf = Tree("element", "Kind", old) /\ IsSeq(old)
      BY <1>1, <3>1, ShortSeqs DEF LeafNode
    <3>3. Safe(m, d, <<end>> \o follow, Open(Open(t, "Info", none), "Kind", old))
      <4>1. PICK u : u = Open(t, "Info", none)
        OBVIOUS
      <4>2. u = Append(t, Tree("element", "Info", none))
        BY <4>1 DEF Open
      <4>3. Yields(none, none) /\ old \o none = old
        BY <1>1, <3>2, YieldsNone, SeqShort
      <4>4. Settles(m, d, Append(t, Tree("element", "Info",
                                         Append(none, Tree("element", "Kind", old \o none)))))
        BY <2>4 DEF Open
      <4>5. Safe(m, d, none \o (<<Piece("end", "Info")>> \o follow), Open(u, "Kind", old))
        BY <1>2, <2>2, <3>2, <4>2, <4>3, <4>4, MissingEnd
      <4>6. none \o (<<end>> \o follow) = <<end>> \o follow
        BY <1>1, <2>2, SeqShort
      <4> QED
        BY <1>1, <4>1, <4>5, <4>6
    <3>4. Safe(m, d, <<end>> \o follow, Append(Open(t, "Info", none), leaf))
      BY <3>2, <3>3 DEF Open
    <3>5. n + 1 \in Nat
      BY <1>6
    <3> QED
      BY <1>1, <1>2, <1>6, <2>2, <2>4, <3>4, <3>5, BearsLeaf
  <2>9. Settles(m, d, Append(s, Tree("element", "Item",
                                     Append(kids, Tree("element", "Info", new)))))
    <3>1. Settles(m, d, Open(s, "Item", Append(kids, Tree("element", "Info", new))))
      BY <1>3, <1>6, ItemSettles
    <3> QED
      BY <3>1 DEF Open
  <2>10. Safe(m, d, follow, Open(t, "Info", new))
    <3>1. Settles(m, d, Append(s, Tree("element", "Item",
                                       Append(kids, Tree("element", "Info", new \o y)))))
      <4>1. Settles(m, d, Open(s, "Item", Append(kids, Tree("element", "Info", new \o y))))
        BY <1>3, <1>6, ItemSettles
      <4> QED
        BY <4>1 DEF Open
    <3> QED
      BY <1>2, <1>6, <2>1, <2>3, <3>1, MissingEnd
  <2>11. Bears(m, d, inside, n + 1, <<Piece("end", "Info")>> \o follow, Open(t, "Info", <<>>))
    BY <1>1, <2>8
  <2>12. Bears(m, d, Group("Info", inside), n, follow, t)
    BY <1>2, <1>6, <2>2, <2>3, <2>5, <2>6, <2>7, <2>9, <2>10, <2>11, BearsGroup
  <2> QED
    BY <2>1, <2>12
<1>7. Yields(Group("Info", inside), <<Tree("element", "Info", new)>>)
  BY <1>2, YieldsGroup
<1>8. ItemKidsOk(k, <<Tree("element", "Info", new)>>)
  <2>1. PICK kid, one : kid = Tree("element", "Info", new) /\ one = <<kid>>
    OBVIOUS
  <2>2. IsSeq(one)
    BY <2>1, ShortSeqs
  <2>3. Len(one) = 1 /\ one[1] = kid
    BY <2>1
  <2>4. ItemKid(k, kid)
    BY <1>3, <2>1
  <2> QED
    BY <2>1, <2>2, <2>3, <2>4 DEF ItemKidsOk
<1> QED
  BY <1>1, <1>6, <1>7, <1>8 DEF ItemPart


(* A channel consists of such parts.                                        *)
LEMMA ItemInside ==
    ASSUME NEW k \in Nat, NEW layout \in ItemLayouts
    PROVE  /\ \E p : Item(k, layout) = Group("Item", p) /\ ItemPart(p, ItemKids(k, layout), k)
           /\ IsSeq(ItemKids(k, layout))
           /\ \A i \in 1..Len(ItemKids(k, layout)) : ItemKids(k, layout)[i].of # "Item"
<1> DEFINE Id == Leaf(k, "DeviceID")
           Title == Leaf(k, "Name")
           Info == Group("Info", Leaf(k, "Kind"))
           Inner == \E p : Item(k, layout) = Group("Item", p) /\ ItemPart(p, ItemKids(k, layout), k)
           Others == /\ IsSeq(ItemKids(k, layout))
                     /\ \A i \in 1..Len(ItemKids(k, layout)) : ItemKids(k, layout)[i].of # "Item"
<1>1. PICK id, title, info, misc, empty :
         /\ id = LeafNode(k, "DeviceID") /\ title = LeafNode(k, "Name")
         /\ info = Tree("element", "Info", <<LeafNode(k, "Kind")>>)
         /\ misc = MiscNode /\ empty = Node("element", "Name")
  OBVIOUS
<1>2. /\ ItemPart(Id, <<id>>, k) /\ ItemPart(Title, <<title>>, k) /\ ItemPart(Info, <<info>>, k)
      /\ ItemPart(<<Misc>>, <<misc>>, k) /\ ItemPart(<<Piece("empty", "Name")>>, <<empty>>, k)
  BY <1>1, ItemPartLeaf, ItemPartInfo, ItemPartOthers
<1>3. /\ id.of # "Item" /\ title.of # "Item" /\ info.of # "Item" /\ empty.of # "Item"
  BY <1>1 DEF LeafNode, Tree, Node
<1>4. misc.of # "Item"
  <2>1. PICK is, of : is = "misc" /\ of = ""
    OBVIOUS
  <2>2. misc = Node(is, of) /\ of # "Item"
    BY <1>1, <2>1, Zenon DEF MiscNode
  <2> QED
    BY <2>2 DEF Node
<1>5. \A a, b, c : /\ <<a>> \o <<b>> = <<a, b>> /\ <<a, b>> \o <<c>> = <<a, b, c>>
                   /\ IsSeq(<<a, b>>) /\ IsSeq(<<a, b, c>>)
  BY ShortSeqs
<1>6. ASSUME NEW a, NEW b, NEW c PROVE (<<a>> \o <<b>>) \o <<c>> = <<a, b, c>>
  <2>1. <<a>> \o <<b>> = <<a, b>>
    BY ShortSeqs
  <2>2. <<a, b>> \o <<c>> = <<a, b, c>>
    BY ShortSeqs
  <2> QED
    BY <2>1, <2>2, Zenon
<1>7. ASSUME NEW a, NEW b, a.of # "Item", b.of # "Item"
      PROVE  \A i \in 1..Len(<<a, b>>) : <<a, b>>[i].of # "Item"
  <2>1. PICK two : two = <<a, b>>
    OBVIOUS
  <2>2. Len(two) = 2 /\ two[1] = a /\ two[2] = b
    BY <2>1
  <2>3. \A i \in 1..2 : i = 1 \/ i = 2
    OBVIOUS
  <2>4. \A i \in 1..2 : two[i].of # "Item"
    BY <1>7, <2>2, <2>3, Zenon
  <2> QED
    BY <2>1, <2>2, <2>4
<1>8. ASSUME NEW a, NEW b, NEW c, a.of # "Item", b.of # "Item", c.of # "Item"
       PROVE  \A i \in 1..Len(<<a, b, c>>) : <<a, b, c>>[i].of # "Item"
  <2>1. PICK three : three = <<a, b, c>>
    OBVIOUS
  <2>2. Len(three) = 3 /\ three[1] = a /\ three[2] = b /\ three[3] = c
    BY <2>1
  <2>3. \A i \in 1..3 : i = 1 \/ i = 2 \/ i = 3
    OBVIOUS
  <2>4. \A i \in 1..3 : three[i].of # "Item"
    BY <1>8, <2>2, <2>3, Zenon
  <2> QED
    BY <2>1, <2>2, <2>4
<1> HIDE DEF Id, Title, Info
<1>9. CASE layout = "plain"
  <2>1. ItemKids(k, layout) = <<id, title>>
    BY <1>1, <1>9 DEF ItemKids
  <2>2. Item(k, layout) = Group("Item", Id \o Title)
    BY <1>9 DEF Item, Id, Title
  <2>3. ItemPart(Id \o Title, <<id>> \o <<title>>, k)
    BY <1>2, ItemPartConcat
  <2>4. Inner
    BY <1>5, <2>1, <2>2, <2>3
  <2>5. Others
    <3>1. \A i \in 1..Len(<<id, title>>) : <<id, title>>[i].of # "Item"
      BY <1>3, <1>7
    <3>2. IsSeq(<<id, title>>)
      BY <1>5
    <3> QED
      BY <2>1, <3>1, <3>2, Zenon
  <2> QED
    BY <2>4, <2>5
<1>10. CASE layout = "nameFirst"
  <2>1. ItemKids(k, layout) = <<title, misc, id>>
    BY <1>1, <1>10 DEF ItemKids
  <2>2. Item(k, layout) = Group("Item", (Title \o <<Misc>>) \o Id)
    BY <1>10 DEF Item, Id, Title
  <2>3. ItemPart((Title \o <<Misc>>) \o Id, (<<title>> \o <<misc>>) \o <<id>>, k)
    BY <1>2, ItemPartConcat
  <2>4. Inner
    <3>1. (<<title>> \o <<misc>>) \o <<id>> = <<title, misc, id>>
      BY <1>6, Zenon
    <3> QED
      BY <2>1, <2>2, <2>3, <3>1, Zenon
  <2>5. Others
    <3>1. \A i \in 1..Len(<<title, misc, id>>) : <<title, misc, id>>[i].of # "Item"
      BY <1>3, <1>4, <1>8
    <3>2. IsSeq(<<title, misc, id>>)
      BY <1>5
    <3> QED
      BY <2>1, <3>1, <3>2, Zenon
  <2> QED
    BY <2>4, <2>5
<1>11. CASE layout = "nested"
  <2>1. ItemKids(k, layout) = <<id, info, title>>
    BY <1>1, <1>11 DEF ItemKids
  <2>2. Item(k, layout) = Group("Item", (Id \o Info) \o Title)
    BY <1>11 DEF Item, Id, Title, Info
  <2>3. ItemPart((Id \o Info) \o Title, (<<id>> \o <<info>>) \o <<title>>, k)
    BY <1>2, ItemPartConcat
  <2>4. Inner
    <3>1. (<<id>> \o <<info>>) \o <<title>> = <<id, info, title>>
      BY <1>6, Zenon
    <3> QED
      BY <2>1, <2>2, <2>3, <3>1, Zenon
  <2>5. Others
    <3>1. \A i \in 1..Len(<<id, info, title>>) : <<id, info, title>>[i].of # "Item"
      BY <1>3, <1>8
    <3>2. IsSeq(<<id, info, title>>)
      BY <1>5
    <3> QED
      BY <2>1, <3>1, <3>2, Zenon
  <2> QED
    BY <2>4, <2>5
<1>12. CASE layout = "unnamed"
  <2>1. ItemKids(k, layout) = <<id, empty>>
    BY <1>1, <1>12 DEF ItemKids
  <2>2. Item(k, layout) = Group("Item", Id \o <<Piece("empty", "Name")>>)
    BY <1>12 DEF Item, Id
  <2>3. ItemPart(Id \o <<Piece("empty", "Name")>>, <<id>> \o <<empty>>, k)
    BY <1>2, ItemPartConcat
  <2>4. Inner
    BY <1>5, <2>1, <2>2, <2>3
  <2>5. Others
    <3>1. \A i \in 1..Len(<<id, empty>>) : <<id, empty>>[i].of # "Item"
      BY <1>3, <1>7
    <3>2. IsSeq(<<id, empty>>)
      BY <1>5
    <3> QED
      BY <2>1, <3>1, <3>2, Zenon
  <2> QED
    BY <2>4, <2>5
<1> QED
  BY <1>9, <1>10, <1>11, <1>12 DEF ItemLayouts

-----------------------------------------------------------------------------
(* Damage to the list of channels.                                          *)

(* What the parser may leave of the list after its first channels.          *)
LEMMA ListOks ==
    ASSUME NEW m, Len(m.items) \in Nat, NEW k \in 1..Len(m.items),
           NEW kids, kids = SubSeq(ItemNodes(m), 1, k - 1)
    PROVE  /\ IsSeq(kids) /\ ListOk(m, kids)
           /\ \A rest : IsSeq(rest) /\ (\A i \in 1..Len(rest) : rest[i].of # "Item") =>
                 ListOk(m, kids \o rest)
           /\ \A node : node.of # "Item" => ListOk(m, Append(kids, node))
           /\ \A inside : ItemKidsOk(k, inside) =>
                 ListOk(m, Append(kids, Tree("element", "Item", inside)))
<1>1. PICK n, all, none : n = Len(m.items) /\ all = ItemNodes(m) /\ none = <<>>
  OBVIOUS
<1>2. PICK T : T = {all[i] : i \in 1..n}
  OBVIOUS
<1>3. all \in Seq(T) /\ Len(all) = n
  <2>1. all = [i \in 1..n |-> all[i]]
    BY <1>1 DEF ItemNodes
  <2>2. \A i \in 1..n : all[i] \in T
    BY <1>2
  <2>3. n \in Nat
    BY <1>1
  <2>4. [i \in 1..n |-> all[i]] \in Seq(T) /\ Len([i \in 1..n |-> all[i]]) = n
    BY <2>2, <2>3
  <2> QED
    BY <2>1, <2>4, Zenon
<1>4. k - 1 \in 0..n /\ k - 1 < n /\ (k - 1) + 1 = k
  BY <1>1
<1>5. kids \in Seq(T)
  BY <1>1, <1>3, <1>4
<1>6. IsSeq(kids)
  BY <1>5 DEF IsSeq
<1>7. ASSUME NEW rest, IsSeq(rest), \A i \in 1..Len(rest) : rest[i].of # "Item"
      PROVE  ListOk(m, kids \o rest)
  BY <1>1, <1>4, <1>7 DEF ListOk
<1>8. ListOk(m, kids)
  <2>1. IsSeq(none) /\ (\A i \in 1..Len(none) : none[i].of # "Item") /\ kids \o none = kids
    BY <1>1, <1>6, SeqNone, SeqShort
  <2> QED
    BY <1>7, <2>1
<1>9. ASSUME NEW node, node.of # "Item" PROVE ListOk(m, Append(kids, node))
  <2>1. PICK one : one = <<node>>
    OBVIOUS
  <2>2. IsSeq(one)
    BY <2>1, ShortSeqs
  <2>3. Len(one) = 1 /\ one[1] = node
    BY <2>1
  <2>4. ListOk(m, kids \o one)
    BY <1>7, <1>9, <2>2, <2>3
  <2>5. kids \o one = Append(kids, node)
    BY <1>6, <2>1, SeqShort
  <2> QED
    BY <2>4, <2>5
<1>10. ASSUME NEW inside, ItemKidsOk(k, inside)
       PROVE  ListOk(m, Append(kids, Tree("element", "Item", inside)))
  <2>1. PICK node, one : node = Tree("element", "Item", inside) /\ one = <<node>>
    OBVIOUS
  <2>2. IsSeq(one) /\ kids \o one = Append(kids, node)
    BY <1>6, <2>1, ShortSeqs, SeqShort
  <2>3. node.is = "element" /\ node.of = "Item" /\ node.kids = inside
    BY <2>1 DEF Tree
  <2>4. IsSeq(inside) /\ \A i \in 1..Len(inside) : ItemKid((k - 1) + 1, inside[i])
    BY <1>4, <1>10 DEF ItemKidsOk
  <2>5. ListOk(m, kids \o one)
    BY <1>1, <1>4, <2>1, <2>2, <2>3, <2>4 DEF ListOk
  <2> QED
    BY <2>1, <2>2, <2>5
<1> QED
  BY <1>6, <1>7, <1>8, <1>9, <1>10

(* A list may be left with such children.                                   *)
InList(m, d, s) == \A kids : ListOk(m, kids) => Settles(m, d, Open(s, "DeviceList", kids))

AllItems(nodes) == IsSeq(nodes) /\ \A i \in 1..Len(nodes) : nodes[i].of = "Item"

(* A channel.                                                               *)
LEMMA BearsItem ==
    ASSUME NEW m, Len(m.items) \in Nat, NEW d, d.at \in Nat, NEW n \in Nat,
           NEW k \in 1..Len(m.items), m.items[k] \in ItemLayouts,
           NEW s, IsSeq(s), s # <<>>, InList(m, d, s),
           NEW r, NEW y, Yields(r, y), AllItems(y), NEW q, IsSeq(q)
    PROVE  Bears(m, d, Item(k, m.items[k]), n, r \o (<<Piece("end", "DeviceList")>> \o q),
                 Open(s, "DeviceList", SubSeq(ItemNodes(m), 1, k - 1)))
<1>1. PICK kids, new, t, follow, none :
         /\ kids = SubSeq(ItemNodes(m), 1, k - 1) /\ new = ItemKids(k, m.items[k])
         /\ t = Open(s, "DeviceList", kids) /\ none = <<>>
         /\ follow = r \o (<<Piece("end", "DeviceList")>> \o q)
  OBVIOUS
<1>2. k \in Nat
  OBVIOUS
<1>3. PICK p : Item(k, m.items[k]) = Group("Item", p) /\ ItemPart(p, new, k)
  BY <1>1, <1>2, ItemInside
<1>4. IsSeq(new) /\ \A i \in 1..Len(new) : new[i].of # "Item"
  BY <1>1, <1>2, ItemInside
<1>5. /\ IsSeq(kids) /\ ListOk(m, kids)
      /\ ListOk(m, kids \o new)
      /\ \A node : node.of # "Item" => ListOk(m, Append(kids, node))
      /\ \A inside : ItemKidsOk(k, inside) =>
            ListOk(m, Append(kids, Tree("element", "Item", inside)))
  BY <1>1, <1>4, ListOks
<1>6. Yields(p, new) /\ ItemKidsOk(k, new) /\ IsSeq(none) /\ ItemKidsOk(k, none)
  BY <1>1, <1>3, SeqNone DEF ItemPart, ItemKidsOk
<1>7. IsSeq(follow) /\ IsSeq(y) /\ IsSeq(t) /\ t # <<>>
  BY <1>1, Behead, SeqConcat, SeqAppend DEF Yields, Open
<1>8. t = Append(s, Tree("element", "DeviceList", kids))
  BY <1>1 DEF Open
<1>9. ASSUME NEW inside, ItemKidsOk(k, inside)
      PROVE  Settles(m, d, Append(s, Tree("element", "DeviceList",
                                          Append(kids, Tree("element", "Item", inside)))))
  BY <1>5, <1>9 DEF InList, Open
<1>10. InItem(m, d, t, k)
  <2>1. ASSUME NEW inside, ItemKidsOk(k, inside) PROVE Settles(m, d, Open(t, "Item", inside))
    <3>1. PICK node : node = Tree("element", "Item", inside)
      OBVIOUS
    <3>2. Settles(m, d, Append(Append(s, Tree("element", "DeviceList", kids)), node))
      BY <1>9, <2>1, <3>1, SettlesUp
    <3> QED
      BY <1>8, <3>1, <3>2 DEF Open
  <2> QED
    BY <2>1 DEF InItem
<1>11. Settles(m, d, t)
  BY <1>1, <1>5 DEF InList
<1>12. ASSUME NEW cut \in CutNodes("Item")
       PROVE  Settles(m, d, Append(s, Tree("element", "DeviceList", Append(kids, cut))))
  <2>1. CASE cut = Node("element", "Item")
    <3>1. cut = Tree("element", "Item", none)
      BY <1>1, <2>1 DEF Node, Tree
    <3> QED
      BY <1>6, <1>9, <3>1
  <2>2. CASE cut.of \notin {"Item", "DeviceList", "CmdType", "DeviceID"}
    BY <1>5, <2>2 DEF InList, Open
  <2> QED
    BY <2>1, <2>2, CutIs
<1>13. Safe(m, d, p \o (<<Piece("end", "Item")>> \o follow), t)
  <2>1. Settles(m, d, Open(s, "DeviceList", kids \o new))
    BY <1>5 DEF InList
  <2>2. "Item" # "DeviceList"
    OBVIOUS
  <2> QED
    BY <1>1, <1>5, <1>6, <1>7, <2>1, <2>2, Mismatch
<1>14. Bears(m, d, p, n + 1, <<Piece("end", "Item")>> \o follow, Open(t, "Item", <<>>))
  <2>1. n + 1 \in Nat /\ Yields(none, none)
    BY <1>1, YieldsNone
  <2>2. Bears(m, d, p, n + 1, none \o (<<Piece("end", "Item")>> \o follow), Open(t, "Item", none))
    BY <1>3, <1>6, <1>7, <1>10, <2>1 DEF ItemPart
  <2>3. none \o (<<Piece("end", "Item")>> \o follow) = <<Piece("end", "Item")>> \o follow
    BY <1>1, <1>7, Behead, SeqShort
  <2> QED
    BY <1>1, <2>2, <2>3
<1>15. Safe(m, d, follow, Open(t, "Item", new))
  <2>1. ItemKidsOk(k, y)
    <3>1. ASSUME NEW i \in 1..Len(y) PROVE ItemKid(k, y[i])
      <4>1. y[i].of = "Item"
        BY DEF AllItems
      <4> QED
        BY <1>2, <4>1, ItemKidIs
    <3> QED
      BY <1>7, <3>1 DEF ItemKidsOk
  <2>2. ItemKidsOk(k, new \o y)
    BY <1>6, <2>1, ItemKidsMore
  <2>3. "DeviceList" # "Item"
    OBVIOUS
  <2> QED
    BY <1>1, <1>4, <1>8, <1>9, <2>2, <2>3, MissingEnd
<1>16. Settles(m, d, Append(s, Tree("element", "DeviceList",
                                    Append(kids, Tree("element", "Item", new)))))
  BY <1>6, <1>9
<1>17. Bears(m, d, Group("Item", p), n, follow, t)
  BY <1>5, <1>6, <1>7, <1>8, <1>11, <1>12, <1>13, <1>14, <1>15, <1>16, BearsGroup
<1> QED
  BY <1>1, <1>3, <1>17

(* No part, no damage to it.                                                *)
LEMMA BearsNone ==
    ASSUME NEW m, NEW d, d.at \in Nat, NEW n \in Nat, NEW q, NEW t
    PROVE  Bears(m, d, <<>>, n, q, t)
<1>1. PICK none : none = <<>>
  OBVIOUS
<1>2. IsSeq(none) /\ Len(none) = 0
  BY <1>1, SeqNone
<1>3. ASSUME d.kind # "none", Local(d, n) \in Damages(none) PROVE FALSE
  BY <1>2, <1>3, DamageKinds
<1> QED
  BY <1>1, <1>3 DEF Bears

(* One channel more in front of others.                                     *)
LEMMA AllItemsMore ==
    ASSUME NEW node, node.of = "Item", NEW y, AllItems(y)
    PROVE  AllItems(<<node>> \o y)
<1>1. PICK one, both : one = <<node>> /\ both = one \o y
  OBVIOUS
<1>2. IsSeq(one) /\ IsSeq(y) /\ IsSeq(both)
  BY <1>1, ShortSeqs, SeqConcat DEF AllItems
<1>3. Len(one) = 1 /\ one[1] = node
  BY <1>1
<1>4. ASSUME NEW i \in 1..Len(both) PROVE both[i].of = "Item"
  <2>1. \/ \E k \in 1..Len(one) : both[i] = one[k]
        \/ \E k \in 1..Len(y) : both[i] = y[k]
    BY <1>1, <1>2, ConcatFrom
  <2> QED
    BY <1>3, <2>1 DEF AllItems
<1> QED
  BY <1>1, <1>2, <1>4 DEF AllItems

(* The channels, one by one.                                                *)
LEMMA BearsItems ==
    ASSUME NEW m \in Messages, NEW d, d.at \in Nat, NEW n \in Nat,
           NEW s, IsSeq(s), s # <<>>, InList(m, d, s), NEW q, IsSeq(q)
    PROVE  \E inside : /\ DeviceList(m) = Group("DeviceList", inside)
                       /\ Yields(inside, ItemNodes(m))
                       /\ Bears(m, d, inside, n, <<Piece("end", "DeviceList")>> \o q,
                                Open(s, "DeviceList", <<>>))
<1>1. PICK c \in Nat : c = Len(m.items)
  BY MessageTypes
<1>2. m.items \in Seq(ItemLayouts) /\ DOMAIN m.items = 1..c
  BY <1>1, MessageTypes
<1> DEFINE ss == [k \in 1..c |-> Item(k, m.items[k])]
<1>3. PICK x : x = ItemNodes(m)
  OBVIOUS
<1>4. ASSUME NEW k \in 1..c
      PROVE  /\ ss[k] \in Seq(Written) /\ ss[k] = Item(k, m.items[k])
             /\ x[k] = ItemNode(k, m.items[k]) /\ x[k].of = "Item"
             /\ Yields(ss[k], <<x[k]>>) /\ m.items[k] \in ItemLayouts
  <2>1. m.items[k] \in ItemLayouts
    BY <1>1, <1>2
  <2>2. x[k] = ItemNode(k, m.items[k])
    BY <1>1, <1>3 DEF ItemNodes
  <2>3. x[k].of = "Item"
    BY <2>2 DEF ItemNode, Tree
  <2>4. Item(k, m.items[k]) \in Seq(Written) /\ Yields(Item(k, m.items[k]), <<x[k]>>)
    BY <2>1, <2>2, ItemTypes, YieldsItem
  <2> QED
    BY <2>1, <2>2, <2>3, <2>4
<1>5. ss \in Seq(Seq(Written)) /\ Len(ss) = c
  <2>1. ss = [k \in 1..c |-> ss[k]]
    OBVIOUS
  <2>2. \A k \in 1..c : ss[k] \in Seq(Written)
    BY <1>4
  <2> HIDE DEF ss
  <2> QED
    BY <2>1, <2>2
<1>6. PICK T : T = {x[k] : k \in 1..c}
  OBVIOUS
<1>7. x \in Seq(T) /\ Len(x) = c
  <2>1. x = [k \in 1..c |-> x[k]]
    BY <1>1, <1>3 DEF ItemNodes
  <2>2. \A k \in 1..c : x[k] \in T
    BY <1>6
  <2>3. [k \in 1..c |-> x[k]] \in Seq(T) /\ Len([k \in 1..c |-> x[k]]) = c
    BY <2>2
  <2> QED
    BY <2>1, <2>3, Zenon
<1>8. DeviceList(m) = Group("DeviceList", FlattenSeq(ss))
  BY <1>2 DEF DeviceList
<1> HIDE DEF ss
<1>9. ASSUME NEW j \in 0..c
      PROVE  /\ FlattenSeq(SubSeq(ss, 1, j)) \in Seq(Written)
             /\ Yields(FlattenSeq(SubSeq(ss, 1, j)), SubSeq(x, 1, j))
  <2>1. PICK u, v : u = SubSeq(ss, 1, j) /\ v = SubSeq(x, 1, j)
    OBVIOUS
  <2>2. /\ u \in Seq(Seq(Written)) /\ Len(u) = j /\ v \in Seq(T) /\ Len(v) = j
        /\ \A k \in 1..j : u[k] = ss[k] /\ v[k] = x[k]
    BY <1>5, <1>7, <2>1
  <2>3. \A k \in 1..Len(u) : Yields(u[k], <<v[k]>>)
    BY <1>4, <2>2
  <2>4. FlattenSeq(u) \in Seq(Written)
    <3>1. <<>> \in Seq(Written)
      OBVIOUS
    <3> QED
      BY <2>2, <3>1, FlattenAppend
  <2>5. Yields(FlattenSeq(u), v)
    BY <2>2, <2>3, YieldsAll
  <2> QED
    BY <2>1, <2>4, <2>5
<1> DEFINE top == Open(s, "DeviceList", <<>>)
           last == <<Piece("end", "DeviceList")>> \o q
           Good(j) == \A r, y : Yields(r, y) /\ AllItems(y) =>
                         Bears(m, d, FlattenSeq(SubSeq(ss, 1, j)), n, r \o last, top)
           Bad == {j \in 0..c : ~Good(j)}
<1>10. ASSUME Bad # {} PROVE FALSE
  <2>1. Bad \subseteq Nat
    OBVIOUS
  <2>2. PICK j \in Bad : \A i \in Bad : j <= i
    <3> HIDE DEF Bad
    <3> QED
      BY <1>10, <2>1, LeastNumber
  <2>3. j \in 0..c /\ ~Good(j)
    OBVIOUS
  <2>4. j # 0
    <3>1. SubSeq(ss, 1, 0) = <<>>
      BY <1>5
    <3>2. Good(0)
      BY <3>1, FlattenNone, BearsNone
    <3> QED
      BY <2>3, <3>2
  <2>5. j - 1 \in 0..c /\ j - 1 \notin Bad
    BY <2>2, <2>3, <2>4
  <2>6. Good(j - 1)
    BY <2>5
  <2>7. j \in 1..Len(ss) /\ j \in 1..c
    BY <1>5, <2>3, <2>4
  <2>8. PICK r, y : /\ Yields(r, y) /\ AllItems(y)
                    /\ ~Bears(m, d, FlattenSeq(SubSeq(ss, 1, j)), n, r \o last, top)
    BY <2>3
  <2>9. PICK u, item, before, rest :
           /\ u = SubSeq(ss, 1, j - 1) /\ item = ss[j] /\ before = FlattenSeq(u)
           /\ rest = last
    OBVIOUS
  <2>10. /\ u \in Seq(Seq(Written)) /\ SubSeq(ss, 1, j) = Append(u, item)
         /\ item \in Seq(Written)
    BY <1>4, <1>5, <2>7, <2>9, OneMore
  <2>11. FlattenSeq(SubSeq(ss, 1, j)) = before \o item
    BY <2>9, <2>10, FlattenAppend
  <2>12. /\ IsSeq(before) /\ IsSeq(item) /\ IsSeq(r) /\ IsSeq(rest) /\ IsSeq(r \o rest)
         /\ Len(before) \in Nat
    <3>1. before \in Seq(Written)
      BY <1>9, <2>5, <2>9
    <3>2. IsSeq(rest)
      BY <2>9, Behead
    <3> QED
      BY <2>8, <2>10, <3>1, <3>2, SeqConcat DEF Yields, IsSeq
  <2>13. Bears(m, d, before, n, item \o (r \o rest), top)
    <3>1. PICK new : new = <<x[j]>> \o y
      OBVIOUS
    <3>2. Yields(item \o r, new)
      BY <1>4, <2>7, <2>8, <2>9, <3>1, YieldsConcat
    <3>3. AllItems(new)
      <4>1. x[j].of = "Item"
        BY <1>4, <2>7
      <4> QED
        BY <2>8, <3>1, <4>1, AllItemsMore
    <3>4. Bears(m, d, before, n, (item \o r) \o rest, top)
      BY <2>6, <2>9, <3>2, <3>3
    <3>5. (item \o r) \o rest = item \o (r \o rest)
      <4>1. IsSeq(item) /\ IsSeq(r) /\ IsSeq(rest)
        BY <2>12
      <4> HIDE DEF top, last, Good, Bad
      <4> QED
        BY <4>1, SeqRegroup
    <3> QED
      BY <3>4, <3>5
  <2>14. PICK kids, full : /\ kids = SubSeq(ItemNodes(m), 1, j - 1)
                           /\ full = Open(s, "DeviceList", kids)
    OBVIOUS
  <2>15. Reads(before, top, full)
    <3>1. PICK none : none = <<>>
      OBVIOUS
    <3>2. Yields(before, kids) /\ IsSeq(none)
      BY <1>3, <1>9, <2>5, <2>9, <2>14, <3>1, SeqNone
    <3>3. Reads(before, Open(s, "DeviceList", none), Open(s, "DeviceList", none \o kids))
      BY <3>2 DEF Yields, Open
    <3>4. none \o kids = kids
      BY <3>1, <3>2, SeqShort DEF Yields
    <3> QED
      BY <2>14, <3>1, <3>3, <3>4
  <2>16. Bears(m, d, item, n + Len(before), r \o rest, full)
    <3>1. n + Len(before) \in Nat
      BY <2>12
    <3>2. m.items[j] \in ItemLayouts /\ item = Item(j, m.items[j])
      BY <1>4, <2>7, <2>9
    <3>3. Len(m.items) \in Nat /\ j \in 1..Len(m.items)
      BY <1>1, <2>7
    <3>4. Bears(m, d, Item(j, m.items[j]), n + Len(before), r \o last,
                Open(s, "DeviceList", SubSeq(ItemNodes(m), 1, j - 1)))
      BY <2>8, <3>1, <3>2, <3>3, BearsItem
    <3> QED
      BY <2>9, <2>14, <3>2, <3>4
  <2>17. Bears(m, d, before \o item, n, r \o rest, top)
    <3> HIDE DEF top, last, Good, Bad
    <3> QED
      BY <2>12, <2>13, <2>15, <2>16, BearsConcat
  <2> QED
    BY <2>8, <2>9, <2>11, <2>17
<1>11. Good(c)
  <2>1. c \in 0..c /\ c \notin Bad
    BY <1>10
  <2> QED
    BY <2>1
<1>12. SubSeq(ss, 1, c) = ss /\ SubSeq(x, 1, c) = x
  BY <1>5, <1>7
<1>13. Yields(FlattenSeq(ss), x)
  <2>1. c \in 0..c
    OBVIOUS
  <2> QED
    BY <1>9, <1>12, <2>1
<1>14. Bears(m, d, FlattenSeq(ss), n, last, top)
  <2>1. PICK none : none = <<>>
    OBVIOUS
  <2>2. Yields(none, none) /\ AllItems(none)
    BY <2>1, YieldsNone, SeqNone DEF AllItems
  <2>3. none \o last = last
    <3>1. IsSeq(last)
      BY Behead
    <3> HIDE DEF last
    <3> QED
      BY <2>1, <3>1, SeqShort
  <2>4. Bears(m, d, FlattenSeq(SubSeq(ss, 1, c)), n, none \o last, top)
    BY <1>11, <2>2
  <2> QED
    BY <1>12, <2>3, <2>4
<1> QED
  BY <1>3, <1>8, <1>13, <1>14


-----------------------------------------------------------------------------
(* Damage to the root.                                                      *)

RootKidsOk(m, d, kids) == IsSeq(kids) /\ \A i \in 1..Len(kids) : RootKid(m, d, kids[i])

(* The root may be left with such children.                                 *)
InRoot(m, d, s) == \A kids : RootKidsOk(m, d, kids) => Settles(m, d, Open(s, m.root, kids))

NoItems(nodes) == IsSeq(nodes) /\ \A i \in 1..Len(nodes) : nodes[i].of # "Item"

(* The pieces p stand in message m behind the first n.                      *)
StandsIn(m, n, p) == \A i \in 1..Len(p) : n + i \in DOMAIN Body(m) /\ Body(m)[n + i] = p[i]

(* A part of the root, with the children it gives.                          *)
RootPart(m, p, x) ==
    /\ Yields(p, x) /\ NoItems(x) /\ \A d : RootKidsOk(m, d, x)
    /\ \A d, n, s, kids, r, y, q :
          /\ d.at \in Nat /\ n \in Nat /\ InRoot(m, d, s) /\ IsSeq(s) /\ s # <<>>
          /\ RootKidsOk(m, d, kids) /\ StandsIn(m, n, p) /\ Yields(r, y) /\ NoItems(y) /\ IsSeq(q)
          => Bears(m, d, p, n, r \o (<<Piece("end", m.root)>> \o q), Open(s, m.root, kids))

(* One child more, or some.                                                 *)
LEMMA RootKidsMore ==
    ASSUME NEW m, NEW d, NEW kids, RootKidsOk(m, d, kids)
    PROVE  /\ \A more : RootKidsOk(m, d, more) => RootKidsOk(m, d, kids \o more)
           /\ \A node : RootKid(m, d, node) => RootKidsOk(m, d, Append(kids, node))
<1>1. IsSeq(kids)
  BY DEF RootKidsOk
<1>2. ASSUME NEW more, RootKidsOk(m, d, more) PROVE RootKidsOk(m, d, kids \o more)
  <2>1. IsSeq(more) /\ IsSeq(kids \o more)
    BY <1>1, <1>2, SeqConcat DEF RootKidsOk
  <2>2. ASSUME NEW i \in 1..Len(kids \o more) PROVE RootKid(m, d, (kids \o more)[i])
    <3>1. \/ \E j \in 1..Len(kids) : (kids \o more)[i] = kids[j]
          \/ \E j \in 1..Len(more) : (kids \o more)[i] = more[j]
      BY <1>1, <2>1, ConcatFrom
    <3> QED
      BY <1>2, <3>1 DEF RootKidsOk
  <2> QED
    BY <2>1, <2>2 DEF RootKidsOk
<1>3. ASSUME NEW node, RootKid(m, d, node) PROVE RootKidsOk(m, d, Append(kids, node))
  <2>1. PICK one : one = <<node>>
    OBVIOUS
  <2>2. IsSeq(one)
    BY <2>1, ShortSeqs
  <2>3. Len(one) = 1 /\ one[1] = node
    BY <2>1
  <2>4. RootKidsOk(m, d, one)
    BY <1>3, <2>2, <2>3 DEF RootKidsOk
  <2>5. RootKidsOk(m, d, kids \o one)
    BY <1>2, <2>4
  <2>6. kids \o <<node>> = Append(kids, node)
    BY <1>1, SeqShort
  <2> QED
    BY <2>1, <2>5, <2>6
<1> QED
  BY <1>2, <1>3

(* One node is such children.                                               *)
LEMMA RootKidsOne ==
    ASSUME NEW node
    PROVE  /\ \A m, d : RootKid(m, d, node) => RootKidsOk(m, d, <<node>>)
           /\ node.of # "Item" => NoItems(<<node>>)
           /\ \A m, d : RootKidsOk(m, d, <<>>)
           /\ NoItems(<<>>)
<1>1. PICK one, none : one = <<node>> /\ none = <<>>
  OBVIOUS
<1>2. IsSeq(one) /\ IsSeq(none)
  BY <1>1, ShortSeqs, SeqNone
<1>3. Len(one) = 1 /\ one[1] = node /\ Len(none) = 0
  BY <1>1
<1>4. \A m, d : RootKid(m, d, node) => RootKidsOk(m, d, one)
  BY <1>2, <1>3 DEF RootKidsOk
<1>5. node.of # "Item" => NoItems(one)
  BY <1>2, <1>3 DEF NoItems
<1>6. NoItems(none) /\ \A m, d : RootKidsOk(m, d, none)
  BY <1>2, <1>3 DEF NoItems, RootKidsOk
<1> QED
  BY <1>1, <1>4, <1>5, <1>6

(* Nodes the root may have.                                                 *)
LEMMA RootKidIs ==
    ASSUME NEW m, NEW d, NEW node
    PROVE  /\ node.is # "element" => RootKid(m, d, node)
           /\ node.of \notin {"DeviceList", "CmdType", "DeviceID"} => RootKid(m, d, node)
           /\ node.of = "DeviceList" /\ ListOk(m, node.kids) => RootKid(m, d, node)
           /\ /\ node.of # "DeviceList"
              /\ GetText(node) # NoText \/ m.cmd = "empty" \/ EndsInHead(m, d)
              => RootKid(m, d, node)
BY DEF RootKid

(* The root with one of them more.                                          *)
LEMMA RootSettles ==
    ASSUME NEW m, NEW d, NEW s, IsSeq(s), InRoot(m, d, s), NEW kids, RootKidsOk(m, d, kids)
    PROVE  /\ Settles(m, d, Open(s, m.root, kids))
           /\ \A node : RootKid(m, d, node) => Settles(m, d, Open(s, m.root, Append(kids, node)))
           /\ \A of, new : RootKid(m, d, Tree("element", of, new)) =>
                 Settles(m, d, Open(Open(s, m.root, kids), of, new))
<1>1. Settles(m, d, Open(s, m.root, kids))
  BY DEF InRoot
<1>2. ASSUME NEW node, RootKid(m, d, node) PROVE Settles(m, d, Open(s, m.root, Append(kids, node)))
  <2>1. RootKidsOk(m, d, Append(kids, node))
    BY <1>2, RootKidsMore
  <2> QED
    BY <2>1 DEF InRoot
<1>3. ASSUME NEW of, NEW new, RootKid(m, d, Tree("element", of, new))
      PROVE  Settles(m, d, Open(Open(s, m.root, kids), of, new))
  <2>1. PICK node : node = Tree("element", of, new)
    OBVIOUS
  <2>2. Settles(m, d, Append(s, Tree("element", m.root, Append(kids, node))))
    BY <1>2, <1>3, <2>1 DEF Open
  <2>3. Settles(m, d, Append(Append(s, Tree("element", m.root, kids)), node))
    BY <2>2, SettlesUp
  <2> QED
    BY <2>1, <2>3 DEF Open
<1> QED
  BY <1>1, <1>2, <1>3

(* Two parts stand in a message one behind the other.                       *)
LEMMA StandsConcat ==
    ASSUME NEW m, NEW n \in Nat, NEW p, NEW r, IsSeq(p), IsSeq(r), StandsIn(m, n, p \o r)
    PROVE  StandsIn(m, n, p) /\ StandsIn(m, n + Len(p), r)
<1>1. PICK all, l, l2, body0 : all = p \o r /\ l = Len(p) /\ l2 = Len(r) /\ body0 = Body(m)
  OBVIOUS
<1>2. /\ l \in Nat /\ l2 \in Nat /\ Len(all) = l + l2
      /\ \A i \in 1..l : all[i] = p[i]
      /\ \A i \in 1..l2 : all[l + i] = r[i]
  BY <1>1, SeqConcat
<1>3. \A i \in 1..(l + l2) : n + i \in DOMAIN body0 /\ body0[n + i] = all[i]
  BY <1>1, <1>2 DEF StandsIn
<1>4. \A i \in 1..l : n + i \in DOMAIN body0 /\ body0[n + i] = p[i]
  BY <1>2, <1>3
<1>5. ASSUME NEW i \in 1..l2 PROVE (n + l) + i \in DOMAIN body0 /\ body0[(n + l) + i] = r[i]
  <2>1. l + i \in 1..(l + l2) /\ n + (l + i) = (n + l) + i
    BY <1>2
  <2> QED
    BY <1>2, <1>3, <2>1
<1> QED
  BY <1>1, <1>4, <1>5 DEF StandsIn

(* Two parts are a part.                                                    *)
LEMMA RootPartConcat ==
    ASSUME NEW m, NEW p, NEW x, NEW p2, NEW x2, RootPart(m, p, x), RootPart(m, p2, x2)
    PROVE  RootPart(m, p \o p2, x \o x2)
<1>0. Yields(p, x) /\ Yields(p2, x2) /\ NoItems(x) /\ NoItems(x2)
  BY DEF RootPart
<1>1. IsSeq(p) /\ IsSeq(p2) /\ IsSeq(x) /\ IsSeq(x2)
  BY <1>0 DEF Yields
<1>2. Yields(p \o p2, x \o x2)
  BY <1>0, YieldsConcat
<1>3. \A d : RootKidsOk(m, d, x \o x2)
  BY RootKidsMore DEF RootPart
<1>4. ASSUME NEW y, NoItems(y) PROVE NoItems(x2 \o y)
  <2>1. IsSeq(y) /\ IsSeq(x2 \o y)
    BY <1>1, <1>4, SeqConcat DEF NoItems
  <2>2. ASSUME NEW i \in 1..Len(x2 \o y) PROVE (x2 \o y)[i].of # "Item"
    <3>1. \/ \E j \in 1..Len(x2) : (x2 \o y)[i] = x2[j]
          \/ \E j \in 1..Len(y) : (x2 \o y)[i] = y[j]
      BY <1>1, <2>1, ConcatFrom
    <3> QED
      BY <1>0, <1>4, <3>1 DEF NoItems
  <2> QED
    BY <2>1, <2>2 DEF NoItems
<1>5. NoItems(x \o x2)
  <2>1. IsSeq(x \o x2)
    BY <1>1, SeqConcat
  <2>2. ASSUME NEW i \in 1..Len(x \o x2) PROVE (x \o x2)[i].of # "Item"
    <3>1. \/ \E j \in 1..Len(x) : (x \o x2)[i] = x[j]
          \/ \E j \in 1..Len(x2) : (x \o x2)[i] = x2[j]
      BY <1>1, ConcatFrom
    <3> QED
      BY <1>0, <3>1 DEF NoItems
  <2> QED
    BY <2>1, <2>2 DEF NoItems
<1>6. ASSUME NEW d, NEW n, NEW s, NEW kids, NEW r, NEW y, NEW q,
             d.at \in Nat, n \in Nat, InRoot(m, d, s), IsSeq(s), s # <<>>, RootKidsOk(m, d, kids),
             StandsIn(m, n, p \o p2), Yields(r, y), NoItems(y), IsSeq(q)
      PROVE  Bears(m, d, p \o p2, n, r \o (<<Piece("end", m.root)>> \o q), Open(s, m.root, kids))
  <2>1. PICK last : last = <<Piece("end", m.root)>> \o q
    OBVIOUS
  <2>2. Reads(p, Open(s, m.root, kids), Open(s, m.root, kids \o x))
    BY <1>0, <1>6 DEF Yields, Open, RootKidsOk
  <2>3. IsSeq(last) /\ IsSeq(r) /\ IsSeq(r \o last)
    BY <1>6, <2>1, Behead, SeqConcat DEF Yields
  <2>4. StandsIn(m, n, p) /\ StandsIn(m, n + Len(p), p2)
    BY <1>1, <1>6, StandsConcat
  <2>5. Yields(p2 \o r, x2 \o y) /\ NoItems(x2 \o y)
    BY <1>0, <1>4, <1>6, YieldsConcat
  <2>6. Bears(m, d, p, n, (p2 \o r) \o last, Open(s, m.root, kids))
    BY <1>6, <2>1, <2>4, <2>5 DEF RootPart
  <2>7. (p2 \o r) \o last = p2 \o (r \o last)
    BY <1>1, <2>3, SeqRegroup
  <2>8. n + Len(p) \in Nat
    BY <1>1, <1>6 DEF IsSeq
  <2>9. RootKidsOk(m, d, x)
    BY DEF RootPart
  <2>10. RootKidsOk(m, d, kids \o x)
    BY <1>6, <2>9, RootKidsMore
  <2>11. Bears(m, d, p2, n + Len(p), r \o last, Open(s, m.root, kids \o x))
    BY <1>6, <2>1, <2>4, <2>8, <2>10 DEF RootPart
  <2> QED
    BY <1>1, <1>6, <2>1, <2>2, <2>3, <2>6, <2>7, <2>11, BearsConcat
<1> QED
  BY <1>2, <1>3, <1>5, <1>6 DEF RootPart

(* Where an element of the head ends just before its text.                  *)
LEMMA HeadEnds ==
    ASSUME NEW m, NEW d, NEW n \in Nat, NEW name \in {"CmdType", "DeviceID"},
           StandsIn(m, n, Leaf(0, name)), Behind(d, n + 1)
    PROVE  EndsInHead(m, d)
<1>1. PICK p, first, text : /\ p = Leaf(0, name) /\ first = Piece("start", name)
                            /\ text = Piece("text", Value(0, name))
  OBVIOUS
<1>2. Len(p) = 3 /\ p[1] = first /\ p[2] = text
  BY <1>1 DEF Leaf
<1>3. /\ n + 1 \in DOMAIN Body(m) /\ Body(m)[n + 1] = first /\ Body(m)[n + 2] = text
  <2>1. 1 \in 1..3 /\ 2 \in 1..3
    OBVIOUS
  <2> QED
    BY <1>1, <1>2, <2>1 DEF StandsIn
<1>4. text.of.item = 0
  BY <1>1 DEF Piece, Value
<1>5. (n + 1) + 1 = n + 2
  OBVIOUS
<1>6. PICK k : k = n + 1
  OBVIOUS
<1>7. /\ k \in DOMAIN Body(m) /\ Behind(d, k) /\ Body(m)[k] = Piece("start", name)
      /\ Body(m)[k + 1].of.item = 0
  BY <1>1, <1>3, <1>4, <1>5, <1>6
<1> QED
  BY <1>7 DEF EndsInHead

(* The elements of the head that have a text, ...                           *)
LEMMA RootPartLeaf ==
    ASSUME NEW m, m.root \in {"Response", "Notify"}, NEW name \in {"CmdType", "DeviceID"}
    PROVE  RootPart(m, Leaf(0, name), <<LeafNode(0, name)>>)
<1>1. PICK none, text, old, leaf : /\ none = <<>> /\ text = Node("text", Value(0, name))
                                   /\ old = <<text>> /\ leaf = LeafNode(0, name)
  OBVIOUS
<1>2. leaf = Tree("element", name, old) /\ IsSeq(old)
  BY <1>1, ShortSeqs DEF LeafNode
<1>3. m.root # name /\ name # "DeviceList" /\ name # "Item"
  OBVIOUS
<1>4. Value(0, name) # NoText /\ CutText(0, name) # NoText
  <2>1. Value(0, name) \in Texts /\ CutText(0, name) \in Texts
    BY DEF Value, CutText, Texts
  <2> QED
    BY <2>1, TextAssumption
<1>5. ASSUME NEW d, NEW y, IsSeq(y) PROVE RootKid(m, d, Tree("element", name, old \o y))
  <2>1. PICK node : node = Tree("element", name, old \o y)
    OBVIOUS
  <2>2. node.of = name
    BY <2>1 DEF Tree
  <2>3. GetText(node) = Value(0, name)
    BY <1>1, <1>5, <2>1, TextIs
  <2> QED
    BY <1>3, <1>4, <2>1, <2>2, <2>3, RootKidIs
<1>6. ASSUME NEW d PROVE RootKid(m, d, leaf)
  <2>1. old \o none = old /\ IsSeq(none)
    BY <1>1, <1>2, SeqShort, SeqNone
  <2>2. RootKid(m, d, Tree("element", name, old \o none))
    BY <1>5, <2>1
  <2> QED
    BY <1>2, <2>1, <2>2
<1>7. ASSUME NEW d PROVE RootKid(m, d, Tree("element", name, <<Node("text", CutText(0, name))>>))
  <2>1. PICK node : node = Tree("element", name, <<Node("text", CutText(0, name))>>)
    OBVIOUS
  <2>2. node.of = name
    BY <2>1 DEF Tree
  <2>3. GetText(node) = CutText(0, name)
    BY <1>1, <1>2, <2>1, TextIs
  <2> QED
    BY <1>3, <1>4, <2>1, <2>2, <2>3, RootKidIs
<1>8. ASSUME NEW d, NEW n \in Nat, StandsIn(m, n, Leaf(0, name)), Behind(d, n + 1),
             NEW cut \in CutNodes(name)
      PROVE  RootKid(m, d, cut)
  <2>1. cut.of # "DeviceList"
    BY <1>3, CutIs DEF Node
  <2>2. EndsInHead(m, d)
    BY <1>8, HeadEnds
  <2> QED
    BY <2>1, <2>2, RootKidIs
<1>9. \A d : RootKid(m, d, text)
  <2>1. text.is # "element"
    BY <1>1 DEF Node
  <2> QED
    BY <2>1, RootKidIs
<1>10. NoItems(<<leaf>>) /\ \A d : RootKidsOk(m, d, <<leaf>>)
  <2>1. leaf.of # "Item"
    BY <1>2, <1>3 DEF Tree
  <2> QED
    BY <1>6, <2>1, RootKidsOne
<1>11. ASSUME NEW d, NEW n, NEW s, NEW kids, NEW r, NEW y, NEW q,
              d.at \in Nat, n \in Nat, InRoot(m, d, s), IsSeq(s), s # <<>>,
              RootKidsOk(m, d, kids), StandsIn(m, n, Leaf(0, name)), Yields(r, y),
              NoItems(y), IsSeq(q)
       PROVE  Bears(m, d, Leaf(0, name), n, r \o (<<Piece("end", m.root)>> \o q),
                    Open(s, m.root, kids))
  <2>1. PICK t, follow : /\ t = Open(s, m.root, kids)
                         /\ follow = r \o (<<Piece("end", m.root)>> \o q)
    OBVIOUS
  <2>2. IsSeq(follow) /\ IsSeq(kids) /\ IsSeq(y)
    BY <1>11, <2>1, Behead, SeqConcat DEF Yields, RootKidsOk
  <2>3. Safe(m, d, follow, Append(t, leaf))
    <3>1. RootKid(m, d, Tree("element", name, old \o y))
      BY <1>5, <2>2
    <3>2. Settles(m, d, Open(s, m.root, Append(kids, Tree("element", name, old \o y))))
      BY <1>11, <3>1, RootSettles
    <3>3. t = Append(s, Tree("element", m.root, kids))
      BY <2>1 DEF Open
    <3>4. Settles(m, d, Append(s, Tree("element", m.root,
                                       Append(kids, Tree("element", name, old \o y)))))
      BY <3>2 DEF Open
    <3>5. Safe(m, d, follow, Open(t, name, old))
      BY <1>2, <1>3, <1>11, <2>1, <3>3, <3>4, MissingEnd
    <3> QED
      BY <1>2, <3>5 DEF Open
  <2>4. \A cut \in CutNodes(name) : Behind(d, n + 1) =>
           Settles(m, d, Open(s, m.root, Append(kids, cut)))
    BY <1>8, <1>11, RootSettles
  <2>5. /\ Settles(m, d, Open(s, m.root, kids))
        /\ Settles(m, d, Open(s, m.root, Append(kids, text)))
        /\ Settles(m, d, Open(s, m.root,
              Append(kids, Tree("element", name, <<Node("text", CutText(0, name))>>))))
        /\ Settles(m, d, Open(s, m.root, Append(kids, leaf)))
    BY <1>6, <1>7, <1>9, <1>11, RootSettles
  <2>6. Bears(m, d, Leaf(0, name), n, follow, t)
    BY <1>1, <1>3, <1>11, <2>1, <2>2, <2>3, <2>4, <2>5, BearsLeaf
  <2> QED
    BY <2>1, <2>6
<1>12. Yields(Leaf(0, name), <<leaf>>)
  BY <1>1, YieldsLeaf
<1> QED
  BY <1>1, <1>10, <1>11, <1>12 DEF RootPart

(* ... the command where it has none, ...                                   *)
LEMMA RootPartEmpty ==
    ASSUME NEW m, m.cmd = "empty"
    PROVE  RootPart(m, <<Piece("empty", "CmdType")>>, <<Node("element", "CmdType")>>)
<1>1. PICK piece, cut, kid : /\ piece = Piece("empty", "CmdType") /\ cut = CutPiece(piece)
                             /\ kid = Node("element", "CmdType")
  OBVIOUS
<1>2. piece.is = "empty" /\ cut.is = "empty" /\ CutTag(cut) /\ cut.of = "CmdType"
  <2>1. cut.is = "empty" /\ cut.of = "CmdType" /\ cut.cut
    BY <1>1 DEF CutPiece, Piece
  <2> QED
    BY <1>1, <2>1 DEF CutTag, Piece
<1>3. ASSUME NEW d, NEW node \in CutNodes("CmdType") PROVE RootKid(m, d, node)
  <2>1. node.of # "DeviceList"
    BY CutIs DEF Node
  <2> QED
    BY <2>1, RootKidIs
<1>4. NoItems(<<kid>>) /\ \A d : RootKidsOk(m, d, <<kid>>)
  <2>1. kid.of # "Item"
    BY <1>1 DEF Node
  <2>2. kid \in CutNodes("CmdType")
    BY <1>1 DEF CutNodes
  <2>3. \A d : RootKid(m, d, kid)
    BY <1>1, <1>3, <2>2
  <2> QED
    BY <2>1, <2>3, RootKidsOne
<1>5. ASSUME NEW d, NEW n, NEW s, NEW kids, NEW r, NEW y, NEW q,
             d.at \in Nat, n \in Nat, InRoot(m, d, s), IsSeq(s), s # <<>>,
             RootKidsOk(m, d, kids), StandsIn(m, n, <<piece>>), Yields(r, y),
             NoItems(y), IsSeq(q)
      PROVE  Bears(m, d, <<piece>>, n, r \o (<<Piece("end", m.root)>> \o q), Open(s, m.root, kids))
  <2>1. PICK t, follow : /\ t = Open(s, m.root, kids)
                         /\ follow = r \o (<<Piece("end", m.root)>> \o q)
    OBVIOUS
  <2>2. IsSeq(follow)
    BY <1>5, <2>1, Behead, SeqConcat DEF Yields
  <2>3. Safe(m, d, <<>>, t)
    <3>1. Settles(m, d, t)
      BY <1>5, <2>1, RootSettles
    <3> QED
      BY <3>1 DEF Settles
  <2>4. ASSUME NEW node \in CutNodes(cut.of) PROVE Settles(m, d, WithKid(t, node))
    <3>1. WithKid(t, node) = Open(s, m.root, Append(kids, node))
      BY <1>5, <2>1, KidOnTop DEF Open
    <3>2. RootKid(m, d, node)
      BY <1>2, <1>3, <2>4
    <3> QED
      BY <1>5, <3>1, <3>2, RootSettles
  <2>5. Safe(m, d, <<cut>>, t)
    BY <1>2, <2>4, SafeOne
  <2>6. piece.is \notin {"start", "end"}
    BY <1>2
  <2>7. Bears(m, d, <<piece>>, n, follow, t)
    BY <1>1, <1>5, <2>2, <2>3, <2>5, <2>6, BearsOne
  <2> QED
    BY <2>1, <2>7
<1>6. Yields(<<piece>>, <<kid>>)
  BY <1>1, YieldsOthers
<1> QED
  BY <1>1, <1>4, <1>5, <1>6 DEF RootPart

(* What the parser may leave of the whole list, or of none.                 *)
LEMMA ListOkWhole ==
    ASSUME NEW m, Len(m.items) \in Nat
    PROVE  /\ IsSeq(ItemNodes(m)) /\ ListOk(m, ItemNodes(m)) /\ ListOk(m, <<>>)
           /\ \A y : NoItems(y) => ListOk(m, ItemNodes(m) \o y)
           /\ \A i \in 1..Len(ItemNodes(m)) : ItemNodes(m)[i].of = "Item"
<1>1. PICK n, all, none : /\ n = Len(m.items) /\ n \in Nat /\ all = ItemNodes(m)
                          /\ none = <<>>
  OBVIOUS
<1>2. PICK T : T = {all[i] : i \in 1..n}
  OBVIOUS
<1>3. all \in Seq(T) /\ Len(all) = n
  <2>1. all = [i \in 1..n |-> all[i]]
    BY <1>1 DEF ItemNodes
  <2>2. \A i \in 1..n : all[i] \in T
    BY <1>2
  <2>3. [i \in 1..n |-> all[i]] \in Seq(T) /\ Len([i \in 1..n |-> all[i]]) = n
    <3>1. n \in Nat
      BY <1>1
    <3> QED
      BY <2>2, <3>1
  <2> QED
    BY <2>1, <2>3, Zenon
<1>4. IsSeq(all) /\ IsSeq(none) /\ NoItems(none) /\ all \o none = all
  <2>1. IsSeq(all)
    BY <1>3 DEF IsSeq
  <2> QED
    BY <1>1, <2>1, SeqNone, SeqShort, RootKidsOne
<1>5. SubSeq(all, 1, n) = all /\ SubSeq(all, 1, 0) = none /\ 0 \in 0..n /\ n \in 0..n
  BY <1>1, <1>3
<1>6. ASSUME NEW y, NoItems(y) PROVE ListOk(m, all \o y)
  BY <1>1, <1>5, <1>6 DEF ListOk, NoItems
<1>7. ListOk(m, all)
  BY <1>4, <1>6
<1>8. ListOk(m, none)
  <2>1. none = none \o none
    BY <1>4, <1>1, SeqShort
  <2>2. none = SubSeq(ItemNodes(m), 1, 0) \o none /\ 0 \in 0..Len(m.items)
    BY <1>1, <1>5, <2>1
  <2>3. IsSeq(none) /\ \A i \in 1..Len(none) : none[i].of # "Item"
    BY <1>4 DEF NoItems
  <2> QED
    BY <2>2, <2>3 DEF ListOk
<1>9. ASSUME NEW i \in 1..n PROVE all[i].of = "Item"
  <2>1. all[i] = ItemNode(i, m.items[i])
    BY <1>1 DEF ItemNodes
  <2> QED
    BY <2>1 DEF ItemNode, Tree
<1> QED
  BY <1>1, <1>3, <1>4, <1>6, <1>7, <1>8, <1>9

(* ... and the list of channels.                                            *)
LEMMA RootPartList ==
    ASSUME NEW m \in Messages, m.root \in {"Response", "Notify"}
    PROVE  RootPart(m, DeviceList(m), <<ListNode(m)>>)
<1>1. PICK none, new : none = <<>> /\ new = ItemNodes(m)
  OBVIOUS
<1>2. Len(m.items) \in Nat
  BY MessageTypes
<1>3. /\ IsSeq(none) /\ IsSeq(new) /\ ListOk(m, new) /\ ListOk(m, none)
      /\ \A y : NoItems(y) => ListOk(m, new \o y)
  BY <1>1, <1>2, ListOkWhole, SeqNone
<1>4. ASSUME NEW d, NEW kids, ListOk(m, kids)
      PROVE  RootKid(m, d, Tree("element", "DeviceList", kids))
  <2>1. PICK node : node = Tree("element", "DeviceList", kids)
    OBVIOUS
  <2>2. node.of = "DeviceList" /\ node.kids = kids
    BY <2>1 DEF Tree
  <2> QED
    BY <1>4, <2>1, <2>2, RootKidIs
<1>5. ListNode(m) = Tree("element", "DeviceList", new)
  BY <1>1 DEF ListNode
<1>6. NoItems(<<ListNode(m)>>) /\ \A d : RootKidsOk(m, d, <<ListNode(m)>>)
  <2>1. PICK node : node = ListNode(m)
    OBVIOUS
  <2>2. node.of # "Item"
    BY <1>5, <2>1 DEF Tree
  <2>3. \A d : RootKid(m, d, node)
    BY <1>3, <1>4, <1>5, <2>1
  <2>4. NoItems(<<node>>) /\ \A d : RootKidsOk(m, d, <<node>>)
    BY <2>2, <2>3, RootKidsOne
  <2> QED
    BY <2>1, <2>4
<1>7. ASSUME NEW d, NEW cut \in CutNodes("DeviceList") PROVE RootKid(m, d, cut)
  <2>1. CASE cut = Node("element", "DeviceList")
    <3>1. cut = Tree("element", "DeviceList", none)
      BY <1>1, <2>1 DEF Node, Tree
    <3> QED
      BY <1>3, <1>4, <3>1
  <2>2. CASE cut.of \notin {"Item", "DeviceList", "CmdType", "DeviceID"}
    BY <2>2, RootKidIs
  <2> QED
    BY <2>1, <2>2, CutIs
<1>8. ASSUME NEW d PROVE RootKidsOk(m, d, new)
  <2>1. ASSUME NEW i \in 1..Len(new) PROVE RootKid(m, d, new[i])
    <3>1. new[i].of = "Item"
      BY <1>1, <1>2, ListOkWhole
    <3>2. new[i].of \notin {"DeviceList", "CmdType", "DeviceID"}
      BY <3>1
    <3> QED
      BY <3>2, RootKidIs
  <2> QED
    BY <1>3, <2>1 DEF RootKidsOk
<1>9. m.root # "DeviceList"
  OBVIOUS
<1>10. ASSUME NEW d, NEW n, NEW s, NEW kids, NEW r, NEW y, NEW q,
              d.at \in Nat, n \in Nat, InRoot(m, d, s), IsSeq(s), s # <<>>,
              RootKidsOk(m, d, kids), Yields(r, y), NoItems(y), IsSeq(q)
       PROVE  Bears(m, d, DeviceList(m), n, r \o (<<Piece("end", m.root)>> \o q),
                    Open(s, m.root, kids))
  <2>1. PICK t, follow : /\ t = Open(s, m.root, kids)
                         /\ follow = r \o (<<Piece("end", m.root)>> \o q)
    OBVIOUS
  <2>2. IsSeq(follow) /\ IsSeq(kids) /\ IsSeq(y)
    BY <1>10, <2>1, Behead, SeqConcat DEF Yields, RootKidsOk
  <2>3. IsSeq(t) /\ t # <<>> /\ t = Append(s, Tree("element", m.root, kids))
    BY <1>10, <2>1, SeqAppend DEF Open
  <2>4. InList(m, d, t)
    BY <1>4, <1>10, <2>1, RootSettles DEF InList
  <2>5. n + 1 \in Nat
    BY <1>10
  <2>6. PICK inside : /\ DeviceList(m) = Group("DeviceList", inside) /\ Yields(inside, new)
                      /\ Bears(m, d, inside, n + 1, <<Piece("end", "DeviceList")>> \o follow,
                               Open(t, "DeviceList", <<>>))
    BY <1>1, <1>10, <2>2, <2>3, <2>4, <2>5, BearsItems
  <2>7. Settles(m, d, t)
    BY <1>10, <2>1, RootSettles
  <2>8. ASSUME NEW cut \in CutNodes("DeviceList")
        PROVE  Settles(m, d, Append(s, Tree("element", m.root, Append(kids, cut))))
    <3>1. Settles(m, d, Open(s, m.root, Append(kids, cut)))
      BY <1>7, <1>10, RootSettles
    <3> QED
      BY <3>1 DEF Open
  <2>9. Safe(m, d, inside \o (<<Piece("end", "DeviceList")>> \o follow), t)
    <3>1. RootKidsOk(m, d, kids \o new)
      BY <1>8, <1>10, RootKidsMore
    <3>2. Settles(m, d, Open(s, m.root, kids \o new))
      BY <1>10, <3>1 DEF InRoot
    <3> QED
      BY <1>9, <1>10, <2>1, <2>2, <2>6, <3>2, Mismatch
  <2>10. Settles(m, d, Append(s, Tree("element", m.root,
                                      Append(kids, Tree("element", "DeviceList", new)))))
    <3>1. Settles(m, d, Open(s, m.root, Append(kids, Tree("element", "DeviceList", new))))
      BY <1>3, <1>4, <1>10, RootSettles
    <3> QED
      BY <3>1 DEF Open
  <2>11. Safe(m, d, follow, Open(t, "DeviceList", new))
    <3>1. RootKid(m, d, Tree("element", "DeviceList", new \o y))
      BY <1>3, <1>4, <1>10
    <3>2. Settles(m, d, Open(s, m.root, Append(kids, Tree("element", "DeviceList", new \o y))))
      BY <1>10, <3>1, RootSettles
    <3>3. Settles(m, d, Append(s, Tree("element", m.root,
                                       Append(kids, Tree("element", "DeviceList", new \o y)))))
      BY <3>2 DEF Open
    <3> QED
      BY <1>3, <1>9, <1>10, <2>1, <2>3, <3>3, MissingEnd
  <2>12. Bears(m, d, Group("DeviceList", inside), n, follow, t)
    BY <1>10, <2>2, <2>3, <2>6, <2>7, <2>8, <2>9, <2>10, <2>11, BearsGroup
  <2> QED
    BY <2>1, <2>6, <2>12
<1>11. Yields(DeviceList(m), <<ListNode(m)>>)
  BY YieldsList
<1> QED
  BY <1>6, <1>10, <1>11 DEF RootPart

(* What stands in the root.                                                 *)
LEMMA RootInside ==
    ASSUME NEW m \in Messages, m.root \notin {"none", "noBody"}
    PROVE  m.root \in {"Response", "Notify"} /\ RootPart(m, Inside(m), RootKids(m))
<1>1. m.root \in {"Response", "Notify"} /\ m.idLast \in BOOLEAN
  BY MessageTypes
<1>2. PICK command, list, leaf : /\ command = CommandNode(m) /\ list = ListNode(m)
                                 /\ leaf = LeafNode(0, "DeviceID")
  OBVIOUS
<1>3. RootPart(m, Command(m), <<command>>)
  <2>1. CASE m.cmd = "empty"
    BY <1>2, <2>1, RootPartEmpty DEF Command, CommandNode
  <2>2. CASE m.cmd # "empty"
    BY <1>1, <1>2, <2>2, RootPartLeaf DEF Command, CommandNode
  <2> QED
    BY <2>1, <2>2
<1>4. RootPart(m, DeviceList(m), <<list>>)
  BY <1>1, <1>2, RootPartList
<1>5. RootPart(m, Leaf(0, "DeviceID"), <<leaf>>)
  BY <1>1, <1>2, RootPartLeaf
<1>6. \A a, b, c : <<a>> \o (<<b>> \o <<c>>) = <<a, b, c>>
  <2> TAKE a, b, c
  <2>1. PICK x, y, z : x = <<a>> /\ y = <<b>> /\ z = <<c>>
    OBVIOUS
  <2>2. IsSeq(x) /\ IsSeq(y) /\ IsSeq(z)
    BY <2>1, ShortSeqs
  <2>3. (x \o y) \o z = x \o (y \o z)
    BY <2>2, SeqRegroup
  <2>4. x \o y = <<a, b>> /\ <<a, b>> \o z = <<a, b, c>>
    BY <2>1, ShortSeqs
  <2> QED
    BY <2>1, <2>3, <2>4
<1>7. CASE m.idLast
  <2>1. RootPart(m, Command(m) \o (DeviceList(m) \o Leaf(0, "DeviceID")),
                 <<command>> \o (<<list>> \o <<leaf>>))
    BY <1>3, <1>4, <1>5, RootPartConcat
  <2>2. Inside(m) = Command(m) \o (DeviceList(m) \o Leaf(0, "DeviceID"))
    BY <1>7 DEF Inside
  <2>3. RootKids(m) = <<command, list, leaf>>
    BY <1>2, <1>7 DEF RootKids
  <2> QED
    BY <1>1, <1>6, <2>1, <2>2, <2>3
<1>8. CASE ~m.idLast
  <2>1. RootPart(m, Command(m) \o (Leaf(0, "DeviceID") \o DeviceList(m)),
                 <<command>> \o (<<leaf>> \o <<list>>))
    BY <1>3, <1>4, <1>5, RootPartConcat
  <2>2. Inside(m) = Command(m) \o (Leaf(0, "DeviceID") \o DeviceList(m))
    BY <1>8 DEF Inside
  <2>3. RootKids(m) = <<command, leaf, list>>
    BY <1>2, <1>8 DEF RootKids
  <2> QED
    BY <1>1, <1>6, <2>1, <2>2, <2>3
<1> QED
  BY <1>7, <1>8


-----------------------------------------------------------------------------
(* Damage to the message.                                                   *)

(* The document on the stack.                                               *)
LEMMA DocumentOnStack ==
    \E is, of : \A kids : Append(<<>>, Tree(is, of, kids)) = <<Document(kids)>>
<1>1. PICK is, of : is = "document" /\ of = ""
  OBVIOUS
<1>2. \A kids : Append(<<>>, Tree(is, of, kids)) = <<Document(kids)>>
  BY <1>1, DocumentStacks, Zenon
<1> QED
  BY <1>2

(* A document with a root, and with what stands behind it, if anything.     *)
LEMMA DocumentWithRoot ==
    ASSUME NEW m, m.root \notin {"none", "noBody"}, NEW d, d.kind # "none",
           NEW root, root.is = "element", RootKidsOk(m, d, root.kids)
    PROVE  /\ \A rest : IsSeq(rest) => DocOk(m, d, Document(<<MiscNode, root>> \o rest))
           /\ Settles(m, d, <<Document(<<MiscNode, root>>)>>)
<1>1. PICK none, misc, two : none = <<>> /\ misc = MiscNode /\ two = <<misc, root>>
  OBVIOUS
<1>2. ASSUME NEW rest, IsSeq(rest) PROVE DocOk(m, d, Document(<<MiscNode, root>> \o rest))
  BY <1>2 DEF DocOk, RootKidsOk
<1>3. IsSeq(none) /\ two \o none = two
  BY <1>1, SeqNone, SeqShort, ShortSeqs
<1>4. DocOk(m, d, Document(two))
  BY <1>1, <1>2, <1>3
<1> QED
  BY <1>1, <1>2, <1>4, SettlesHome

(* The beginning of a document.                                             *)
LEMMA DocumentHead ==
    ASSUME NEW m, m.root \notin {"none", "noBody"}, NEW d, d.kind # "none", BeforeRoot(d)
    PROVE  /\ Settles(m, d, <<Unread>>) /\ Settles(m, d, <<Document(<<MiscNode>>)>>)
           /\ Settles(m, d, <<Document(<<MiscNode, MiscNode>>)>>)
<1>1. PICK none : none = <<>>
  OBVIOUS
<1>2. Document(none) = Unread
  BY <1>1, DocumentStacks, Zenon DEF Document
<1>3. \A document \in Rootless : DocOk(m, d, document)
  BY DEF DocOk
<1>4. /\ DocOk(m, d, Unread) /\ DocOk(m, d, Document(<<MiscNode>>))
      /\ DocOk(m, d, Document(<<MiscNode, MiscNode>>))
  BY <1>3 DEF Rootless
<1>5. /\ Settles(m, d, <<Document(none)>>) /\ Settles(m, d, <<Document(<<MiscNode>>)>>)
      /\ Settles(m, d, <<Document(<<MiscNode, MiscNode>>)>>)
  BY <1>2, <1>4, SettlesHome
<1> QED
  BY <1>2, <1>5

(* The root in the document.                                                *)
LEMMA RootInDocument ==
    ASSUME NEW m, m.root \notin {"none", "noBody"}, NEW d, d.kind # "none"
    PROVE  InRoot(m, d, <<Document(<<MiscNode>>)>>)
<1> SUFFICES ASSUME NEW kids, RootKidsOk(m, d, kids)
             PROVE  Settles(m, d, Open(<<Document(<<MiscNode>>)>>, m.root, kids))
  BY DEF InRoot
<1>1. PICK is, of : \A nodes : Append(<<>>, Tree(is, of, nodes)) = <<Document(nodes)>>
  BY DocumentOnStack
<1>2. PICK none, misc, node : /\ none = <<>> /\ misc = MiscNode
                              /\ node = Tree("element", m.root, kids)
  OBVIOUS
<1>3. node.is = "element" /\ node.kids = kids
  BY <1>2 DEF Tree
<1>4. Settles(m, d, <<Document(<<misc, node>>)>>)
  BY <1>2, <1>3, DocumentWithRoot
<1>5. Append(<<misc>>, node) = <<misc, node>> /\ IsSeq(none)
  BY <1>2, ShortSeqs, SeqNone
<1>6. Settles(m, d, Append(none, Tree(is, of, Append(<<misc>>, node))))
  BY <1>1, <1>2, <1>4, <1>5
<1>7. Settles(m, d, Append(Append(none, Tree(is, of, <<misc>>)), node))
  BY <1>5, <1>6, SettlesUp
<1> QED
  BY <1>1, <1>2, <1>7 DEF Open

(* Parts that are read outside of the root.                                 *)
DocumentPart(p, x) ==
    /\ IsSeq(p) /\ IsSeq(x)
    /\ \A kids : IsSeq(kids) => Reads(p, <<Document(kids)>>, <<Document(kids \o x)>>)

(* Two of them.                                                             *)
LEMMA DocumentPartConcat ==
    ASSUME NEW p, NEW x, NEW r, NEW y, DocumentPart(p, x), DocumentPart(r, y)
    PROVE  DocumentPart(p \o r, x \o y)
<1>1. IsSeq(p) /\ IsSeq(x) /\ IsSeq(r) /\ IsSeq(y) /\ IsSeq(p \o r) /\ IsSeq(x \o y)
  BY SeqConcat DEF DocumentPart
<1>2. ASSUME NEW kids, IsSeq(kids)
      PROVE  Reads(p \o r, <<Document(kids)>>, <<Document(kids \o (x \o y))>>)
  <2>1. IsSeq(kids \o x) /\ (kids \o x) \o y = kids \o (x \o y)
    <3>1. IsSeq(kids \o x)
      BY <1>1, <1>2, SeqConcat
    <3>2. (kids \o x) \o y = kids \o (x \o y)
      BY <1>1, <1>2, SeqRegroup
    <3> QED
      BY <3>1, <3>2
  <2>2. Reads(p, <<Document(kids)>>, <<Document(kids \o x)>>)
    BY <1>2 DEF DocumentPart
  <2>3. Reads(r, <<Document(kids \o x)>>, <<Document((kids \o x) \o y)>>)
    BY <2>1 DEF DocumentPart
  <2>4. Reads(r, <<Document(kids \o x)>>, <<Document(kids \o (x \o y))>>)
    BY <2>1, <2>3
  <2> QED
    BY <1>1, <2>2, <2>4, ReadsConcat
<1> QED
  BY <1>1, <1>2 DEF DocumentPart

(* Elements and end tags are.                                               *)
LEMMA DocumentParts ==
    ASSUME NEW name
    PROVE  /\ \A inside, new : Yields(inside, new) =>
                 DocumentPart(Group(name, inside), <<Tree("element", name, new)>>)
           /\ DocumentPart(<<Piece("empty", name)>>, <<Node("element", name)>>)
           /\ DocumentPart(<<Piece("end", name)>>, <<MiscNode>>)
<1>1. \A kids, node : IsSeq(kids) => kids \o <<node>> = Append(kids, node)
  BY SeqShort
<1>2. ASSUME NEW inside, NEW new, Yields(inside, new)
      PROVE  DocumentPart(Group(name, inside), <<Tree("element", name, new)>>)
  <2>1. PICK node, one : node = Tree("element", name, new) /\ one = <<node>>
    OBVIOUS
  <2>2. IsSeq(one) /\ IsSeq(Group(name, inside))
    <3>1. Yields(Group(name, inside), <<Tree("element", name, new)>>)
      BY <1>2, YieldsGroup
    <3> QED
      BY <2>1, <3>1 DEF Yields
  <2>3. \A kids : IsSeq(kids) =>
           Reads(Group(name, inside), <<Document(kids)>>, <<Document(Append(kids, node))>>)
    BY <1>2, <2>1, DocumentReads
  <2> QED
    BY <1>1, <2>1, <2>2, <2>3 DEF DocumentPart
<1>3. DocumentPart(<<Piece("empty", name)>>, <<Node("element", name)>>)
  <2>1. PICK piece, node : piece = Piece("empty", name) /\ node = Node("element", name)
    OBVIOUS
  <2>2. piece.is = "empty" /\ piece.of = name /\ ~CutTag(piece)
    BY <2>1 DEF Piece, CutTag
  <2>3. ASSUME NEW kids, IsSeq(kids)
        PROVE  Reads(<<piece>>, <<Document(kids)>>, <<Document(Append(kids, node))>>)
    <3>1. PICK s : s = <<Document(kids)>>
      OBVIOUS
    <3>2. StepOf(s, piece) = WithKid(s, node) /\ ~Stops(s, piece)
      BY <2>1, <2>2 DEF StepOf, Stops
    <3>3. Reads(<<piece>>, s, WithKid(s, node))
      BY <2>2, <3>2, ReadsPiece
    <3> QED
      BY <2>3, <3>1, <3>3, DocumentKid
  <2>4. IsSeq(<<piece>>) /\ IsSeq(<<node>>)
    BY ShortSeqs
  <2> QED
    BY <1>1, <2>1, <2>3, <2>4 DEF DocumentPart
<1>4. DocumentPart(<<Piece("end", name)>>, <<MiscNode>>)
  <2>1. PICK piece, node : piece = Piece("end", name) /\ node = MiscNode
    OBVIOUS
  <2>2. piece.is \in {"misc", "end"} /\ ~CutTag(piece)
    BY <2>1 DEF Piece, CutTag
  <2>3. \A kids : IsSeq(kids) =>
           Reads(<<piece>>, <<Document(kids)>>, <<Document(Append(kids, node))>>)
    BY <2>1, <2>2, DocumentMisc
  <2>4. IsSeq(<<piece>>) /\ IsSeq(<<node>>)
    BY ShortSeqs
  <2> QED
    BY <1>1, <2>1, <2>3, <2>4 DEF DocumentPart
<1> QED
  BY <1>2, <1>3, <1>4

(* What should be the root's, without its start tag.                        *)
LEMMA InsideAlone ==
    ASSUME NEW m \in Messages, m.root \notin {"none", "noBody"}
    PROVE  \E rest : DocumentPart(Inside(m), <<CommandNode(m)>> \o rest) /\ IsSeq(rest)
<1>1. PICK command, list, leaf : /\ command = CommandNode(m) /\ list = ListNode(m)
                                 /\ leaf = LeafNode(0, "DeviceID")
  OBVIOUS
<1>2. ASSUME NEW name PROVE DocumentPart(Leaf(0, name), <<LeafNode(0, name)>>)
  <2>1. PICK text, node : /\ text = Piece("text", Value(0, name))
                          /\ node = Node("text", Value(0, name))
    OBVIOUS
  <2>2. text.is = "text" /\ text.of = Value(0, name) /\ ~CutTag(text)
    BY <2>1 DEF Piece, CutTag
  <2>3. Yields(<<text>>, <<node>>)
    <3>1. ASSUME NEW u, IsSeq(u), Len(u) > 1
          PROVE  StepOf(u, text) = WithKid(u, node) /\ ~Stops(u, text)
      BY <2>1, <2>2, <3>1 DEF StepOf, Stops
    <3> QED
      BY <2>2, <3>1, YieldsPiece
  <2>4. Leaf(0, name) = Group(name, <<text>>) /\ LeafNode(0, name) = Tree("element", name, <<node>>)
    BY <2>1 DEF Leaf, Group, LeafNode
  <2> QED
    BY <2>3, <2>4, DocumentParts
<1>3. DocumentPart(Command(m), <<command>>)
  <2>1. CASE m.cmd = "empty"
    BY <1>1, <2>1, DocumentParts DEF Command, CommandNode
  <2>2. CASE m.cmd # "empty"
    BY <1>1, <1>2, <2>2 DEF Command, CommandNode
  <2> QED
    BY <2>1, <2>2
<1>4. DocumentPart(Leaf(0, "DeviceID"), <<leaf>>)
  BY <1>1, <1>2
<1>5. DocumentPart(DeviceList(m), <<list>>)
  <2>1. PICK inside : /\ DeviceList(m) = Group("DeviceList", inside)
                      /\ Yields(inside, ItemNodes(m))
    BY ListInside
  <2> QED
    BY <1>1, <2>1, DocumentParts DEF ListNode
<1>6. ASSUME NEW p, NEW x, NEW r, NEW y, DocumentPart(p, <<x>>), DocumentPart(r, <<y>>),
             Inside(m) = Command(m) \o (p \o r)
      PROVE  DocumentPart(Inside(m), <<command>> \o (<<x>> \o <<y>>)) /\ IsSeq(<<x>> \o <<y>>)
  <2>1. DocumentPart(p \o r, <<x>> \o <<y>>)
    BY <1>6, DocumentPartConcat
  <2>2. DocumentPart(Command(m) \o (p \o r), <<command>> \o (<<x>> \o <<y>>))
    BY <1>3, <2>1, DocumentPartConcat
  <2> QED
    BY <1>6, <2>1, <2>2 DEF DocumentPart
<1>7. CASE m.idLast
  <2>1. Inside(m) = Command(m) \o (DeviceList(m) \o Leaf(0, "DeviceID"))
    BY <1>7 DEF Inside
  <2> QED
    BY <1>1, <1>4, <1>5, <1>6, <2>1
<1>8. CASE ~m.idLast
  <2>1. Inside(m) = Command(m) \o (Leaf(0, "DeviceID") \o DeviceList(m))
    BY <1>8 DEF Inside
  <2> QED
    BY <1>1, <1>4, <1>5, <1>6, <2>1
<1> QED
  BY <1>7, <1>8

(* Its root without the start tag.                                          *)
LEMMA RootUntagged ==
    ASSUME NEW m \in Messages, m.root \notin {"none", "noBody"}, NEW d, d.kind # "none"
    PROVE  Safe(m, d, Inside(m) \o (<<Piece("end", m.root)>> \o <<>>),
                <<Document(<<MiscNode>>)>>)
<1>1. PICK none, misc, command, last : /\ none = <<>> /\ misc = MiscNode
                                       /\ command = CommandNode(m)
                                       /\ last = <<Piece("end", m.root)>>
  OBVIOUS
<1>2. PICK rest : DocumentPart(Inside(m), <<command>> \o rest) /\ IsSeq(rest)
  BY <1>1, InsideAlone
<1>3. PICK one, head : one = <<misc>> /\ head = <<command>>
  OBVIOUS
<1>4. /\ IsSeq(none) /\ IsSeq(one) /\ IsSeq(head) /\ IsSeq(last) /\ last \o none = last
      /\ IsSeq(Inside(m)) /\ IsSeq(Inside(m) \o last)
  <2>1. /\ IsSeq(none) /\ IsSeq(one) /\ IsSeq(head) /\ IsSeq(last) /\ last \o none = last
    BY <1>1, <1>3, SeqNone, SeqShort, ShortSeqs
  <2>2. IsSeq(Inside(m))
    BY <1>2 DEF DocumentPart
  <2> QED
    BY <2>1, <2>2, SeqConcat
<1>5. DocumentPart(Inside(m) \o last, (head \o rest) \o one)
  BY <1>1, <1>2, <1>3, DocumentParts, DocumentPartConcat
<1>6. Reads(Inside(m) \o last, <<Document(one)>>, <<Document(one \o ((head \o rest) \o one))>>)
  BY <1>4, <1>5 DEF DocumentPart
<1>7. one \o ((head \o rest) \o one) = <<misc, command>> \o (rest \o one)
  <2>1. IsSeq(rest \o one)
    BY <1>2, <1>4, SeqConcat
  <2>2. IsSeq(one) /\ IsSeq(head) /\ IsSeq(rest)
    BY <1>2, <1>4
  <2>3. (head \o rest) \o one = head \o (rest \o one)
    BY <2>2, SeqRegroup
  <2>4. (one \o head) \o (rest \o one) = one \o (head \o (rest \o one))
    BY <2>1, <2>2, SeqRegroup
  <2>5. one \o head = <<misc, command>>
    BY <1>3, ShortSeqs
  <2> QED
    BY <2>3, <2>4, <2>5
<1>8. IsSeq(rest \o one)
  BY <1>2, <1>4, SeqConcat
<1>9. command.is = "element" /\ RootKidsOk(m, d, command.kids)
  <2>1. CASE m.cmd = "empty"
    <3>1. command = Node("element", "CmdType")
      BY <1>1, <2>1 DEF CommandNode
    <3>2. command.is = "element" /\ command.kids = none
      BY <1>1, <3>1 DEF Node
    <3> QED
      BY <1>1, <3>2, RootKidsOne
  <2>2. CASE m.cmd # "empty"
    <3>1. PICK text : text = Node("text", Value(0, "CmdType"))
      OBVIOUS
    <3>2. command = Tree("element", "CmdType", <<text>>)
      BY <1>1, <2>2, <3>1 DEF CommandNode, LeafNode
    <3>3. command.is = "element" /\ command.kids = <<text>>
      BY <3>2 DEF Tree
    <3>4. text.is # "element"
      BY <3>1 DEF Node
    <3>5. RootKidsOk(m, d, <<text>>)
      BY <3>4, RootKidIs, RootKidsOne
    <3> QED
      BY <3>3, <3>5
  <2> QED
    BY <2>1, <2>2
<1>10. DocOk(m, d, Document(<<misc, command>> \o (rest \o one)))
  BY <1>1, <1>8, <1>9, DocumentWithRoot
<1>11. PICK full : full = one \o ((head \o rest) \o one)
  OBVIOUS
<1>12. Settles(m, d, <<Document(full)>>)
  BY <1>7, <1>10, <1>11, SettlesHome
<1>13. Safe(m, d, Inside(m) \o last, <<Document(one)>>)
  BY <1>4, <1>6, <1>11, <1>12, SafeLast
<1> QED
  BY <1>1, <1>3, <1>4, <1>13

(* The message behind its first piece.                                      *)
LEMMA BearsRoot ==
    ASSUME NEW m \in Messages, m.root \notin {"none", "noBody"}, NEW d, d.at \in Nat, d.kind # "none",
           StandsIn(m, 2, Inside(m))
    PROVE  Bears(m, d, Group(m.root, Inside(m)), 1, <<>>, <<Document(<<MiscNode>>)>>)
<1>1. PICK none, misc, inside, new, t :
         /\ none = <<>> /\ misc = MiscNode /\ inside = Inside(m) /\ new = RootKids(m)
         /\ t = <<Document(<<misc>>)>>
  OBVIOUS
<1>2. PICK is, of : \A nodes : Append(<<>>, Tree(is, of, nodes)) = <<Document(nodes)>>
  BY DocumentOnStack
<1>3. /\ IsSeq(none) /\ IsSeq(<<misc>>) /\ IsSeq(t) /\ t # <<>>
      /\ \A node : Append(<<misc>>, node) = <<misc, node>>
  <2>1. IsSeq(t)
    BY <1>1, ShortSeqs
  <2>2. t # <<>>
    BY <1>1
  <2> QED
    BY <1>1, <2>1, <2>2, SeqNone, ShortSeqs
<1>4. t = Append(none, Tree(is, of, <<misc>>))
  BY <1>1, <1>2
<1>5. RootPart(m, inside, new)
  BY <1>1, RootInside
<1>6. Yields(inside, new) /\ RootKidsOk(m, d, new)
  BY <1>5 DEF RootPart
<1>7. InRoot(m, d, t)
  BY <1>1, RootInDocument
<1>8. ASSUME d.kind = "ends", d.at = 1 PROVE Settles(m, d, t)
  BY <1>1, <1>8, DocumentHead DEF BeforeRoot
<1>9. ASSUME NEW kids, NEW name, RootKidsOk(m, d, kids)
      PROVE  Settles(m, d,
                Append(none, Tree(is, of, Append(<<misc>>, Tree("element", name, kids)))))
  <2>1. PICK node : node = Tree("element", name, kids)
    OBVIOUS
  <2>2. node.is = "element" /\ node.kids = kids
    BY <2>1 DEF Tree
  <2>3. Settles(m, d, <<Document(<<misc, node>>)>>)
    BY <1>1, <1>9, <2>2, DocumentWithRoot
  <2> QED
    BY <1>1, <1>2, <1>3, <2>1, <2>3
<1>10. ASSUME NEW cut \in CutNodes(m.root), d.kind = "cut", d.at = 1 + 1
       PROVE  Settles(m, d, Append(none, Tree(is, of, Append(<<misc>>, cut))))
  <2>1. RootKidsOk(m, d, none)
    BY <1>1, RootKidsOne
  <2>2. ASSUME NEW name, cut = Node("element", name)
        PROVE  Settles(m, d, Append(none, Tree(is, of, Append(<<misc>>, cut))))
    <3>1. cut = Tree("element", name, none)
      BY <1>1, <2>2 DEF Node, Tree
    <3> QED
      BY <1>9, <2>1, <3>1
  <2>3. CASE cut = MiscNode
    <3>1. BeforeRoot(d)
      BY <1>10 DEF BeforeRoot
    <3>2. Settles(m, d, <<Document(<<misc, cut>>)>>)
      BY <1>1, <2>3, <3>1, DocumentHead
    <3> QED
      BY <1>1, <1>2, <1>3, <3>2
  <2> QED
    BY <2>2, <2>3, Zenon DEF CutNodes
<1>11. Safe(m, d, inside \o (<<Piece("end", m.root)>> \o none), t)
  BY <1>1, RootUntagged
<1>12. Bears(m, d, inside, 2, <<Piece("end", m.root)>> \o none, Open(t, m.root, none))
  <2>1. Yields(none, none) /\ NoItems(none) /\ RootKidsOk(m, d, none)
    BY <1>1, YieldsNone, RootKidsOne
  <2>2. Bears(m, d, inside, 2, none \o (<<Piece("end", m.root)>> \o none), Open(t, m.root, none))
    BY <1>1, <1>3, <1>5, <1>7, <2>1 DEF RootPart
  <2>3. IsSeq(<<Piece("end", m.root)>> \o none)
    BY <1>3, Behead
  <2>4. none \o (<<Piece("end", m.root)>> \o none) = <<Piece("end", m.root)>> \o none
    BY <1>1, <2>3, SeqShort
  <2> QED
    BY <2>2, <2>4
<1>13. Safe(m, d, none, Open(t, m.root, new))
  <2>1. Settles(m, d, Open(t, m.root, new))
    BY <1>6, <1>7 DEF InRoot
  <2> QED
    BY <1>1, <2>1 DEF Settles
<1>14. /\ 1 \in Nat /\ 1 + 1 = 2
       /\ Settles(m, d, Append(none, Tree(is, of, Append(<<misc>>, Tree("element", m.root, new)))))
  BY <1>6, <1>9
<1>15. Bears(m, d, inside, 1 + 1, <<Piece("end", m.root)>> \o none, Open(t, m.root, <<>>))
  BY <1>1, <1>12, <1>14
<1>16. Bears(m, d, Group(m.root, inside), 1, none, t)
  BY <1>3, <1>4, <1>6, <1>8, <1>10, <1>11, <1>13, <1>14, <1>15, BearsGroup
<1> QED
  BY <1>1, <1>16

(* The whole of it.                                                         *)
LEMMA BodyBears ==
    ASSUME NEW m \in Messages, m.root \notin {"none", "noBody"}, NEW d \in Damages(Body(m)), d.kind # "none"
    PROVE  Safe(m, d, Arrived(Body(m), d), <<Unread>>)
<1>1. PICK first, group, none, t, u :
         /\ first = <<Misc>> /\ group = Group(m.root, Inside(m)) /\ none = <<>>
         /\ t = <<Unread>> /\ u = <<Document(<<MiscNode>>)>>
  OBVIOUS
<1>2. Body(m) = first \o group /\ Body(m) \in Seq(Written)
  BY <1>1, BodyReads
<1>3. IsSeq(first) /\ Len(first) = 1 /\ IsSeq(group) /\ IsSeq(none) /\ IsSeq(Inside(m))
  <2>1. Yields(Inside(m), RootKids(m))
    BY YieldsInside
  <2>2. Yields(group, <<RootNode(m)>>)
    BY <1>1, <2>1, YieldsGroup DEF RootNode
  <2>3. IsSeq(first) /\ IsSeq(none)
    BY <1>1, ShortSeqs, SeqNone
  <2>4. Len(first) = 1
    BY <1>1
  <2> QED
    BY <2>1, <2>2, <2>3, <2>4 DEF Yields
<1>4. d.at \in Nat /\ Local(d, 0) = d
  <2>1. DOMAIN Body(m) \subseteq Nat /\ Len(Body(m)) \in Nat
    BY <1>2
  <2>2. \/ d \in [kind : {"none"}, at : {0}]
        \/ d \in [kind : {"ends"}, at : 0..(Len(Body(m)) - 1)]
        \/ d \in [kind : {"cut"}, at : DOMAIN Body(m)]
        \/ d \in [kind : {"untagged"}, at : DOMAIN Body(m)]
    BY DEF Damages
  <2>3. d = [kind |-> d.kind, at |-> d.at] /\ d.at \in Nat
    BY <2>1, <2>2
  <2>4. d.at - 0 = d.at
    BY <2>3
  <2> QED
    BY <2>3, <2>4 DEF Local
<1>5. Bears(m, d, first, 0, group \o none, t)
  <2>1. d.kind = "ends" /\ d.at = 0 => Safe(m, d, <<>>, t)
    BY <1>1, DocumentHead DEF Settles, BeforeRoot
  <2>2. ASSUME d.kind = "cut", d.at = 0 + 1 PROVE Safe(m, d, <<CutPiece(Misc)>>, t)
    <3>1. PICK cut : cut = CutPiece(Misc)
      OBVIOUS
    <3>2. cut.is = "misc"
      <4>1. PICK is, of : is = "misc" /\ of = ""
        OBVIOUS
      <4>2. Misc = Piece(is, of) /\ is = "misc"
        BY <4>1, Zenon DEF Misc
      <4> QED
        BY <3>1, <4>2, CutPieceIs
    <3>3. cut.is \in {"misc", "end"} /\ ~CutTag(cut)
      BY <3>2 DEF CutTag
    <3>4. Reads(<<cut>>, <<Document(none)>>, <<Document(Append(none, MiscNode))>>)
      BY <1>3, <3>3, DocumentMisc
    <3>5. Document(none) = Unread
      BY <1>1, DocumentStacks, Zenon DEF Document
    <3>6. Append(none, MiscNode) = <<MiscNode>>
      BY <1>1, ShortSeqs
    <3>7. Reads(<<cut>>, t, u)
      BY <1>1, <3>4, <3>5, <3>6
    <3>8. Settles(m, d, u)
      BY <1>1, <2>2, DocumentHead DEF BeforeRoot
    <3>9. IsSeq(<<cut>>)
      BY ShortSeqs
    <3> QED
      BY <3>1, <3>7, <3>8, <3>9, SafeLast
  <2>3. Misc.is \notin {"start", "end"}
    <3>1. PICK is, of : is = "misc" /\ of = ""
      OBVIOUS
    <3>2. Misc = Piece(is, of) /\ is = "misc"
      BY <3>1, Zenon DEF Misc
    <3> QED
      BY <3>2 DEF Piece
  <2>4. IsSeq(group \o none) /\ 0 \in Nat
    BY <1>3, SeqConcat
  <2> QED
    BY <1>1, <1>4, <2>1, <2>2, <2>3, <2>4, BearsOne
<1>6. StandsIn(m, 2, Inside(m))
  <2>1. StandsIn(m, 0, Body(m))
    <3>1. \A i \in 1..Len(Body(m)) : 0 + i = i /\ i \in DOMAIN Body(m)
      BY <1>2
    <3> QED
      BY <3>1 DEF StandsIn
  <2>2. PICK start, end : start = <<Piece("start", m.root)>> /\ end = <<Piece("end", m.root)>>
    OBVIOUS
  <2>3. IsSeq(start) /\ IsSeq(end) /\ IsSeq(start \o Inside(m))
    BY <1>3, <2>2, ShortSeqs, Behead
  <2>4. Len(start) = 1
    BY <2>2
  <2>5. group = (start \o Inside(m)) \o end
    BY <1>1, <2>2 DEF Group
  <2>6. StandsIn(m, 0 + 1, group)
    BY <1>2, <1>3, <2>1, StandsConcat
  <2>7. StandsIn(m, 1, start \o Inside(m))
    BY <2>3, <2>5, <2>6, StandsConcat
  <2>8. StandsIn(m, 1 + 1, Inside(m))
    BY <1>3, <2>3, <2>4, <2>7, StandsConcat
  <2> QED
    BY <2>8
<1>7. Bears(m, d, group, 0 + Len(first), none, u)
  <2>1. Bears(m, d, group, 1, none, u)
    BY <1>1, <1>4, <1>6, BearsRoot
  <2>2. 0 + Len(first) = 1
    BY <1>3
  <2> QED
    BY <2>1, <2>2
<1>8. Reads(first, t, u)
  BY <1>1, FirstRead
<1>9. Bears(m, d, Body(m), 0, none, t)
  <2>1. 0 \in Nat
    OBVIOUS
  <2>2. Bears(m, d, first \o group, 0, none, t)
    BY <1>3, <1>4, <1>5, <1>7, <1>8, <2>1, BearsConcat
  <2> QED
    BY <1>2, <2>2
<1>10. Safe(m, d, Arrives(Body(m), d, none), t)
  BY <1>4, <1>9 DEF Bears
<1>11. Arrives(Body(m), d, none) = Arrived(Body(m), d)
  <2>1. CASE d.kind = "untagged"
    <3>1. d.at \in 1..Len(Body(m))
      BY <1>2, <2>1 DEF Damages
    <3>2. RemoveAt(Body(m), d.at) \in Seq(Written)
      BY <1>2, <3>1, RemoveAtProperties
    <3>3. RemoveAt(Body(m), d.at) \o none = RemoveAt(Body(m), d.at)
      BY <1>1, <3>2, SeqShort DEF IsSeq
    <3>4. Arrived(Body(m), d) = RemoveAt(Body(m), d.at)
      BY <2>1 DEF Arrived
    <3> QED
      BY <2>1, <3>3, <3>4 DEF Arrives
  <2>2. CASE d.kind # "untagged"
    BY <2>2 DEF Arrives
  <2> QED
    BY <2>1, <2>2
<1> QED
  BY <1>1, <1>10, <1>11


-----------------------------------------------------------------------------
(* What the event loop finds in the tree of a message.                      *)

(* A node of nothing but elements.                                          *)
LEMMA ElementsAll ==
    ASSUME NEW s, IsSeq(s), \A i \in 1..Len(s) : s[i].is = "element", NEW is, NEW of
    PROVE  Elements(Tree(is, of, s)) = s
<1>1. Tree(is, of, s).kids = s
  BY DEF Tree
<1>2. DOMAIN s = 1..Len(s)
  BY DEF IsSeq
<1>3. PICK places : places = {i \in DOMAIN s : s[i].is = "element"}
  OBVIOUS
<1>4. 1..Len(s) \subseteq places
  BY <1>2, <1>3
<1>5. Picked(s, places) = s
  BY <1>4, PickedAll
<1> QED
  BY <1>1, <1>3, <1>5 DEF Elements

(* A node with a text, or with an element.                                  *)
LEMMA ElementsOne ==
    ASSUME NEW a, NEW is, NEW of
    PROVE  /\ a.is = "text" => Elements(Tree(is, of, <<a>>)) = <<>>
           /\ a.is = "element" => Elements(Tree(is, of, <<a>>)) = <<a>>
<1>1. PICK one : one = <<a>>
  OBVIOUS
<1>2. PICK places : places = {i \in DOMAIN one : one[i].is = "element"}
  OBVIOUS
<1>3. Elements(Tree(is, of, one)) = Picked(one, places)
  BY <1>2 DEF Elements, Tree
<1>4. 1 \in places <=> a.is = "element"
  BY <1>1, <1>2
<1>5. Picked(<<a>>, places) = IF 1 \in places THEN <<a>> ELSE <<>>
  BY PickedShort
<1>6. "text" # "element"
  OBVIOUS
<1> QED
  BY <1>1, <1>3, <1>4, <1>5, <1>6, Zenon

(* A node with two elements.                                                *)
LEMMA ElementsTwo ==
    ASSUME NEW a, NEW b, a.is = "element", b.is = "element", NEW is, NEW of
    PROVE  Elements(Tree(is, of, <<a, b>>)) = <<a, b>>
<1>1. PICK two : two = <<a, b>>
  OBVIOUS
<1>2. Len(two) = 2 /\ two[1] = a /\ two[2] = b /\ IsSeq(two)
  BY <1>1, ShortSeqs
<1>3. \A i \in 1..Len(two) : two[i].is = "element"
  BY <1>2
<1> QED
  BY <1>1, <1>2, <1>3, ElementsAll

(* A node with three nodes, two or all of which are elements.               *)
LEMMA ElementsThree ==
    ASSUME NEW a, NEW b, NEW c, a.is = "element", c.is = "element", NEW is, NEW of
    PROVE  /\ b.is = "misc" => Elements(Tree(is, of, <<a, b, c>>)) = <<a, c>>
           /\ b.is = "element" => Elements(Tree(is, of, <<a, b, c>>)) = <<a, b, c>>
<1>1. PICK three, one, both : three = <<a, b, c>> /\ one = <<a>> /\ both = <<a, c>>
  OBVIOUS
<1>2. Len(three) = 3 /\ three[1] = a /\ three[2] = b /\ three[3] = c /\ IsSeq(three)
  BY <1>1, ShortSeqs
<1>3. ASSUME b.is = "misc" PROVE Elements(Tree(is, of, three)) = both
  <2>1. PICK places : places = {i \in DOMAIN three : three[i].is = "element"}
    OBVIOUS
  <2>2. Elements(Tree(is, of, three)) = Picked(three, places)
    BY <2>1 DEF Elements, Tree
  <2>3. 1 \in places /\ 2 \notin places /\ 3 \in places
    BY <1>1, <1>3, <2>1
  <2>4. /\ Picked(<<a>>, places) = IF 1 \in places THEN <<a>> ELSE <<>>
        /\ Picked(<<a, b>>, places) = IF 2 \in places THEN Append(Picked(<<a>>, places), b)
                                      ELSE Picked(<<a>>, places)
        /\ Picked(<<a, b, c>>, places) =
              IF 3 \in places THEN Append(Picked(<<a, b>>, places), c)
              ELSE Picked(<<a, b>>, places)
    BY PickedShort
  <2>5. Picked(three, places) = Append(one, c)
    BY <1>1, <2>3, <2>4, Zenon
  <2>6. Append(one, c) = both
    BY <1>1, ShortSeqs
  <2> QED
    BY <2>2, <2>5, <2>6
<1>4. ASSUME b.is = "element" PROVE Elements(Tree(is, of, three)) = three
  <2>1. \A i \in 1..Len(three) : three[i].is = "element"
    BY <1>2, <1>4
  <2> QED
    BY <1>2, <2>1, ElementsAll
<1> QED
  BY <1>1, <1>3, <1>4

(* The document of a message: something else first, then its root.          *)
LEMMA ElementsRoot ==
    ASSUME NEW a, NEW b, a.is = "misc", b.is = "element", NEW is, NEW of
    PROVE  Elements(Tree(is, of, <<a, b>>)) = <<b>>
<1>1. PICK two, one, none : two = <<a, b>> /\ one = <<b>> /\ none = <<>>
  OBVIOUS
<1>2. PICK places : places = {i \in DOMAIN two : two[i].is = "element"}
  OBVIOUS
<1>3. Elements(Tree(is, of, two)) = Picked(two, places)
  BY <1>2 DEF Elements, Tree
<1>4. 1 \notin places /\ 2 \in places
  BY <1>1, <1>2
<1>5. /\ Picked(<<a>>, places) = IF 1 \in places THEN <<a>> ELSE <<>>
      /\ Picked(<<a, b>>, places) = IF 2 \in places THEN Append(Picked(<<a>>, places), b)
                                    ELSE Picked(<<a>>, places)
  BY PickedShort
<1>6. Picked(two, places) = Append(none, b)
  BY <1>1, <1>4, <1>5, Zenon
<1>7. Append(none, b) = one
  BY <1>1, ShortSeqs
<1> QED
  BY <1>1, <1>3, <1>6, <1>7

(* Looking for the one of three that has the name.                          *)
LEMMA NamedOne ==
    ASSUME NEW a, NEW b, NEW c, NEW is, NEW of, NEW name,
           a.is = "element", b.is = "element", c.is = "element"
    PROVE  LET found == Named(Tree(is, of, <<a, b, c>>), name)
           IN /\ a.of = name /\ b.of # name /\ c.of # name => found = <<a>>
              /\ a.of # name /\ b.of = name /\ c.of # name => found = <<b>>
              /\ a.of # name /\ b.of # name /\ c.of = name => found = <<c>>
<1>1. PICK one, two, three : one = <<a>> /\ two = <<a, b>> /\ three = <<a, b, c>>
  OBVIOUS
<1>2. Elements(Tree(is, of, three)) = three
  BY <1>1, ElementsThree
<1>3. PICK places : places = {i \in DOMAIN three : three[i].of = name}
  OBVIOUS
<1>4. /\ (1 \in places <=> a.of = name) /\ (2 \in places <=> b.of = name)
      /\ (3 \in places <=> c.of = name)
  BY <1>1, <1>3
<1>5. /\ Append(<<>>, a) = one /\ Append(<<>>, b) = <<b>> /\ Append(<<>>, c) = <<c>>
  BY <1>1, ShortSeqs
<1>6. /\ Picked(one, places) = IF 1 \in places THEN one ELSE <<>>
      /\ Picked(two, places) = IF 2 \in places THEN Append(Picked(one, places), b)
                               ELSE Picked(one, places)
      /\ Picked(three, places) = IF 3 \in places THEN Append(Picked(two, places), c)
                                 ELSE Picked(two, places)
  <2>1. /\ Picked(<<a>>, places) = IF 1 \in places THEN <<a>> ELSE <<>>
        /\ Picked(<<a, b>>, places) = IF 2 \in places THEN Append(Picked(<<a>>, places), b)
                                      ELSE Picked(<<a>>, places)
        /\ Picked(<<a, b, c>>, places) =
              IF 3 \in places THEN Append(Picked(<<a, b>>, places), c)
              ELSE Picked(<<a, b>>, places)
    BY PickedShort
  <2> QED
    BY <1>1, <2>1, Zenon
<1>7. Named(Tree(is, of, three), name) = Picked(three, places)
  BY <1>2, <1>3 DEF Named
<1> QED
  BY <1>1, <1>4, <1>5, <1>6, <1>7

(* The element of a text.                                                   *)
LEMMA LeafIs ==
    ASSUME NEW k \in Nat, NEW name \in Fields
    PROVE  /\ LeafNode(k, name).is = "element" /\ LeafNode(k, name).of = name
           /\ Elements(LeafNode(k, name)) = <<>>
           /\ GetText(LeafNode(k, name)) = Value(k, name) /\ Value(k, name) # NoText
           /\ TextOf(LeafNode(k, name)) = Value(k, name)
<1>1. PICK leaf, text : leaf = LeafNode(k, name) /\ text = Node("text", Value(k, name))
  OBVIOUS
<1>2. text.is = "text" /\ text.of = Value(k, name)
  BY <1>1 DEF Node
<1>3. leaf = Tree("element", name, <<text>>)
  BY <1>1 DEF LeafNode
<1>4. leaf.is = "element" /\ leaf.of = name /\ leaf.kids = <<text>>
  BY <1>3 DEF Tree
<1>5. Elements(leaf) = <<>>
  BY <1>2, <1>3, ElementsOne
<1>6. GetText(leaf) = Value(k, name)
  <2>1. leaf.kids # <<>> /\ leaf.kids[1] = text
    BY <1>4
  <2> QED
    BY <1>2, <2>1 DEF GetText
<1>7. Value(k, name) # NoText
  <2>1. Value(k, name) \in Texts
    BY DEF Value, Texts, Fields
  <2> QED
    BY <2>1, TextAssumption
<1>8. TextOf(leaf) = Value(k, name)
  BY <1>6, <1>7 DEF TextOf
<1> QED
  BY <1>1, <1>4, <1>5, <1>6, <1>7, <1>8

(* The element without one.                                                 *)
LEMMA EmptyIs ==
    ASSUME NEW name
    PROVE  /\ Node("element", name).is = "element" /\ Node("element", name).of = name
           /\ Elements(Node("element", name)) = <<>>
           /\ GetText(Node("element", name)) = NoText
           /\ TextOf(Node("element", name)) = NoValue
<1>1. PICK node : node = Node("element", name)
  OBVIOUS
<1>2. node.is = "element" /\ node.of = name /\ node.kids = <<>>
  BY <1>1 DEF Node
<1>3. Elements(node) = <<>>
  BY <1>2, PickedNone DEF Elements
<1>4. GetText(node) = NoText
  BY <1>2 DEF GetText
<1>5. TextOf(node) = NoValue
  BY <1>4 DEF TextOf
<1> QED
  BY <1>1, <1>2, <1>3, <1>4, <1>5

(* Two elements with nothing but a text in them are the infos of a channel. *)
LEMMA InfosPair ==
    ASSUME NEW item, NEW a, NEW b, Elements(item) = <<a, b>>,
           Elements(a) = <<>>, Elements(b) = <<>>
    PROVE  Infos(item) = <<a, b>>
<1>1. PICK pair : pair = <<a, b>>
  OBVIOUS
<1>2. PICK places : places = {i \in DOMAIN pair : Elements(pair[i]) = <<>>}
  OBVIOUS
<1>3. Len(pair) = 2 /\ DOMAIN pair = 1..2 /\ pair[1] = a /\ pair[2] = b
  BY <1>1
<1>4. \A i \in 1..2 : i = 1 \/ i = 2
  OBVIOUS
<1>5. 1..Len(pair) \subseteq places
  BY <1>2, <1>3, <1>4
<1>6. IsSeq(pair)
  BY <1>1, ShortSeqs
<1>7. Picked(pair, places) = pair
  BY <1>5, <1>6, PickedAll
<1> QED
  BY <1>1, <1>2, <1>7 DEF Infos

(* An element with elements in it is no info.                               *)
LEMMA InfosNested ==
    ASSUME NEW item, NEW a, NEW b, NEW c, Elements(item) = <<a, b, c>>,
           Elements(a) = <<>>, Elements(b) # <<>>, Elements(c) = <<>>
    PROVE  Infos(item) = <<a, c>>
<1>1. PICK three, two, one, both : /\ three = <<a, b, c>> /\ two = <<a, b>> /\ one = <<a>>
                                   /\ both = <<a, c>>
  OBVIOUS
<1>2. PICK places : places = {i \in DOMAIN three : Elements(three[i]) = <<>>}
  OBVIOUS
<1>3. 1 \in places /\ 2 \notin places /\ 3 \in places
  BY <1>1, <1>2
<1>4. /\ Picked(<<a>>, places) = IF 1 \in places THEN <<a>> ELSE <<>>
      /\ Picked(<<a, b>>, places) = IF 2 \in places THEN Append(Picked(<<a>>, places), b)
                                    ELSE Picked(<<a>>, places)
      /\ Picked(<<a, b, c>>, places) = IF 3 \in places THEN Append(Picked(<<a, b>>, places), c)
                                       ELSE Picked(<<a, b>>, places)
  BY PickedShort
<1>5. Picked(three, places) = Append(one, c)
  BY <1>1, <1>3, <1>4, Zenon
<1>6. Append(one, c) = both
  BY <1>1, ShortSeqs
<1>7. Infos(item) = Picked(three, places)
  BY <1>1, <1>2 DEF Infos
<1> QED
  BY <1>1, <1>5, <1>6, <1>7

(* Every layout has an info for each of the two fields.                     *)
LEMMA InfosOf ==
    ASSUME NEW k \in Nat, NEW layout \in ItemLayouts
    PROVE  \E x, y :
              /\ Infos(ItemNode(k, layout)) = <<x, y>>
              /\ \/ x.of = "DeviceID" /\ y.of = "Name"
                 \/ x.of = "Name" /\ y.of = "DeviceID"
              /\ TextOf(x) = FieldsOf(k, layout)[x.of]
              /\ TextOf(y) = FieldsOf(k, layout)[y.of]
<1>1. PICK id, title, kind, empty, misc, item :
         /\ id = LeafNode(k, "DeviceID") /\ title = LeafNode(k, "Name")
         /\ kind = LeafNode(k, "Kind") /\ empty = Node("element", "Name")
         /\ misc = MiscNode /\ item = ItemNode(k, layout)
  BY Zenon
<1>2. /\ id.is = "element" /\ id.of = "DeviceID" /\ Elements(id) = <<>>
      /\ TextOf(id) = Value(k, "DeviceID")
      /\ title.is = "element" /\ title.of = "Name" /\ Elements(title) = <<>>
      /\ TextOf(title) = Value(k, "Name")
      /\ kind.is = "element"
  <2>1. "DeviceID" \in Fields /\ "Name" \in Fields /\ "Kind" \in Fields
    BY DEF Fields
  <2> QED
    BY <1>1, <2>1, LeafIs
<1>3. /\ empty.is = "element" /\ empty.of = "Name" /\ Elements(empty) = <<>>
      /\ TextOf(empty) = NoValue
  BY <1>1, EmptyIs
<1>4. /\ FieldsOf(k, layout)["DeviceID"] = Value(k, "DeviceID")
      /\ layout # "unnamed" => FieldsOf(k, layout)["Name"] = Value(k, "Name")
      /\ layout = "unnamed" => FieldsOf(k, layout)["Name"] = NoValue
  BY DEF FieldsOf
<1>5. item = Tree("element", "Item", ItemKids(k, layout))
  BY <1>1 DEF ItemNode
<1>6. CASE layout = "plain"
  <2>1. ItemKids(k, layout) = <<id, title>>
    BY <1>1, <1>6 DEF ItemKids
  <2>2. Elements(item) = <<id, title>>
    <3>1. Elements(Tree("element", "Item", <<id, title>>)) = <<id, title>>
      BY <1>2, ElementsTwo
    <3> QED
      BY <1>5, <2>1, <3>1, Zenon
  <2>3. Infos(item) = <<id, title>>
    BY <1>2, <2>2, InfosPair
  <2> QED
    BY <1>1, <1>2, <1>4, <1>6, <2>3
<1>7. CASE layout = "nameFirst"
  <2>1. ItemKids(k, layout) = <<title, misc, id>>
    BY <1>1, <1>7, Zenon DEF ItemKids
  <2>2. misc.is = "misc"
    BY <1>1, Zenon DEF MiscNode, Node
  <2>3. Elements(item) = <<title, id>>
    <3>1. Elements(Tree("element", "Item", <<title, misc, id>>)) = <<title, id>>
      BY <1>2, <2>2, ElementsThree
    <3> QED
      BY <1>5, <2>1, <3>1, Zenon
  <2>4. Infos(item) = <<title, id>>
    BY <1>2, <2>3, InfosPair
  <2> QED
    BY <1>1, <1>2, <1>4, <1>7, <2>4
<1>8. CASE layout = "nested"
  <2>1. PICK info : info = Tree("element", "Info", <<kind>>)
    OBVIOUS
  <2>2. ItemKids(k, layout) = <<id, info, title>>
    BY <1>1, <1>8, <2>1 DEF ItemKids
  <2>3. info.is = "element" /\ Elements(info) = <<kind>> /\ Elements(info) # <<>>
    <3>1. info.is = "element"
      BY <2>1 DEF Tree
    <3>2. Elements(info) = <<kind>>
      BY <1>2, <2>1, ElementsOne
    <3> QED
      BY <3>1, <3>2
  <2>4. Elements(item) = <<id, info, title>>
    <3>1. Elements(Tree("element", "Item", <<id, info, title>>)) = <<id, info, title>>
      BY <1>2, <2>3, ElementsThree
    <3> QED
      BY <1>5, <2>2, <3>1, Zenon
  <2>5. Infos(item) = <<id, title>>
    BY <1>2, <2>3, <2>4, InfosNested
  <2> QED
    BY <1>1, <1>2, <1>4, <1>8, <2>5
<1>9. CASE layout = "unnamed"
  <2>1. ItemKids(k, layout) = <<id, empty>>
    BY <1>1, <1>9 DEF ItemKids
  <2>2. Elements(item) = <<id, empty>>
    <3>1. Elements(Tree("element", "Item", <<id, empty>>)) = <<id, empty>>
      BY <1>2, <1>3, ElementsTwo
    <3> QED
      BY <1>5, <2>1, <3>1, Zenon
  <2>3. Infos(item) = <<id, empty>>
    BY <1>2, <1>3, <2>2, InfosPair
  <2> QED
    BY <1>1, <1>2, <1>3, <1>4, <1>9, <2>3
<1> QED
  BY <1>6, <1>7, <1>8, <1>9 DEF ItemLayouts

(* What is found of a channel is what its device means.                     *)
LEMMA FieldMapIs ==
    ASSUME NEW k \in Nat, NEW layout \in ItemLayouts
    PROVE  FieldMap(ItemNode(k, layout)) = FieldsOf(k, layout)
<1>1. PICK x, y : /\ Infos(ItemNode(k, layout)) = <<x, y>>
                  /\ \/ x.of = "DeviceID" /\ y.of = "Name"
                     \/ x.of = "Name" /\ y.of = "DeviceID"
                  /\ TextOf(x) = FieldsOf(k, layout)[x.of]
                  /\ TextOf(y) = FieldsOf(k, layout)[y.of]
  BY InfosOf
<1>2. PICK infos : infos = <<x, y>>
  OBVIOUS
<1>3. Len(infos) = 2 /\ DOMAIN infos = 1..2 /\ infos[1] = x /\ infos[2] = y
  BY <1>2
<1>4. x.of # y.of
  BY <1>1
<1>5. SelectLastInSeq(infos, LAMBDA n : n.of = x.of) = 1
  <2>1. {i \in 1..Len(infos) : infos[i].of = x.of} = {1}
    BY <1>3, <1>4
  <2>2. Max({1}) = 1
    BY DEF Max
  <2> QED
    BY <2>1, <2>2 DEF SelectLastInSeq
<1>6. SelectLastInSeq(infos, LAMBDA n : n.of = y.of) = 2
  <2>1. {i \in 1..Len(infos) : infos[i].of = y.of} = {2}
    BY <1>3, <1>4
  <2>2. Max({2}) = 2
    BY DEF Max
  <2> QED
    BY <2>1, <2>2 DEF SelectLastInSeq
<1>7. {infos[i].of : i \in DOMAIN infos} = {"DeviceID", "Name"}
  BY <1>1, <1>3
<1>8. ASSUME NEW key \in {"DeviceID", "Name"}
      PROVE  TextOf(infos[SelectLastInSeq(infos, LAMBDA n : n.of = key)])
                = FieldsOf(k, layout)[key]
  <2>1. CASE key = x.of
    BY <1>1, <1>3, <1>5, <2>1
  <2>2. CASE key = y.of
    BY <1>1, <1>3, <1>6, <2>2
  <2> QED
    BY <1>1, <2>1, <2>2
<1>9. FieldsOf(k, layout) = [key \in {"DeviceID", "Name"} |-> FieldsOf(k, layout)[key]]
  BY DEF FieldsOf
<1>10. FieldMap(ItemNode(k, layout))
          = [key \in {infos[i].of : i \in DOMAIN infos} |->
                TextOf(infos[SelectLastInSeq(infos, LAMBDA n : n.of = key)])]
  BY <1>1, <1>2 DEF FieldMap
<1> QED
  BY <1>7, <1>8, <1>9, <1>10

(* The element the helpers begin with.                                      *)
LEMMA RootIs ==
    ASSUME stack = <<DocumentNode(message)>>
    PROVE  Roots = <<RootNode(message)>> /\ RootElement = RootNode(message) /\ ~NullRoot
<1>1. PICK misc, root, document, none :
         /\ misc = MiscNode /\ root = RootNode(message)
         /\ document = DocumentNode(message) /\ none = ""
  BY Zenon
<1>2. document = Tree("document", none, <<misc, root>>)
  BY <1>1, Zenon DEF DocumentNode
<1>3. misc.is = "misc"
  BY <1>1, Zenon DEF MiscNode, Node
<1>4. root.is = "element"
  BY <1>1 DEF RootNode, Tree
<1>5. Elements(Tree("document", none, <<misc, root>>)) = <<root>>
  BY <1>3, <1>4, ElementsRoot
<1>6. stack = <<document>>
  BY <1>1, Zenon
<1>7. stack[1] = document
  BY <1>6
<1>8. Roots = <<root>>
  BY <1>2, <1>5, <1>7, Zenon DEF Roots
<1>9. RootElement = root /\ Roots # <<>>
  BY <1>8 DEF RootElement
<1> QED
  BY <1>1, <1>8, <1>9, Zenon DEF NullRoot

(* What the root of a message has in it.                                    *)
LEMMA RootHas ==
    ASSUME NEW m \in Messages
    PROVE  /\ Named(RootNode(m), "CmdType") = <<CommandNode(m)>>
           /\ Named(RootNode(m), "DeviceID") = <<LeafNode(0, "DeviceID")>>
           /\ Named(RootNode(m), "DeviceList") = <<ListNode(m)>>
<1>1. PICK cmd, id, list : /\ cmd = CommandNode(m) /\ id = LeafNode(0, "DeviceID")
                           /\ list = ListNode(m)
  OBVIOUS
<1>2. cmd.is = "element" /\ cmd.of = "CmdType"
  <2>1. CASE m.cmd = "empty"
    BY <1>1, <2>1, EmptyIs DEF CommandNode
  <2>2. CASE m.cmd # "empty"
    <3>1. "CmdType" \in Fields
      BY DEF Fields
    <3> QED
      BY <1>1, <2>2, <3>1, LeafIs DEF CommandNode
  <2> QED
    BY <2>1, <2>2
<1>3. id.is = "element" /\ id.of = "DeviceID"
  <2>1. "DeviceID" \in Fields
    BY DEF Fields
  <2> QED
    BY <1>1, <2>1, LeafIs
<1>4. list.is = "element" /\ list.of = "DeviceList"
  BY <1>1 DEF ListNode, Tree
<1>5. CASE m.idLast
  <2>1. RootNode(m) = Tree("element", m.root, <<cmd, list, id>>)
    BY <1>1, <1>5 DEF RootNode, RootKids
  <2>2. \A name : LET found == Named(Tree("element", m.root, <<cmd, list, id>>), name)
                  IN /\ cmd.of = name /\ list.of # name /\ id.of # name => found = <<cmd>>
                     /\ cmd.of # name /\ list.of = name /\ id.of # name => found = <<list>>
                     /\ cmd.of # name /\ list.of # name /\ id.of = name => found = <<id>>
    BY <1>2, <1>3, <1>4, NamedOne
  <2> QED
    BY <1>1, <1>2, <1>3, <1>4, <2>1, <2>2
<1>6. CASE ~m.idLast
  <2>1. RootNode(m) = Tree("element", m.root, <<cmd, id, list>>)
    BY <1>1, <1>6 DEF RootNode, RootKids
  <2>2. \A name : LET found == Named(Tree("element", m.root, <<cmd, id, list>>), name)
                  IN /\ cmd.of = name /\ id.of # name /\ list.of # name => found = <<cmd>>
                     /\ cmd.of # name /\ id.of = name /\ list.of # name => found = <<id>>
                     /\ cmd.of # name /\ id.of # name /\ list.of = name => found = <<list>>
    BY <1>2, <1>3, <1>4, NamedOne
  <2> QED
    BY <1>1, <1>2, <1>3, <1>4, <2>1, <2>2
<1> QED
  BY <1>5, <1>6

(* Command and device of a message.                                         *)
LEMMA HeadIs ==
    ASSUME message \in Messages, stack = <<DocumentNode(message)>>
    PROVE  /\ GetTypeContent("CmdType") =
                 IF message.cmd = "empty" THEN NoText ELSE Value(0, "CmdType")
           /\ GetTypeContent("DeviceID") = Value(0, "DeviceID")
           /\ Value(0, "CmdType") # NoText /\ Value(0, "DeviceID") # NoText
<1>1. "CmdType" \in Fields /\ "DeviceID" \in Fields
  BY DEF Fields
<1>2. /\ GetText(LeafNode(0, "CmdType")) = Value(0, "CmdType")
      /\ GetText(LeafNode(0, "DeviceID")) = Value(0, "DeviceID")
      /\ Value(0, "CmdType") # NoText /\ Value(0, "DeviceID") # NoText
  BY <1>1, LeafIs
<1>3. ASSUME NEW type, NEW node, Named(RootElement, type) = <<node>>
      PROVE  GetTypeContent(type) = GetText(node)
  <2>1. PICK found : found = Named(RootElement, type)
    OBVIOUS
  <2>2. found # <<>> /\ found[1] = node
    BY <1>3, <2>1
  <2> QED
    BY <2>1, <2>2 DEF GetTypeContent
<1>4. GetTypeContent("CmdType") = GetText(CommandNode(message))
  BY <1>3, RootIs, RootHas
<1>5. GetTypeContent("DeviceID") = GetText(LeafNode(0, "DeviceID"))
  BY <1>3, RootIs, RootHas
<1>6. message.cmd = "empty" => GetText(CommandNode(message)) = NoText
  BY EmptyIs DEF CommandNode
<1>7. message.cmd # "empty" => GetText(CommandNode(message)) = Value(0, "CmdType")
  BY <1>2 DEF CommandNode
<1> QED
  BY <1>2, <1>4, <1>5, <1>6, <1>7

(* The channels of a message.                                               *)
LEMMA ItemsAre ==
    ASSUME message \in Messages, stack = <<DocumentNode(message)>>
    PROVE  Items = ItemNodes(message)
<1>1. PICK n \in Nat : n = Len(message.items)
  BY MessageTypes
<1>2. PICK nodes : nodes = ItemNodes(message)
  OBVIOUS
<1>3. /\ IsSeq(nodes) /\ Len(nodes) = n /\ DOMAIN nodes = 1..n
      /\ \A k \in 1..n : nodes[k].is = "element" /\ nodes[k].of = "Item"
  <2>1. nodes = [k \in 1..n |-> ItemNode(k, message.items[k])]
    BY <1>1, <1>2 DEF ItemNodes
  <2>2. PICK S : S = {ItemNode(k, message.items[k]) : k \in 1..n}
    OBVIOUS
  <2>3. nodes \in [1..n -> S]
    BY <2>1, <2>2
  <2>4. nodes \in Seq(S)
    BY <2>3
  <2>5. ASSUME NEW k, NEW layout
        PROVE  ItemNode(k, layout).is = "element" /\ ItemNode(k, layout).of = "Item"
    BY DEF ItemNode, Tree
  <2> QED
    BY <2>1, <2>3, <2>4, <2>5 DEF IsSeq
<1>4. PICK list : list = ListNode(message)
  OBVIOUS
<1>5. Elements(list) = nodes
  <2>1. list = Tree("element", "DeviceList", nodes)
    BY <1>2, <1>4 DEF ListNode
  <2>2. \A i \in 1..Len(nodes) : nodes[i].is = "element"
    BY <1>3
  <2> QED
    BY <1>3, <2>1, <2>2, ElementsAll
<1>6. Named(list, "Item") = nodes
  <2>1. PICK places : places = {i \in DOMAIN nodes : nodes[i].of = "Item"}
    OBVIOUS
  <2>2. 1..Len(nodes) \subseteq places
    BY <1>3, <2>1
  <2>3. Picked(nodes, places) = nodes
    BY <1>3, <2>2, PickedAll
  <2> QED
    BY <1>5, <2>1, <2>3 DEF Named
<1>7. PICK lists : lists = Named(RootElement, "DeviceList")
  OBVIOUS
<1>8. lists = <<list>>
  BY <1>4, <1>7, RootIs, RootHas
<1>9. lists # <<>> /\ lists[1] = list
  BY <1>8
<1> QED
  BY <1>2, <1>6, <1>7, <1>9 DEF Items

(* They are found as they were meant.                                       *)
LEMMA ChannelsAre ==
    ASSUME message \in Messages, stack = <<DocumentNode(message)>>
    PROVE  GetDeviceChannels = [k \in DOMAIN message.items |-> FieldsOf(k, message.items[k])]
<1>1. PICK n \in Nat : n = Len(message.items)
  BY MessageTypes
<1>2. DOMAIN message.items = 1..n /\ \A k \in 1..n : message.items[k] \in ItemLayouts
  BY <1>1, MessageTypes
<1>3. DOMAIN Items = 1..n /\ \A k \in 1..n : Items[k] = ItemNode(k, message.items[k])
  BY <1>1, ItemsAre DEF ItemNodes
<1>4. \A k \in 1..n : FieldMap(Items[k]) = FieldsOf(k, message.items[k])
  BY <1>2, <1>3, FieldMapIs
<1>5. PICK maps : maps = [k \in 1..n |-> FieldsOf(k, message.items[k])]
  OBVIOUS
<1>6. maps = [k \in DOMAIN Items |-> FieldMap(Items[k])]
  BY <1>3, <1>4, <1>5
<1>7. IsSeq(maps) /\ Len(maps) = n /\ DOMAIN maps = 1..n
  <2>1. PICK S : S = {FieldsOf(k, message.items[k]) : k \in 1..n}
    OBVIOUS
  <2>2. maps \in [1..n -> S]
    BY <1>5, <2>1
  <2>3. maps \in Seq(S)
    BY <2>2
  <2> QED
    BY <2>2, <2>3 DEF IsSeq
<1>8. \A k \in 1..n : DOMAIN maps[k] # {}
  <2>1. ASSUME NEW k, NEW layout PROVE "Name" \in DOMAIN FieldsOf(k, layout)
    BY DEF FieldsOf
  <2> QED
    BY <1>5, <2>1
<1>9. PICK places : places = {k \in DOMAIN maps : DOMAIN maps[k] # {}}
  OBVIOUS
<1>10. Picked(maps, places) = maps
  <2>1. 1..Len(maps) \subseteq places
    BY <1>7, <1>8, <1>9
  <2> QED
    BY <1>7, <2>1, PickedAll
<1>11. GetDeviceChannels = Picked(maps, places)
  BY <1>6, <1>9 DEF GetDeviceChannels
<1> QED
  BY <1>2, <1>5, <1>10, <1>11

(* What the event loop makes of a whole message.                            *)
LEMMA Understood ==
    ASSUME message \in Messages, message.root \notin {"none", "noBody"}, stack = <<DocumentNode(message)>>,
           ReadCatalog \/ ReadOther
    PROVE  event' = Meant(message)
<1>1. /\ GetTypeContent("CmdType") = NoText => FALSE
      /\ Readable
  BY DEF ReadCatalog, ReadOther, Readable, NullText
<1>2. message.cmd # "empty" /\ Cmd = message.cmd
  BY <1>1, HeadIs DEF Cmd
<1>3. RootElement.of = message.root
  BY RootIs DEF RootNode, Tree
<1>4. /\ message.root = "Response" \/ message.root = "Notify"
      /\ message.root = "Response" => message.cmd = "Catalog"
  BY MessageTypes
<1>5. GetTypeContent("DeviceID") = Value(0, "DeviceID")
  BY HeadIs
<1>6. CASE message.cmd = "Catalog" /\ message.root = "Response"
  <2>1. Kind = "Catalog"
    BY <1>2, <1>3, <1>6 DEF Kind
  <2>2. Report(GetDeviceChannels)
    BY <2>1 DEF ReadCatalog, ReadOther
  <2>3. Kind # "otherMessage"
    BY <2>1
  <2> QED
    BY <1>5, <1>6, <2>1, <2>2, <2>3, ChannelsAre DEF Report, Meant
<1>7. CASE message.cmd = "Keepalive"
  <2>1. Kind = "Keepalive"
    BY <1>2, <1>7 DEF Kind
  <2>2. Report(<<>>)
    BY <2>1 DEF ReadCatalog, ReadOther
  <2> QED
    BY <1>5, <1>7, <2>1, <2>2 DEF Report, Meant
<1>8. CASE message.cmd # "Keepalive" /\ ~(message.cmd = "Catalog" /\ message.root = "Response")
  <2>1. Kind = "otherMessage"
    BY <1>2, <1>3, <1>8 DEF Kind
  <2>2. Report(<<>>)
    BY <2>1 DEF ReadCatalog, ReadOther
  <2> QED
    BY <1>4, <1>8, <2>1, <2>2 DEF Report, Meant
<1> QED
  BY <1>6, <1>7, <1>8

-----------------------------------------------------------------------------
(* What the event loop finds in the tree of a damaged message.              *)

(* What is picked of two sequences: of the first as before, and behind that *)
(* what stands at places picked of the second.                              *)
LEMMA PickedTail ==
    ASSUME NEW a, NEW b, IsSeq(a), IsSeq(b), NEW places
    PROVE  \E c : /\ IsSeq(c) /\ Picked(a \o b, places) = Picked(a, places) \o c
                  /\ \A i \in 1..Len(c) : \E j \in 1..Len(b) :
                        Len(a) + j \in places /\ c[i] = b[j]
<1>1. PICK S : b \in Seq(S)
  BY DEF IsSeq
<1>2. PICK n \in Nat : n = Len(b)
  BY <1>1
<1>3. PICK p : p = Picked(a, places)
  OBVIOUS
<1>4. IsSeq(p)
  BY <1>3, PickedAppend
<1> DEFINE Ends(c, m) == /\ IsSeq(c) /\ Picked(a \o SubSeq(b, 1, m), places) = p \o c
                         /\ \A i \in 1..Len(c) : \E j \in 1..m :
                               Len(a) + j \in places /\ c[i] = b[j]
           T == {m \in 0..n : ~ \E c : Ends(c, m)}
<1>5. Ends(<<>>, 0)
  <2>1. SubSeq(b, 1, 0) = <<>>
    BY <1>1
  <2>2. a \o <<>> = a /\ p \o <<>> = p
    BY <1>4, SeqShort
  <2>3. PICK none : none = <<>>
    OBVIOUS
  <2>4. /\ IsSeq(none) /\ a \o SubSeq(b, 1, 0) = a /\ p \o none = p
        /\ \A i \in 1..Len(none) : FALSE
    <3>1. Len(none) = 0
      BY <2>3
    <3>2. \A i \in 1..0 : FALSE
      OBVIOUS
    <3> QED
      BY <2>1, <2>2, <2>3, <3>1, <3>2, SeqNone
  <2>5. Ends(none, 0)
    BY <1>3, <2>4
  <2> QED
    BY <2>3, <2>5
<1>6. ASSUME NEW m \in 1..n, NEW c, Ends(c, m - 1)
      PROVE  \E more : Ends(more, m)
  <2>1. PICK u, x : u = SubSeq(b, 1, m - 1) /\ x = b[m]
    OBVIOUS
  <2>2. u \in Seq(S) /\ SubSeq(b, 1, m) = Append(u, x)
    BY <1>1, <1>2, <2>1, OneMore
  <2>3. Len(u) = m - 1
    BY <1>1, <1>2, <2>1
  <2>4. IsSeq(u)
    BY <2>2 DEF IsSeq
  <2>5. a \o Append(u, x) = Append(a \o u, x)
    <3>1. IsSeq(<<x>>) /\ IsSeq(a \o u)
      BY <2>4, SeqShort, SeqConcat
    <3>2. Append(u, x) = u \o <<x>> /\ Append(a \o u, x) = (a \o u) \o <<x>>
      BY <2>4, <3>1, SeqShort
    <3> QED
      BY <2>4, <3>1, <3>2, SeqRegroup
  <2>6. IsSeq(a \o u) /\ Len(a) \in Nat /\ Len(a \o u) + 1 = Len(a) + m
    BY <2>3, <2>4, SeqConcat
  <2>7. Picked(Append(a \o u, x), places) =
           IF Len(a) + m \in places THEN Append(p \o c, x) ELSE p \o c
    <3>1. Picked(Append(a \o u, x), places) =
             IF Len(a \o u) + 1 \in places THEN Append(Picked(a \o u, places), x)
             ELSE Picked(a \o u, places)
      <4>1. IsSeq(a \o u)
        BY <2>6
      <4> QED
        BY <4>1, PickedMore
    <3>2. Picked(a \o u, places) = p \o c
      BY <1>6, <2>1
    <3> QED
      BY <2>6, <3>1, <3>2
  <2>8. IsSeq(c) /\ \A i \in 1..Len(c) : \E j \in 1..m : Len(a) + j \in places /\ c[i] = b[j]
    BY <1>6
  <2>9. CASE Len(a) + m \in places
    <3>1. Append(p \o c, x) = p \o Append(c, x)
      <4>1. IsSeq(<<x>>) /\ IsSeq(p \o c)
        BY <1>4, <2>8, SeqShort, SeqConcat
      <4>2. Append(c, x) = c \o <<x>> /\ Append(p \o c, x) = (p \o c) \o <<x>>
        BY <2>8, <4>1, SeqShort
      <4> QED
        BY <1>4, <2>8, <4>1, <4>2, SeqRegroup
    <3>2. PICK more : more = Append(c, x)
      OBVIOUS
    <3>3. /\ IsSeq(more) /\ Len(c) \in Nat /\ Len(more) = Len(c) + 1
          /\ more[Len(c) + 1] = x /\ \A i \in 1..Len(c) : more[i] = c[i]
      BY <2>8, <3>2, SeqAppend
    <3>4. \A i \in 1..Len(more) : \E j \in 1..m : Len(a) + j \in places /\ more[i] = b[j]
      <4> TAKE i \in 1..Len(more)
      <4>1. i \in 1..Len(c) \/ i = Len(c) + 1
        BY <3>3
      <4> QED
        BY <2>1, <2>8, <2>9, <3>3, <4>1
    <3>5. Ends(more, m)
      BY <2>2, <2>5, <2>7, <2>9, <3>1, <3>2, <3>3, <3>4
    <3> QED
      BY <3>5
  <2>10. CASE Len(a) + m \notin places
    <3>1. Ends(c, m)
      BY <2>2, <2>5, <2>7, <2>8, <2>10
    <3> QED
      BY <3>1
  <2> QED
    BY <2>9, <2>10
<1>7. ASSUME T # {} PROVE FALSE
  <2>1. T \subseteq Nat
    OBVIOUS
  <2> HIDE DEF Ends
  <2>2. PICK m \in T : \A y \in T : m <= y
    <3> HIDE DEF T
    <3> QED
      BY <1>7, <2>1, LeastNumber
  <2>3. m # 0
    BY <1>5
  <2>4. m \in 1..n /\ m - 1 \in 0..n /\ m - 1 \notin T
    BY <2>2, <2>3
  <2>5. PICK c : Ends(c, m - 1)
    BY <2>4
  <2>6. \E more : Ends(more, m)
    BY <1>6, <2>4, <2>5
  <2> QED
    BY <2>6
<1>8. PICK c : Ends(c, n)
  <2> HIDE DEF Ends
  <2> QED
    BY <1>7
<1>9. SubSeq(b, 1, n) = b
  BY <1>1, <1>2
<1>10. IsSeq(c) /\ Picked(a \o b, places) = p \o c
  BY <1>8, <1>9
<1>11. \A i \in 1..Len(c) : \E j \in 1..n : Len(a) + j \in places /\ c[i] = b[j]
  BY <1>8
<1> HIDE DEF Ends
<1> QED
  BY <1>2, <1>3, <1>10, <1>11

(* A sequence of length 0.                                                  *)
LEMMA SeqOfNone == ASSUME NEW s, IsSeq(s), Len(s) = 0 PROVE s = <<>>
<1>1. PICK S : s \in Seq(S)
  BY DEF IsSeq
<1> QED
  BY <1>1

(* What is picked stands in the sequence at such a place.                   *)
LEMMA PickedFrom ==
    ASSUME NEW s, IsSeq(s), NEW places
    PROVE  /\ IsSeq(Picked(s, places))
           /\ \A i \in 1..Len(Picked(s, places)) : \E j \in 1..Len(s) :
                 j \in places /\ Picked(s, places)[i] = s[j]
<1>1. PICK none : none = <<>>
  OBVIOUS
<1>2. IsSeq(none) /\ Len(none) = 0 /\ none \o s = s /\ Picked(none, places) = none
  BY <1>1, SeqShort, PickedNone
<1>3. PICK c : /\ IsSeq(c) /\ Picked(none \o s, places) = none \o c
               /\ \A i \in 1..Len(c) : \E j \in 1..Len(s) :
                     Len(none) + j \in places /\ c[i] = s[j]
  <2>1. \E c : /\ IsSeq(c) /\ Picked(none \o s, places) = Picked(none, places) \o c
               /\ \A i \in 1..Len(c) : \E j \in 1..Len(s) :
                     Len(none) + j \in places /\ c[i] = s[j]
    <3>1. IsSeq(none)
      BY <1>2
    <3> QED
      BY <3>1, PickedTail
  <2> QED
    BY <1>2, <2>1
<1>4. none \o c = c
  BY <1>1, <1>3, SeqShort
<1>5. Picked(s, places) = c
  BY <1>2, <1>3, <1>4
<1>6. \A j \in 1..Len(s) : Len(none) + j = j
  BY <1>2
<1> QED
  BY <1>3, <1>5, <1>6

(* Elements are children of their node, with the name looked for.           *)
LEMMA NamedFrom ==
    ASSUME NEW node, IsSeq(node.kids)
    PROVE  /\ IsSeq(Elements(node))
           /\ \A i \in 1..Len(Elements(node)) :
                 /\ Elements(node)[i].is = "element"
                 /\ \E j \in 1..Len(node.kids) : Elements(node)[i] = node.kids[j]
           /\ \A name : /\ IsSeq(Named(node, name))
                        /\ \A i \in 1..Len(Named(node, name)) :
                              /\ Named(node, name)[i].is = "element"
                              /\ Named(node, name)[i].of = name
                              /\ \E j \in 1..Len(node.kids) : Named(node, name)[i] = node.kids[j]
<1>1. PICK kids, places : kids = node.kids /\ places = {i \in DOMAIN kids : kids[i].is = "element"}
  OBVIOUS
<1>2. Elements(node) = Picked(kids, places)
  BY <1>1 DEF Elements
<1>3. PICK found : found = Elements(node)
  OBVIOUS
<1>4. /\ IsSeq(found)
      /\ \A i \in 1..Len(found) : \E j \in 1..Len(kids) : j \in places /\ found[i] = kids[j]
  <2>1. IsSeq(kids)
    BY <1>1
  <2>2. /\ IsSeq(Picked(kids, places))
        /\ \A i \in 1..Len(Picked(kids, places)) : \E j \in 1..Len(kids) :
              j \in places /\ Picked(kids, places)[i] = kids[j]
    BY <2>1, PickedFrom
  <2> QED
    BY <1>2, <1>3, <2>2
<1>5. \A i \in 1..Len(found) :
         found[i].is = "element" /\ \E j \in 1..Len(kids) : found[i] = kids[j]
  BY <1>1, <1>4
<1>6. ASSUME NEW name
      PROVE  /\ IsSeq(Named(node, name))
             /\ \A i \in 1..Len(Named(node, name)) :
                   /\ Named(node, name)[i].is = "element" /\ Named(node, name)[i].of = name
                   /\ \E j \in 1..Len(kids) : Named(node, name)[i] = kids[j]
  <2>1. PICK those : those = {i \in DOMAIN found : found[i].of = name}
    OBVIOUS
  <2>2. PICK named : named = Named(node, name)
    OBVIOUS
  <2>3. named = Picked(found, those)
    BY <1>3, <2>1, <2>2 DEF Named
  <2>4. /\ IsSeq(named)
        /\ \A i \in 1..Len(named) : \E j \in 1..Len(found) : j \in those /\ named[i] = found[j]
    <3>1. IsSeq(found)
      BY <1>4
    <3>2. /\ IsSeq(Picked(found, those))
          /\ \A i \in 1..Len(Picked(found, those)) : \E j \in 1..Len(found) :
                j \in those /\ Picked(found, those)[i] = found[j]
      BY <3>1, PickedFrom
    <3> QED
      BY <2>3, <3>2
  <2>5. ASSUME NEW i \in 1..Len(named)
        PROVE  /\ named[i].is = "element" /\ named[i].of = name
               /\ \E j \in 1..Len(kids) : named[i] = kids[j]
    <3>1. PICK l \in 1..Len(found) : l \in those /\ named[i] = found[l]
      BY <2>4
    <3> QED
      BY <1>5, <2>1, <3>1
  <2> QED
    BY <2>2, <2>4, <2>5
<1> QED
  BY <1>1, <1>3, <1>4, <1>5, <1>6

(* The root, whatever follows it in the document, ...                       *)
LEMMA RootFound ==
    ASSUME NEW root, root.is = "element", NEW rest, IsSeq(rest),
           stack = <<Document(<<MiscNode, root>> \o rest)>>
    PROVE  ~NullRoot /\ RootElement = root
<1>1. PICK misc, two, one, none : /\ misc = MiscNode /\ two = <<misc, root>> /\ one = <<root>>
                                  /\ none = <<>>
  OBVIOUS
<1>2. misc.is = "misc"
  BY <1>1, Zenon DEF MiscNode, Node
<1>3. IsSeq(two) /\ Len(two) = 2 /\ two[1] = misc /\ two[2] = root /\ IsSeq(one)
      /\ Len(one) = 1 /\ one[1] = root
  BY <1>1, ShortSeqs
<1>4. PICK kids : kids = two \o rest
  OBVIOUS
<1>5. /\ IsSeq(kids) /\ Len(rest) \in Nat /\ Len(kids) = 2 + Len(rest)
      /\ kids[1] = misc /\ kids[2] = root
  <2>1. 1 \in 1..2 /\ 2 \in 1..2
    OBVIOUS
  <2>2. IsSeq(two)
    BY <1>3
  <2>3. /\ IsSeq(two \o rest) /\ Len(rest) \in Nat
        /\ Len(two \o rest) = Len(two) + Len(rest)
        /\ \A i \in 1..Len(two) : (two \o rest)[i] = two[i]
    BY <2>2, SeqConcat
  <2> QED
    BY <1>3, <1>4, <2>1, <2>3
<1>6. DOMAIN kids = 1..Len(kids)
  BY <1>5 DEF IsSeq
<1>7. PICK places : places = {i \in DOMAIN kids : kids[i].is = "element"}
  OBVIOUS
<1>8. 1 \notin places /\ 2 \in places
  BY <1>2, <1>5, <1>6, <1>7
<1>9. Picked(two, places) = one
  <2>1. /\ Picked(<<misc>>, places) = IF 1 \in places THEN <<misc>> ELSE <<>>
        /\ Picked(<<misc, root>>, places) =
              IF 2 \in places THEN Append(Picked(<<misc>>, places), root)
              ELSE Picked(<<misc>>, places)
    BY PickedShort
  <2>2. Picked(two, places) = Append(none, root)
    BY <1>1, <1>8, <2>1, Zenon
  <2> QED
    BY <1>1, <2>2, ShortSeqs
<1>10. PICK c : IsSeq(c) /\ Picked(kids, places) = one \o c
  <2>1. IsSeq(two)
    BY <1>3
  <2>2. \E c : IsSeq(c) /\ Picked(two \o rest, places) = Picked(two, places) \o c
    BY <2>1, PickedTail
  <2> QED
    BY <1>4, <1>9, <2>2
<1>11. PICK roots : roots = one \o c
  OBVIOUS
<1>12. roots[1] = root /\ roots # <<>>
  <2>1. Len(c) \in Nat /\ Len(roots) = 1 + Len(c) /\ roots[1] = one[1]
    <3>1. 1 \in 1..1
      OBVIOUS
    <3>2. IsSeq(one) /\ IsSeq(c)
      BY <1>3, <1>10
    <3>3. /\ Len(c) \in Nat /\ Len(one \o c) = Len(one) + Len(c)
          /\ \A i \in 1..Len(one) : (one \o c)[i] = one[i]
      BY <3>2, SeqConcat
    <3> QED
      BY <1>3, <1>11, <3>1, <3>3
  <2> QED
    BY <1>3, <2>1
<1>13. PICK document : document = Document(kids)
  OBVIOUS
<1>14. document.kids = kids
  <2>1. ASSUME NEW is, NEW of PROVE Tree(is, of, kids).kids = kids
    BY DEF Tree
  <2> QED
    BY <1>13, <2>1, Zenon DEF Document
<1>15. stack[1] = document
  <2>1. stack = <<document>>
    BY <1>1, <1>4, <1>13, Zenon
  <2> QED
    BY <2>1
<1>16. Roots = roots
  BY <1>7, <1>10, <1>11, <1>14, <1>15 DEF Roots, Elements
<1> QED
  BY <1>12, <1>16 DEF NullRoot, RootElement

(* ... without which there is none.                                         *)
LEMMA RootMissing ==
    ASSUME NEW document \in Rootless, stack = <<document>>
    PROVE  NullRoot
<1>1. PICK misc, one, two, none : /\ misc = MiscNode /\ one = <<misc>> /\ two = <<misc, misc>>
                                  /\ none = <<>>
  OBVIOUS
<1>2. misc.is # "element"
  BY <1>1, MiscIs
<1>3. document = Document(none) \/ document = Document(one) \/ document = Document(two)
  <2>1. Unread = Document(none)
    BY <1>1, DocumentStacks, Zenon DEF Document
  <2> QED
    BY <1>1, <2>1, Zenon DEF Rootless
<1>4. \A kids : Document(kids).kids = kids
  <2>1. ASSUME NEW is, NEW of, NEW kids PROVE Tree(is, of, kids).kids = kids
    BY DEF Tree
  <2> QED
    BY <2>1, Zenon DEF Document
<1>5. IsSeq(none) /\ IsSeq(one) /\ one = Append(none, misc) /\ two = Append(one, misc)
  BY <1>1, SeqNone, ShortSeqs
<1>6. ASSUME NEW kids, kids \in {none, one, two} PROVE Picked(kids, {}) = <<>>
  <2>1. Picked(none, {}) = <<>>
    BY <1>1, PickedNone
  <2>2. Picked(one, {}) = Picked(none, {})
    BY <1>5, PickedAppend
  <2>3. Picked(two, {}) = Picked(one, {})
    BY <1>5, PickedAppend
  <2> QED
    BY <1>6, <2>1, <2>2, <2>3
<1>7. ASSUME NEW kids, kids \in {none, one, two}
      PROVE  {i \in DOMAIN kids : kids[i].is = "element"} = {}
  BY <1>1, <1>2, <1>7
<1>8. document.kids \in {none, one, two}
  BY <1>3, <1>4
<1>9. Elements(document) = <<>>
  BY <1>6, <1>7, <1>8 DEF Elements
<1>10. stack[1] = document
  OBVIOUS
<1> QED
  BY <1>9, <1>10 DEF NullRoot, Roots


(* Where the client has no text to read.                                    *)
CrashMeant(m, d) ==
    \/ m.root \in {"none", "noBody"} \/ m.cmd = "empty"
    \/ BeforeRoot(d)
    \/ EndsInHead(m, d)

(* No text, where there is none.                                            *)
LEMMA NoTextThere ==
    ASSUME NEW type \in {"CmdType", "DeviceID"}, NEW root, RootElement = root, IsSeq(root.kids),
           \A i \in 1..Len(root.kids) : RootKid(message, damage, root.kids[i]),
           GetTypeContent(type) = NoText
    PROVE  message.cmd = "empty" \/ EndsInHead(message, damage)
<1>1. PICK found : found = Named(root, type)
  OBVIOUS
<1>2. /\ IsSeq(found)
      /\ \A i \in 1..Len(found) :
            /\ found[i].is = "element" /\ found[i].of = type
            /\ \E j \in 1..Len(root.kids) : found[i] = root.kids[j]
  BY <1>1, NamedFrom
<1>3. NoValue # NoText
  <2>1. NoValue \in Texts
    BY DEF NoValue, Texts
  <2> QED
    BY <2>1, TextAssumption
<1>4. found # <<>> /\ GetText(found[1]) = NoText
  BY <1>1, <1>3 DEF GetTypeContent
<1>5. Len(found) \in Nat /\ Len(found) # 0
  <2>1. Len(found) \in Nat
    BY <1>2 DEF IsSeq
  <2> QED
    BY <1>2, <1>4, <2>1, SeqOfNone
<1>6. 1 \in 1..Len(found)
  BY <1>5
<1>7. PICK kid : kid = found[1]
  OBVIOUS
<1>8. kid.is = "element" /\ kid.of = type /\ RootKid(message, damage, kid)
  BY <1>2, <1>6, <1>7
<1> QED
  BY <1>4, <1>7, <1>8 DEF RootKid

(* The client crashes nowhere else.                                         *)
LEMMA CrashesThere ==
    ASSUME message \in Messages, NEW document, stack = <<document>>,
           DocOk(message, damage, document), NullRoot \/ NullText
    PROVE  CrashMeant(message, damage)
<1>1. CASE message.root \in {"none", "noBody"}
  BY <1>1 DEF CrashMeant
<1>2. CASE message.root \notin {"none", "noBody"} /\ damage.kind = "none"
  <2>1. stack = <<DocumentNode(message)>>
    BY <1>2 DEF DocOk
  <2>2. ~NullRoot
    BY <2>1, RootIs
  <2>3. GetTypeContent("CmdType") = NoText
    BY <2>1, <2>2, HeadIs DEF NullText
  <2>4. message.cmd = "empty"
    BY <2>1, <2>3, HeadIs
  <2> QED
    BY <2>4 DEF CrashMeant
<1>3. CASE message.root \notin {"none", "noBody"} /\ damage.kind # "none"
  <2>1. CASE BeforeRoot(damage)
    BY <2>1 DEF CrashMeant
  <2>2. CASE \E root, rest :
                /\ IsSeq(rest) /\ document = Document(<<MiscNode, root>> \o rest)
                /\ root.is = "element" /\ IsSeq(root.kids)
                /\ \A i \in 1..Len(root.kids) : RootKid(message, damage, root.kids[i])
    <3>1. PICK root, rest :
             /\ IsSeq(rest) /\ document = Document(<<MiscNode, root>> \o rest)
             /\ root.is = "element" /\ IsSeq(root.kids)
             /\ \A i \in 1..Len(root.kids) : RootKid(message, damage, root.kids[i])
      BY <2>2
    <3>2. stack = <<Document(<<MiscNode, root>> \o rest)>>
      BY <3>1
    <3>3. ~NullRoot /\ RootElement = root
      BY <3>1, <3>2, RootFound
    <3>4. PICK type \in {"CmdType", "DeviceID"} : GetTypeContent(type) = NoText
      BY <3>3 DEF NullText
    <3>5. message.cmd = "empty" \/ EndsInHead(message, damage)
      BY <3>1, <3>3, <3>4, NoTextThere
    <3> QED
      BY <3>5 DEF CrashMeant
  <2>3. \/ BeforeRoot(damage)
        \/ \E root, rest :
              /\ IsSeq(rest) /\ document = Document(<<MiscNode, root>> \o rest)
              /\ root.is = "element" /\ IsSeq(root.kids)
              /\ \A i \in 1..Len(root.kids) : RootKid(message, damage, root.kids[i])
    BY <1>3 DEF DocOk
  <2> QED
    BY <2>1, <2>2, <2>3
<1> QED
  BY <1>1, <1>2, <1>3

(* That is what CrashOnlyInHead says.                                       *)
LEMMA CrashIs == CrashOnlyInHead <=> (status = "crashed" => CrashMeant(message, damage))
BY DEF CrashOnlyInHead, CrashMeant, EndsInHead, EndsBehind, Behind, BeforeRoot

(* What DamageOnlyShortens says of a list of channels.                      *)
ShortOk(m, list) ==
    list # <<>> =>
        LET last == Len(list)
        IN /\ last <= Len(m.items)
           /\ \A k \in 1..(last - 1) : list[k] = FieldsOf(k, m.items[k])
           /\ \A key \in DOMAIN list[last] \cap {"DeviceID", "Name"} :
                 LET value == list[last][key]
                 IN value = NoValue \/ (value.item = last /\ value.field = key)

(* That is what it says.                                                    *)
LEMMA ShortIs == DamageOnlyShortens <=> ShortOk(message, event.list)
BY DEF DamageOnlyShortens, ShortOk, Found

(* A set of numbers up to n has a greatest one.                             *)
LEMMA GreatestNumber ==
    ASSUME NEW n \in Nat, NEW I, I \subseteq 1..n, I # {}
    PROVE  \E x \in I : \A y \in I : x >= y
<1> DEFINE T == {n - i : i \in I}
<1>1. T \subseteq Nat /\ T # {}
  <2>1. \A i \in 1..n : n - i \in Nat
    OBVIOUS
  <2> QED
    BY <2>1
<1>2. PICK t \in T : \A u \in T : t <= u
  <2> HIDE DEF T
  <2> QED
    BY <1>1, LeastNumber
<1>3. PICK x \in I : t = n - x
  OBVIOUS
<1>4. \A y \in I : n - x <= n - y
  BY <1>2, <1>3
<1> QED
  BY <1>4

(* The last element with a name.                                            *)
LastWith(s, key) == SelectLastInSeq(s, LAMBDA x : x.of = key)

(* It has that name.                                                        *)
LEMMA LastFound ==
    ASSUME NEW s, IsSeq(s), NEW key, NEW i \in 1..Len(s), s[i].of = key
    PROVE  LastWith(s, key) \in 1..Len(s) /\ s[LastWith(s, key)].of = key
<1>1. PICK n \in Nat : n = Len(s)
  BY DEF IsSeq
<1>2. PICK I : I = {k \in 1..Len(s) : s[k].of = key}
  OBVIOUS
<1>3. I \subseteq 1..n /\ I # {}
  BY <1>1, <1>2
<1>4. \E x \in I : \A y \in I : x >= y
  BY <1>3, GreatestNumber
<1>5. Max(I) \in I
  BY <1>4 DEF Max
<1>6. LastWith(s, key) = Max(I)
  BY <1>2, <1>3 DEF LastWith, SelectLastInSeq
<1> QED
  BY <1>2, <1>5, <1>6

(* The fields found of a channel that is not complete.                      *)
LEMMA PartFields ==
    ASSUME NEW k, NEW node, ItemKidsOk(k, node.kids),
           NEW key \in DOMAIN FieldMap(node) \cap {"DeviceID", "Name"}
    PROVE  \/ FieldMap(node)[key] = NoValue
           \/ FieldMap(node)[key].item = k /\ FieldMap(node)[key].field = key
<1>1. PICK found : found = Elements(node)
  OBVIOUS
<1>2. /\ IsSeq(found)
      /\ \A i \in 1..Len(found) :
            /\ found[i].is = "element"
            /\ \E j \in 1..Len(node.kids) : found[i] = node.kids[j]
  <2>1. IsSeq(node.kids)
    BY DEF ItemKidsOk
  <2> QED
    BY <1>1, <2>1, NamedFrom
<1>3. \A i \in 1..Len(found) : found[i].is = "element" /\ ItemKid(k, found[i])
  BY <1>2 DEF ItemKidsOk
<1>4. PICK places : places = {i \in DOMAIN found : Elements(found[i]) = <<>>}
  OBVIOUS
<1>5. PICK infos : infos = Infos(node)
  OBVIOUS
<1>6. infos = Picked(found, places)
  BY <1>1, <1>4, <1>5 DEF Infos
<1>7. /\ IsSeq(infos)
      /\ \A i \in 1..Len(infos) : \E j \in 1..Len(found) : infos[i] = found[j]
  <2>1. IsSeq(found)
    BY <1>2
  <2>2. /\ IsSeq(Picked(found, places))
        /\ \A i \in 1..Len(Picked(found, places)) : \E j \in 1..Len(found) :
              j \in places /\ Picked(found, places)[i] = found[j]
    BY <2>1, PickedFrom
  <2> QED
    BY <1>6, <2>2
<1>8. DOMAIN infos = 1..Len(infos)
  BY <1>7 DEF IsSeq
<1>9. PICK names : names = {infos[i].of : i \in DOMAIN infos}
  OBVIOUS
<1>10. FieldMap(node) = [name \in names |-> TextOf(infos[LastWith(infos, name)])]
  BY <1>5, <1>9 DEF FieldMap, LastWith
<1>11. key \in names
  BY <1>10
<1>12. PICK i \in 1..Len(infos) : infos[i].of = key
  BY <1>8, <1>9, <1>11
<1>13. PICK l \in 1..Len(infos) : LastWith(infos, key) = l /\ infos[l].of = key
  <2>1. IsSeq(infos)
    BY <1>7
  <2>2. LastWith(infos, key) \in 1..Len(infos) /\ infos[LastWith(infos, key)].of = key
    BY <1>12, <2>1, LastFound
  <2> QED
    BY <2>2
<1>14. PICK info : info = infos[l]
  OBVIOUS
<1>15. FieldMap(node)[key] = TextOf(info)
  BY <1>10, <1>11, <1>13, <1>14
<1>16. info.is = "element" /\ info.of = key /\ ItemKid(k, info)
  BY <1>3, <1>7, <1>13, <1>14
<1>17. GetText(info) = NoText \/ (GetText(info).item = k /\ GetText(info).field = key)
  BY <1>16 DEF ItemKid
<1> QED
  BY <1>15, <1>17 DEF TextOf


-----------------------------------------------------------------------------
(* Channels found of a damaged message.                                     *)

(* The first channels of a message.                                         *)
LEMMA FirstItems ==
    ASSUME NEW m \in Messages, NEW j \in 0..Len(m.items),
           NEW first, first = SubSeq(ItemNodes(m), 1, j)
    PROVE  /\ IsSeq(first) /\ Len(first) = j
           /\ \A k \in 1..j : /\ first[k] = ItemNode(k, m.items[k]) /\ m.items[k] \in ItemLayouts
                              /\ first[k].is = "element" /\ first[k].of = "Item"
<1>1. PICK n \in Nat : n = Len(m.items)
  BY MessageTypes
<1>2. PICK nodes, S : /\ nodes = ItemNodes(m) /\ S = {ItemNode(k, m.items[k]) : k \in 1..n}
  OBVIOUS
<1>3. nodes = [k \in 1..n |-> ItemNode(k, m.items[k])]
  BY <1>1, <1>2 DEF ItemNodes
<1>4. nodes \in Seq(S) /\ Len(nodes) = n
  <2>1. nodes \in [1..n -> S]
    BY <1>2, <1>3
  <2> QED
    BY <2>1
<1>5. first \in Seq(S) /\ Len(first) = j /\ \A k \in 1..j : first[k] = nodes[k]
  BY <1>1, <1>2, <1>4
<1>6. ASSUME NEW k, NEW layout
      PROVE  ItemNode(k, layout).is = "element" /\ ItemNode(k, layout).of = "Item"
  BY DEF ItemNode, Tree
<1>7. ASSUME NEW k \in 1..j PROVE first[k] = ItemNode(k, m.items[k])
  <2>1. k \in 1..n
    BY <1>1
  <2>2. nodes[k] = ItemNode(k, m.items[k])
    BY <1>3, <2>1
  <2> QED
    BY <1>5, <2>2
<1>8. \A k \in 1..j : m.items[k] \in ItemLayouts
  BY <1>1, MessageTypes
<1>9. IsSeq(first)
  BY <1>5 DEF IsSeq
<1>10. \A k \in 1..j : first[k].is = "element" /\ first[k].of = "Item"
  BY <1>6, <1>7
<1> QED
  BY <1>5, <1>7, <1>8, <1>9, <1>10

(* What may be found behind the complete ones.                              *)
MoreOk(m, j, more) ==
    \/ more = <<>>
    \/ \E node : more = <<node>> /\ j < Len(m.items) /\ ItemKidsOk(j + 1, node.kids)

(* The channels in a list that damage may leave.                            *)
LEMMA ListHas ==
    ASSUME NEW m \in Messages, NEW list, ListOk(m, list.kids)
    PROVE  \E j \in 0..Len(m.items) : \E more :
              /\ IsSeq(more) /\ MoreOk(m, j, more)
              /\ Named(list, "Item") = SubSeq(ItemNodes(m), 1, j) \o more
<1>1. PICK j \in 0..Len(m.items) : \E rest :
         /\ IsSeq(rest) /\ list.kids = SubSeq(ItemNodes(m), 1, j) \o rest
         /\ \/ \A i \in 1..Len(rest) : rest[i].of # "Item"
            \/ \E node : /\ j < Len(m.items) /\ rest = <<node>>
                         /\ node.is = "element" /\ node.of = "Item" /\ IsSeq(node.kids)
                         /\ \A i \in 1..Len(node.kids) : ItemKid(j + 1, node.kids[i])
  BY DEF ListOk
<1>2. PICK rest :
         /\ IsSeq(rest) /\ list.kids = SubSeq(ItemNodes(m), 1, j) \o rest
         /\ \/ \A i \in 1..Len(rest) : rest[i].of # "Item"
            \/ \E node : /\ j < Len(m.items) /\ rest = <<node>>
                         /\ node.is = "element" /\ node.of = "Item" /\ IsSeq(node.kids)
                         /\ \A i \in 1..Len(node.kids) : ItemKid(j + 1, node.kids[i])
  BY <1>1
<1>3. PICK first : first = SubSeq(ItemNodes(m), 1, j)
  OBVIOUS
<1>4. /\ IsSeq(first) /\ Len(first) = j
      /\ \A k \in 1..j : first[k].is = "element" /\ first[k].of = "Item"
  BY <1>3, FirstItems
<1>5. PICK kids, places : /\ kids = first \o rest
                          /\ places = {i \in DOMAIN kids : kids[i].is = "element"}
  OBVIOUS
<1>6. /\ IsSeq(kids) /\ Len(rest) \in Nat /\ Len(kids) = j + Len(rest)
      /\ \A k \in 1..j : kids[k] = first[k]
      /\ \A i \in 1..Len(rest) : kids[j + i] = rest[i]
  <2>1. IsSeq(first) /\ IsSeq(rest)
    BY <1>2, <1>4
  <2>2. /\ IsSeq(first \o rest) /\ Len(rest) \in Nat
        /\ Len(first \o rest) = Len(first) + Len(rest)
        /\ \A i \in 1..Len(first) : (first \o rest)[i] = first[i]
        /\ \A i \in 1..Len(rest) : (first \o rest)[Len(first) + i] = rest[i]
    BY <2>1, SeqConcat
  <2> QED
    BY <1>4, <1>5, <2>2
<1>7. DOMAIN kids = 1..Len(kids)
  BY <1>6 DEF IsSeq
<1>8. PICK all : all = Elements(list)
  OBVIOUS
<1>9. all = Picked(kids, places)
  BY <1>2, <1>3, <1>5, <1>8 DEF Elements
<1>10. PICK those : those = {i \in DOMAIN all : all[i].of = "Item"}
  OBVIOUS
<1>11. Named(list, "Item") = Picked(all, those)
  BY <1>8, <1>10 DEF Named
<1>12. CASE \A i \in 1..Len(rest) : rest[i].of # "Item"
  <2>1. 1..Len(first) \subseteq places
    BY <1>4, <1>5, <1>6, <1>7
  <2>2. Picked(first, places) = first
    BY <1>4, <2>1, PickedAll
  <2>3. PICK c : /\ IsSeq(c) /\ all = first \o c
                 /\ \A i \in 1..Len(c) : \E l \in 1..Len(rest) : c[i] = rest[l]
    <3>1. IsSeq(first) /\ IsSeq(rest)
      BY <1>2, <1>4
    <3>2. \E c : /\ IsSeq(c) /\ Picked(first \o rest, places) = Picked(first, places) \o c
                 /\ \A i \in 1..Len(c) : \E l \in 1..Len(rest) :
                       Len(first) + l \in places /\ c[i] = rest[l]
      BY <3>1, PickedTail
    <3> QED
      BY <1>5, <1>9, <2>2, <3>2
  <2>4. \A i \in 1..Len(c) : c[i].of # "Item"
    BY <1>12, <2>3
  <2>5. /\ IsSeq(all) /\ Len(c) \in Nat /\ Len(all) = j + Len(c)
        /\ \A k \in 1..j : all[k] = first[k]
        /\ \A i \in 1..Len(c) : all[j + i] = c[i]
    <3>1. IsSeq(first) /\ IsSeq(c)
      BY <1>4, <2>3
    <3>2. /\ IsSeq(first \o c) /\ Len(c) \in Nat /\ Len(first \o c) = Len(first) + Len(c)
          /\ \A i \in 1..Len(first) : (first \o c)[i] = first[i]
          /\ \A i \in 1..Len(c) : (first \o c)[Len(first) + i] = c[i]
      BY <3>1, SeqConcat
    <3> QED
      BY <1>4, <2>3, <3>2
  <2>6. DOMAIN all = 1..Len(all)
    BY <2>5 DEF IsSeq
  <2>7. 1..Len(first) \subseteq those
    BY <1>4, <1>10, <2>5, <2>6
  <2>8. Picked(first, those) = first
    BY <1>4, <2>7, PickedAll
  <2>9. PICK e : /\ IsSeq(e) /\ Picked(all, those) = first \o e
                 /\ \A i \in 1..Len(e) : \E l \in 1..Len(c) : j + l \in those
    <3>1. IsSeq(first) /\ IsSeq(c)
      BY <1>4, <2>3
    <3>2. \E e : /\ IsSeq(e) /\ Picked(first \o c, those) = Picked(first, those) \o e
                 /\ \A i \in 1..Len(e) : \E l \in 1..Len(c) :
                       Len(first) + l \in those /\ e[i] = c[l]
      BY <3>1, PickedTail
    <3> QED
      BY <1>4, <2>3, <2>8, <3>2
  <2>10. \A i \in 1..Len(e) : FALSE
    BY <1>10, <2>4, <2>5, <2>9
  <2>11. Len(e) \in Nat
    BY <2>9 DEF IsSeq
  <2>12. Len(e) = 0
    <3>1. 1 \notin 1..Len(e)
      BY <2>10
    <3> QED
      BY <2>11, <3>1
  <2>13. e = <<>>
    BY <2>9, <2>12, SeqOfNone
  <2> QED
    BY <1>3, <1>11, <2>9, <2>13 DEF MoreOk
<1>13. CASE \E node : /\ j < Len(m.items) /\ rest = <<node>>
                      /\ node.is = "element" /\ node.of = "Item" /\ IsSeq(node.kids)
                      /\ \A i \in 1..Len(node.kids) : ItemKid(j + 1, node.kids[i])
  <2>1. PICK node : /\ j < Len(m.items) /\ rest = <<node>>
                    /\ node.is = "element" /\ node.of = "Item" /\ IsSeq(node.kids)
                    /\ \A i \in 1..Len(node.kids) : ItemKid(j + 1, node.kids[i])
    BY <1>13
  <2>2. Len(rest) = 1 /\ rest[1] = node
    BY <2>1
  <2>3. \A i \in 1..Len(kids) : kids[i].is = "element" /\ kids[i].of = "Item"
    <3> TAKE i \in 1..Len(kids)
    <3>1. 1 \in 1..Len(rest) /\ (i \in 1..j \/ i = j + 1)
      BY <1>6, <2>2
    <3>2. CASE i \in 1..j
      BY <1>4, <1>6, <3>2
    <3>3. CASE i = j + 1
      BY <1>6, <2>1, <2>2, <3>1, <3>3
    <3> QED
      BY <3>1, <3>2, <3>3
  <2>4. all = kids
    <3>1. 1..Len(kids) \subseteq places
      BY <1>5, <1>7, <2>3
    <3> QED
      BY <1>6, <1>9, <3>1, PickedAll
  <2>5. Picked(all, those) = all
    <3>1. 1..Len(all) \subseteq those
      BY <1>7, <1>10, <2>3, <2>4
    <3> QED
      BY <1>6, <2>4, <3>1, PickedAll
  <2>6. MoreOk(m, j, rest)
    BY <2>1 DEF MoreOk, ItemKidsOk
  <2> QED
    BY <1>2, <1>3, <1>5, <1>11, <2>4, <2>5, <2>6
<1> QED
  BY <1>2, <1>12, <1>13

(* The first channels, complete, ...                                        *)
LEMMA ShortWhole ==
    ASSUME NEW m \in Messages, NEW j \in 0..Len(m.items), NEW list, IsSeq(list), Len(list) = j,
           \A k \in 1..j : list[k] = FieldsOf(k, m.items[k])
    PROVE  ShortOk(m, list)
<1>1. Len(m.items) \in Nat
  BY MessageTypes
<1>2. SUFFICES ASSUME list # <<>>
      PROVE  /\ j <= Len(m.items)
             /\ \A k \in 1..(j - 1) : list[k] = FieldsOf(k, m.items[k])
             /\ \A key \in DOMAIN list[j] \cap {"DeviceID", "Name"} :
                   LET value == list[j][key]
                   IN value = NoValue \/ (value.item = j /\ value.field = key)
  BY DEF ShortOk
<1>3. j \in 1..j
  <2>1. j # 0
    BY <1>2, SeqOfNone
  <2> QED
    BY <1>1, <2>1
<1>4. j <= Len(m.items) /\ \A k \in 1..(j - 1) : list[k] = FieldsOf(k, m.items[k])
  BY <1>1
<1>5. ASSUME NEW key \in DOMAIN list[j] \cap {"DeviceID", "Name"}
      PROVE  \/ list[j][key] = NoValue
             \/ list[j][key].item = j /\ list[j][key].field = key
  <2>1. list[j] = FieldsOf(j, m.items[j])
    BY <1>3
  <2>2. list[j][key] = NoValue \/ list[j][key] = Value(j, key)
    BY <2>1 DEF FieldsOf
  <2>3. Value(j, key).item = j /\ Value(j, key).field = key
    BY DEF Value
  <2> QED
    BY <2>2, <2>3
<1> QED
  BY <1>4, <1>5

(* ... and one more that may not be.                                        *)
LEMMA ShortMore ==
    ASSUME NEW m \in Messages, NEW j \in 0..Len(m.items), j < Len(m.items),
           NEW list, IsSeq(list), Len(list) = j + 1,
           \A k \in 1..j : list[k] = FieldsOf(k, m.items[k]),
           \A key \in DOMAIN list[j + 1] \cap {"DeviceID", "Name"} :
              \/ list[j + 1][key] = NoValue
              \/ list[j + 1][key].item = j + 1 /\ list[j + 1][key].field = key
    PROVE  ShortOk(m, list)
<1>1. PICK l : l = j + 1
  OBVIOUS
<1>2. Len(list) = l /\ l <= Len(m.items) /\ l - 1 = j
  <2>1. Len(m.items) \in Nat
    BY MessageTypes
  <2> QED
    BY <1>1, <2>1
<1>3. \A k \in 1..(l - 1) : list[k] = FieldsOf(k, m.items[k])
  BY <1>2
<1>4. \A key \in DOMAIN list[l] \cap {"DeviceID", "Name"} :
         list[l][key] = NoValue \/ (list[l][key].item = l /\ list[l][key].field = key)
  BY <1>1
<1> QED
  BY <1>2, <1>3, <1>4 DEF ShortOk

(* The channels found where these nodes stand in the list.                  *)
LEMMA ShortItems ==
    ASSUME message \in Messages, NEW j \in 0..Len(message.items), NEW more, IsSeq(more),
           MoreOk(message, j, more), Items = SubSeq(ItemNodes(message), 1, j) \o more
    PROVE  ShortOk(message, GetDeviceChannels)
<1>1. PICK first : first = SubSeq(ItemNodes(message), 1, j)
  OBVIOUS
<1>2. /\ IsSeq(first) /\ Len(first) = j
      /\ \A k \in 1..j : /\ first[k] = ItemNode(k, message.items[k])
                         /\ message.items[k] \in ItemLayouts
  BY <1>1, FirstItems
<1>3. PICK nodes : nodes = Items
  OBVIOUS
<1>4. /\ IsSeq(nodes) /\ Len(more) \in Nat /\ Len(nodes) = j + Len(more)
      /\ \A k \in 1..j : nodes[k] = first[k]
      /\ \A i \in 1..Len(more) : nodes[j + i] = more[i]
  <2>1. IsSeq(first)
    BY <1>2
  <2>2. /\ IsSeq(first \o more) /\ Len(more) \in Nat
        /\ Len(first \o more) = Len(first) + Len(more)
        /\ \A i \in 1..Len(first) : (first \o more)[i] = first[i]
        /\ \A i \in 1..Len(more) : (first \o more)[Len(first) + i] = more[i]
    BY <2>1, SeqConcat
  <2> QED
    BY <1>1, <1>2, <1>3, <2>2
<1>5. PICK n \in Nat : n = Len(nodes)
  BY <1>4
<1>6. PICK maps : maps = [k \in 1..n |-> FieldMap(nodes[k])]
  OBVIOUS
<1>7. DOMAIN nodes = 1..n
  BY <1>4, <1>5 DEF IsSeq
<1>8. PICK places : places = {k \in DOMAIN maps : DOMAIN maps[k] # {}}
  OBVIOUS
<1>9. GetDeviceChannels = Picked(maps, places)
  BY <1>3, <1>6, <1>7, <1>8 DEF GetDeviceChannels
<1>10. \A k \in 1..j : /\ k \in 1..n /\ maps[k] = FieldsOf(k, message.items[k])
                       /\ DOMAIN maps[k] # {}
  <2> TAKE k \in 1..j
  <2>1. k \in 1..n /\ k \in Nat
    BY <1>4, <1>5
  <2>2. maps[k] = FieldMap(ItemNode(k, message.items[k])) /\ message.items[k] \in ItemLayouts
    BY <1>2, <1>4, <1>6, <2>1
  <2>3. maps[k] = FieldsOf(k, message.items[k])
    BY <2>1, <2>2, FieldMapIs
  <2>4. "Name" \in DOMAIN FieldsOf(k, message.items[k])
    BY DEF FieldsOf
  <2> QED
    BY <2>1, <2>3, <2>4
<1>11. PICK S : S = {FieldMap(nodes[k]) : k \in 1..n}
  OBVIOUS
<1>12. maps \in Seq(S) /\ Len(maps) = n /\ DOMAIN maps = 1..n
  <2>1. maps \in [1..n -> S]
    BY <1>6, <1>11
  <2> QED
    BY <2>1
<1>13. PICK begin : begin = SubSeq(maps, 1, j)
  OBVIOUS
<1>14. /\ IsSeq(begin) /\ Len(begin) = j
       /\ \A k \in 1..j : begin[k] = maps[k]
  <2>1. begin \in Seq(S) /\ Len(begin) = j /\ \A k \in 1..j : begin[k] = maps[k]
    BY <1>4, <1>5, <1>12, <1>13
  <2> QED
    BY <2>1 DEF IsSeq
<1>15. ShortOk(message, begin)
  <2>1. \A k \in 1..j : begin[k] = FieldsOf(k, message.items[k])
    BY <1>10, <1>14
  <2> QED
    BY <1>14, <2>1, ShortWhole
<1>16. 1..j \subseteq places
  BY <1>8, <1>10, <1>12
<1>17. Picked(begin, places) = begin
  BY <1>14, <1>16, PickedAll
<1>18. CASE more = <<>>
  <2>1. n = j
    BY <1>4, <1>5, <1>18
  <2>2. begin = maps
    BY <1>12, <1>13, <2>1
  <2> QED
    BY <1>9, <1>15, <1>17, <2>2
<1>19. CASE \E node : /\ more = <<node>> /\ j < Len(message.items)
                      /\ ItemKidsOk(j + 1, node.kids)
  <2>1. PICK node : /\ more = <<node>> /\ j < Len(message.items)
                    /\ ItemKidsOk(j + 1, node.kids)
    BY <1>19
  <2>2. Len(more) = 1 /\ more[1] = node
    BY <2>1
  <2>3. n = j + 1 /\ nodes[n] = node
    BY <1>4, <1>5, <2>2
  <2>4. PICK x : x = FieldMap(node)
    OBVIOUS
  <2>5. n \in 1..n /\ maps[n] = x /\ n - 1 = j
    BY <1>6, <2>3, <2>4
  <2>6. maps = Append(begin, x)
    <3>1. SubSeq(maps, 1, n) = Append(SubSeq(maps, 1, n - 1), maps[n])
      BY <1>12, <2>5, OneMore
    <3>2. SubSeq(maps, 1, n) = maps
      BY <1>12
    <3> QED
      BY <1>13, <2>5, <3>1, <3>2
  <2>7. Picked(maps, places) =
           IF n \in places THEN Append(begin, x) ELSE begin
    <3>1. IsSeq(begin)
      BY <1>14
    <3>2. Picked(Append(begin, x), places) =
             IF Len(begin) + 1 \in places THEN Append(Picked(begin, places), x)
             ELSE Picked(begin, places)
      BY <3>1, PickedMore
    <3> QED
      BY <1>14, <1>17, <2>3, <2>6, <3>2
  <2>8. ShortOk(message, maps)
    <3>1. IsSeq(maps) /\ Len(maps) = j + 1
      BY <1>12, <2>3 DEF IsSeq
    <3>2. \A k \in 1..j : maps[k] = FieldsOf(k, message.items[k])
      BY <1>10
    <3>3. \A key \in DOMAIN x \cap {"DeviceID", "Name"} :
             x[key] = NoValue \/ (x[key].item = j + 1 /\ x[key].field = key)
      <4>1. PICK l : l = j + 1
        OBVIOUS
      <4>2. ItemKidsOk(l, node.kids)
        BY <2>1, <4>1
      <4>3. \A key \in DOMAIN FieldMap(node) \cap {"DeviceID", "Name"} :
               \/ FieldMap(node)[key] = NoValue
               \/ FieldMap(node)[key].item = l /\ FieldMap(node)[key].field = key
        BY <4>2, PartFields
      <4> QED
        BY <2>4, <4>1, <4>3
    <3>4. maps[j + 1] = x
      BY <2>3, <2>5
    <3> QED
      BY <2>1, <3>1, <3>2, <3>3, <3>4, ShortMore
  <2> QED
    BY <1>9, <1>15, <2>6, <2>7, <2>8
<1> QED
  BY <1>18, <1>19 DEF MoreOk

(* No more than that is ever found.                                         *)
LEMMA ShortFound ==
    ASSUME message \in Messages, NEW document, stack = <<document>>,
           DocOk(message, damage, document), ~NullRoot
    PROVE  ShortOk(message, GetDeviceChannels)
<1>1. PICK n \in Nat : n = Len(message.items)
  BY MessageTypes
<1>2. \E j \in 0..n : \E more : /\ IsSeq(more) /\ MoreOk(message, j, more)
                                /\ Items = SubSeq(ItemNodes(message), 1, j) \o more
  <2>1. PICK none : none = <<>>
    OBVIOUS
  <2>2. IsSeq(none) /\ \A j : MoreOk(message, j, none)
    BY <2>1, SeqNone DEF MoreOk
  <2>3. CASE message.root \in {"none", "noBody"}
    <3>1. stack = <<Unread>>
      BY <2>3 DEF DocOk
    <3> QED
      BY <3>1, RootMissing DEF Rootless
  <2>4. CASE message.root \notin {"none", "noBody"} /\ damage.kind = "none"
    <3>1. PICK first : first = SubSeq(ItemNodes(message), 1, n)
      OBVIOUS
    <3>2. Items = ItemNodes(message)
      <4>1. stack = <<DocumentNode(message)>>
        BY <2>4 DEF DocOk
      <4> QED
        BY <4>1, ItemsAre
    <3>3. ItemNodes(message) = first
      <4>1. PICK nodes, S : /\ nodes = ItemNodes(message)
                            /\ S = {ItemNode(k, message.items[k]) : k \in 1..n}
        OBVIOUS
      <4>2. nodes \in [1..n -> S]
        BY <1>1, <4>1 DEF ItemNodes
      <4>3. nodes \in Seq(S) /\ Len(nodes) = n
        BY <4>2
      <4> QED
        BY <3>1, <4>1, <4>3
    <3>4. n \in 0..n /\ n \in 0..Len(message.items)
      BY <1>1
    <3>5. first \o none = first
      <4>1. IsSeq(first)
        BY <3>1, <3>4, FirstItems
      <4> QED
        BY <2>1, <4>1, SeqShort
    <3> QED
      BY <2>2, <3>1, <3>2, <3>3, <3>4, <3>5
  <2>5. CASE message.root \notin {"none", "noBody"} /\ damage.kind # "none"
    <3>1. \/ document \in Rootless
          \/ \E root, rest :
                /\ IsSeq(rest) /\ document = Document(<<MiscNode, root>> \o rest)
                /\ root.is = "element" /\ IsSeq(root.kids)
                /\ \A i \in 1..Len(root.kids) : RootKid(message, damage, root.kids[i])
      BY <2>5 DEF DocOk
    <3>2. document \notin Rootless
      BY RootMissing
    <3>3. PICK root, rest :
             /\ IsSeq(rest) /\ document = Document(<<MiscNode, root>> \o rest)
             /\ root.is = "element" /\ IsSeq(root.kids)
             /\ \A i \in 1..Len(root.kids) : RootKid(message, damage, root.kids[i])
      BY <3>1, <3>2
    <3>4. stack = <<Document(<<MiscNode, root>> \o rest)>>
      BY <3>3
    <3>5. RootElement = root
      BY <3>3, <3>4, RootFound
    <3>6. PICK lists : lists = Named(root, "DeviceList")
      OBVIOUS
    <3>7. Items = IF lists = <<>> THEN <<>> ELSE Named(lists[1], "Item")
      BY <3>5, <3>6 DEF Items
    <3>8. CASE lists = <<>>
      <4>1. PICK first : first = SubSeq(ItemNodes(message), 1, 0)
        OBVIOUS
      <4>2. 0 \in 0..n /\ 0 \in 0..Len(message.items)
        BY <1>1
      <4>3. IsSeq(first) /\ Len(first) = 0
        BY <4>1, <4>2, FirstItems
      <4>4. first = none
        BY <2>1, <4>3, SeqOfNone
      <4>5. first \o none = none
        BY <2>1, <2>2, <4>4, SeqShort
      <4>6. Items = none
        BY <2>1, <3>7, <3>8
      <4> QED
        BY <2>2, <4>1, <4>2, <4>5, <4>6
    <3>9. CASE lists # <<>>
      <4>1. /\ IsSeq(lists)
            /\ \A i \in 1..Len(lists) :
                  /\ lists[i].is = "element" /\ lists[i].of = "DeviceList"
                  /\ \E j \in 1..Len(root.kids) : lists[i] = root.kids[j]
        <5>1. IsSeq(root.kids)
          BY <3>3
        <5> QED
          BY <3>6, <5>1, NamedFrom
      <4>2. Len(lists) \in Nat /\ Len(lists) # 0
        <5>1. Len(lists) \in Nat
          BY <4>1 DEF IsSeq
        <5> QED
          BY <3>9, <4>1, <5>1, SeqOfNone
      <4>3. 1 \in 1..Len(lists)
        BY <4>2
      <4>4. PICK list : list = lists[1]
        OBVIOUS
      <4>5. /\ list.is = "element" /\ list.of = "DeviceList"
            /\ RootKid(message, damage, list)
        BY <3>3, <4>1, <4>3, <4>4
      <4>6. ListOk(message, list.kids)
        BY <4>5 DEF RootKid
      <4>7. \E j \in 0..Len(message.items) : \E more :
               /\ IsSeq(more) /\ MoreOk(message, j, more)
               /\ Named(list, "Item") = SubSeq(ItemNodes(message), 1, j) \o more
        BY <4>6, ListHas
      <4> QED
        BY <1>1, <3>7, <3>9, <4>4, <4>7
    <3> QED
      BY <3>8, <3>9
  <2> QED
    BY <2>3, <2>4, <2>5
<1>3. PICK j \in 0..n : \E more : /\ IsSeq(more) /\ MoreOk(message, j, more)
                                  /\ Items = SubSeq(ItemNodes(message), 1, j) \o more
  BY <1>2
<1>4. PICK more : /\ IsSeq(more) /\ MoreOk(message, j, more)
                  /\ Items = SubSeq(ItemNodes(message), 1, j) \o more
  BY <1>3
<1>5. j \in 0..Len(message.items)
  BY <1>1
<1> QED
  BY <1>4, <1>5, ShortItems


-----------------------------------------------------------------------------
(* The invariant: the parser is on the way to a tree that it may leave, and *)
(* the event loop has made of such a tree what it should.                   *)
MessageInv ==
    /\ message \in Messages
    /\ status \in {"parsing", "parsed", "done", "crashed"}
    /\ status = "parsing" => Safe(message, damage, body, stack)
    /\ status # "parsing" => Final(message, damage, stack)
    /\ status = "done" /\ damage.kind = "none" => event = Meant(message)
    /\ status = "crashed" => CrashMeant(message, damage)
    /\ ShortOk(message, event.list)

(* A body without an element.                                               *)
LEMMA PlainSafe ==
    ASSUME NEW m \in Messages, m.root = "none", NEW d \in Damages(Body(m))
    PROVE  Safe(m, d, Arrived(Body(m), d), <<Unread>>)
<1>1. PICK text, piece, cut, node, none :
         /\ text = Value(0, "plain") /\ piece = Piece("text", text) /\ cut = CutPiece(piece)
         /\ node = Unread /\ none = <<>>
  OBVIOUS
<1>2. Body(m) = <<piece>>
  BY <1>1, Zenon DEF Body
<1>3. piece.is = "text" /\ cut.is = "text"
  BY <1>1 DEF Piece, CutPiece
<1>4. Settles(m, d, <<node>>)
  <2>1. Document(none) = node
    BY <1>1, DocumentStacks, Zenon DEF Document
  <2>2. DocOk(m, d, Document(none))
    BY <1>1, <2>1 DEF DocOk
  <2>3. Settles(m, d, <<Document(none)>>)
    BY <2>2, SettlesHome
  <2> QED
    BY <2>1, <2>3, Zenon
<1>5. ASSUME NEW x, x.is = "text" PROVE Safe(m, d, <<x>>, <<node>>)
  <2>1. ~CutTag(x)
    BY <1>5 DEF CutTag
  <2>2. Stops(<<node>>, x)
    BY <1>5 DEF Stops
  <2> QED
    BY <1>4, <2>1, <2>2, SafeOne
<1>6. PICK b : b = <<piece>>
  OBVIOUS
<1>7. Len(b) = 1 /\ b[1] = piece /\ SubSeq(b, 1, 0) = none
  BY <1>1, <1>6
<1>8. \/ d.kind = "none"
      \/ d.kind = "ends" /\ d.at = 0
      \/ d.kind = "cut" /\ d.at = 1
  <2>1. \A k \in DOMAIN b : b[k].is = "text"
    BY <1>3, <1>6
  <2>2. DOMAIN b = {1}
    BY <1>6
  <2>3. d \in Damages(b)
    BY <1>2, <1>6
  <2> QED
    BY <1>7, <2>1, <2>2, <2>3 DEF Damages
<1>9. CASE d.kind = "none"
  <2>1. Arrived(b, d) = b
    BY <1>9 DEF Arrived
  <2> QED
    BY <1>1, <1>2, <1>3, <1>5, <1>6, <2>1, Zenon
<1>10. CASE d.kind = "ends" /\ d.at = 0
  <2>1. Arrived(b, d) = none
    BY <1>7, <1>10 DEF Arrived
  <2>2. Safe(m, d, none, <<node>>)
    BY <1>1, <1>4 DEF Settles
  <2> QED
    BY <1>1, <1>2, <1>6, <2>1, <2>2, Zenon
<1>11. CASE d.kind = "cut" /\ d.at = 1
  <2>1. Arrived(b, d) = Append(none, cut)
    <3>1. Arrived(b, d) = Append(SubSeq(b, 1, d.at - 1), CutPiece(b[d.at]))
      BY <1>11, Zenon DEF Arrived
    <3>2. d.at - 1 = 0 /\ d.at = 1
      BY <1>11
    <3> QED
      BY <1>1, <1>7, <3>1, <3>2
  <2>2. Append(none, cut) = <<cut>>
    BY <1>1, ShortSeqs
  <2> QED
    BY <1>1, <1>2, <1>3, <1>5, <1>6, <2>1, <2>2, Zenon
<1> QED
  BY <1>8, <1>9, <1>10, <1>11

(* No body.                                                                 *)
LEMMA EmptySafe ==
    ASSUME NEW m \in Messages, m.root = "noBody", NEW d \in Damages(Body(m))
    PROVE  Safe(m, d, Arrived(Body(m), d), <<Unread>>)
<1>1. PICK none : none = <<>>
  OBVIOUS
<1>2. Body(m) = none
  BY <1>1 DEF Body
<1>3. DOMAIN none = {} /\ Len(none) = 0
  BY <1>1
<1>4. d.kind = "none"
  BY <1>2, <1>3 DEF Damages
<1>5. Arrived(Body(m), d) = none
  BY <1>2, <1>4 DEF Arrived
<1>6. Document(none) = Unread
  BY <1>1, DocumentStacks, Zenon DEF Document
<1>7. DocOk(m, d, Document(none))
  BY <1>6 DEF DocOk
<1>8. Settles(m, d, <<Document(none)>>)
  BY <1>7, SettlesHome
<1>9. Safe(m, d, none, <<Document(none)>>)
  BY <1>1, <1>8 DEF Settles
<1> QED
  BY <1>5, <1>6, <1>9, Zenon

(* Every message starts on the safe side, whatever has happened to it.      *)
LEMMA StartsSafe ==
    ASSUME NEW m \in Messages, NEW d \in Damages(Body(m))
    PROVE  Safe(m, d, Arrived(Body(m), d), <<Unread>>)
<1>0. CASE m.root = "noBody"
  BY <1>0, EmptySafe
<1>1. CASE m.root = "none"
  BY <1>1, PlainSafe
<1>2. CASE m.root \notin {"none", "noBody"} /\ d.kind # "none"
  BY <1>2, BodyBears
<1>3. CASE m.root \notin {"none", "noBody"} /\ d.kind = "none"
  <2>1. PICK text, node : text = Body(m) /\ node = DocumentNode(m)
    OBVIOUS
  <2>2. IsSeq(text) /\ Reads(text, <<Unread>>, <<node>>)
    BY <1>3, <2>1, BodyReads DEF IsSeq
  <2>3. PICK kids : kids = <<MiscNode, RootNode(m)>>
    OBVIOUS
  <2>4. Document(kids) = node
    BY <2>1, <2>3, Zenon DEF Document, DocumentNode
  <2>5. DocOk(m, d, Document(kids))
    BY <1>3, <2>1, <2>4 DEF DocOk
  <2>6. Settles(m, d, <<Document(kids)>>)
    BY <2>5, SettlesHome
  <2>7. Settles(m, d, <<node>>)
    BY <2>4, <2>6, Zenon
  <2>8. Safe(m, d, text, <<Unread>>)
    BY <2>2, <2>7, SafeLast
  <2>9. Arrived(text, d) = text
    BY <1>3 DEF Arrived
  <2> QED
    BY <2>1, <2>8, <2>9, Zenon
<1> QED
  BY <1>0, <1>1, <1>2, <1>3

(* The steps of the parser are these moves.                                 *)
LEMMA ParseMoves ==
    ASSUME Parse
    PROVE  /\ UNCHANGED <<message, damage, event>> /\ status = "parsing"
           /\ \/ status' = "parsing" /\ <<body', stack'>> \in Moves(body, stack)
              \/ /\ status' = "parsed" /\ UNCHANGED stack
                 /\ body = <<>> /\ ~(Len(stack) > 1)
<1>1. UNCHANGED <<message, damage, event>> /\ status = "parsing"
  BY Zenon DEF Parse, ReadOver, StopAtText, ReadText, StartElement, ReadEmptyElement, CutStartTag,
         EndElement, EndTagError, ReturnNull, DocumentEnds, GoOn, Fail, Reading
<1>2. ASSUME body # <<>>, ~CutTag(Now), ~Stops(stack, Now), GoOn, stack' = StepOf(stack, Now)
      PROVE  status' = "parsing" /\ <<body', stack'>> \in Moves(body, stack)
  BY <1>1, <1>2 DEF GoOn, Moves, Now
<1>3. ASSUME body # <<>>, ~CutTag(Now), Stops(stack, Now), Fail, stack' = stack
      PROVE  status' = "parsing" /\ <<body', stack'>> \in Moves(body, stack)
  BY <1>1, <1>3 DEF Fail, Moves, Now
<1>4. ASSUME ReadOver PROVE status' = "parsing" /\ <<body', stack'>> \in Moves(body, stack)
  <2>1. /\ Reading("misc") \/ (Reading("end") /\ ~InElement)
        /\ stack' = WithKid(stack, MiscNode) /\ GoOn
    BY <1>4, Zenon DEF ReadOver, LinkEndChild, MiscNode
  <2>2. /\ body # <<>> /\ ~CutTag(Now) /\ ~Stops(stack, Now)
        /\ stack' = StepOf(stack, Now)
    BY <2>1 DEF Reading, CutTag, Stops, InElement, StepOf
  <2> QED
    BY <1>2, <2>1, <2>2
<1>5. ASSUME StopAtText PROVE status' = "parsing" /\ <<body', stack'>> \in Moves(body, stack)
  <2>1. body # <<>> /\ ~CutTag(Now) /\ Stops(stack, Now) /\ Fail /\ stack' = stack
    BY <1>5 DEF StopAtText, Reading, CutTag, Stops, InElement
  <2> QED
    BY <1>3, <2>1
<1>6. ASSUME ReadText PROVE status' = "parsing" /\ <<body', stack'>> \in Moves(body, stack)
  <2>1. /\ body # <<>> /\ ~CutTag(Now) /\ ~Stops(stack, Now) /\ GoOn
        /\ stack' = StepOf(stack, Now)
    BY <1>6 DEF ReadText, Reading, CutTag, Stops, InElement, StepOf, LinkEndChild
  <2> QED
    BY <1>2, <2>1
<1>7. ASSUME StartElement PROVE status' = "parsing" /\ <<body', stack'>> \in Moves(body, stack)
  <2>1. /\ body # <<>> /\ ~CutTag(Now) /\ ~Stops(stack, Now) /\ GoOn
        /\ stack' = StepOf(stack, Now)
    BY <1>7 DEF StartElement, Reading, CutTag, Stops, StepOf
  <2> QED
    BY <1>2, <2>1
<1>8. ASSUME ReadEmptyElement
      PROVE  status' = "parsing" /\ <<body', stack'>> \in Moves(body, stack)
  <2>1. /\ body # <<>> /\ ~CutTag(Now) /\ ~Stops(stack, Now) /\ GoOn
        /\ stack' = StepOf(stack, Now)
    BY <1>8 DEF ReadEmptyElement, Reading, CutTag, Stops, StepOf, LinkEndChild
  <2> QED
    BY <1>2, <2>1
<1>9. ASSUME CutStartTag PROVE status' = "parsing" /\ <<body', stack'>> \in Moves(body, stack)
  <2>1. PICK node \in CutNodes(Now.of) : stack' = WithKid(stack, node)
    BY <1>9, Zenon DEF CutStartTag, CutNodes, LinkEndChild, MiscNode
  <2>2. body # <<>> /\ CutTag(Now) /\ body' = <<>> /\ status' = "parsing"
    <3>1. Reading("start") \/ Reading("empty")
      BY <1>9, Zenon DEF CutStartTag
    <3>2. Now.cut /\ Fail
      BY <1>9, Zenon DEF CutStartTag
    <3> QED
      BY <1>1, <3>1, <3>2 DEF Reading, CutTag, Fail
  <2> QED
    BY <2>1, <2>2 DEF Moves, Now
<1>10. ASSUME EndElement PROVE status' = "parsing" /\ <<body', stack'>> \in Moves(body, stack)
  <2>1. /\ body # <<>> /\ ~CutTag(Now) /\ ~Stops(stack, Now) /\ GoOn
        /\ stack' = StepOf(stack, Now)
    BY <1>10 DEF EndElement, Reading, CutTag, Stops, StepOf, InElement, Return, Up
  <2> QED
    BY <1>2, <2>1
<1>11. ASSUME EndTagError PROVE status' = "parsing" /\ <<body', stack'>> \in Moves(body, stack)
  <2>1. body # <<>> /\ ~CutTag(Now) /\ Stops(stack, Now) /\ Fail /\ stack' = stack
    BY <1>11 DEF EndTagError, Reading, CutTag, Stops, InElement
  <2> QED
    BY <1>3, <2>1
<1>12. ASSUME ReturnNull PROVE status' = "parsing" /\ <<body', stack'>> \in Moves(body, stack)
  BY <1>12 DEF ReturnNull, InElement, Return, Up, Moves
<1>13. ASSUME DocumentEnds
       PROVE  /\ status' = "parsed" /\ UNCHANGED stack
              /\ body = <<>> /\ ~(Len(stack) > 1)
  BY <1>13 DEF DocumentEnds, InElement
<1> QED
  BY <1>1, <1>4, <1>5, <1>6, <1>7, <1>8, <1>9, <1>10, <1>11, <1>12, <1>13, Zenon DEF Parse

(* The invariant holds before the first piece is read.                      *)
LEMMA MessageInit == Init => MessageInv
<1> SUFFICES ASSUME Init PROVE MessageInv
  OBVIOUS
<1>1. message \in Messages /\ damage \in Damages(Body(message)) /\ status = "parsing"
  BY Zenon DEF Init
<1>2. body = Arrived(Body(message), damage) /\ stack = <<Unread>>
  BY Zenon DEF Init, Unread
<1>3. Safe(message, damage, body, stack)
  BY <1>1, <1>2, StartsSafe
<1>4. ShortOk(message, event.list)
  <2>1. event = NoEvent
    BY Zenon DEF Init
  <2>2. event.list = <<>>
    BY <2>1 DEF NoEvent
  <2> QED
    BY <2>2 DEF ShortOk
<1> QED
  BY <1>1, <1>3, <1>4 DEF MessageInv

(* Every step keeps it.                                                     *)
LEMMA MessageStep == MessageInv /\ [Next]_vars => MessageInv'
<1> SUFFICES ASSUME MessageInv, [Next]_vars PROVE MessageInv'
  OBVIOUS
<1>1. message \in Messages
  BY DEF MessageInv
<1>2. CASE UNCHANGED vars
  BY <1>2 DEF MessageInv, vars
<1>3. CASE Parse
  <2>1. /\ UNCHANGED <<message, damage, event>> /\ status = "parsing"
        /\ \/ status' = "parsing" /\ <<body', stack'>> \in Moves(body, stack)
           \/ /\ status' = "parsed" /\ UNCHANGED stack
              /\ body = <<>> /\ ~(Len(stack) > 1)
    BY <1>3, ParseMoves
  <2>2. Safe(message, damage, body, stack) /\ ShortOk(message, event.list)
    BY <2>1 DEF MessageInv
  <2>3. CASE status' = "parsing" /\ <<body', stack'>> \in Moves(body, stack)
    <3>1. Safe(message, damage, body', stack')
      BY <2>2, <2>3, SafeMove
    <3> QED
      BY <1>1, <2>1, <2>2, <2>3, <3>1 DEF MessageInv
  <2>4. CASE status' = "parsed" /\ UNCHANGED stack /\ body = <<>> /\ ~(Len(stack) > 1)
    <3>1. Safe(message, damage, <<>>, stack)
      BY <2>2, <2>4
    <3>2. Final(message, damage, stack)
      BY <2>4, <3>1, SafeEnd
    <3> QED
      BY <1>1, <2>1, <2>2, <2>4, <3>2 DEF MessageInv
  <2> QED
    BY <2>1, <2>3, <2>4
<1>4. ASSUME status = "parsed"
      PROVE  \E document : stack = <<document>> /\ DocOk(message, damage, document)
  BY <1>4 DEF MessageInv, Final
<1>5. CASE Crash
  <2>1. /\ UNCHANGED <<message, damage, body, stack, event>>
        /\ status = "parsed" /\ status' = "crashed" /\ (NullRoot \/ NullText)
    BY <1>5 DEF Crash, Conclude
  <2>2. CrashMeant(message, damage)
    BY <1>1, <1>4, <2>1, CrashesThere
  <2>3. Final(message, damage, stack) /\ ShortOk(message, event.list)
    BY <2>1 DEF MessageInv
  <2> QED
    BY <1>1, <2>1, <2>2, <2>3 DEF MessageInv
<1>6. CASE ReadCatalog \/ ReadOther
  <2>1. /\ UNCHANGED <<message, damage, body, stack>>
        /\ status = "parsed" /\ status' = "done" /\ ~NullRoot
        /\ Report(GetDeviceChannels) \/ Report(<<>>)
    BY <1>6 DEF ReadCatalog, ReadOther, Readable, Conclude
  <2>2. PICK document : stack = <<document>> /\ DocOk(message, damage, document)
    BY <1>4, <2>1
  <2>3. ShortOk(message, event'.list)
    <3>1. event'.list = GetDeviceChannels \/ event'.list = <<>>
      BY <2>1 DEF Report
    <3>2. ShortOk(message, GetDeviceChannels)
      BY <1>1, <2>1, <2>2, ShortFound
    <3> QED
      BY <3>1, <3>2 DEF ShortOk
  <2>4. ASSUME damage.kind = "none" PROVE event' = Meant(message)
    <3>1. CASE message.root \in {"none", "noBody"}
      <4>1. stack = <<Unread>>
        BY <2>2, <3>1 DEF DocOk
      <4> QED
        BY <2>1, <4>1, RootMissing DEF Rootless
    <3>2. CASE message.root \notin {"none", "noBody"}
      <4>1. stack = <<DocumentNode(message)>>
        BY <2>2, <2>4, <3>2 DEF DocOk
      <4> QED
        BY <1>1, <1>6, <3>2, <4>1, Understood
    <3> QED
      BY <3>1, <3>2
  <2>5. Final(message, damage, stack)
    BY <2>2 DEF Final
  <2> QED
    BY <1>1, <2>1, <2>3, <2>4, <2>5 DEF MessageInv
<1>7. CASE Ended
  BY <1>2, <1>7 DEF Ended
<1> QED
  BY <1>2, <1>3, <1>5, <1>6, <1>7 DEF Next

(* A message that arrives as it was sent is understood as it was meant,     *)
(* whatever channels it lists, in whatever order and depth their fields are *)
(* written: the parser and the helpers of sipcontact.cpp.                   *)
THEOREM WholeRead == Spec => []WholeMessageRead
<1>1. MessageInv => WholeMessageRead
  BY DEF MessageInv, WholeMessageRead
<1> QED
  BY <1>1, MessageInit, MessageStep, PTL DEF Spec

(* Of a damaged catalog, of any length and wherever the damage is, nothing  *)
(* but its first channels is found, complete but for the last one: no field *)
(* of one channel is taken for that of another.                             *)
THEOREM DamageShortens == Spec => []DamageOnlyShortens
<1>1. MessageInv => DamageOnlyShortens
  BY ShortIs DEF MessageInv
<1> QED
  BY <1>1, MessageInit, MessageStep, PTL DEF Spec

(* The null pointers that the event loop does not test for are met where    *)
(* there is no element, because the message has no body or no XML or ends   *)
(* before the first letter of its root's name, and where the command or the *)
(* device has no text, because it was written so or the body ends just      *)
(* there; nowhere else.                                                     *)
THEOREM CrashInHead == Spec => []CrashOnlyInHead
<1>1. MessageInv => CrashOnlyInHead
  BY CrashIs DEF MessageInv
<1> QED
  BY <1>1, MessageInit, MessageStep, PTL DEF Spec

=============================================================================
