--------------------------- MODULE TcpFramingProofs ---------------------------
(***************************************************************************)
(* Proofs about the packets of a TCP connection, for every size and number *)
(* of packets and every buffer, wherever recv cuts the stream but between  *)
(* the two bytes of a size (~SplitPrefix).                                 *)
(***************************************************************************)
EXTENDS TcpFraming, SequenceLemmas

-----------------------------------------------------------------------------
(* The invariant.                                                           *)

(* v[f] is the stream behind the packet f: what the camera has sent after   *)
(* it.                                                                      *)
Stream(v) == /\ v \in [0..Len(sent) -> Seq(Bytes)]
             /\ v[Len(sent)] = <<>>
             /\ \A f \in 1..Len(sent) : v[f - 1] = OnWire(f, sent[f]) \o v[f]

(* The loop is in step with the sizes: the buffer starts with a size, or    *)
(* with what the packet that is being collected lacks.                      *)
AtSize(v) == packet = <<>> /\ buf \o wire = v[Len(packets)]

Collecting(v, f) ==
    /\ f = Len(packets) + 1 /\ f <= Len(sent)
    /\ packetSize = sent[f] /\ Len(packet) < packetSize
    /\ packet \o (buf \o wire) = Payload(f, sent[f]) \o v[f]

InStep(v) == IF packetSize = 0 THEN AtSize(v)
             ELSE \E f \in 1..Len(sent) : Collecting(v, f)

(* No size is cut: the last byte of the buffer is not the first of a size.  *)
SizesWhole(b) == b # <<>> => b[Len(b)].at # -1

ParsedAsSent == /\ Len(packets) <= Len(sent) /\ Len(sent) <= MaxSent
                /\ \A f \in 1..Len(packets) : packets[f] = Payload(f, sent[f])

FramingInv == /\ TypeOK /\ (status = "crashed" => packetSize > BufSize)
              /\ ParsedAsSent /\ SizesWhole(buf)
              /\ \E v : Stream(v) /\ InStep(v)

-----------------------------------------------------------------------------
(* The bytes of a packet. *)

Prefix(f) == <<Byte(f, -1), Byte(f, 0)>>

(* A packet on the wire: its size and its bytes. *)
LEMMA PacketBytes ==
    ASSUME NEW f \in 1..MaxSent, NEW size \in 0..MaxSize
    PROVE  /\ Prefix(f) \in Seq(Bytes) /\ Len(Prefix(f)) = 2
           /\ Payload(f, size) \in Seq(Bytes) /\ Len(Payload(f, size)) = size
           /\ OnWire(f, size) \in Seq(Bytes) /\ Len(OnWire(f, size)) = size + 2
           /\ OnWire(f, size) = Prefix(f) \o Payload(f, size)
           /\ OnWire(f, 0) = Prefix(f)
<1>0. BufSize \in Nat /\ MaxSize \in Nat /\ MaxSent \in Nat
  BY FramingAssumption
<1>1. \A k \in -1..size : Byte(f, k) \in Bytes
  BY <1>0 DEF Byte, Bytes
<1>2. Prefix(f) \in Seq(Bytes) /\ Len(Prefix(f)) = 2
  <2>1. Byte(f, -1) \in Bytes /\ Byte(f, 0) \in Bytes
    BY <1>0, <1>1
  <2> QED
    BY <2>1 DEF Prefix
<1>3. Payload(f, size) \in Seq(Bytes) /\ Len(Payload(f, size)) = size
  <2>1. size \in Nat /\ \A k \in 1..size : Byte(f, k) \in Bytes
    BY <1>0, <1>1
  <2> QED
    BY <2>1 DEF Payload
<1>4. OnWire(f, size) = Prefix(f) \o Payload(f, size)
  BY DEF OnWire, Prefix
<1>5. OnWire(f, size) \in Seq(Bytes) /\ Len(OnWire(f, size)) = size + 2
  <2>1. /\ Prefix(f) \o Payload(f, size) \in Seq(Bytes)
        /\ Len(Prefix(f) \o Payload(f, size)) = 2 + size
    <3>1. PICK p \in Seq(Bytes), q \in Seq(Bytes) : p = Prefix(f) /\ q = Payload(f, size)
      BY <1>2, <1>3
    <3>2. p \o q \in Seq(Bytes) /\ Len(p \o q) = Len(p) + Len(q)
      BY ConcatProperties
    <3> QED
      BY <1>2, <1>3, <3>1, <3>2
  <2> QED
    BY <1>0, <1>4, <2>1
<1>6. OnWire(f, 0) = Prefix(f)
  <2>1. Payload(f, 0) = <<>>
    BY DEF Payload
  <2>2. OnWire(f, 0) = Prefix(f) \o Payload(f, 0)
    BY DEF OnWire, Prefix
  <2> QED
    BY <1>2, <2>1, <2>2, ConcatEmptySeq
<1> QED
  BY <1>2, <1>3, <1>4, <1>5, <1>6

(* The sizes of the packets, and the streams behind them. *)
LEMMA StreamTypes ==
    ASSUME TypeOK, ParsedAsSent, NEW v, Stream(v)
    PROVE  /\ Len(sent) \in Nat /\ Len(packets) \in Nat /\ MaxSent \in Nat /\ BufSize \in Nat /\ MaxSize \in Nat
           /\ \A f \in 1..Len(sent) : /\ sent[f] \in 0..MaxSize /\ f \in 1..MaxSent
                                      /\ v[f] \in Seq(Bytes) /\ v[f - 1] \in Seq(Bytes)
                                      /\ v[f - 1] = OnWire(f, sent[f]) \o v[f]
           /\ v[Len(sent)] = <<>>
<1>1. Len(sent) \in Nat /\ Len(packets) \in Nat /\ MaxSent \in Nat /\ BufSize \in Nat /\ MaxSize \in Nat
  BY FramingAssumption, LenProperties DEF TypeOK
<1>2. ASSUME NEW f \in 1..Len(sent)
      PROVE  /\ sent[f] \in 0..MaxSize /\ f \in 1..MaxSent
             /\ v[f] \in Seq(Bytes) /\ v[f - 1] \in Seq(Bytes)
  <2>1. sent[f] \in Sizes
    BY ElementOfSeq DEF TypeOK
  <2>2. f \in 0..Len(sent) /\ f - 1 \in 0..Len(sent) /\ f \in 1..MaxSent
    BY <1>1 DEF ParsedAsSent
  <2> QED
    BY <2>1, <2>2, FramingAssumption DEF Stream
<1> QED
  BY <1>1, <1>2 DEF Stream


(* Two cuts at the same place. *)
LEMMA CutEvenly ==
    ASSUME NEW S, NEW x \in Seq(S), NEW y \in Seq(S), NEW a \in Seq(S), NEW b \in Seq(S),
           x \o y = a \o b, Len(a) = Len(x)
    PROVE  x = a /\ y = b
<1>1. Len(x) \in Nat
  BY LenProperties
<1>2. SubSeq(x, 1, Len(x)) = a /\ SubSeq(x, Len(x) + 1, Len(x)) \o y = b
  <2>1. Len(a) <= Len(x)
    BY <1>1
  <2> QED
    BY <2>1, CutTwice, ZenonT(40)
<1>3. SubSeq(x, 1, Len(x)) = x
  BY SubSeqFull
<1>4. SubSeq(x, Len(x) + 1, Len(x)) = <<>>
  BY <1>1, SubSeqEmpty
<1> QED
  BY <1>2, <1>3, <1>4, ConcatEmptySeq

(* The end of a buffer whose sizes are whole. *)
LEMMA EndWhole ==
    ASSUME NEW S, NEW b \in Seq(S), SizesWhole(b), NEW m \in 0..Len(b)
    PROVE  SizesWhole(SubSeq(b, m + 1, Len(b)))
<1> DEFINE e == SubSeq(b, m + 1, Len(b))
<1>1. /\ e \in Seq(S) /\ Len(e) = Len(b) - m /\ Len(b) \in Nat
      /\ \A i \in 1..(Len(b) - m) : e[i] = b[m + i]
  BY CutInTwo, LenProperties
<1> HIDE DEF e
<1>2. ASSUME e # <<>> PROVE e[Len(e)].at # -1
  <2>1. Len(e) \in Nat \ {0}
    BY <1>1, <1>2, EmptySeq
  <2>2. Len(e) \in 1..(Len(b) - m) /\ m + Len(e) = Len(b) /\ Len(b) # 0
    BY <1>1, <2>1
  <2>3. e[Len(e)] = b[Len(b)]
    BY <1>1, <2>2
  <2>4. b # <<>>
    BY <2>2, EmptySeq
  <2> QED
    BY <2>3, <2>4 DEF SizesWhole
<1> QED
  BY <1>2 DEF SizesWhole, e

-----------------------------------------------------------------------------
(* The steps. *)

(* What a step of the loop leaves alone. *)
LEMMA InputKept ==
    ASSUME FramingInv, UNCHANGED <<input, open>>, NEW v, Stream(v)
    PROVE  /\ sent' = sent /\ wire' = wire /\ Stream(v)'
           /\ sent' \in Seq(Sizes) /\ wire' \in Seq(Bytes) /\ open' \in BOOLEAN
BY DEF FramingInv, TypeOK, input, Stream

(* A packet is complete: it is the next one, and behind it the stream goes  *)
(* on.                                                                      *)
LEMMA CompletePreserves ==
    ASSUME FramingInv, NEW v, Stream(v), NEW f, f = Len(packets) + 1, f <= Len(sent),
           NEW used \in 0..Len(buf), SubSeq(buf, used + 1, Len(buf)) \o wire = v[f],
           Complete(Payload(f, sent[f]), used), status = "running", UNCHANGED <<input, open>>
    PROVE  FramingInv'
<1>1. /\ Len(sent) \in Nat /\ Len(packets) \in Nat /\ BufSize \in Nat /\ MaxSize \in Nat
      /\ \A i \in 1..Len(sent) : sent[i] \in 0..MaxSize /\ i \in 1..MaxSent
  BY StreamTypes DEF FramingInv
<1>2. f \in 1..Len(sent)
  BY <1>1
<1>3. f \in 1..MaxSent /\ sent[f] \in 0..MaxSize
  BY <1>1, <1>2
<1> DEFINE whole == Payload(f, sent[f])
           rest == SubSeq(buf, used + 1, Len(buf))
<1>4. whole \in Seq(Bytes)
  BY <1>3, PacketBytes
<1>5. buf \in Seq(Bytes) /\ packets \in Seq(Seq(Bytes)) /\ SizesWhole(buf)
  BY DEF FramingInv, TypeOK
<1>6. rest \in Seq(Bytes) /\ SizesWhole(rest)
  BY <1>5, CutInTwo, EndWhole
<1>7. /\ packets' = Append(packets, whole) /\ buf' = rest
      /\ packetSize' = 0 /\ packet' = <<>> /\ status' = status
  BY DEF Complete
<1> HIDE DEF whole, rest
<1>8. /\ packets' \in Seq(Seq(Bytes)) /\ Len(packets') = f
      /\ \A i \in 1..Len(packets) : packets'[i] = packets[i]
      /\ packets'[f] = whole
  BY <1>4, <1>5, <1>7, AppendProperties
<1>9. /\ sent' = sent /\ wire' = wire /\ Stream(v)'
      /\ sent' \in Seq(Sizes) /\ wire' \in Seq(Bytes) /\ open' \in BOOLEAN
  BY InputKept
<1>10. TypeOK' /\ status' # "crashed"
  <2>1. status' \in {"running", "ended", "crashed"} /\ status' # "crashed"
    BY <1>7
  <2>2. <<>> \in Seq(Bytes) /\ 0 \in 0..MaxSize
    BY <1>1
  <2> QED
    BY <1>6, <1>7, <1>8, <1>9, <2>1, <2>2 DEF TypeOK
<1>11. ParsedAsSent'
  <2>1. \A i \in 1..f : packets'[i] = Payload(i, sent[i])
    <3>1. ASSUME NEW i \in 1..f PROVE packets'[i] = Payload(i, sent[i])
      <4>1. CASE i = f
        BY <1>8, <4>1 DEF whole
      <4>2. CASE i # f
        <5>1. i \in 1..Len(packets)
          BY <1>1, <1>2, <4>2
        <5> QED
          BY <1>8, <5>1 DEF FramingInv, ParsedAsSent
      <4> QED
        BY <4>1, <4>2
    <3> QED
      BY <3>1
  <2>2. Len(sent) <= MaxSent
    BY DEF FramingInv, ParsedAsSent
  <2> QED
    BY <1>8, <1>9, <2>1, <2>2 DEF ParsedAsSent
<1>12. SizesWhole(buf')
  BY <1>6, <1>7
<1>13. InStep(v)'
  BY <1>7, <1>8, <1>9 DEF InStep, AtSize, rest
<1> QED
  BY <1>9, <1>10, <1>11, <1>12, <1>13 DEF FramingInv

(* What is left of the buffer is collected. *)
LEMMA CollectPreserves ==
    ASSUME FramingInv, NEW v, Stream(v), NEW f \in 1..Len(sent), f = Len(packets) + 1,
           NEW more \in Seq(Bytes), Len(packet \o more) < sent[f],
           packet \o (more \o wire) = Payload(f, sent[f]) \o v[f],
           packet' = packet \o more, buf' = <<>>, packetSize' = sent[f],
           status = "running", UNCHANGED <<packets, status, input, open>>
    PROVE  FramingInv'
<1>1. Len(sent) \in Nat /\ BufSize \in Nat /\ MaxSize \in Nat /\ sent[f] \in 0..MaxSize
  BY StreamTypes DEF FramingInv
<1>2. packet \in Seq(Bytes) /\ wire \in Seq(Bytes)
  BY DEF FramingInv, TypeOK
<1>3. /\ packet' = packet \o more /\ buf' = <<>> /\ packetSize' = sent[f]
      /\ packets' = packets /\ status' = status
  OBVIOUS
<1>4. /\ sent' = sent /\ wire' = wire /\ Stream(v)'
      /\ sent' \in Seq(Sizes) /\ wire' \in Seq(Bytes) /\ open' \in BOOLEAN
  BY InputKept
<1>5. packet \o more \in Seq(Bytes)
  BY <1>2, ConcatProperties
<1>6. TypeOK' /\ status' # "crashed"
  <2>1. status' \in {"running", "ended", "crashed"} /\ status' # "crashed"
    BY <1>3
  <2>2. <<>> \in Seq(Bytes) /\ sent[f] \in 0..MaxSize
    BY <1>1
  <2>3. packets' \in Seq(Seq(Bytes))
    BY <1>3 DEF FramingInv, TypeOK
  <2> QED
    BY <1>3, <1>4, <1>5, <2>1, <2>2, <2>3 DEF TypeOK
<1>7. ParsedAsSent'
  BY <1>3, <1>4 DEF FramingInv, ParsedAsSent
<1>8. SizesWhole(buf')
  BY <1>3 DEF SizesWhole
<1>9. (packet \o more) \o (<<>> \o wire) = Payload(f, sent[f]) \o v[f]
  <2>1. <<>> \o wire = wire
    BY <1>2, ConcatEmptySeq
  <2>2. (packet \o more) \o wire = packet \o (more \o wire)
    <3>1. PICK p \in Seq(Bytes), q \in Seq(Bytes), r \in Seq(Bytes) :
             p = packet /\ q = more /\ r = wire
      BY <1>2
    <3>2. (p \o q) \o r = p \o (q \o r)
      BY Regroup
    <3> QED
      BY <3>1, <3>2, Zenon
  <2> QED
    BY <2>1, <2>2
<1>10. Collecting(v, f)'
  <2>1. packet' \o (buf' \o wire') = Payload(f, sent'[f]) \o v[f]
    BY <1>3, <1>4, <1>9, Zenon
  <2>2. Len(packet') < sent'[f] /\ packetSize' = sent'[f]
    BY <1>3, <1>4
  <2>3. f = Len(packets') + 1 /\ f <= Len(sent')
    BY <1>1, <1>3, <1>4
  <2> QED
    BY <2>1, <2>2, <2>3 DEF Collecting
<1>11. InStep(v)'
  BY <1>1, <1>3, <1>4, <1>10 DEF InStep
<1> QED
  BY <1>4, <1>6, <1>7, <1>8, <1>11 DEF FramingInv

(* rtp_packet is overrun: the packet that is being collected is too long.   *)
LEMMA CrashPreserves ==
    ASSUME FramingInv, Crash, packetSize > BufSize, UNCHANGED <<input, open>>
    PROVE  FramingInv'
<1>1. /\ UNCHANGED <<sent, wire, buf, packetSize, packet, packets, open>>
      /\ status' = "crashed"
  BY DEF Crash, input
<1> QED
  BY <1>1 DEF FramingInv, TypeOK, ParsedAsSent, SizesWhole, Stream, InStep, AtSize, Collecting

(* The packet was begun by an earlier recv: the buffer holds the rest of    *)
(* it, or a part of the rest.                                               *)
LEMMA FillPacketPreserves ==
    ASSUME FramingInv, FillPacket
    PROVE  FramingInv'
<1>1. PICK v : Stream(v) /\ InStep(v)
  BY DEF FramingInv
<1>2. packetSize > 0 /\ buf # <<>> /\ status = "running" /\ UNCHANGED <<input, open>>
  BY DEF FillPacket
<1>3. PICK f \in 1..Len(sent) : Collecting(v, f)
  BY <1>1, <1>2 DEF InStep, FramingInv, TypeOK
<1>4. /\ f = Len(packets) + 1 /\ f <= Len(sent) /\ packetSize = sent[f]
      /\ Len(packet) < sent[f]
      /\ packet \o (buf \o wire) = Payload(f, sent[f]) \o v[f]
  BY <1>3 DEF Collecting
<1>5. /\ Len(sent) \in Nat /\ Len(packets) \in Nat /\ BufSize \in Nat /\ MaxSize \in Nat
      /\ sent[f] \in 0..MaxSize /\ f \in 1..MaxSent /\ v[f] \in Seq(Bytes)
  BY <1>1, StreamTypes DEF FramingInv
<1>6. /\ buf \in Seq(Bytes) /\ packet \in Seq(Bytes) /\ wire \in Seq(Bytes)
      /\ Len(buf) \in Nat /\ Len(packet) \in Nat
  BY LenProperties DEF FramingInv, TypeOK
<1>7. /\ Payload(f, sent[f]) \in Seq(Bytes) /\ Len(Payload(f, sent[f])) = sent[f]
  <2>1. sent[f] \in 0..MaxSize
    BY <1>5
  <2> QED
    BY <1>5, <2>1, PacketBytes
<1>8. PICK m \in Nat : m = Missing /\ m = sent[f] - Len(packet)
  BY <1>4, <1>5, <1>6 DEF Missing
<1>9. CASE Len(buf) >= m /\ ~(packetSize > BufSize)
  <2>0. m \in 0..Len(buf)
    BY <1>6, <1>9
  <2> DEFINE first == SubSeq(buf, 1, m)
             rest == SubSeq(buf, m + 1, Len(buf))
  <2>1. /\ first \in Seq(Bytes) /\ Len(first) = m /\ rest \in Seq(Bytes)
        /\ buf = first \o rest
    BY <1>6, <2>0, CutInTwo, ZenonT(40)
  <2>2. Complete(packet \o first, m)
    <3>1. Len(buf) >= Missing
      BY <1>8, <1>9
    <3> QED
      BY <1>8, <1>9, <3>1 DEF FillPacket
  <2> HIDE DEF first, rest
  <2>3. (packet \o first) \o (rest \o wire) = Payload(f, sent[f]) \o v[f]
    <3>1. (first \o rest) \o wire = first \o (rest \o wire)
      <4>1. PICK p \in Seq(Bytes), q \in Seq(Bytes), r \in Seq(Bytes) :
               p = first /\ q = rest /\ r = wire
        BY <1>6, <2>1
      <4>2. (p \o q) \o r = p \o (q \o r)
        BY Regroup
      <4> QED
        BY <4>1, <4>2, Zenon
    <3>2. (packet \o first) \o (rest \o wire) = packet \o (first \o (rest \o wire))
      <4>0. rest \o wire \in Seq(Bytes)
        BY <1>6, <2>1, ConcatProperties
      <4>1. PICK p \in Seq(Bytes), q \in Seq(Bytes), r \in Seq(Bytes) :
               p = packet /\ q = first /\ r = rest \o wire
        BY <1>6, <2>1, <4>0, Zenon
      <4>2. (p \o q) \o r = p \o (q \o r)
        BY Regroup
      <4> QED
        BY <4>1, <4>2, Zenon
    <3> QED
      BY <1>4, <2>1, <3>1, <3>2, Zenon
  <2>4. packet \o first = Payload(f, sent[f]) /\ rest \o wire = v[f]
    <3>1. /\ packet \o first \in Seq(Bytes) /\ rest \o wire \in Seq(Bytes)
          /\ Len(packet \o first) = Len(packet) + m
      BY <1>6, <2>1, ConcatProperties
    <3>2. Len(packet) + m = sent[f]
      BY <1>5, <1>6, <1>8
    <3> QED
      BY <1>5, <1>7, <2>3, <3>1, <3>2, CutEvenly
  <2> QED
    BY <1>1, <1>2, <1>4, <2>0, <2>2, <2>4, CompletePreserves DEF rest
<1>10. CASE ~(Len(buf) >= m) /\ ~(Len(packet) + Len(buf) > BufSize)
  <2>1. SubSeq(buf, 0 + 1, Len(buf)) = buf
    BY <1>6, SubSeqFull
  <2>2. Len(packet \o buf) = Len(packet) + Len(buf)
    BY <1>6, ConcatProperties
  <2>3. Len(packet) + Len(buf) < sent[f]
    BY <1>5, <1>6, <1>8, <1>10
  <2>4. /\ packet' = packet \o buf /\ buf' = <<>> /\ packetSize' = sent[f]
        /\ UNCHANGED <<packets, status>>
    <3>1. ~(Len(buf) >= Missing)
      BY <1>8, <1>10
    <3> QED
      BY <1>4, <1>10, <2>1, <3>1 DEF FillPacket, Collect
  <2>5. Len(packet \o buf) < sent[f]
    BY <2>2, <2>3
  <2> QED
    BY <1>1, <1>2, <1>4, <1>6, <2>4, <2>5, CollectPreserves
<1>11. CASE Len(buf) >= m /\ packetSize > BufSize
  <2>1. Crash
    BY <1>8, <1>11 DEF FillPacket
  <2> QED
    BY <1>2, <1>11, <2>1, CrashPreserves
<1>12. CASE ~(Len(buf) >= m) /\ Len(packet) + Len(buf) > BufSize
  <2>1. Crash
    BY <1>8, <1>12 DEF FillPacket
  <2>2. packetSize > BufSize
    BY <1>4, <1>5, <1>6, <1>8, <1>12
  <2> QED
    BY <1>2, <2>1, <2>2, CrashPreserves
<1> QED
  BY <1>9, <1>10, <1>11, <1>12

(* A packet starts: the buffer starts with its size.                        *)
LEMMA StartPacketPreserves ==
    ASSUME FramingInv, StartPacket
    PROVE  FramingInv'
<1>1. PICK v : Stream(v) /\ InStep(v)
  BY DEF FramingInv
<1>2. /\ packetSize = 0 /\ Len(buf) > 1 /\ status = "running"
      /\ UNCHANGED <<input, open>>
  BY DEF StartPacket
<1>3. packet = <<>> /\ buf \o wire = v[Len(packets)]
  BY <1>1, <1>2 DEF InStep, AtSize
<1>4. /\ Len(sent) \in Nat /\ Len(packets) \in Nat /\ BufSize \in Nat /\ MaxSize \in Nat /\ MaxSent \in Nat
      /\ \A f \in 1..Len(sent) : /\ sent[f] \in 0..MaxSize /\ f \in 1..MaxSent
                                 /\ v[f] \in Seq(Bytes) /\ v[f - 1] \in Seq(Bytes)
                                 /\ v[f - 1] = OnWire(f, sent[f]) \o v[f]
      /\ v[Len(sent)] = <<>>
  BY <1>1, StreamTypes DEF FramingInv
<1>5. /\ buf \in Seq(Bytes) /\ wire \in Seq(Bytes) /\ Len(buf) \in Nat /\ Len(wire) \in Nat
  BY LenProperties DEF FramingInv, TypeOK
<1>6. PICK f \in Nat : f = Len(packets) + 1
  BY <1>4
<1>7. f \in 1..Len(sent)
  <2>1. Len(packets) <= Len(sent)
    BY DEF FramingInv, ParsedAsSent
  <2>2. Len(buf \o wire) # 0
    BY <1>2, <1>5, ConcatProperties
  <2>3. Len(packets) # Len(sent)
    BY <1>3, <1>4, <2>2, EmptySeq
  <2> QED
    BY <1>4, <1>6, <2>1, <2>3
<1> DEFINE whole == Payload(f, sent[f])
           first == SubSeq(buf, 1, 2)
           rest == SubSeq(buf, 3, Len(buf))
<1>8. PICK size \in 0..MaxSize : size = sent[f]
  BY <1>4, <1>7
<1>9. /\ Prefix(f) \in Seq(Bytes) /\ Len(Prefix(f)) = 2
      /\ whole \in Seq(Bytes) /\ Len(whole) = size
      /\ OnWire(f, size) = Prefix(f) \o whole
      /\ v[f] \in Seq(Bytes)
  <2>1. f \in 1..MaxSent /\ size \in 0..MaxSize /\ v[f] \in Seq(Bytes)
    <3>1. f \in 1..MaxSent /\ v[f] \in Seq(Bytes)
      BY <1>4, <1>7, Zenon
    <3>2. size \in 0..MaxSize
      BY <1>4
    <3> QED
      BY <3>1, <3>2
  <2>2. /\ Prefix(f) \in Seq(Bytes) /\ Len(Prefix(f)) = 2
        /\ Payload(f, size) \in Seq(Bytes) /\ Len(Payload(f, size)) = size
        /\ OnWire(f, size) = Prefix(f) \o Payload(f, size)
    BY <2>1, PacketBytes, Zenon
  <2> QED
    BY <1>8, <2>1, <2>2 DEF whole
<1>10. /\ first \in Seq(Bytes) /\ Len(first) = 2 /\ rest \in Seq(Bytes)
       /\ Len(rest) = Len(buf) - 2 /\ buf = first \o rest
       /\ \A i \in 1..2 : first[i] = buf[i]
  <2>1. PICK m \in 0..Len(buf) : m = 2
    BY <1>2, <1>5
  <2>2. /\ SubSeq(buf, 1, m) \in Seq(Bytes) /\ Len(SubSeq(buf, 1, m)) = m
        /\ SubSeq(buf, m + 1, Len(buf)) \in Seq(Bytes)
        /\ Len(SubSeq(buf, m + 1, Len(buf))) = Len(buf) - m
        /\ buf = SubSeq(buf, 1, m) \o SubSeq(buf, m + 1, Len(buf))
        /\ \A i \in 1..m : SubSeq(buf, 1, m)[i] = buf[i]
    BY <1>5, CutInTwo, ZenonT(40)
  <2>3. m + 1 = 3
    BY <2>1
  <2> QED
    BY <2>1, <2>2, <2>3
<1> HIDE DEF whole, first, rest
<1>11. first \o (rest \o wire) = Prefix(f) \o (whole \o v[f])
  <2>1. (first \o rest) \o wire = (Prefix(f) \o whole) \o v[f]
    <3>1. f - 1 = Len(packets)
      BY <1>4, <1>6
    <3>2. buf \o wire = OnWire(f, size) \o v[f]
      BY <1>3, <1>4, <1>7, <1>8, <3>1
    <3> QED
      BY <1>9, <1>10, <3>2, Zenon
  <2>2. PICK a \in Seq(Bytes), b \in Seq(Bytes), w \in Seq(Bytes) :
           a = first /\ b = rest /\ w = wire
    BY <1>5, <1>10
  <2>3. PICK p \in Seq(Bytes), q \in Seq(Bytes), r \in Seq(Bytes) :
           p = Prefix(f) /\ q = whole /\ r = v[f]
    BY <1>9, Zenon
  <2>4. (a \o b) \o w = a \o (b \o w)
    BY Regroup, SMTT(40)
  <2>5. (p \o q) \o r = p \o (q \o r)
    BY Regroup, SMTT(40)
  <2> QED
    BY <2>1, <2>2, <2>3, <2>4, <2>5, Zenon
<1>12. rest \o wire \in Seq(Bytes) /\ whole \o v[f] \in Seq(Bytes)
  BY <1>5, <1>9, <1>10, ConcatProperties
<1>13. first = Prefix(f) /\ rest \o wire = whole \o v[f]
  <2>1. PICK a \in Seq(Bytes), b \in Seq(Bytes), p \in Seq(Bytes), r \in Seq(Bytes) :
           a = first /\ b = rest \o wire /\ p = Prefix(f) /\ r = whole \o v[f]
    BY <1>9, <1>10, <1>12, Zenon
  <2>2. a \o b = p \o r /\ Len(p) = Len(a)
    BY <1>9, <1>10, <1>11, <2>1, Zenon
  <2>3. a = p /\ b = r
    BY <2>2, CutEvenly
  <2> QED
    BY <2>1, <2>3
<1>14. SizeRead = {size}
  <2>1. buf[1] = Prefix(f)[1] /\ buf[2] = Prefix(f)[2]
    BY <1>10, <1>13
  <2>2. buf[1] = Byte(f, -1) /\ buf[2] = Byte(f, 0)
    BY <2>1 DEF Prefix
  <2>3. buf[1].at = -1 /\ buf[1].frame = f
    BY <2>2 DEF Byte
  <2> QED
    BY <1>2, <1>8, <2>2, <2>3 DEF SizeRead
<1>15. IF Len(buf) - 2 >= size
       THEN Complete(SubSeq(buf, 3, size + 2), size + 2)
       ELSE Collect(size, 2)
  BY <1>14 DEF StartPacket
<1>16. CASE Len(buf) - 2 >= size
  <2>1. PICK used \in 0..Len(buf) : used = size + 2
    BY <1>5, <1>16
  <2> DEFINE got == SubSeq(buf, 3, used)
             left == SubSeq(buf, used + 1, Len(buf))
  <2>2. /\ got \in Seq(Bytes) /\ Len(got) = size /\ left \in Seq(Bytes)
        /\ rest = got \o left
    <3>1. \A i \in 3..used : buf[i] \in Bytes
      <4>1. \A i \in 3..used : i \in 1..Len(buf)
        BY <1>5, <2>1
      <4> QED
        BY <1>5, <4>1, ElementOfSeq
    <3>2. 3 \in Int /\ used \in Int
      BY <1>5, <2>1
    <3>3. got \in Seq(Bytes) /\ Len(got) = IF 3 <= used THEN used - 3 + 1 ELSE 0
      BY <3>1, <3>2, SubSeqProperties
    <3>4. left \in Seq(Bytes)
      BY <1>5, CutInTwo
    <3>5. rest = got \o left
      <4>1. 3 \in 1..(Len(buf) + 1) /\ used \in (3 - 1)..Len(buf) /\ Len(buf) \in used..Len(buf)
        BY <1>2, <1>5, <1>8, <2>1
      <4>2. SubSeq(buf, 3, used) \o SubSeq(buf, used + 1, Len(buf)) = SubSeq(buf, 3, Len(buf))
        BY <1>5, <4>1, ConcatAdjacentSubSeq
      <4> QED
        BY <4>2 DEF rest
    <3>6. Len(got) = size
      BY <1>8, <2>1, <3>3
    <3> QED
      BY <3>3, <3>4, <3>5, <3>6, Zenon
  <2>3. Complete(got, used)
    BY <1>15, <1>16, <2>1
  <2> HIDE DEF got, left
  <2>4. got \o (left \o wire) = whole \o v[f]
    <3>1. PICK a \in Seq(Bytes), b \in Seq(Bytes), w \in Seq(Bytes) :
             a = got /\ b = left /\ w = wire
      BY <1>5, <2>2
    <3>2. (a \o b) \o w = a \o (b \o w)
      BY Regroup, SMTT(40)
    <3> QED
      BY <1>13, <2>2, <3>1, <3>2, Zenon
  <2>5. left \o wire \in Seq(Bytes)
    BY <1>5, <2>2, ConcatProperties
  <2>6. got = whole /\ left \o wire = v[f]
    BY <1>9, <2>2, <2>4, <2>5, CutEvenly
  <2>7. f <= Len(sent)
    BY <1>7
  <2> QED
    BY <1>1, <1>2, <1>6, <2>1, <2>3, <2>6, <2>7, CompletePreserves DEF left, whole
<1>17. CASE ~(Len(buf) - 2 >= size)
  <2>1. /\ packet' = packet \o rest /\ buf' = <<>> /\ packetSize' = size
        /\ UNCHANGED <<packets, status>>
    <3>1. 2 + 1 = 3
      OBVIOUS
    <3> QED
      BY <1>15, <1>17, <3>1 DEF Collect, rest
  <2>2. packet \o rest = rest
    BY <1>3, <1>10, ConcatEmptySeq
  <2>3. packet \o (rest \o wire) = whole \o v[f]
    BY <1>3, <1>12, <1>13, ConcatEmptySeq
  <2>4. Len(packet \o rest) < size
    BY <1>5, <1>10, <1>17, <2>2
  <2> QED
    BY <1>1, <1>2, <1>6, <1>7, <1>8, <1>10, <2>1, <2>3, <2>4, CollectPreserves DEF whole
<1> QED
  BY <1>16, <1>17

(* One byte alone in the buffer where a size is due would be the first of   *)
(* the two: no recv ends there.                                             *)
LEMMA NoSizeCut ==
    ASSUME FramingInv
    PROVE  ~StartFromOneByte
<1>1. SUFFICES ASSUME packetSize = 0, Len(buf) = 1 PROVE FALSE
  BY DEF StartFromOneByte
<1>2. PICK v : Stream(v) /\ InStep(v)
  BY DEF FramingInv
<1>3. buf \o wire = v[Len(packets)]
  BY <1>1, <1>2 DEF InStep, AtSize
<1>4. /\ Len(sent) \in Nat /\ Len(packets) \in Nat /\ BufSize \in Nat /\ MaxSize \in Nat
      /\ \A f \in 1..Len(sent) : /\ sent[f] \in 0..MaxSize /\ f \in 1..MaxSent
                                 /\ v[f] \in Seq(Bytes) /\ v[f - 1] \in Seq(Bytes)
                                 /\ v[f - 1] = OnWire(f, sent[f]) \o v[f]
      /\ v[Len(sent)] = <<>>
  BY <1>2, StreamTypes DEF FramingInv
<1>5. buf \in Seq(Bytes) /\ wire \in Seq(Bytes) /\ Len(wire) \in Nat
  BY LenProperties DEF FramingInv, TypeOK
<1>6. Len(buf \o wire) = 1 + Len(wire) /\ (buf \o wire)[1] = buf[1]
  <2>1. PICK b \in Seq(Bytes), w \in Seq(Bytes) : b = buf /\ w = wire
    BY <1>5
  <2>2. /\ Len(b \o w) = Len(b) + Len(w) /\ Len(b) = 1
        /\ \A i \in 1..(Len(b) + Len(w)) : (b \o w)[i] = IF i <= Len(b) THEN b[i]
                                                        ELSE w[i - Len(b)]
    BY <1>1, <2>1, ConcatProperties
  <2>3. 1 \in 1..(Len(b) + Len(w)) /\ 1 <= Len(b)
    BY <1>5, <2>1, <2>2
  <2>4. (b \o w)[1] = b[1]
    BY <2>2, <2>3
  <2> QED
    BY <1>5, <2>1, <2>2, <2>4
<1>7. PICK f \in Nat : f = Len(packets) + 1
  BY <1>4
<1>8. f \in 1..Len(sent)
  <2>1. Len(packets) <= Len(sent)
    BY DEF FramingInv, ParsedAsSent
  <2>2. Len(packets) # Len(sent)
    BY <1>3, <1>4, <1>5, <1>6, EmptySeq
  <2> QED
    BY <1>4, <1>7, <2>1, <2>2
<1>9. f \in 1..MaxSent /\ v[f] \in Seq(Bytes) /\ sent[f] \in 0..MaxSize
  BY <1>4, <1>8, Zenon
<1>10. PICK o \in Seq(Bytes) : o = OnWire(f, sent[f]) /\ Len(o) > 1
  <2>1. sent[f] \in 0..MaxSize
    BY <1>4, <1>9
  <2>2. OnWire(f, sent[f]) \in Seq(Bytes) /\ Len(OnWire(f, sent[f])) = sent[f] + 2
    BY <1>9, <2>1, PacketBytes, Zenon
  <2> QED
    BY <1>4, <1>9, <2>2
<1>11. buf[1] = o[1]
  <2>1. buf \o wire = o \o v[f]
    <3>1. f - 1 = Len(packets)
      BY <1>4, <1>7
    <3>2. v[f - 1] = OnWire(f, sent[f]) \o v[f]
      BY <1>4, <1>8, Zenon
    <3> QED
      BY <1>3, <1>10, <3>1, <3>2, Zenon
  <2>2. (o \o v[f])[1] = o[1]
    <3>1. PICK r \in Seq(Bytes) : r = v[f]
      BY <1>9
    <3>2. Len(o) \in Nat /\ Len(r) \in Nat
      BY LenProperties
    <3>3. \A i \in 1..(Len(o) + Len(r)) : (o \o r)[i] = IF i <= Len(o) THEN o[i]
                                                        ELSE r[i - Len(o)]
      BY ConcatProperties
    <3>4. 1 \in 1..(Len(o) + Len(r)) /\ 1 <= Len(o)
      BY <1>10, <3>2
    <3>5. (o \o r)[1] = o[1]
      BY <3>3, <3>4
    <3> QED
      BY <3>1, <3>5
  <2> QED
    BY <1>6, <2>1, <2>2
<1>12. o[1] = Byte(f, -1)
  BY <1>10 DEF OnWire, Payload
<1>13. buf[1].at = -1
  BY <1>11, <1>12 DEF Byte
<1>14. buf # <<>>
  BY <1>1, <1>5, EmptySeq
<1> QED
  BY <1>1, <1>13, <1>14 DEF FramingInv, SizesWhole

(* The camera sends: every stream goes on with the new packet.              *)
LEMMA SendPreserves ==
    ASSUME FramingInv, NEW size \in Sizes, Send(size)
    PROVE  FramingInv'
<1>1. PICK v : Stream(v) /\ InStep(v)
  BY DEF FramingInv
<1>2. /\ Len(sent) \in Nat /\ Len(packets) \in Nat /\ MaxSent \in Nat /\ BufSize \in Nat /\ MaxSize \in Nat
      /\ \A f \in 1..Len(sent) : /\ sent[f] \in 0..MaxSize /\ f \in 1..MaxSent
                                 /\ v[f] \in Seq(Bytes) /\ v[f - 1] \in Seq(Bytes)
                                 /\ v[f - 1] = OnWire(f, sent[f]) \o v[f]
      /\ v[Len(sent)] = <<>>
  BY <1>1, StreamTypes DEF FramingInv
<1>3. PICK n \in Nat, n1 \in Nat : n = Len(sent) /\ n1 = n + 1
  BY <1>2
<1>4. /\ n < MaxSent /\ sent' = Append(sent, size) /\ wire' = wire \o OnWire(n1, size)
      /\ UNCHANGED <<buf, packetSize, packet, packets, open, status>>
  BY <1>3 DEF Send
<1>5. n1 \in 1..MaxSent /\ size \in 0..MaxSize
  BY <1>2, <1>3, <1>4, FramingAssumption
<1>6. PICK more \in Seq(Bytes) : more = OnWire(n1, size)
  BY <1>5, PacketBytes, Zenon
<1>7. /\ wire \in Seq(Bytes) /\ buf \in Seq(Bytes) /\ packet \in Seq(Bytes)
      /\ sent \in Seq(Sizes)
  BY DEF FramingInv, TypeOK
<1>8. wire' = wire \o more /\ wire' \in Seq(Bytes)
  BY <1>4, <1>6, <1>7, ConcatProperties
<1>9. /\ sent' \in Seq(Sizes) /\ Len(sent') = n1 /\ sent'[n1] = size
      /\ \A f \in 1..n : sent'[f] = sent[f]
  BY <1>3, <1>4, <1>7, AppendProperties
<1> DEFINE w == [f \in 0..n1 |-> IF f = n1 THEN <<>> ELSE v[f] \o more]
<1>10. v \in [0..n -> Seq(Bytes)]
  BY <1>1, <1>3 DEF Stream
<1>11. /\ w \in [0..n1 -> Seq(Bytes)] /\ w[n1] = <<>>
       /\ \A f \in 0..n : w[f] = v[f] \o more
  <2>1. \A f \in 0..n : v[f] \o more \in Seq(Bytes)
    BY <1>10, ConcatProperties
  <2>2. <<>> \in Seq(Bytes)
    BY EmptySeq
  <2> QED
    BY <1>3, <2>1, <2>2
<1> HIDE DEF w
<1>12. ASSUME NEW f \in 1..n1 PROVE w[f - 1] = OnWire(f, sent'[f]) \o w[f]
  <2>1. CASE f = n1
    <3>1. f - 1 = n /\ n \in 0..n
      BY <1>3, <2>1
    <3>2. w[f - 1] = <<>> \o more
      BY <1>2, <1>3, <1>11, <3>1
    <3>3. <<>> \o more = more /\ more \o <<>> = more
      BY ConcatEmptySeq
    <3> QED
      BY <1>6, <1>9, <1>11, <2>1, <3>2, <3>3
  <2>2. CASE f # n1
    <3>1. f \in 1..n /\ f \in 0..n /\ f - 1 \in 0..n
      BY <1>3, <2>2
    <3>2. /\ v[f - 1] = OnWire(f, sent[f]) \o v[f] /\ v[f] \in Seq(Bytes)
          /\ sent[f] \in 0..MaxSize /\ f \in 1..MaxSent
      BY <1>2, <1>3, <3>1, Zenon
    <3>3. PICK o \in Seq(Bytes) : o = OnWire(f, sent[f])
      <4>1. sent[f] \in 0..MaxSize
        BY <1>2, <3>2
      <4> QED
        BY <3>2, <4>1, PacketBytes, Zenon
    <3>4. (o \o v[f]) \o more = o \o (v[f] \o more)
      <4>1. PICK q \in Seq(Bytes) : q = v[f]
        BY <3>2
      <4>2. (o \o q) \o more = o \o (q \o more)
        BY Regroup
      <4> QED
        BY <4>1, <4>2, Zenon
    <3>5. w[f - 1] = v[f - 1] \o more /\ w[f] = v[f] \o more
      BY <1>11, <3>1, Zenon
    <3> QED
      BY <1>9, <3>1, <3>2, <3>3, <3>4, <3>5, Zenon
  <2> QED
    BY <2>1, <2>2
<1>13. Stream(w)'
  BY <1>9, <1>11, <1>12 DEF Stream
<1>14. Len(packets) \in 0..n
  BY <1>2, <1>3 DEF FramingInv, ParsedAsSent
<1>15. InStep(w)'
  <2>1. CASE packetSize = 0
    <3>1. packet = <<>> /\ buf \o wire = v[Len(packets)]
      BY <1>1, <2>1 DEF InStep, AtSize
    <3>2. buf \o (wire \o more) = v[Len(packets)] \o more
      <4>1. (buf \o wire) \o more = buf \o (wire \o more)
        <5>1. PICK p \in Seq(Bytes), q \in Seq(Bytes) : p = buf /\ q = wire
          BY <1>7
        <5>2. (p \o q) \o more = p \o (q \o more)
          BY Regroup
        <5> QED
          BY <5>1, <5>2, Zenon
      <4> QED
        BY <3>1, <4>1, Zenon
    <3>3. buf' \o wire' = w[Len(packets')]
      BY <1>4, <1>8, <1>11, <1>14, <3>2, Zenon
    <3>4. packet' = <<>> /\ packetSize' = 0
      BY <1>4, <2>1, <3>1
    <3> QED
      BY <3>3, <3>4 DEF InStep, AtSize
  <2>2. CASE packetSize # 0
    <3>1. PICK f \in 1..Len(sent) : Collecting(v, f)
      BY <1>1, <2>2 DEF InStep
    <3>2. /\ f = Len(packets) + 1 /\ f <= Len(sent) /\ packetSize = sent[f]
          /\ Len(packet) < packetSize
          /\ packet \o (buf \o wire) = Payload(f, sent[f]) \o v[f]
      BY <3>1 DEF Collecting
    <3>3. f \in 1..n /\ f \in 0..n /\ f \in 1..n1 /\ f <= n1
      BY <1>3
    <3>4. /\ v[f] \in Seq(Bytes) /\ sent[f] \in 0..MaxSize /\ f \in 1..MaxSent
      BY <1>2, <3>1, Zenon
    <3>5. PICK p \in Seq(Bytes) : p = Payload(f, sent[f])
      <4>1. sent[f] \in 0..MaxSize
        BY <1>2, <3>4
      <4> QED
        BY <3>4, <4>1, PacketBytes, Zenon
    <3>6. packet \o (buf \o (wire \o more)) = Payload(f, sent[f]) \o (v[f] \o more)
      <4>1. packet \o ((buf \o wire) \o more) = (packet \o (buf \o wire)) \o more
        <5>0. buf \o wire \in Seq(Bytes)
          BY <1>7, ConcatProperties
        <5>1. PICK a \in Seq(Bytes), b \in Seq(Bytes) : a = packet /\ b = buf \o wire
          BY <1>7, <5>0, Zenon
        <5>2. (a \o b) \o more = a \o (b \o more)
          BY Regroup
        <5> QED
          BY <5>1, <5>2, Zenon
      <4>2. (buf \o wire) \o more = buf \o (wire \o more)
        <5>1. PICK a \in Seq(Bytes), b \in Seq(Bytes) : a = buf /\ b = wire
          BY <1>7
        <5>2. (a \o b) \o more = a \o (b \o more)
          BY Regroup
        <5> QED
          BY <5>1, <5>2, Zenon
      <4>3. (p \o v[f]) \o more = p \o (v[f] \o more)
        <5>1. PICK b \in Seq(Bytes) : b = v[f]
          BY <3>4
        <5>2. (p \o b) \o more = p \o (b \o more)
          BY Regroup
        <5> QED
          BY <5>1, <5>2, Zenon
      <4> QED
        BY <3>2, <3>5, <4>1, <4>2, <4>3, Zenon
    <3>7. /\ packet' \o (buf' \o wire') = Payload(f, sent'[f]) \o w[f]
          /\ packetSize' = sent'[f] /\ sent'[f] = sent[f] /\ w[f] = v[f] \o more
      BY <1>4, <1>8, <1>9, <1>11, <3>2, <3>3, <3>6, Zenon
    <3>8. f = Len(packets') + 1 /\ f <= Len(sent') /\ Len(packet') < packetSize'
      BY <1>4, <1>9, <3>2, <3>3
    <3>9. Collecting(w, f)'
      BY <3>7, <3>8 DEF Collecting
    <3>10. packetSize' # 0 /\ f \in 1..Len(sent')
      BY <1>4, <1>9, <2>2, <3>3
    <3> QED
      BY <3>9, <3>10 DEF InStep
  <2> QED
    BY <2>1, <2>2
<1>16. ParsedAsSent'
  <2>1. packets' = packets /\ Len(packets') <= Len(sent') /\ Len(sent') <= MaxSent
    BY <1>2, <1>3, <1>4, <1>9, <1>14
  <2>2. ASSUME NEW f \in 1..Len(packets) PROVE packets[f] = Payload(f, sent'[f])
    <3>1. f \in 1..n
      BY <1>14
    <3> QED
      BY <1>9, <3>1 DEF FramingInv, ParsedAsSent
  <2> QED
    BY <2>1, <2>2 DEF ParsedAsSent
<1>17. TypeOK' /\ (status = "crashed" => packetSize > BufSize)' /\ SizesWhole(buf)'
  BY <1>4, <1>8, <1>9 DEF FramingInv, TypeOK, SizesWhole
<1> QED
  BY <1>13, <1>15, <1>16, <1>17 DEF FramingInv

(* recv moves the beginning of the wire into the empty buffer.              *)
LEMMA RecvPreserves ==
    ASSUME ~SplitPrefix, FramingInv, NEW n \in 1..BufSize, Recv(n)
    PROVE  FramingInv'
<1>1. PICK v : Stream(v) /\ InStep(v)
  BY DEF FramingInv
<1>2. wire \in Seq(Bytes) /\ BufSize \in Nat /\ MaxSize \in Nat /\ Len(wire) \in Nat
  BY FramingAssumption, LenProperties DEF FramingInv, TypeOK
<1>3. /\ buf = <<>> /\ n \in 1..Len(wire) /\ wire[n].at # -1
      /\ buf' = SubSeq(wire, 1, n) /\ wire' = SubSeq(wire, n + 1, Len(wire))
      /\ UNCHANGED <<sent, packetSize, packet, packets, open, status>>
  BY DEF Recv
<1>4. n \in 0..Len(wire)
  BY <1>2, <1>3
<1>5. /\ buf' \in Seq(Bytes) /\ wire' \in Seq(Bytes) /\ Len(buf') = n
      /\ wire = buf' \o wire' /\ \A i \in 1..n : buf'[i] = wire[i]
  BY <1>2, <1>3, <1>4, CutInTwo, Zenon
<1>6. buf' \o wire' = buf \o wire
  BY <1>2, <1>3, <1>5, ConcatEmptySeq
<1>7. SizesWhole(buf)'
  <2>1. n \in 1..n
    BY <1>2
  <2> QED
    BY <1>3, <1>5, <2>1 DEF SizesWhole
<1>8. TypeOK' /\ (status = "crashed" => packetSize > BufSize)' /\ ParsedAsSent'
  BY <1>3, <1>5 DEF FramingInv, TypeOK, ParsedAsSent
<1>9. Stream(v)'
  BY <1>1, <1>3 DEF Stream
<1>10. InStep(v)'
  BY <1>1, <1>3, <1>6 DEF InStep, AtSize, Collecting
<1> QED
  BY <1>7, <1>8, <1>9, <1>10 DEF FramingInv

(* Every step keeps the invariant; one byte alone is never met. *)
LEMMA FramingStep ==
    ASSUME ~SplitPrefix, FramingInv, [Next]_vars
    PROVE  FramingInv'
<1>1. ASSUME UNCHANGED <<sent, wire, buf, packetSize, packet, packets>>,
             status' \in {status, "ended"}, open' \in BOOLEAN
      PROVE  FramingInv'
  BY <1>1 DEF FramingInv, TypeOK, ParsedAsSent, SizesWhole, Stream, InStep, AtSize, Collecting
<1>2. CASE \E size \in Sizes : Send(size)
  BY <1>2, SendPreserves
<1>3. CASE \E n \in 1..BufSize : Recv(n)
  BY <1>3, RecvPreserves
<1>4. CASE RecvError
  <2>1. open \in BOOLEAN
    BY DEF FramingInv, TypeOK
  <2> QED
    BY <1>1, <1>4, <2>1 DEF RecvError, input
<1>5. CASE Stop
  BY <1>1, <1>5 DEF Stop, input
<1>6. CASE Loop
  BY <1>6, FillPacketPreserves, StartPacketPreserves, NoSizeCut DEF Loop
<1>7. CASE UNCHANGED vars
  <2>1. open \in BOOLEAN
    BY DEF FramingInv, TypeOK
  <2> QED
    BY <1>1, <1>7, <2>1 DEF vars, input
<1> QED
  BY <1>2, <1>3, <1>4, <1>5, <1>6, <1>7 DEF Next

(* Before the first packet every stream is empty. *)
LEMMA FramingInit == Init => FramingInv
<1>1. SUFFICES ASSUME Init PROVE FramingInv
  OBVIOUS
<1>2. /\ sent = <<>> /\ wire = <<>> /\ buf = <<>> /\ packetSize = 0 /\ packet = <<>>
      /\ packets = <<>> /\ open = TRUE /\ status = "running"
  BY <1>1 DEF Init
<1>3. BufSize \in Nat /\ MaxSize \in Nat /\ MaxSent \in Nat
  BY FramingAssumption
<1>4. TypeOK
  <2>1. sent \in Seq(Sizes) /\ packets \in Seq(Seq(Bytes))
    BY <1>2
  <2>2. wire \in Seq(Bytes) /\ buf \in Seq(Bytes) /\ packet \in Seq(Bytes)
    BY <1>2
  <2> QED
    BY <1>2, <1>3, <2>1, <2>2 DEF TypeOK
<1>5. ParsedAsSent /\ SizesWhole(buf) /\ Len(sent) = 0 /\ Len(packets) = 0
  BY <1>2, <1>3 DEF ParsedAsSent, SizesWhole
<1> DEFINE v == [f \in 0..0 |-> <<>>]
<1>6. v \in [0..0 -> Seq(Bytes)] /\ v[0] = <<>>
  BY EmptySeq
<1> HIDE DEF v
<1>7. Stream(v)
  BY <1>5, <1>6 DEF Stream
<1>8. <<>> \o <<>> = <<>>
  OBVIOUS
<1>9. InStep(v)
  BY <1>2, <1>5, <1>6, <1>8 DEF InStep, AtSize
<1> QED
  BY <1>2, <1>4, <1>5, <1>7, <1>9 DEF FramingInv

-----------------------------------------------------------------------------
(* The theorems. *)

(* Where no size is cut, the loop is always in step with the sizes and its  *)
(* packets are those the camera sent, whatever their 16-bit sizes.          *)
THEOREM FramingInvariant ==
    ASSUME ~SplitPrefix
    PROVE  Spec => []FramingInv
<1>1. FramingInv /\ [Next]_vars => FramingInv'
  BY FramingStep
<1> QED
  BY <1>1, FramingInit, PTL DEF Spec

(* In step with the sizes, the process ends only over a packet that is too  *)
(* long for rtp_packet: packets that fit are collected within the array,    *)
(* however many recv calls carry them and whatever shares those with them.  *)
THEOREM CrashOnlyOversizeHolds ==
    ASSUME ~SplitPrefix
    PROVE  Spec => []CrashOnlyOversize
<1>1. ASSUME FramingInv, status = "crashed"
      PROVE  Len(packets) < Len(sent) /\ ~Fits(Len(packets) + 1)
  <2>1. PICK v : Stream(v) /\ InStep(v)
    BY <1>1 DEF FramingInv
  <2>2. packetSize > BufSize /\ BufSize \in Nat
    BY <1>1, FramingAssumption DEF FramingInv
  <2>3. PICK f \in 1..Len(sent) : Collecting(v, f)
    BY <2>1, <2>2 DEF InStep
  <2>4. Len(sent) \in Nat /\ Len(packets) \in Nat
    BY <1>1, <2>1, StreamTypes DEF FramingInv
  <2>5. f = Len(packets) + 1 /\ f <= Len(sent) /\ packetSize = sent[f]
    BY <2>3 DEF Collecting
  <2>6. sent[f] \in Nat /\ sent[f] > BufSize
    <3>1. sent[f] \in 0..MaxSize /\ MaxSize \in Nat
      BY <1>1, <2>1, StreamTypes DEF FramingInv
    <3> QED
      BY <2>2, <2>5, <3>1
  <2>7. ~Fits(f) /\ Len(packets) < Len(sent)
    BY <2>2, <2>4, <2>5, <2>6 DEF Fits
  <2> QED
    BY <2>5, <2>7
<1>2. FramingInv => CrashOnlyOversize
  BY <1>1 DEF CrashOnlyOversize
<1> QED
  BY <1>2, FramingInvariant, PTL

(* The stream is the packets sent, and what the receiver holds of it is a   *)
(* beginning of the same stream.                                            *)
LEMMA InvConserves ==
    ASSUME FramingInv
    PROVE  StreamConserved
<1>1. PICK v : Stream(v) /\ InStep(v)
  BY DEF FramingInv
<1>2. /\ Len(sent) \in Nat /\ Len(packets) \in Nat /\ MaxSent \in Nat /\ BufSize \in Nat /\ MaxSize \in Nat
      /\ \A f \in 1..Len(sent) : /\ sent[f] \in 0..MaxSize /\ f \in 1..MaxSent
                                 /\ v[f] \in Seq(Bytes) /\ v[f - 1] \in Seq(Bytes)
                                 /\ v[f - 1] = OnWire(f, sent[f]) \o v[f]
      /\ v[Len(sent)] = <<>>
  BY <1>1, StreamTypes DEF FramingInv
<1>3. PICK n \in Nat, k \in Nat : n = Len(sent) /\ k = Len(packets) /\ k \in 0..n
  BY <1>2 DEF FramingInv, ParsedAsSent
<1>4. /\ wire \in Seq(Bytes) /\ buf \in Seq(Bytes) /\ packet \in Seq(Bytes)
      /\ sent \in Seq(Sizes) /\ packets \in Seq(Seq(Bytes))
      /\ v \in [0..n -> Seq(Bytes)]
  BY <1>1, <1>3 DEF FramingInv, TypeOK, Stream
<1> DEFINE all == [f \in DOMAIN sent |-> OnWire(f, sent[f])]
           done == [f \in DOMAIN packets |-> OnWire(f, 0) \o packets[f]]
<1>5. /\ all \in Seq(Seq(Bytes)) /\ Len(all) = n
      /\ \A f \in 1..n : all[f] = OnWire(f, sent[f])
  <2>1. DOMAIN sent = 1..n
    BY <1>3, <1>4, LenProperties
  <2>2. ASSUME NEW f \in 1..n PROVE OnWire(f, sent[f]) \in Seq(Bytes)
    <3>1. f \in 1..MaxSent /\ sent[f] \in 0..MaxSize
      BY <1>2, <1>3, Zenon
    <3>2. sent[f] \in 0..MaxSize
      BY <1>2, <3>1
    <3> QED
      BY <3>1, <3>2, PacketBytes, Zenon
  <2>3. all = [f \in 1..n |-> OnWire(f, sent[f])]
    BY <2>1
  <2>4. /\ all \in [1..n -> Seq(Bytes)] /\ \A f \in 1..n : all[f] = OnWire(f, sent[f])
    BY <2>2, <2>3
  <2> HIDE DEF all
  <2> QED
    BY <2>4
<1>6. /\ done \in Seq(Seq(Bytes)) /\ Len(done) = k
      /\ \A f \in 1..k : done[f] = all[f]
  <2>1. DOMAIN packets = 1..k
    BY <1>3, <1>4, LenProperties
  <2>2. ASSUME NEW f \in 1..k PROVE OnWire(f, 0) \o packets[f] = all[f]
    <3>1. f \in 1..n
      BY <1>3
    <3>2. f \in 1..MaxSent /\ sent[f] \in 0..MaxSize
      BY <1>2, <1>3, <3>1, Zenon
    <3>3. sent[f] \in 0..MaxSize
      BY <1>2, <3>2
    <3>4. OnWire(f, sent[f]) = Prefix(f) \o Payload(f, sent[f]) /\ OnWire(f, 0) = Prefix(f)
      BY <3>2, <3>3, PacketBytes, Zenon
    <3>5. packets[f] = Payload(f, sent[f])
      BY <1>3 DEF FramingInv, ParsedAsSent
    <3> QED
      BY <1>5, <3>1, <3>4, <3>5, Zenon
  <2>3. \A f \in 1..k : all[f] \in Seq(Bytes)
    <3>1. \A f \in 1..k : f \in 1..n
      BY <1>3
    <3> QED
      BY <1>5, <3>1, ElementOfSeq
  <2>4. \A f \in DOMAIN packets : OnWire(f, 0) \o packets[f] = all[f]
    BY <2>1, <2>2
  <2> HIDE DEF all
  <2>5. done = [f \in 1..k |-> all[f]]
    BY <2>1, <2>4
  <2> HIDE DEF done
  <2> QED
    BY <2>3, <2>5
<1> HIDE DEF all, done
<1>7. SubSeq(all, 1, n) = all
  BY <1>5, SubSeqFull
<1>8. SubSeq(all, 1, k) = done
  <2>1. k \in 0..Len(all)
    BY <1>3, <1>5
  <2>2. /\ SubSeq(all, 1, k) \in Seq(Seq(Bytes)) /\ Len(SubSeq(all, 1, k)) = k
        /\ \A i \in 1..k : SubSeq(all, 1, k)[i] = all[i]
    BY <1>5, <2>1, CutInTwo, ZenonT(40)
  <2>3. PICK s \in Seq(Seq(Bytes)) : s = SubSeq(all, 1, k)
    BY <2>2
  <2>4. Len(s) = Len(done) /\ \A i \in 1..Len(s) : s[i] = done[i]
    BY <1>6, <2>2, <2>3
  <2>5. s = done
    BY <1>6, <2>4, SeqEqual
  <2> QED
    BY <2>3, <2>5
<1>9. \A i \in 0..n : /\ FlattenSeq(SubSeq(all, 1, i)) \in Seq(Bytes)
                      /\ FlattenSeq(SubSeq(all, 1, i)) \o v[i] = v[0]
  <2>1. \A f \in 1..n : v[f - 1] = all[f] \o v[f]
    BY <1>2, <1>3, <1>5
  <2>2. ASSUME NEW i \in 0..n
        PROVE  /\ FlattenSeq(SubSeq(all, 1, i)) \in Seq(Bytes)
               /\ FlattenSeq(SubSeq(all, 1, i)) \o v[i] = v[0]
    BY <1>4, <1>5, <2>1, StreamsJoin, ZenonT(40)
  <2> QED
    BY <2>2
<1>10. FlattenSeq(all) = v[0]
  <2>1. n \in 0..n
    BY <1>3
  <2>2. FlattenSeq(all) \in Seq(Bytes) /\ FlattenSeq(all) \o <<>> = v[0]
    BY <1>2, <1>3, <1>7, <1>9, <2>1, Zenon
  <2> QED
    BY <2>2, ConcatEmptySeq
<1>11. FlattenSeq(done) \in Seq(Bytes) /\ FlattenSeq(done) \o v[k] = v[0]
  BY <1>3, <1>8, <1>9, Zenon
<1>12. Begun \in Seq(Bytes) /\ v[k] = Begun \o (buf \o wire)
  <2>1. CASE packetSize = 0
    <3>1. Begun = <<>> /\ buf \o wire = v[k]
      BY <1>1, <1>3, <2>1 DEF Begun, InStep, AtSize
    <3>2. buf \o wire \in Seq(Bytes)
      BY <1>4, ConcatProperties
    <3> QED
      BY <3>1, <3>2, ConcatEmptySeq
  <2>2. CASE packetSize # 0
    <3>1. PICK f \in 1..Len(sent) : Collecting(v, f)
      BY <1>1, <2>2 DEF InStep
    <3>2. f = k + 1 /\ packet \o (buf \o wire) = Payload(f, sent[f]) \o v[f]
      BY <1>3, <3>1 DEF Collecting
    <3>3. /\ f - 1 = k /\ f \in 1..MaxSent /\ sent[f] \in 0..MaxSize /\ v[f] \in Seq(Bytes)
          /\ v[f - 1] = OnWire(f, sent[f]) \o v[f]
      <4>1. f - 1 = k
        BY <1>3, <3>2
      <4>2. /\ sent[f] \in 0..MaxSize /\ f \in 1..MaxSent /\ v[f] \in Seq(Bytes)
            /\ v[f - 1] = OnWire(f, sent[f]) \o v[f]
        BY <1>2, Zenon
      <4>3. sent[f] \in 0..MaxSize
        BY <1>2, <4>2
      <4> QED
        BY <4>1, <4>2, <4>3
    <3>4. /\ Prefix(f) \in Seq(Bytes) /\ Payload(f, sent[f]) \in Seq(Bytes)
          /\ OnWire(f, sent[f]) = Prefix(f) \o Payload(f, sent[f]) /\ OnWire(f, 0) = Prefix(f)
      BY <3>3, PacketBytes, Zenon
    <3>5. Begun = Prefix(f) \o packet
      BY <1>3, <2>2, <3>2, <3>4 DEF Begun
    <3>6. \A a, b, c \in Seq(Bytes) : (a \o b) \o c = a \o (b \o c)
      BY Regroup
    <3>7. (Prefix(f) \o Payload(f, sent[f])) \o v[f] = Prefix(f) \o (Payload(f, sent[f]) \o v[f])
      BY <3>3, <3>4, <3>6, Zenon
    <3>8. buf \o wire \in Seq(Bytes)
      BY <1>4, ConcatProperties
    <3>9. (Prefix(f) \o packet) \o (buf \o wire) = Prefix(f) \o (packet \o (buf \o wire))
      BY <1>4, <3>4, <3>6, <3>8, ZenonT(40)
    <3>10. Begun \in Seq(Bytes)
      BY <1>4, <3>4, <3>5, ConcatProperties
    <3> QED
      BY <3>2, <3>3, <3>4, <3>5, <3>7, <3>9, <3>10, Zenon
  <2> QED
    BY <2>1, <2>2
<1>13. FlattenSeq(all) = FlattenSeq(done) \o Begun \o buf \o wire
  <2>1. \A a, b, c \in Seq(Bytes) : (a \o b) \o c = a \o (b \o c)
    BY Regroup
  <2>2. buf \o wire \in Seq(Bytes) /\ FlattenSeq(done) \o Begun \in Seq(Bytes)
    BY <1>4, <1>11, <1>12, ConcatProperties
  <2>3. FlattenSeq(done) \o (Begun \o (buf \o wire)) = (FlattenSeq(done) \o Begun) \o (buf \o wire)
    BY <1>11, <1>12, <2>1, <2>2, Zenon
  <2>4. (FlattenSeq(done) \o Begun) \o (buf \o wire)
          = ((FlattenSeq(done) \o Begun) \o buf) \o wire
    BY <1>4, <2>1, <2>2, ZenonT(40)
  <2> QED
    BY <1>10, <1>11, <1>12, <2>3, <2>4, Zenon
<1> QED
  BY <1>13 DEF StreamConserved, all, done

(* Every byte the camera sent is in exactly one place, and in order: in a   *)
(* packet that was parsed, in rtp_packet, in recv_buf or still on the wire. *)
THEOREM StreamConservedHolds ==
    ASSUME ~SplitPrefix
    PROVE  Spec => []StreamConserved
<1>1. FramingInv => StreamConserved
  BY InvConserves
<1> QED
  BY <1>1, FramingInvariant, PTL

-----------------------------------------------------------------------------
(* The packets. *)

(* What is parsed is a beginning of what was sent. *)
AsSent == /\ SentPackets \in Seq(Seq(Bytes)) /\ Len(SentPackets) = Len(sent)
          /\ packets \in Seq(Seq(Bytes)) /\ Len(packets) \in 0..Len(sent)
          /\ packets = SubSeq(SentPackets, 1, Len(packets))
          /\ \A f \in 1..Len(sent) : SentPackets[f] = Payload(f, sent[f])

(* It follows from the invariant. *)
LEMMA InvParsesAsSent ==
    ASSUME FramingInv
    PROVE  AsSent
<1>1. PICK v : Stream(v) /\ InStep(v)
  BY DEF FramingInv
<1>2. /\ Len(sent) \in Nat /\ Len(packets) \in Nat /\ BufSize \in Nat /\ MaxSize \in Nat
      /\ \A f \in 1..Len(sent) : sent[f] \in 0..MaxSize /\ f \in 1..MaxSent
  BY <1>1, StreamTypes DEF FramingInv
<1>3. PICK n \in Nat, k \in Nat : n = Len(sent) /\ k = Len(packets) /\ k \in 0..n
  BY <1>2 DEF FramingInv, ParsedAsSent
<1>4. sent \in Seq(Sizes) /\ packets \in Seq(Seq(Bytes))
  BY DEF FramingInv, TypeOK
<1>5. PICK s \in Seq(Seq(Bytes)) : /\ s = SentPackets /\ Len(s) = n
                                  /\ \A f \in 1..n : s[f] = Payload(f, sent[f])
  <2>1. DOMAIN sent = 1..n
    BY <1>3, <1>4, LenProperties
  <2>2. ASSUME NEW f \in 1..n PROVE Payload(f, sent[f]) \in Seq(Bytes)
    <3>1. f \in 1..MaxSent /\ sent[f] \in 0..MaxSize
      BY <1>2, <1>3, Zenon
    <3>2. sent[f] \in 0..MaxSize
      BY <1>2, <3>1
    <3> QED
      BY <3>1, <3>2, PacketBytes, Zenon
  <2>3. SentPackets = [f \in 1..n |-> Payload(f, sent[f])]
    BY <2>1 DEF SentPackets
  <2> QED
    BY <2>2, <2>3
<1>6. packets = SubSeq(s, 1, k)
  <2>1. /\ SubSeq(s, 1, k) \in Seq(Seq(Bytes)) /\ Len(SubSeq(s, 1, k)) = k
        /\ \A i \in 1..k : SubSeq(s, 1, k)[i] = s[i]
    <3>1. k \in 0..Len(s)
      BY <1>3, <1>5
    <3> QED
      BY <3>1, CutInTwo, ZenonT(40)
  <2>2. PICK p \in Seq(Seq(Bytes)) : p = SubSeq(s, 1, k)
    BY <2>1
  <2>3. \A i \in 1..k : packets[i] = p[i]
    <3>1. ASSUME NEW i \in 1..k PROVE packets[i] = p[i]
      <4>1. i \in 1..n /\ i \in 1..Len(packets)
        BY <1>3
      <4>2. packets[i] = Payload(i, sent[i])
        BY <4>1 DEF FramingInv, ParsedAsSent
      <4>3. s[i] = Payload(i, sent[i])
        BY <1>5, <4>1, Zenon
      <4> QED
        BY <2>1, <2>2, <4>2, <4>3
    <3> QED
      BY <3>1
  <2>4. Len(p) = k /\ Len(packets) = k
    BY <1>3, <2>1, <2>2
  <2>5. packets = p
    BY <1>4, <2>3, <2>4, SeqEqual
  <2> QED
    BY <2>2, <2>5
<1> QED
  BY <1>3, <1>4, <1>5, <1>6 DEF AsSent

(* What is parsed are the packets of the camera, from the first one on.     *)
THEOREM PacketsAsSentHolds ==
    ASSUME ~SplitPrefix
    PROVE  Spec => []PacketsAsSent
<1>1. ASSUME FramingInv PROVE PacketsAsSent
  <2>1. Len(sent) \in Nat
    BY LenProperties DEF FramingInv, TypeOK
  <2>2. PICK s \in Seq(Seq(Bytes)), k \in Nat :
           /\ s = SentPackets /\ k = Len(packets) /\ k <= Len(s) /\ packets = SubSeq(s, 1, k)
    <3>1. SentPackets \in Seq(Seq(Bytes)) /\ packets = SubSeq(SentPackets, 1, Len(packets))
      BY <1>1, InvParsesAsSent DEF AsSent
    <3>2. Len(packets) \in 0..Len(sent) /\ Len(SentPackets) = Len(sent)
      BY <1>1, InvParsesAsSent DEF AsSent
    <3>3. Len(packets) \in Nat /\ Len(packets) <= Len(SentPackets)
      BY <2>1, <3>2
    <3> QED
      BY <3>1, <3>3, Zenon
  <2>3. SubSeq(packets, 1, k) = packets
    BY <1>1, <2>2, SubSeqFull DEF FramingInv, TypeOK
  <2> QED
    BY <2>2, <2>3 DEF PacketsAsSent, IsPrefix
<1> QED
  BY <1>1, FramingInvariant, PTL

(* One packet more, and the packets parseWholeRtpPacket looks at.           *)
LEMMA WholeAppend ==
    ASSUME NEW seq \in Seq(Seq(Bytes)), NEW p \in Seq(Bytes)
    PROVE  /\ Whole(seq) \in Seq(Seq(Bytes))
           /\ Whole(Append(seq, p)) = IF Len(p) > RtpHeader THEN Append(Whole(seq), p)
                                      ELSE Whole(seq)
<1> DEFINE Kept(x) == IF Len(x) > RtpHeader THEN <<x>> ELSE <<>>
<1>1. PICK n \in Nat : n = Len(seq) /\ DOMAIN seq = 1..n
  BY LenProperties
<1>2. \A x \in Seq(Bytes) : Kept(x) \in Seq(Seq(Bytes))
  OBVIOUS
<1>3. \A f \in 1..n : seq[f] \in Seq(Bytes)
  BY <1>1, ElementOfSeq
<1> DEFINE more == Append(seq, p)
<1>4. /\ more \in Seq(Seq(Bytes)) /\ Len(more) = n + 1 /\ more[n + 1] = p
      /\ \A f \in 1..n : more[f] = seq[f]
  BY <1>1, AppendProperties
<1> HIDE DEF more
<1>5. DOMAIN more = 1..(n + 1)
  BY <1>4, LenProperties
<1> DEFINE w == [f \in 1..n |-> Kept(seq[f])]
           w1 == [f \in 1..(n + 1) |-> Kept(more[f])]
<1>6. Whole(seq) = FlattenSeq(w) /\ Whole(more) = FlattenSeq(w1)
  BY <1>1, <1>5 DEF Whole
<1> HIDE DEF Kept
<1>7. w \in Seq(Seq(Seq(Bytes))) /\ Len(w) = n /\ \A f \in 1..n : w[f] = Kept(seq[f])
  BY <1>2, <1>3
<1>8. /\ w1 \in Seq(Seq(Seq(Bytes))) /\ Len(w1) = n + 1
      /\ \A f \in 1..(n + 1) : w1[f] = Kept(more[f])
  <2>1. \A f \in 1..(n + 1) : more[f] \in Seq(Bytes)
    BY <1>4, ElementOfSeq
  <2> QED
    BY <1>2, <2>1
<1> HIDE DEF w, w1
<1>9. w1 = Append(w, Kept(p))
  <2>1. PICK b \in Seq(Seq(Bytes)) : b = Kept(p)
    BY <1>2
  <2>2. /\ Append(w, b) \in Seq(Seq(Seq(Bytes))) /\ Len(Append(w, b)) = n + 1
        /\ Append(w, b)[n + 1] = b /\ \A f \in 1..n : Append(w, b)[f] = w[f]
    BY <1>7, AppendProperties
  <2>3. ASSUME NEW f \in 1..(n + 1) PROVE w1[f] = Append(w, b)[f]
    <3>1. CASE f = n + 1
      BY <1>4, <1>8, <2>1, <2>2, <3>1
    <3>2. CASE f # n + 1
      <4>1. f \in 1..n
        BY <3>2
      <4> QED
        BY <1>4, <1>7, <1>8, <2>2, <4>1
    <3> QED
      BY <3>1, <3>2
  <2>4. w1 = Append(w, b)
    BY <1>8, <2>2, <2>3, SeqEqual
  <2> QED
    BY <2>1, <2>4
<1>10. /\ FlattenSeq(w) \in Seq(Seq(Bytes))
       /\ FlattenSeq(Append(w, Kept(p))) = FlattenSeq(w) \o Kept(p)
  <2>1. PICK b \in Seq(Seq(Bytes)) : b = Kept(p)
    BY <1>2
  <2>2. FlattenSeq(w) \in Seq(Seq(Bytes)) /\ FlattenSeq(Append(w, b)) = FlattenSeq(w) \o b
    BY <1>7, FlattenAppend
  <2> QED
    BY <2>1, <2>2
<1>11. PICK t \in Seq(Seq(Bytes)) : t = FlattenSeq(w)
  BY <1>10
<1>12. t \o <<p>> = Append(t, p) /\ t \o <<>> = t
  <2>1. t \o <<>> = t
    BY ConcatEmptySeq
  <2>2. t \o <<p>> = Append(t, p)
    OBVIOUS
  <2> QED
    BY <2>1, <2>2
<1> QED
  BY <1>6, <1>9, <1>10, <1>11, <1>12 DEF Kept, more

(* The packets looked at of the first ones begin those of all.              *)
Begins(first, all) == \E rest \in Seq(Seq(Bytes)) : all = first \o rest

(* This is so for the first k of any packets. *)
LEMMA WholeCut ==
    ASSUME NEW seq \in Seq(Seq(Bytes)), NEW k \in 0..Len(seq)
    PROVE  Begins(Whole(SubSeq(seq, 1, k)), Whole(seq))
<1> DEFINE Kept(x) == IF Len(x) > RtpHeader THEN <<x>> ELSE <<>>
<1>1. PICK n \in Nat : n = Len(seq) /\ DOMAIN seq = 1..n
  BY LenProperties
<1>2. \A x \in Seq(Bytes) : Kept(x) \in Seq(Seq(Bytes))
  OBVIOUS
<1>3. \A f \in 1..n : seq[f] \in Seq(Bytes)
  BY <1>1, ElementOfSeq
<1>4. PICK part \in Seq(Seq(Bytes)) : /\ part = SubSeq(seq, 1, k) /\ Len(part) = k
                                     /\ \A f \in 1..k : part[f] = seq[f]
  <2>1. /\ SubSeq(seq, 1, k) \in Seq(Seq(Bytes)) /\ Len(SubSeq(seq, 1, k)) = k
        /\ \A f \in 1..k : SubSeq(seq, 1, k)[f] = seq[f]
    BY CutInTwo
  <2> QED
    BY <2>1, Zenon
<1>5. DOMAIN part = 1..k
  BY <1>4, LenProperties
<1> DEFINE w == [f \in 1..n |-> Kept(seq[f])]
           first == [f \in 1..k |-> Kept(part[f])]
<1>6. Whole(seq) = FlattenSeq(w) /\ Whole(part) = FlattenSeq(first)
  BY <1>1, <1>5 DEF Whole
<1> HIDE DEF Kept
<1>7. w \in Seq(Seq(Seq(Bytes))) /\ Len(w) = n /\ \A f \in 1..n : w[f] = Kept(seq[f])
  BY <1>2, <1>3
<1>8. k \in 0..n
  BY <1>1
<1>9. /\ first \in Seq(Seq(Seq(Bytes))) /\ Len(first) = k
      /\ \A f \in 1..k : first[f] = Kept(part[f])
  <2>1. \A f \in 1..k : part[f] \in Seq(Bytes)
    BY <1>4, ElementOfSeq
  <2> QED
    BY <1>2, <1>8, <2>1
<1> HIDE DEF w, first
<1>10. SubSeq(w, 1, k) = first
  <2>1. PICK s \in Seq(Seq(Seq(Bytes))) : /\ s = SubSeq(w, 1, k) /\ Len(s) = k
                                         /\ \A f \in 1..k : s[f] = w[f]
    <3>1. k \in 0..Len(w) /\ w \in Seq(Seq(Seq(Bytes)))
      BY <1>7, <1>8
    <3>2. /\ SubSeq(w, 1, k) \in Seq(Seq(Seq(Bytes))) /\ Len(SubSeq(w, 1, k)) = k
          /\ \A f \in 1..k : SubSeq(w, 1, k)[f] = w[f]
      BY <3>1, CutInTwo
    <3> QED
      BY <3>2, Zenon
  <2>2. \A f \in 1..k : s[f] = first[f]
    <3>1. \A f \in 1..k : f \in 1..n
      BY <1>8
    <3> QED
      BY <1>4, <1>7, <1>9, <2>1, <3>1, ZenonT(40)
  <2>3. s = first
    BY <1>9, <2>1, <2>2, SeqEqual
  <2> QED
    BY <2>1, <2>3
<1>11. \E rest \in Seq(Seq(Bytes)) : FlattenSeq(w) = FlattenSeq(SubSeq(w, 1, k)) \o rest
  BY <1>7, <1>8, FlattenCut
<1> QED
  BY <1>4, <1>6, <1>10, <1>11, Zenon DEF Begins

(* Every step sends a packet, parses one, or does neither. *)
LEMMA PacketSteps ==
    ASSUME [Next]_vars
    PROVE  \/ UNCHANGED <<sent, packets>>
           \/ UNCHANGED packets /\ \E size \in Sizes : sent' = Append(sent, size)
           \/ UNCHANGED sent /\ \E p : packets' = Append(packets, p)
<1>1. CASE \E size \in Sizes : Send(size)
  BY <1>1 DEF Send
<1>2. CASE \E n \in 1..BufSize : Recv(n)
  BY <1>2 DEF Recv
<1>3. CASE RecvError \/ Stop \/ UNCHANGED vars
  BY <1>3 DEF RecvError, Stop, input, vars
<1>4. CASE FillPacket
  BY <1>4 DEF FillPacket, Complete, Collect, Crash, input
<1>5. CASE StartPacket
  BY <1>5 DEF StartPacket, Complete, Collect, input
<1>6. CASE StartFromOneByte
  BY <1>6 DEF StartFromOneByte, Complete, Crash, input
<1> QED
  BY <1>1, <1>2, <1>3, <1>4, <1>5, <1>6 DEF Next, Loop

(* What is looked at of the packets parsed begins what will be looked at of *)
(* those sent; a packet that is parsed is the next of them.                 *)
LEMMA DeliverStep ==
    ASSUME FramingInv, FramingInv', AsSent, AsSent', UNCHANGED sent,
           NEW p, packets' = Append(packets, p)
    PROVE  [Pipe!Send \/ Pipe!Deliver]_<<Whole(SentPackets), Whole(packets)>>
<1>1. PICK s \in Seq(Seq(Bytes)) : s = SentPackets
  BY DEF AsSent
<1>2. SentPackets' = s
  BY <1>1 DEF SentPackets
<1>3. PICK q \in Seq(Seq(Bytes)), k \in Nat, k1 \in Nat :
         /\ q = packets /\ k = Len(q) /\ k1 = k + 1 /\ k1 \in 1..Len(s)
         /\ packets' = SubSeq(s, 1, k1)
  <2>1. PICK q \in Seq(Seq(Bytes)), k \in Nat : q = packets /\ k = Len(q)
    BY LenProperties DEF AsSent
  <2>2. Len(packets') = k + 1
    BY <2>1
  <2>3. /\ Len(SentPackets') = Len(sent') /\ Len(packets') \in 0..Len(sent')
        /\ packets' = SubSeq(SentPackets', 1, Len(packets'))
    BY DEF AsSent
  <2>4. Len(packets') \in 0..Len(s) /\ packets' = SubSeq(s, 1, Len(packets'))
    BY <1>2, <2>3
  <2>5. PICK k1 \in Nat : k1 = k + 1 /\ k1 = Len(packets')
    BY <2>1, <2>2
  <2>6. k1 \in 1..Len(s)
    BY <2>1, <2>4, <2>5
  <2> QED
    BY <2>1, <2>4, <2>5, <2>6, Zenon
<1>4. s[k1] \in Seq(Bytes) /\ Append(q, p) \in Seq(Seq(Bytes)) /\ Append(q, p)[k1] = p
  <2>1. packets' \in Seq(Seq(Bytes))
    BY DEF AsSent
  <2>2. Append(q, p)[k1] = p
    <3>1. q \in Seq(Seq(Bytes)) /\ k = Len(q) /\ k1 = k + 1
      BY <1>3
    <3> QED
      BY <3>1
  <2>3. s[k1] \in Seq(Bytes)
    BY <1>3, ElementOfSeq
  <2> QED
    BY <1>3, <2>1, <2>2, <2>3
<1>5. PICK r \in Seq(Bytes) : r = p
  <2>1. Len(Append(q, p)) = k1
    BY <1>3
  <2> QED
    BY <1>3, <1>4, <2>1, ElementOfSeq
<1>6. PICK rest \in Seq(Seq(Bytes)) : Whole(s) = Whole(Append(q, r)) \o rest
  <2>1. k1 \in 0..Len(s) /\ Append(q, r) = SubSeq(s, 1, k1)
    <3>1. k1 \in 1..Len(s) /\ q = packets /\ packets' = SubSeq(s, 1, k1)
      BY <1>3, Zenon
    <3>2. k1 \in 0..Len(s)
      BY <3>1
    <3> QED
      BY <1>5, <3>1, <3>2, Zenon
  <2>2. Begins(Whole(SubSeq(s, 1, k1)), Whole(s))
    <3>1. k1 \in 0..Len(s)
      BY <2>1
    <3> QED
      BY <3>1, WholeCut, Zenon
  <2> QED
    BY <2>1, <2>2, Zenon DEF Begins
<1>7. /\ Whole(q) \in Seq(Seq(Bytes))
      /\ Whole(Append(q, r)) = IF Len(r) > RtpHeader THEN Append(Whole(q), r) ELSE Whole(q)
  BY WholeAppend
<1>8. /\ Whole(SentPackets) = Whole(s) /\ Whole(SentPackets)' = Whole(s)
      /\ Whole(packets) = Whole(q) /\ Whole(packets)' = Whole(Append(q, r))
  BY <1>1, <1>2, <1>3, <1>5
<1>9. CASE Len(r) > RtpHeader
  <2>1. PICK t \in Seq(Seq(Bytes)), n \in Nat : t = Whole(q) /\ n = Len(t)
    BY <1>7, LenProperties
  <2>2. Whole(Append(q, r)) = Append(t, r)
    BY <1>7, <1>9, <2>1
  <2>3. n < Len(Append(t, r) \o rest) /\ (Append(t, r) \o rest)[n + 1] = r
    <3>1. PICK a \in Seq(Seq(Bytes)) : a = Append(t, r) /\ Len(a) = n + 1 /\ a[n + 1] = r
      BY <2>1, AppendProperties
    <3>2. /\ Len(a \o rest) = Len(a) + Len(rest) /\ Len(rest) \in Nat
          /\ \A i \in 1..(Len(a) + Len(rest)) : (a \o rest)[i] = IF i <= Len(a) THEN a[i]
                                                                ELSE rest[i - Len(a)]
      BY ConcatProperties, LenProperties
    <3>3. PICK i \in 1..(Len(a) + Len(rest)) : i = n + 1 /\ i <= Len(a)
      BY <3>1, <3>2
    <3>4. (a \o rest)[i] = r
      BY <3>1, <3>2, <3>3
    <3> QED
      BY <3>1, <3>2, <3>3, <3>4
  <2>4. Pipe!Deliver
    <3>1. Whole(packets)' = Append(Whole(packets), Whole(SentPackets)[Len(Whole(packets)) + 1])
      BY <1>6, <1>8, <2>1, <2>2, <2>3
    <3>2. Len(Whole(packets)) < Len(Whole(SentPackets))
      BY <1>6, <1>8, <2>1, <2>2, <2>3
    <3> QED
      BY <1>8, <3>1, <3>2 DEF Pipe!Deliver
  <2> QED
    BY <2>4
<1>10. CASE ~(Len(r) > RtpHeader)
  BY <1>7, <1>8, <1>10
<1> QED
  BY <1>9, <1>10

(* A packet that is sent is appended, or dropped.                           *)
LEMMA SendStep ==
    ASSUME FramingInv, FramingInv', AsSent, AsSent', UNCHANGED packets,
           NEW size \in Sizes, sent' = Append(sent, size)
    PROVE  [Pipe!Send \/ Pipe!Deliver]_<<Whole(SentPackets), Whole(packets)>>
<1>1. PICK s \in Seq(Seq(Bytes)), n \in Nat : s = SentPackets /\ n = Len(s) /\ n = Len(sent)
  BY LenProperties DEF AsSent
<1>2. sent \in Seq(Sizes) /\ Len(sent') \in Nat /\ Len(sent') <= MaxSent
  BY LenProperties DEF FramingInv, TypeOK, ParsedAsSent
<1>3. PICK n1 \in Nat : n1 = n + 1 /\ n1 = Len(sent') /\ n1 \in 1..MaxSent
  BY <1>1, <1>2, FramingAssumption, AppendProperties
<1>4. PICK p \in Seq(Bytes) : p = Payload(n1, size)
  <2>1. size \in 0..MaxSize
    BY FramingAssumption
  <2> QED
    BY <1>3, <2>1, PacketBytes, Zenon
<1>5. SentPackets' = Append(s, p)
  <2>1. PICK t \in Seq(Seq(Bytes)) : t = SentPackets' /\ Len(t) = n1
    <3>1. SentPackets' \in Seq(Seq(Bytes)) /\ Len(SentPackets') = Len(sent')
      BY DEF AsSent
    <3> QED
      BY <1>3, <3>1
  <2>2. \A f \in 1..n1 : t[f] = Payload(f, sent'[f])
    <3>1. \A f \in 1..Len(sent') : SentPackets'[f] = Payload(f, sent'[f])
      BY DEF AsSent
    <3> QED
      BY <1>3, <2>1, <3>1
  <2>3. \A f \in 1..n : s[f] = Payload(f, sent[f])
    BY <1>1 DEF AsSent
  <2>4. sent'[n1] = size /\ \A f \in 1..n : sent'[f] = sent[f]
    BY <1>1, <1>2, <1>3, AppendProperties
  <2>5. /\ Append(s, p) \in Seq(Seq(Bytes)) /\ Len(Append(s, p)) = n1
        /\ Append(s, p)[n1] = p /\ \A f \in 1..n : Append(s, p)[f] = s[f]
    <3>1. n = Len(s) /\ n1 = n + 1
      BY <1>1, <1>3
    <3> QED
      BY <3>1, AppendProperties
  <2>6. ASSUME NEW f \in 1..n1 PROVE t[f] = Append(s, p)[f]
    <3>1. CASE f = n1
      BY <1>4, <2>2, <2>4, <2>5, <3>1
    <3>2. CASE f # n1
      <4>1. f \in 1..n
        BY <1>3, <3>2
      <4> QED
        BY <2>2, <2>3, <2>4, <2>5, <4>1
    <3> QED
      BY <3>1, <3>2
  <2>7. t = Append(s, p)
    BY <2>1, <2>5, <2>6, SeqEqual
  <2> QED
    BY <2>1, <2>7
<1>6. Whole(Append(s, p)) = IF Len(p) > RtpHeader THEN Append(Whole(s), p) ELSE Whole(s)
  BY WholeAppend
<1>7. /\ Whole(SentPackets) = Whole(s) /\ Whole(SentPackets)' = Whole(Append(s, p))
      /\ Whole(packets)' = Whole(packets)
  BY <1>1, <1>5
<1>8. p \in {Payload(f, z) : f \in 1..MaxSent, z \in Sizes}
  BY <1>3, <1>4
<1>9. CASE Len(p) > RtpHeader
  <2>1. Whole(SentPackets)' = Append(Whole(SentPackets), p)
    BY <1>6, <1>7, <1>9
  <2>2. Pipe!Send
    BY <1>7, <1>8, <2>1 DEF Pipe!Send
  <2> QED
    BY <2>2
<1>10. CASE ~(Len(p) > RtpHeader)
  BY <1>6, <1>7, <1>10
<1> QED
  BY <1>9, <1>10

(* Where no size is cut, the receiver is the pipe the stream parser takes   *)
(* it for: every packet that is looked at once, whole, in the order sent.   *)
THEOREM PipeRefinementHolds ==
    ASSUME ~SplitPrefix
    PROVE  Spec => PipeRefinement
<1>1. Init => Pipe!Init
  <2>1. SUFFICES ASSUME Init PROVE Pipe!Init
    OBVIOUS
  <2>2. SentPackets = <<>> /\ packets = <<>>
    BY <2>1 DEF Init, SentPackets
  <2>3. Whole(<<>>) = <<>>
    BY FlattenNone DEF Whole
  <2> QED
    BY <2>2, <2>3 DEF Pipe!Init
<1>2. FramingInv /\ FramingInv' /\ AsSent /\ AsSent' /\ [Next]_vars
        => [Pipe!Send \/ Pipe!Deliver]_<<Whole(SentPackets), Whole(packets)>>
  <2>1. SUFFICES ASSUME FramingInv, FramingInv', AsSent, AsSent', [Next]_vars
                 PROVE  [Pipe!Send \/ Pipe!Deliver]_<<Whole(SentPackets), Whole(packets)>>
    OBVIOUS
  <2>2. CASE UNCHANGED <<sent, packets>>
    <3>1. SentPackets' = SentPackets /\ packets' = packets
      BY <2>2 DEF SentPackets
    <3> QED
      BY <3>1
  <2>3. CASE UNCHANGED packets /\ \E size \in Sizes : sent' = Append(sent, size)
    BY <2>1, <2>3, SendStep
  <2>4. CASE UNCHANGED sent /\ \E p : packets' = Append(packets, p)
    BY <2>1, <2>4, DeliverStep
  <2> QED
    BY <2>1, <2>2, <2>3, <2>4, PacketSteps
<1>3. FramingInv => AsSent
  BY InvParsesAsSent
<1> QED
  BY <1>1, <1>2, <1>3, FramingInvariant, PTL DEF Spec, PipeRefinement, Pipe!Spec
=============================================================================
