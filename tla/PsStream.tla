-------------------------------- MODULE PsStream --------------------------------
(***************************************************************************)
(* Reassembly of a GB28181 media stream: class PsStreamServer and struct   *)
(* RtpSource.  A camera sends, for every picture, a pack header (0x1BA),   *)
(* for a key frame a system header (0x1BB) and a stream map (0x1BC), then  *)
(* PES packets of video (0x1E0) and audio (0x1C0); a large picture needs   *)
(* several video PES packets.  The bytes are cut into RTP packets.  The    *)
(* client looks for a header at the start of each RTP packet, collects     *)
(* PES payload in frameBuff, video payload in h264Buff, and hands h264Buff *)
(* to the decoder when the first video payload of the next picture is      *)
(* complete.                                                               *)
(*                                                                         *)
(* A header is one cell here, with the payload size of its PES packet;     *)
(* payload is counted in cells as well.  Each step is one header of the    *)
(* code's loops.  One camera (one ssrc) is modelled.  This module takes    *)
(* the packets in order and without loss, as TCP delivers them;            *)
(* UdpStream.tla puts a network and the sequence gate in between.          *)
(***************************************************************************)
EXTENDS Integers, Sequences, FiniteSets, SequencesExt

CONSTANTS Layouts,    \* pictures a camera may send: see Layout
          MaxFrames,  \* bound: pictures sent
          RunOn,      \* whether a further video PES packet of a picture may
                      \*   begin inside an RTP packet
          HeaderOffsets,  \* cells that may stand before a PES header in its RTP
                      \*   packet (any set: all Nat for a camera that packs freely)
          Mtu         \* cells an RTP packet can have, the size of RtpSource::data

ASSUME SizeAssumption == /\ MaxFrames \in Nat
                         /\ HeaderOffsets \subseteq Nat
                         /\ Mtu \in Nat \ {0}
                         /\ RunOn \in BOOLEAN

(* The streams the client plays; PES packets of private data (0x1BD) it skips. *)
Streams == {"video", "audio"}
PesKinds == Streams \cup {"private"}

(* A picture: whether it has the headers of a key frame, and its PES packets. *)
Layout == [key : BOOLEAN, pes : Seq([stream : PesKinds, size : Nat \ {0}])]

ASSUME LayoutAssumption ==
    \A l \in Layouts : l \in Layout /\ l.pes # <<>> /\ l.pes[1].stream = "video"

VARIABLES shapes,        \* the layouts of the pictures sent so far
          lastPlaces,    \* RTP packets sent with each picture and those before
          queue,         \* RTP packets on their way
          data, len,     \* RtpSource::data, len: the last packet; what a longer
                         \*   one left behind it stays in data
          pc, pos,       \* the parser: function, and dataPos
          frame,         \* frameBuff, as far as frameLen
          frameSize,     \* RtpSource::frameSize
          curStream,     \* RtpSource::curStream
          isFrameStart,  \* RtpSource::isFrameStart
          h264,          \* h264Buff, as far as h264Len
          decoded,       \* what decodeFrame was given, call by call
          heard          \* what aac_decode_frame was given, call by call

sender == <<shapes, lastPlaces, queue>>
parser == <<data, len, pc, pos>>
source == <<frame, frameSize, curStream, isFrameStart, h264>>
output == <<decoded, heard>>
vars == <<sender, parser, source, output>>

-----------------------------------------------------------------------------
(* The camera (external: what the parser expects of it). *)

Cell(kind, f, u, n) == [kind |-> kind, frame |-> f, unit |-> u, n |-> n]

Payload(f, u, size) == [k \in 1..size |-> Cell("data", f, u, k)]

PesCells(f, u, pes) == <<Cell(pes.stream, f, u, pes.size)>> \o Payload(f, u, pes.size)

Intro(f, key) == IF key THEN <<Cell("pack", f, 0, 0), Cell("sys", f, 0, 0), Cell("map", f, 0, 0)>>
                 ELSE <<Cell("pack", f, 0, 0)>>

FrameCells(f, layout) ==
    Intro(f, layout.key)
      \o FlattenSeq([u \in DOMAIN layout.pes |-> PesCells(f, u, layout.pes[u])])

(* The video payload of picture f: what the decoder should be given. *)
VideoOf(f) ==
    FlattenSeq([u \in DOMAIN shapes[f].pes |->
                  IF shapes[f].pes[u].stream = "video"
                  THEN Payload(f, u, shapes[f].pes[u].size) ELSE <<>>])

(* Its audio PES packets, which the audio decoder should be given one by one. *)
AudioOf(f) ==
    FlattenSeq([u \in DOMAIN shapes[f].pes |->
                  IF shapes[f].pes[u].stream = "audio"
                  THEN <<Payload(f, u, shapes[f].pes[u].size)>> ELSE <<>>])

(* The pieces of a picture cut after the positions in cuts. *)
Pieces(cells, cuts) ==
    LET ends == cuts \cup {Len(cells)}
        end(k) == CHOOSE e \in ends : Cardinality({x \in ends : x <= e}) = k
    IN [k \in 1..Cardinality(ends) |->
          SubSeq(cells, IF k = 1 THEN 1 ELSE end(k - 1) + 1, end(k))]

(* The first RTP packet of a picture reaches behind its headers; the others *)
(* may end anywhere.                                                        *)
PackingOk(pieces, intro) ==
    /\ Len(pieces[1]) > intro
    /\ \A k \in DOMAIN pieces :
          /\ Len(pieces[k]) <= Mtu
          /\ \A j \in DOMAIN pieces[k] :
                pieces[k][j].kind \in PesKinds /\ j > 1 =>
                   /\ j - 1 \in HeaderOffsets
                   /\ pieces[k][j].kind = "video" => RunOn \/ pieces[k][j].unit = 1

sentCount == IF lastPlaces = <<>> THEN 0 ELSE Last(lastPlaces)

(* The camera sends the next picture. *)
SendFrame(layout) ==
    LET f == Len(shapes) + 1
        cells == FrameCells(f, layout)
    IN /\ f <= MaxFrames
       /\ shapes' = Append(shapes, layout)
       /\ \E cuts \in SUBSET (1..(Len(cells) - 1)) :
             LET pieces == Pieces(cells, cuts)
             IN /\ PackingOk(pieces, Len(Intro(f, layout.key)))
                /\ lastPlaces' = Append(lastPlaces, sentCount + Len(pieces))
                /\ queue' = queue \o [k \in DOMAIN pieces |->
                                        [seq |-> sentCount + k, cells |-> pieces[k]]]
       /\ UNCHANGED <<parser, source, output>>

-----------------------------------------------------------------------------
(* The parser. *)

Nothing == Cell("none", 0, 0, 0)

(* RtpSource is created with new: its members are uninitialised.  A block of *)
(* its size is fresh memory, all zero, or the fill pattern of a debug build; *)
(* frameLen = frameSize in both, curStream is VIDEO_STREAM (0) or neither    *)
(* stream, isFrameStart false or true.                                       *)
NewRtpSource ==
    /\ data = [k \in 1..Mtu |-> Nothing]
    /\ len = 0
    /\ frame = <<>>
    /\ frameSize = 0
    /\ \/ curStream = "video" /\ isFrameStart = FALSE
       \/ curStream = "none" /\ isFrameStart = TRUE
    /\ h264 = <<>>

Init == /\ shapes = <<>> /\ lastPlaces = <<>> /\ queue = <<>>
        /\ NewRtpSource
        /\ pc = "idle" /\ pos = 1
        /\ decoded = <<>> /\ heard = <<>>

(* Past the array the parser reads the members that follow it: no header. *)
CellAt(p) == IF p <= Mtu THEN data[p] ELSE Nothing
KindAt(p) == CellAt(p).kind

(* The cells from p to the end of the packet, and the first n of them. *)
Remaining(p) == SubSeq(data, p, len)
Taken(p, n) == SubSeq(data, p, p + n - 1)

(* memcpy of the packet over data, then parserRtpData. *)
TakePacket(cells) ==
    /\ pc = "idle"
    /\ data' = [k \in 1..Mtu |-> IF k <= Len(cells) THEN cells[k] ELSE data[k]]
    /\ len' = Len(cells)
    /\ pc' = "access"
    /\ pos' = 1

(* Mutation variant: the collected payload is not dropped once the decoder has it. *)
WriteVideoFrameKeeps(payload, start) ==
    /\ decoded' = IF start THEN Append(decoded, h264) ELSE decoded
    /\ h264' = h264 \o payload
    /\ frame' = <<>> /\ frameSize' = 0
    /\ UNCHANGED heard

(* writeVideoFrame: at the start of a picture what was collected before goes *)
(* to the decoder, even if it is nothing.                                    *)
WriteVideoFrame(payload, start) ==
    /\ IF start THEN decoded' = Append(decoded, h264) /\ h264' = payload
                ELSE decoded' = decoded /\ h264' = h264 \o payload
    /\ frame' = <<>> /\ frameSize' = 0
    /\ UNCHANGED heard

WriteAudioFrame(payload) ==
    /\ heard' = Append(heard, payload)
    /\ frame' = <<>> /\ frameSize' = 0
    /\ UNCHANGED <<h264, decoded>>

Write(stream, payload) ==
    CASE stream = "video" -> WriteVideoFrame(payload, isFrameStart)
      [] stream = "audio" -> WriteAudioFrame(payload)
      [] OTHER -> frame' = payload /\ UNCHANGED <<frameSize, h264, decoded, heard>>

(* Mutation variant: a pack header does not mark the start of a picture. *)
AccessPackUnmarked ==
    /\ pc = "access" /\ KindAt(pos) = "pack"
    /\ pc' = "ps"
    /\ UNCHANGED <<sender, data, len, pos, source, output>>

(* accessPsPacket, the packet starts with a pack header. *)
AccessPack ==
    /\ pc = "access" /\ KindAt(pos) = "pack"
    /\ isFrameStart' = TRUE
    /\ pc' = "ps"
    /\ UNCHANGED <<sender, data, len, pos, frame, frameSize, curStream, h264, output>>

(* Mutation variant: a further video PES packet counts as the start of a picture. *)
AccessPesUnmarked ==
    /\ pc = "access" /\ KindAt(pos) \in Streams
    /\ pc' = "pes"
    /\ UNCHANGED <<sender, data, len, pos, source, output>>

(* ... with a video or an audio PES header. *)
AccessPes ==
    /\ pc = "access" /\ KindAt(pos) \in Streams
    /\ isFrameStart' = IF KindAt(pos) = "video" THEN FALSE ELSE isFrameStart
    /\ pc' = "pes"
    /\ UNCHANGED <<sender, data, len, pos, frame, frameSize, curStream, h264, output>>

(* ... with a PES header of private data. *)
AccessPrivate ==
    /\ pc = "access" /\ KindAt(pos) = "private"
    /\ pc' = "idle"
    /\ UNCHANGED <<sender, data, len, pos, source, output>>

Missing == frameSize - Len(frame)

(* Mutation variant: the rest of a frame is always taken for video. *)
AppendRestAsVideo ==
    /\ pc = "access" /\ KindAt(pos) \notin PesKinds \cup {"pack"}
    /\ len >= Missing
    /\ Write("video", frame \o Taken(pos, Missing))
    /\ pos' = pos + Missing
    /\ pc' = "ps"
    /\ UNCHANGED <<sender, data, len, curStream, isFrameStart>>

(* Mutation variant: the parser goes on as far behind as the whole frame is long. *)
AppendRestBehindFrame ==
    /\ pc = "access" /\ KindAt(pos) \notin PesKinds \cup {"pack"}
    /\ len >= Missing
    /\ Write(curStream, frame \o Taken(pos, Missing))
    /\ pos' = pos + frameSize
    /\ pc' = "ps"
    /\ UNCHANGED <<sender, data, len, curStream, isFrameStart>>

(* ... with anything else: appendFrameData, the rest of the frame is there.  *)
(* rtp->len counts the RTP header, so "rtp->len > len" always holds and the  *)
(* parser goes on behind the frame, even at the end of the packet.           *)
AppendRest ==
    /\ pc = "access" /\ KindAt(pos) \notin PesKinds \cup {"pack"}
    /\ len >= Missing
    /\ Write(curStream, frame \o Taken(pos, Missing))
    /\ pos' = pos + Missing
    /\ pc' = "ps"
    /\ UNCHANGED <<sender, data, len, curStream, isFrameStart>>

(* ... the frame is longer than this packet. *)
AppendPart ==
    /\ pc = "access" /\ KindAt(pos) \notin PesKinds \cup {"pack"}
    /\ len < Missing
    /\ frame' = frame \o Remaining(pos)
    /\ pc' = "idle"
    /\ UNCHANGED <<sender, data, len, pos, frameSize, curStream, isFrameStart, h264, output>>

(* resolvePsPacket skips the pack header and, both or neither, the system    *)
(* header and the stream map; a system header alone ends the packet.         *)
ResolvePs ==
    /\ pc = "ps"
    /\ \/ /\ KindAt(pos) # "pack"
          /\ pos' = pos /\ pc' = "pes"
       \/ /\ KindAt(pos) = "pack" /\ KindAt(pos + 1) # "sys"
          /\ pos' = pos + 1 /\ pc' = "pes"
       \/ /\ KindAt(pos) = "pack" /\ KindAt(pos + 1) = "sys"
          /\ IF KindAt(pos + 2) = "map" THEN pos' = pos + 3 /\ pc' = "pes"
                                        ELSE pos' = pos + 2 /\ pc' = "idle"
    /\ UNCHANGED <<sender, data, len, source, output>>

(* The loop of resolvePesPacket goes on while the packet holds more cells. *)
NextPes(size) ==
    /\ pos' = pos + 1 + size
    /\ pc' = IF pos + size < len THEN "pes" ELSE "idle"

(* getVideoFrame, getAudioFrame: the whole payload is in this packet. *)
GetWholeFrame ==
    /\ pc = "pes" /\ KindAt(pos) \in Streams
    /\ CellAt(pos).n <= len - pos
    /\ curStream' = KindAt(pos)
    /\ Write(KindAt(pos), Taken(pos + 1, CellAt(pos).n))
    /\ NextPes(CellAt(pos).n)
    /\ UNCHANGED <<sender, data, len, isFrameStart>>

(* ... only its beginning is.  A header behind the end of the packet is one  *)
(* a longer packet left there: the length to copy is negative, memcpy takes  *)
(* it as a huge one and the process is gone.                                 *)
GetFrameStart ==
    /\ pc = "pes" /\ KindAt(pos) \in Streams
    /\ CellAt(pos).n > len - pos
    /\ curStream' = KindAt(pos)
    /\ IF pos <= len
       THEN /\ frame' = Remaining(pos + 1)
            /\ frameSize' = CellAt(pos).n
            /\ NextPes(CellAt(pos).n)
       ELSE pc' = "crashed" /\ UNCHANGED <<pos, frame, frameSize>>
    /\ UNCHANGED <<sender, data, len, isFrameStart, h264, output>>

PesEnd ==
    /\ pc = "pes" /\ KindAt(pos) \notin Streams
    /\ pc' = "idle"
    /\ UNCHANGED <<sender, data, len, pos, source, output>>

Parse == \/ AccessPack
         \/ AccessPes
         \/ AccessPrivate
         \/ AppendRest
         \/ AppendPart
         \/ ResolvePs
         \/ GetWholeFrame
         \/ GetFrameStart
         \/ PesEnd

-----------------------------------------------------------------------------
(* A connection that delivers everything in order. *)

ReceiveNext ==
    /\ queue # <<>>
    /\ TakePacket(Head(queue).cells)
    /\ queue' = Tail(queue)
    /\ UNCHANGED <<shapes, lastPlaces, source, output>>

Next == \/ queue = <<>> /\ \E layout \in Layouts : SendFrame(layout)
        \/ ReceiveNext
        \/ Parse

Spec == Init /\ [][Next]_vars

(* The receiving thread is scheduled; the camera may stop at any time. *)
FairSpec == Spec /\ WF_vars(ReceiveNext) /\ WF_vars(Parse)

-----------------------------------------------------------------------------
(* Properties. *)

CellKinds == PesKinds \cup {"pack", "sys", "map", "data", "none"}
Cells == [kind : CellKinds, frame : 0..MaxFrames, unit : Nat, n : Nat]

TypeOK == /\ shapes \in Seq(Layouts) /\ lastPlaces \in Seq(Nat)
          /\ queue \in Seq([seq : 1..sentCount, cells : Seq(Cells)])
          /\ data \in [1..Mtu -> Cells] /\ len \in 0..Mtu
          /\ pc \in {"idle", "access", "ps", "pes", "crashed"} /\ pos \in Nat \ {0}
          /\ frame \in Seq(Cells) /\ frameSize \in Nat
          /\ curStream \in Streams \cup {"none"} /\ isFrameStart \in BOOLEAN
          /\ h264 \in Seq(Cells)
          /\ decoded \in Seq(Seq(Cells)) /\ heard \in Seq(Seq(Cells))

(* frameBuff is never filled beyond the announced size, over any number of  *)
(* RTP packets that carry parts of the frame.                               *)
FrameFits == Len(frame) <= frameSize

(* The packet in hand ends where the PES header of a longer packet may have *)
(* stood before, and the parser stands behind its end.                      *)
BehindTail == pos = len + 1 /\ len \in HeaderOffsets /\ KindAt(1) # "pack"

(* A PES header that is parsed is one of the packet in hand, with a single  *)
(* exception, which ends the process: a packet without a pack header that   *)
(* completes a frame with its last byte and is just as long as what stood   *)
(* before a PES header in an earlier packet.  Nothing else in the stream,   *)
(* and no cut, makes the parser read what earlier packets left.             *)
ParsesOwnBytes ==
    /\ pc = "pes" /\ KindAt(pos) \in Streams => pos <= len \/ BehindTail
    /\ pc = "crashed" => BehindTail

(* A packet that does not begin with a header is the middle part of a frame, *)
(* says a comment, and is stored behind the frame's beginning.  If no header *)
(* stands in it at all, that should be the end of it: no such packet may end *)
(* the process.                                                              *)
MiddleOnlyStored ==
    pc = "crashed" => \E p \in 1..len : KindAt(p) \in PesKinds \cup {"pack"}

(* The calls of a decoder that gave it something. *)
WithBytes(calls) ==
    FlattenSeq([i \in DOMAIN calls |-> IF calls[i] = <<>> THEN <<>> ELSE <<calls[i]>>])

(* The decoder is given whole pictures, each once, in order: a call with     *)
(* bytes gets all the video payload of one picture and nothing else.         *)
DecodedPictures == WithBytes(decoded)

WholePictures ==
    /\ Len(DecodedPictures) <= Len(shapes)
    /\ \A i \in DOMAIN DecodedPictures : DecodedPictures[i] = VideoOf(i)

(* The audio decoder is given every audio PES packet whole and in order. *)
AudioSent == FlattenSeq([f \in DOMAIN shapes |-> AudioOf(f)])

WholeAudio == IsPrefix(WithBytes(heard), AudioSent)

(* Every picture but the last reaches the decoder, unless the process ends  *)
(* as ParsesOwnBytes says.                                                  *)
EveryPictureDecoded ==
    \A f \in 1..(MaxFrames - 1) :
        Len(shapes) > f ~> Len(DecodedPictures) >= f \/ pc = "crashed"
=============================================================================
