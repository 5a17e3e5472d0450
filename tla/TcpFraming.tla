------------------------------- MODULE TcpFraming -------------------------------
(***************************************************************************)
(* The receive loop of PsStreamTcpServer::executeProcess.  On the TCP      *)
(* connection every RTP packet is preceded by its size in two bytes.  One  *)
(* recv returns any number of bytes, up to the size of recv_buf; the loop  *)
(* collects in rtp_packet a packet that several of them carry.             *)
(*                                                                         *)
(* A byte is modelled by where it belongs: the packet it is of and its     *)
(* position there, -1 and 0 for the two bytes of the size.  The value of   *)
(* the size is read from two bytes that are those of one packet; two       *)
(* others give any value.  The code does not test the size: a camera may   *)
(* send packets that do not fit into rtp_packet, and copying one there     *)
(* writes behind the array, which ends the process here.                   *)
(***************************************************************************)
EXTENDS Integers, Sequences, FiniteSets, SequencesExt

CONSTANTS Sizes,        \* sizes of the RTP packets a camera sends
          MaxSent,      \* bound: packets sent
          RtpHeader,    \* 12: no packet of this size or less is looked at
          BufSize,      \* MAX_BUFF_SIZE: recv_buf and rtp_packet
          MaxSize,      \* 65535, the largest size two bytes can tell
          SplitPrefix   \* whether one recv may end between the bytes of a size

ASSUME FramingAssumption ==
    /\ MaxSize \in Nat /\ Sizes \subseteq 0..MaxSize
    /\ MaxSent \in Nat /\ RtpHeader \in Nat
    /\ BufSize \in Nat \ {0, 1} /\ SplitPrefix \in BOOLEAN

VARIABLES sent,        \* the sizes of the packets sent so far
          wire,        \* bytes sent and not received
          buf,         \* the n bytes from tmp on: received and not looked at
          packetSize,  \* 0: a size comes next
          packet,      \* rtp_packet, as far as packeLen
          packets,     \* packets given to parseWholeRtpPacket
          open,        \* m_connfd: stop has not closed it
          status       \* "running": m_bRunning; "ended"; "crashed"

input == <<sent, wire>>
vars == <<input, buf, packetSize, packet, packets, open, status>>

Byte(f, k) == [frame |-> f, at |-> k]
Payload(f, size) == [k \in 1..size |-> Byte(f, k)]
OnWire(f, size) == <<Byte(f, -1), Byte(f, 0)>> \o Payload(f, size)

Stale == Byte(0, 0)

-----------------------------------------------------------------------------
Init == /\ sent = <<>> /\ wire = <<>>
        /\ buf = <<>> /\ packetSize = 0 /\ packet = <<>> /\ packets = <<>>
        /\ open = TRUE /\ status = "running"

(* The camera (external). *)
Send(size) ==
    /\ Len(sent) < MaxSent
    /\ sent' = Append(sent, size)
    /\ wire' = wire \o OnWire(Len(sent) + 1, size)
    /\ UNCHANGED <<buf, packetSize, packet, packets, open, status>>

(* Mutation variant: a buffer that recv fills is taken for one that ends a packet. *)
RecvForgets(n) ==
    /\ status = "running" /\ open /\ buf = <<>>
    /\ n \in 1..Len(wire) /\ n <= BufSize
    /\ SplitPrefix \/ wire[n].at # -1
    /\ buf' = SubSeq(wire, 1, n)
    /\ wire' = SubSeq(wire, n + 1, Len(wire))
    /\ packetSize' = 0 /\ packet' = <<>>
    /\ UNCHANGED <<sent, packets, open, status>>

(* recv returns n bytes. *)
Recv(n) ==
    /\ status = "running" /\ open /\ buf = <<>>
    /\ n \in 1..Len(wire) /\ n <= BufSize
    /\ SplitPrefix \/ wire[n].at # -1
    /\ buf' = SubSeq(wire, 1, n)
    /\ wire' = SubSeq(wire, n + 1, Len(wire))
    /\ UNCHANGED <<sent, packetSize, packet, packets, open, status>>

(* Mutation variant: an error of recv does not end the loop. *)
RecvErrorIgnored ==
    /\ status = "running" /\ ~open /\ buf = <<>>
    /\ UNCHANGED vars

(* recv fails, the loops end. *)
RecvError ==
    /\ status = "running" /\ ~open /\ buf = <<>>
    /\ status' = "ended"
    /\ UNCHANGED <<input, buf, packetSize, packet, packets, open>>

(* stop, called by the GUI thread. *)
Stop == /\ open
        /\ open' = FALSE
        /\ UNCHANGED <<input, buf, packetSize, packet, packets, status>>

Crash == status' = "crashed" /\ UNCHANGED <<buf, packetSize, packet, packets>>

(* A packet is complete after taking this many bytes from buf. *)
Complete(whole, used) ==
    /\ packets' = Append(packets, whole)
    /\ buf' = SubSeq(buf, used + 1, Len(buf))
    /\ packetSize' = 0 /\ packet' = <<>>
    /\ UNCHANGED status

(* What is left of buf after its first bytes belongs to a longer packet. *)
Collect(size, skip) ==
    /\ packet' = packet \o SubSeq(buf, skip + 1, Len(buf))
    /\ buf' = <<>>
    /\ packetSize' = size
    /\ UNCHANGED <<packets, status>>

Missing == packetSize - Len(packet)

(* Mutation variant: a packet that ends with the buffer is kept open. *)
FillPacketOpen ==
    /\ status = "running" /\ buf # <<>> /\ packetSize > 0
    /\ IF Len(buf) > Missing
       THEN Complete(packet \o SubSeq(buf, 1, Missing), Missing)
       ELSE Collect(packetSize, 0)
    /\ UNCHANGED <<input, open>>

(* Lines 82 to 102: the packet was begun by an earlier recv. *)
FillPacket ==
    /\ status = "running" /\ buf # <<>> /\ packetSize > 0
    /\ IF Len(buf) >= Missing
       THEN IF packetSize > BufSize THEN Crash
            ELSE Complete(packet \o SubSeq(buf, 1, Missing), Missing)
       ELSE IF Len(packet) + Len(buf) > BufSize THEN Crash
            ELSE Collect(packetSize, 0)
    /\ UNCHANGED <<input, open>>

(* What (tmp[0] << 8) | tmp[1] may be. *)
SizeRead ==
    IF Len(buf) > 1 /\ buf[1].at = -1 /\ buf[2] = Byte(buf[1].frame, 0)
    THEN {sent[buf[1].frame]} ELSE 0..MaxSize

(* Mutation variant: the size counts its own two bytes. *)
StartPacketShort ==
    /\ status = "running" /\ packetSize = 0 /\ Len(buf) > 1
    /\ \E size \in SizeRead :
          IF Len(buf) >= size
          THEN Complete(SubSeq(buf, 3, size), size)
          ELSE Collect(size, 2)
    /\ UNCHANGED <<input, open>>

(* Lines 103 to 126: a size, and what there is of its packet. *)
StartPacket ==
    /\ status = "running" /\ packetSize = 0 /\ Len(buf) > 1
    /\ \E size \in SizeRead :
          IF Len(buf) - 2 >= size
          THEN Complete(SubSeq(buf, 3, size + 2), size + 2)
          ELSE Collect(size, 2)
    /\ UNCHANGED <<input, open>>

(* Mutation variant: the loop waits for the second byte and does not receive it. *)
StartFromOneByteWaits ==
    /\ status = "running" /\ packetSize = 0 /\ Len(buf) = 1
    /\ UNCHANGED vars

(* ... when only one byte is left: tmp[1] and the packet are what an earlier *)
(* recv left in recv_buf, because n = -1, compared with an unsigned number,  *)
(* is not less than any size; the loop ends with n negative.                 *)
StartFromOneByte ==
    /\ status = "running" /\ packetSize = 0 /\ Len(buf) = 1
    /\ \E size \in SizeRead :
          IF size > BufSize THEN Crash ELSE Complete([k \in 1..size |-> Stale], 1)
    /\ UNCHANGED <<input, open>>

Loop == FillPacket \/ StartPacket \/ StartFromOneByte

Next == \/ \E size \in Sizes : Send(size)
        \/ \E n \in 1..BufSize : Recv(n)
        \/ RecvError
        \/ Stop
        \/ Loop

Spec == Init /\ [][Next]_vars

(* The thread runs, and recv does not wait while there are bytes. *)
FairSpec == /\ Spec
            /\ WF_vars(\E n \in 1..BufSize : Recv(n))
            /\ WF_vars(RecvError)
            /\ WF_vars(Loop)

-----------------------------------------------------------------------------
(* Properties. *)

Bytes == [frame : 0..MaxSent, at : -1..MaxSize]

TypeOK == /\ sent \in Seq(Sizes)
          /\ wire \in Seq(Bytes) /\ buf \in Seq(Bytes)
          /\ packetSize \in 0..MaxSize
          /\ packet \in Seq(Bytes) /\ packets \in Seq(Seq(Bytes))
          /\ open \in BOOLEAN /\ status \in {"running", "ended", "crashed"}

(* Every byte the camera sent is in exactly one place, in order: in a packet *)
(* that was parsed, in the one being collected, in the buffer or still on    *)
(* the wire.  A byte lost or used twice anywhere shows here.                 *)
Begun == IF packetSize = 0 THEN <<>>
         ELSE OnWire(Len(packets) + 1, 0) \o packet

StreamConserved ==
    FlattenSeq([f \in DOMAIN sent |-> OnWire(f, sent[f])])
      = FlattenSeq([f \in DOMAIN packets |-> OnWire(f, 0) \o packets[f]])
          \o Begun \o buf \o wire

(* What is parsed are the packets of the camera, from the first one on: the  *)
(* two bytes taken for a size are one, wherever recv cuts the stream.        *)
SentPackets == [f \in DOMAIN sent |-> Payload(f, sent[f])]

PacketsAsSent == IsPrefix(packets, SentPackets)

(* The receiver is a pipe for the packets parseWholeRtpPacket does not drop. *)
Whole(seq) ==
    FlattenSeq([f \in DOMAIN seq |-> IF Len(seq[f]) > RtpHeader THEN <<seq[f]>> ELSE <<>>])

Pipe == INSTANCE PacketPipe
          WITH Packet <- {Payload(f, size) : f \in 1..MaxSent, size \in Sizes},
               sent <- Whole(SentPackets), got <- Whole(packets)

PipeRefinement == Pipe!Spec

(* In step with the sizes, the process ends only while it collects a packet *)
(* that does not fit into rtp_packet: packets that fit never overrun it,    *)
(* however many recv calls carry them and whatever shares those with them.  *)
Fits(f) == sent[f] <= BufSize

CrashOnlyOversize ==
    status = "crashed" => Len(packets) < Len(sent) /\ ~Fits(Len(packets) + 1)

(* Every packet up to the first that does not fit is parsed, unless the     *)
(* receiver is stopped; and then its thread ends.                           *)
EveryPacketParsed ==
    \A f \in 1..MaxSent :
        Len(sent) >= f /\ (\A g \in 1..f : Fits(g)) ~> Len(packets) >= f \/ ~open

StopEnds == ~open ~> status # "running"

(* Out of step with the sizes, the loop still goes on taking bytes off the   *)
(* connection, short of a crash: no garbage in place of a size blocks it.    *)
InputDrained == wire # <<>> ~> wire = <<>> \/ ~open \/ status = "crashed"
=============================================================================
