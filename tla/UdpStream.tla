------------------------------- MODULE UdpStream -------------------------------
(***************************************************************************)
(* The stream over UDP: PsStreamUdpServer::executeProcess in front of the  *)
(* parser of PsStream.tla.  The network loses, reorders and duplicates the *)
(* datagrams; the server parses one only if its sequence number follows    *)
(* that of the datagram before it, parsed or not.  Left out: datagrams of  *)
(* no more than 12 bytes, which are ignored, and an error of recvfrom,     *)
(* which ends the loop (PlaySession.HandleClosed): nothing is parsed then. *)
(***************************************************************************)
EXTENDS PsStream

CONSTANTS SeqModulus,  \* 2^16: RTP sequence numbers; here more than the packets
                       \*   sent, for no delay or outage lasts a whole cycle
          FirstSeq,    \* sequence number of the first packet of the camera
          Window,      \* bound: the camera sends a picture only while every
                       \*   datagram on its way is one of the last Window
          MaxDup       \* bound: datagrams the network duplicates

ASSUME UdpAssumption == /\ SeqModulus \in Nat \ {0} /\ FirstSeq \in 0..(SeqModulus - 1)
                        /\ Window \in Nat /\ MaxDup \in Nat

VARIABLES seqNo,     \* m_seqNo
          accepted,  \* the packets parsed, by their place in the stream
          dups       \* datagrams duplicated so far

udp == <<seqNo, accepted, dups>>
udpVars == <<vars, udp>>

UdpInit == /\ Init
           /\ seqNo = SeqModulus - 1
           /\ accepted = <<>> /\ dups = 0

WireSeq(place) == (FirstSeq + place - 1) % SeqModulus

(* Mutation variant: the number of a datagram is not reduced to 16 bits. *)
ReceiveWide(i) ==
    /\ pc = "idle"
    /\ queue' = RemoveAt(queue, i)
    /\ seqNo' = FirstSeq + queue[i].seq - 1
    /\ IF (seqNo + 1) % SeqModulus = WireSeq(queue[i].seq)
       THEN TakePacket(queue[i].cells) /\ accepted' = Append(accepted, queue[i].seq)
       ELSE UNCHANGED <<parser, accepted>>
    /\ UNCHANGED <<shapes, lastPlaces, source, output, dups>>

(* Mutation variant: every datagram is parsed. *)
ReceiveUngated(i) ==
    /\ pc = "idle"
    /\ queue' = RemoveAt(queue, i)
    /\ seqNo' = WireSeq(queue[i].seq)
    /\ TakePacket(queue[i].cells) /\ accepted' = Append(accepted, queue[i].seq)
    /\ UNCHANGED <<shapes, lastPlaces, source, output, dups>>

(* recvfrom returns datagram i of those on their way. *)
Receive(i) ==
    /\ pc = "idle"
    /\ queue' = RemoveAt(queue, i)
    /\ seqNo' = WireSeq(queue[i].seq)
    /\ IF (seqNo + 1) % SeqModulus = WireSeq(queue[i].seq)
       THEN TakePacket(queue[i].cells) /\ accepted' = Append(accepted, queue[i].seq)
       ELSE UNCHANGED <<parser, accepted>>
    /\ UNCHANGED <<shapes, lastPlaces, source, output, dups>>

(* The network (external). *)
Lose(i) ==
    /\ queue' = RemoveAt(queue, i)
    /\ UNCHANGED <<shapes, lastPlaces, parser, source, output, udp>>

Duplicate(i) ==
    /\ dups < MaxDup
    /\ dups' = dups + 1
    /\ queue' = Append(queue, queue[i])
    /\ UNCHANGED <<shapes, lastPlaces, parser, source, output, seqNo, accepted>>

InWindow == \A i \in DOMAIN queue : sentCount - queue[i].seq < Window

UdpNext ==
    \/ InWindow /\ (\E layout \in Layouts : SendFrame(layout)) /\ UNCHANGED udp
    \/ \E i \in DOMAIN queue : Receive(i)
    \/ \E i \in DOMAIN queue : Lose(i)
    \/ \E i \in DOMAIN queue : Duplicate(i)
    \/ Parse /\ UNCHANGED udp

UdpSpec == UdpInit /\ [][UdpNext]_udpVars

-----------------------------------------------------------------------------
(* Properties. *)

UdpTypeOK == /\ TypeOK
             /\ seqNo \in 0..(SeqModulus - 1)
             /\ accepted \in Seq(1..sentCount) /\ dups \in 0..MaxDup

(* However the datagrams are reordered, a packet is not parsed twice if the  *)
(* network duplicates only one.  (Two duplicates defeat the gate: the second *)
(* of a pair follows the first of the pair again.)  The very first datagram  *)
(* is compared with the initial 0xffff, so it may be parsed without the one  *)
(* before it, and again behind that one.                                     *)
AcceptedOnce == IsInjective(SubSeq(accepted, 2, Len(accepted)))

(* The stream heals: whatever was lost or mixed up before, when the packets  *)
(* of a picture and of the next one are parsed without a gap, the decoder is *)
(* given that picture whole.                                                 *)
FirstPlace(f) == IF f = 1 THEN 1 ELSE lastPlaces[f - 1] + 1

ParsedInARow(first, last) ==
    \E i \in DOMAIN accepted : \A k \in first..last :
       i + k - first <= Len(accepted) /\ accepted[i + k - first] = k

Healed ==
    pc = "idle" =>
       \A f \in 1..(Len(shapes) - 1) :
          ParsedInARow(FirstPlace(f), lastPlaces[f + 1]) =>
             \E i \in DOMAIN decoded : decoded[i] = VideoOf(f)
=============================================================================
