------------------------------- MODULE PacketPipe -------------------------------
(***************************************************************************)
(* What the TCP receiver promises to the stream parser: the RTP packets of *)
(* the camera, each once, whole and in the order sent.  It is what         *)
(* ReceiveNext of PsStream.tla takes for granted.                          *)
(***************************************************************************)
EXTENDS Naturals, Sequences

CONSTANT Packet

VARIABLES sent, got

Init == sent = <<>> /\ got = <<>>

Send == /\ \E p \in Packet : sent' = Append(sent, p)
        /\ UNCHANGED got

Deliver == /\ Len(got) < Len(sent)
           /\ got' = Append(got, sent[Len(got) + 1])
           /\ UNCHANGED sent

Spec == Init /\ [][Send \/ Deliver]_<<sent, got>>
=============================================================================
