------------------------------ MODULE MCUdpStream ------------------------------
(* Pictures for model checking: one PES packet of video, and two.             *)
EXTENDS UdpStream

Video(size) == [stream |-> "video", size |-> size]

Pictures == {[key |-> FALSE, pes |-> <<Video(1)>>],
             [key |-> FALSE, pes |-> <<Video(1), Video(1)>>]}
=============================================================================
