------------------------------- MODULE MCPsStream -------------------------------
(* Pictures for model checking: two PES packets of video, as a picture of     *)
(* more than 64 kB needs; a key frame with audio; private data at the end.    *)
EXTENDS PsStream

Pes(stream, size) == [stream |-> stream, size |-> size]

TwoVideo == [key |-> FALSE, pes |-> <<Pes("video", 2), Pes("video", 2)>>]
KeyWithAudio == [key |-> TRUE, pes |-> <<Pes("video", 2), Pes("audio", 2)>>]
VideoThenPrivate == [key |-> FALSE, pes |-> <<Pes("video", 2), Pes("private", 1)>>]

MCLayouts == {TwoVideo, KeyWithAudio, VideoThenPrivate}
=============================================================================
