------------------------------ MODULE PlaySession ------------------------------
(***************************************************************************)
(* Playing streams in the video widgets: onPlay, onStop and onVideoClicked *)
(* of GBClient, VideoWidget with its server object, and the life of the    *)
(* receiving thread that executeProcess is.  What the thread does with a   *)
(* packet is the matter of TcpFraming, UdpStream and PsStream; here it is  *)
(* "parsing" and may end in a picture for the widget.                      *)
(*                                                                         *)
(* A server is numbered by the play that creates it.  The UI thread and    *)
(* the receiving thread share it without a lock, so every access of one    *)
(* handler that the other thread could see is a step of its own.           *)
(***************************************************************************)
EXTENDS SequencesExt

CONSTANTS NumWidgets,   \* widgets in m_videos
          MaxPlays,     \* bound on the servers created
          MaxPictures,  \* bound on the pictures that wait for the UI thread
          Ports         \* PORT_ALLOC_BEGIN .. PORT_ALLOC_END - 1

ASSUME PlayAssumption ==
    /\ NumWidgets \in Nat \ {0} /\ MaxPlays \in Nat /\ MaxPictures \in Nat
    /\ Ports \subseteq Nat \ {0}

Widgets == 1..NumWidgets
Sessions == 1..MaxPlays
Kinds == {"UDP", "TCP"}

VARIABLES server,     \* m_streamServer of each widget, 0: nullptr
          plays,      \* servers created
          sess,       \* the servers and their threads
          called,     \* ports to which a camera was told to send
          ui,         \* the handler the UI thread is in
          pictures,   \* queued frameChanged calls, by session
          crashed,    \* undefined behaviour has ended the process
          stopped,    \* history: sessions that stop() has been through
          crossed,    \* history: sessions accepted between the closes of stop()
          hasty       \* history: a click came before the threads had reacted

vars == <<server, plays, sess, called, ui, pictures, crashed, stopped, crossed, hasty>>

Alive == {"starting", "accepting", "receiving", "parsing", "closing", "leaving"}

(* sources: m_rtpSources is empty, holds sources, or holds pointers to      *)
(* deleted ones.  wired: the decoders are connected to the widget.          *)
Session == [kind : Kinds, thread : {"none", "done"} \cup Alive, running : BOOLEAN,
            port : {0} \cup Ports, conn : {"none", "open", "closed"},
            sources : {"none", "held", "freed"}, wired : BOOLEAN, deleted : BOOLEAN]

NewSession(k, p) == [kind |-> k, thread |-> "none", running |-> FALSE, port |-> p,
                     conn |-> "none", sources |-> "none", wired |-> FALSE, deleted |-> FALSE]

Idle == [at |-> "idle", widget |-> 0, kind |-> "UDP", play |-> FALSE, port |-> 0]

SessionTypeOK ==
    /\ server \in [Widgets -> 0..MaxPlays]
    /\ plays \in 0..MaxPlays
    /\ sess \in [1..plays -> Session]
    /\ called \subseteq Ports \X Kinds
    /\ ui \in [at : {"idle", "scan", "free", "closeConn", "closeSock", "unwire", "delete",
                     "hung", "open", "start", "wire", "invite"},
               widget : 0..NumWidgets, kind : Kinds, play : BOOLEAN,
               port : {0} \cup Ports]
    /\ pictures \in Seq(Sessions)
    /\ crashed \in BOOLEAN
    /\ stopped \subseteq Sessions
    /\ crossed \subseteq stopped \cup {server[w] : w \in Widgets}
    /\ hasty \in BOOLEAN

Init == /\ server = [w \in Widgets |-> 0]
        /\ plays = 0
        /\ sess = <<>>
        /\ called = {}
        /\ ui = Idle
        /\ pictures = <<>>
        /\ crashed = FALSE
        /\ stopped = {}
        /\ crossed = {}
        /\ hasty = FALSE

-----------------------------------------------------------------------------
(* Helpers. *)

IsRunning(w) == server[w] # 0 /\ sess[server[w]].running

Current == server[ui.widget]

(* Undefined behaviour ends the process or does no visible harm. *)
Undefined == crashed' \in BOOLEAN
UndefinedIf(bad) == IF bad THEN Undefined ELSE UNCHANGED crashed

(* A human click comes long after the threads have answered the last one: a *)
(* thread that was started is in its loop, one that was stopped is over.    *)
Settled == \A s \in 1..plays :
              /\ sess[s].thread # "starting"
              /\ s \in stopped => sess[s].thread \notin Alive \/ s \in crossed

Click == ~crashed /\ ui.at = "idle" /\ hasty' = (hasty \/ ~Settled)

At(place) == ~crashed /\ ui.at = place
GoTo(place) == ui' = [ui EXCEPT !.at = place]

-----------------------------------------------------------------------------
(* The UI thread: selecting, playing, stopping. *)

(* onVideoClicked selects a widget or, on the selected one, none: whatever  *)
(* the user wants to be selected at his next click is selected by then.     *)
NotSelected == 0
Selectable == Widgets \cup {NotSelected}

(* Mutation variant: onPlay stops the selected widget whatever it does. *)
PlaySelectedAlways(w, k) ==
    /\ Click /\ w # NotSelected /\ plays < MaxPlays
    /\ ui' = [at |-> IF server[w] # 0 THEN "free" ELSE "delete",
              widget |-> w, kind |-> k, play |-> TRUE, port |-> 0]
    /\ UNCHANGED <<server, plays, sess, called, pictures, crashed, stopped, crossed>>

(* onPlay into the selected widget: what it shows is stopped first. *)
PlaySelected(w, k) ==
    /\ Click /\ w # NotSelected /\ plays < MaxPlays
    /\ ui' = [at |-> IF IsRunning(w) THEN "free" ELSE "delete",
              widget |-> w, kind |-> k, play |-> TRUE, port |-> 0]
    /\ UNCHANGED <<server, plays, sess, called, pictures, crashed, stopped, crossed>>

(* onPlay without a selection looks for a widget that is not running. *)
PlayAnywhere(w, k) ==
    /\ Click /\ w = NotSelected
    /\ plays < MaxPlays \/ \A v \in Widgets : IsRunning(v)
    /\ ui' = [at |-> "scan", widget |-> 1, kind |-> k, play |-> TRUE, port |-> 0]
    /\ UNCHANGED <<server, plays, sess, called, pictures, crashed, stopped, crossed>>

(* At the bound MaxPlays every widget counts as busy. *)
Busy(w) == IsRunning(w) \/ plays = MaxPlays

(* Mutation variant: the loop goes one widget too far. *)
ScanWidgetBeyond ==
    /\ At("scan")
    /\ ui' = IF ~Busy(ui.widget) THEN [ui EXCEPT !.at = "delete"]
             ELSE [ui EXCEPT !.widget = @ + 1]
    /\ UNCHANGED <<server, plays, sess, called, pictures, crashed, stopped, crossed, hasty>>

ScanWidget ==
    /\ At("scan")
    /\ ui' = IF ~Busy(ui.widget) THEN [ui EXCEPT !.at = "delete"]
             ELSE IF ui.widget < NumWidgets THEN [ui EXCEPT !.widget = @ + 1]
             ELSE Idle
    /\ UNCHANGED <<server, plays, sess, called, pictures, crashed, stopped, crossed, hasty>>

(* onStop; a widget nothing was played in has no server to call. *)
OnStop(w) ==
    /\ Click /\ w # NotSelected
    /\ IF server[w] = 0
       THEN crashed' = TRUE /\ UNCHANGED ui
       ELSE /\ ui' = [Idle EXCEPT !.at = "free", !.widget = w]
            /\ UNCHANGED crashed
    /\ UNCHANGED <<server, plays, sess, called, pictures, stopped, crossed>>

(* stop() of the server: the sources are deleted, but stay in the vector. *)
StopFree ==
    /\ At("free")
    /\ UndefinedIf(sess[Current].sources = "freed")
    /\ sess' = [sess EXCEPT ![Current].sources = IF @ = "none" THEN "none" ELSE "freed"]
    /\ GoTo(IF sess[Current].kind = "TCP" THEN "closeConn" ELSE "closeSock")
    /\ UNCHANGED <<server, plays, called, pictures, stopped, crossed, hasty>>

StopCloseConn ==
    /\ At("closeConn")
    /\ sess' = [sess EXCEPT ![Current].conn = IF @ = "open" THEN "closed" ELSE @]
    /\ GoTo("closeSock")
    /\ UNCHANGED <<server, plays, called, pictures, crashed, stopped, crossed, hasty>>

(* Mutation variant: the socket is left open. *)
StopCloseSockNot ==
    /\ At("closeSock")
    /\ GoTo("unwire")
    /\ UNCHANGED <<server, plays, sess, called, pictures, crashed, stopped, crossed, hasty>>

StopCloseSock ==
    /\ At("closeSock")
    /\ sess' = [sess EXCEPT ![Current].port = 0]
    /\ GoTo("unwire")
    /\ UNCHANGED <<server, plays, called, pictures, crashed, stopped, crossed, hasty>>

(* Mutation variant: the decoders stay connected to the widget. *)
StopUnwireNot ==
    /\ At("unwire")
    /\ stopped' = stopped \cup {Current}
    /\ ui' = IF ui.play THEN [ui EXCEPT !.at = "delete"] ELSE Idle
    /\ UNCHANGED <<server, plays, sess, called, pictures, crashed, crossed, hasty>>

(* Then VideoWidget::stop disconnects the decoders. *)
StopUnwire ==
    /\ At("unwire")
    /\ sess' = [sess EXCEPT ![Current].wired = FALSE]
    /\ stopped' = stopped \cup {Current}
    /\ ui' = IF ui.play THEN [ui EXCEPT !.at = "delete"] ELSE Idle
    /\ UNCHANGED <<server, plays, called, pictures, crashed, crossed, hasty>>

-----------------------------------------------------------------------------
(* The UI thread: VideoWidget::allocReceivePort. *)

(* What is left of a server object: its thread and handles, if any, and its *)
(* decoders, which nobody deletes and only stop() disconnects.              *)
Remains(session) == [session EXCEPT !.deleted = TRUE, !.sources = "none"]

(* Mutation variant: the destructor does not wait for the thread. *)
DeleteServerAtOnce ==
    /\ At("delete")
    /\ sess' = [s \in DOMAIN sess |-> IF s = Current THEN Remains(sess[s]) ELSE sess[s]]
    /\ GoTo("open")
    /\ UNCHANGED <<server, plays, called, pictures, crashed, stopped, crossed, hasty>>

(* The destructor spins while (m_bRunning) and goes on when it is false. *)
DeleteServer ==
    /\ At("delete")
    /\ ~IsRunning(ui.widget)
    /\ sess' = [s \in DOMAIN sess |-> IF s = Current THEN Remains(sess[s]) ELSE sess[s]]
    /\ GoTo("open")
    /\ UNCHANGED <<server, plays, called, pictures, crashed, stopped, crossed, hasty>>

(* The flag is not atomic: a build may read it once and spin for ever. *)
SpinForever ==
    /\ At("delete")
    /\ IsRunning(ui.widget)
    /\ GoTo("hung")
    /\ UNCHANGED <<server, plays, sess, called, pictures, crashed, stopped, crossed, hasty>>

(* The ports of UDP and of TCP are different ones. *)
FreePorts == Ports \ {sess[s].port : s \in {t \in DOMAIN sess : sess[t].kind = ui.kind}}

FirstFree == {p \in FreePorts : \A q \in FreePorts : p <= q}

(* A new server is bound to the first port that is free; without one, as    *)
(* other programs use the range too, its socket is closed and there will    *)
(* be no thread.                                                            *)
OpenServer ==
    /\ At("open")
    /\ \E p \in {0} \cup FirstFree :
          /\ sess' = Append(sess, NewSession(ui.kind, p))
          /\ ui' = IF p # 0 THEN [ui EXCEPT !.at = "start", !.port = p] ELSE Idle
    /\ plays' = plays + 1
    /\ server' = [server EXCEPT ![ui.widget] = plays + 1]
    /\ UNCHANGED <<called, pictures, crashed, stopped, crossed, hasty>>

StartThread ==
    /\ At("start")
    /\ sess' = [sess EXCEPT ![Current].thread = "starting"]
    /\ GoTo("wire")
    /\ UNCHANGED <<server, plays, called, pictures, crashed, stopped, crossed, hasty>>

WireDecoders ==
    /\ At("wire")
    /\ sess' = [sess EXCEPT ![Current].wired = TRUE]
    /\ GoTo("invite")
    /\ UNCHANGED <<server, plays, called, pictures, crashed, stopped, crossed, hasty>>

(* handleInvite fails when the channel is gone, which onPlay ignores.  A    *)
(* camera that was invited sends for good: stop() sends no BYE.             *)
Invite ==
    /\ At("invite")
    /\ \/ called' = called \cup {<<ui.port, ui.kind>>}
       \/ UNCHANGED called
    /\ ui' = Idle
    /\ UNCHANGED <<server, plays, sess, pictures, crashed, stopped, crossed, hasty>>

(* The event loop delivers a picture, also one whose decoder has been       *)
(* disconnected since it was queued.                                        *)
SetVideoFrame ==
    /\ At("idle")
    /\ pictures # <<>>
    /\ pictures' = Tail(pictures)
    /\ UNCHANGED <<server, plays, sess, called, ui, crashed, stopped, crossed, hasty>>

UiStep == \/ ScanWidget \/ StopFree \/ StopCloseConn \/ StopCloseSock \/ StopUnwire
          \/ DeleteServer
          \/ OpenServer \/ StartThread \/ WireDecoders \/ Invite

UserClick == \E w \in Selectable : \/ \E k \in Kinds : PlaySelected(w, k) \/ PlayAnywhere(w, k)
                                   \/ OnStop(w)

-----------------------------------------------------------------------------
(* The receiving thread: executeProcess of session s. *)

Thread(s, place) == ~crashed /\ s \in 1..plays /\ sess[s].thread = place

uiVars == <<server, plays, called, ui, stopped, hasty>>

(* The thread works on its server object, which may have been deleted. *)
ThreadStarts(s) ==
    /\ Thread(s, "starting")
    /\ UndefinedIf(sess[s].deleted)
    /\ sess' = [sess EXCEPT ![s].running = TRUE,
                   ![s].thread = IF sess[s].kind = "TCP" THEN "accepting" ELSE "receiving"]
    /\ UNCHANGED <<uiVars, pictures, crossed>>

(* m_connfd is set when accept returns: a stop() that has passed            *)
(* closesocket(m_connfd) by then leaves this connection open.               *)
Accept(s) ==
    /\ Thread(s, "accepting")
    /\ <<sess[s].port, "TCP">> \in called
    /\ UndefinedIf(sess[s].deleted)
    /\ sess' = [sess EXCEPT ![s].thread = "receiving", ![s].conn = "open"]
    /\ crossed' = IF ui.at = "closeSock" /\ Current = s THEN crossed \cup {s} ELSE crossed
    /\ UNCHANGED <<uiVars, pictures>>

(* accept and recv fail on a handle that has been closed. *)
HandleClosed(s) ==
    /\ \/ Thread(s, "accepting") /\ sess[s].port = 0
       \/ Thread(s, "receiving") /\ IF sess[s].kind = "TCP" THEN sess[s].conn = "closed"
                                    ELSE sess[s].port = 0
    /\ UndefinedIf(sess[s].deleted)
    /\ sess' = [sess EXCEPT ![s].thread = "closing"]
    /\ UNCHANGED <<uiVars, pictures, crossed>>

(* The camera resets the connection. *)
ConnectionReset(s) ==
    /\ Thread(s, "receiving") /\ sess[s].kind = "TCP" /\ sess[s].conn = "open"
    /\ UndefinedIf(sess[s].deleted)
    /\ sess' = [sess EXCEPT ![s].thread = "closing"]
    /\ UNCHANGED <<uiVars, pictures, crossed>>

HasData(s) == IF sess[s].kind = "TCP" THEN sess[s].conn = "open"
              ELSE <<sess[s].port, "UDP">> \in called

(* A packet is in; getRtpSource looks through the sources and adds one. *)
Receive(s) ==
    /\ Thread(s, "receiving")
    /\ HasData(s)
    /\ UndefinedIf(sess[s].sources = "freed" \/ sess[s].deleted)
    /\ sess' = [sess EXCEPT ![s].thread = "parsing",
                   ![s].sources = IF @ = "none" THEN "held" ELSE @]
    /\ UNCHANGED <<uiVars, pictures, crossed>>

(* The packet may complete a picture, which goes to the widget while the    *)
(* decoder is connected to it; a source that stop() deletes under the       *)
(* parser is used all the same.                                             *)
Parsed(s) ==
    /\ UndefinedIf(sess[s].sources = "freed" \/ sess[s].deleted)
    /\ \/ UNCHANGED pictures
       \/ /\ sess[s].wired
          /\ Len(pictures) < MaxPictures
          /\ pictures' = Append(pictures, s)
    /\ UNCHANGED <<uiVars, crossed>>

ParseLast(s) ==
    /\ Thread(s, "parsing")
    /\ sess' = [sess EXCEPT ![s].thread = "receiving"]
    /\ Parsed(s)

(* One recv of a connection may bring several packets. *)
ParseOneOfMany(s) ==
    /\ Thread(s, "parsing") /\ sess[s].kind = "TCP"
    /\ UNCHANGED sess
    /\ Parsed(s)

(* Mutation variant: the listening socket is left to stop(). *)
CloseConnectionOnly(s) ==
    /\ Thread(s, "closing")
    /\ UndefinedIf(sess[s].deleted)
    /\ sess' = [sess EXCEPT ![s].thread = "leaving",
                   ![s].conn = IF @ = "open" THEN "closed" ELSE @]
    /\ UNCHANGED <<uiVars, pictures, crossed>>

CloseSockets(s) ==
    /\ Thread(s, "closing")
    /\ UndefinedIf(sess[s].deleted)
    /\ sess' = [sess EXCEPT ![s].thread = "leaving", ![s].port = 0,
                   ![s].conn = IF @ = "open" THEN "closed" ELSE @]
    /\ UNCHANGED <<uiVars, pictures, crossed>>

Leave(s) ==
    /\ Thread(s, "leaving")
    /\ UndefinedIf(sess[s].deleted)
    /\ sess' = [sess EXCEPT ![s].thread = "done", ![s].running = FALSE]
    /\ UNCHANGED <<uiVars, pictures, crossed>>

(* What the thread does by itself, without the camera. *)
ThreadStep(s) == \/ ThreadStarts(s) \/ HandleClosed(s) \/ ParseLast(s)
                 \/ CloseSockets(s) \/ Leave(s)

CameraStep(s) == Accept(s) \/ ConnectionReset(s) \/ Receive(s) \/ ParseOneOfMany(s)

Next == \/ UserClick
        \/ UiStep
        \/ SpinForever
        \/ SetVideoFrame
        \/ \E s \in Sessions : ThreadStep(s) \/ CameraStep(s)

Spec == Init /\ [][Next]_vars

(* Handlers that were entered go on, and so does a thread that can. *)
Fairness == /\ WF_vars(UiStep)
            /\ \A s \in Sessions : WF_vars(ThreadStep(s))

FairSpec == Spec /\ Fairness

-----------------------------------------------------------------------------
(* Properties.  A hasty user is faster than the threads: see Settled. *)

(* No thread outlives the server object it works on, unless the user is     *)
(* hasty: the destructor waits for m_bRunning, which the thread itself sets *)
(* late and clears last.                                                    *)
ThreadsOutlived ==
    ~hasty => \A s \in DOMAIN sess : sess[s].deleted => sess[s].thread \notin Alive

(* Every port that is bound belongs to the session a widget has now, so     *)
(* that playing and stopping again and again never uses up the range.       *)
PortsFreed ==
    ~hasty => \A s \in DOMAIN sess : sess[s].port # 0 => \E w \in Widgets : server[w] = s

(* onPlay never deletes the sources of a session a second time, although    *)
(* it calls stop() itself and stop() leaves the pointers in m_rtpSources.   *)
PlayFreesOnce ==
    ui.at = "free" /\ ui.play /\ sess[Current].sources = "freed" /\ ~hasty
        => Current \in crossed

(* The pictures of a session that wait for the UI thread. *)
Waiting(queue, s) == Cardinality({i \in DOMAIN queue : queue[i] = s})

(* After stop() no further picture of the session is queued for the widget, *)
(* even when its thread goes on receiving because accept crossed the stop.  *)
StoppedStaysDark == [][\A s \in stopped : Waiting(pictures', s) <= Waiting(pictures, s)]_vars

(* The thread of a stopped session ends, wherever the stop caught it: in    *)
(* its first instructions, in accept, in recv or in the parser, and also    *)
(* when no camera was ever invited.                                         *)
StopTakesEffect ==
    \A s \in Sessions :
        s \in stopped ~> (\/ s \in stopped /\ sess[s].thread \notin Alive
                          \/ s \in crossed
                          \/ crashed)

(* The UI thread comes back from every click: the destructor it runs in     *)
(* onPlay spins only as long as a thread takes that is bound to end, unless *)
(* accept crossed the stop, the user is hasty or the build reads the flag   *)
(* only once.                                                               *)
UiReturns ==
    ui.at # "idle" ~> (ui.at \in {"idle", "hung"} \/ Current \in crossed \/ hasty \/ crashed)
=============================================================================
