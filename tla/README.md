# TLA+ verification of GBClient

GBClient is a small GB28181 client for Windows (Qt, eXosip, FFmpeg): cameras
register with it over SIP, it asks them for their channels, invites them to send
a stream, reassembles the stream from RTP packets and shows it in one of four
video widgets. This directory models its core in TLA+, checks the models with
TLC and proves theorems about the registry, the device tree, the SIP contact, its
calls, the playback sessions, both receivers and the stream parser with TLAPS.
Paths below are relative to `src/GBClient/`.

## 1. The system

### Threads

| thread | started by | works on |
|---|---|---|
| UI thread (Qt event loop) | `main` | windows, device tree, decoded pictures; runs the slots of queued signals |
| SIP thread, `SipContact::enterSipEventLoop` | `startServer`, from `onListen` | events of eXosip, registry, answers |
| checking thread, `DeviceInfos::deviceChecking` | `DeviceInfos::startServer`, from `main` (`main.cpp:59`) | sleeps an interval, sweeps the registry |
| receiving threads, `executeProcess` | `VideoWidget::allocReceivePort`, one per session | a socket, the parser, the decoders |

The registry is shared by three of them under the mutex `_iterMutex`; everything
shown to the user crosses to the UI thread as a queued signal; a receiving
thread shares its server object with the UI thread without a lock.

### Components

**Device registry** (`deviceinfos.cpp/.h`). State: `m_devs`, a list of devices
with address, remaining lease `expires`, full lease `maxExpires` and channels.
Operations: `appendDevice`, `keepAlive`, `removeItem`, `appendDeviceChannels`
(SIP thread), the sweep (checking thread), queries that only read. Hard: the
sweep erases while it iterates; a lease is charged in whole intervals, however
recently it was renewed. Correct means: a device is there once; it is timed out
neither much too early nor much too late; a silent one goes.

**Device tree** (`gbclient.cpp`, connected in `main.cpp`). State: the tree
widget. Operations: the slots `deviceAppended`, `deviceRemoved`,
`channelReceived`. Hard: it follows the registry through a queue, so each slot
acts on a past that may be over; `deviceRemoved` deletes children while it
walks over them. Correct means: tree plus waiting signals make the registry.

**SIP contact** (`sipcontact.cpp/.h`). State: eXosip's context and event queue.
Operations: REGISTER (registration and logout), MESSAGE (Keepalive, Catalog,
others), other requests, answers to the client's requests; on the UI thread
`queryCatalog` and `handleInvite`. Hard:
answers are sent before the registry is changed; a missing answer is part of
the protocol (it makes a device that was timed out register again); requests
and answers get lost; a request of the client goes to an address that was read
earlier. Correct means: one answer to a request, or none where the code means to
give none; a 200 takes effect; a
live device does not stay unregistered; the registry has the address a device
registered from last; a call is settled; a query fills the registry.

**PS stream parser** (`psstreamserver.cpp/.h`, `RtpSource` in `common.h`).
State, per source: the packet in hand, the PES packet and the picture being
collected, flags. Operations: one per header kind found in a packet. Hard: a
packet begins with a header or in the middle of a payload, a PES packet ends
inside a packet or spans several, a picture takes several PES packets, the
code recognises which from bytes only, and it looks behind the end of a packet. Correct means: the decoders are given
whole pictures and whole audio packets, in order.

**TCP receiver** (`psstreamtcpserver.cpp/.h`). State: buffer, packet being
collected, its size. Operations: `recv`, the two halves of the loop, `stop`.
Hard: `recv` cuts the stream anywhere, and no size is tested. Correct means: it
is a pipe for packets, as long as these fit into its array.

**UDP receiver** (`psstreamudpserver.cpp/.h`). State: `m_seqNo`. Operation:
`recvfrom` with the gate on the sequence number. Hard: loss, reordering,
duplication, wrap of the number. Correct means: no packet parsed twice; after a
loss the stream is in step again with the next whole picture.

**Playback sessions** (`videowidget.cpp`, `onVideoClicked`, `onPlay`, `onStop`,
constructors and destructors of the servers). State: the server of each widget,
`m_bRunning`, sockets, ports, `m_rtpSources`, queued pictures. Hard: UI thread
and receiving thread share the server with no lock; `stop` deletes sources the
other thread may be writing; the destructor spins on a flag that the thread sets
when it gets to run and clears last. Correct means: the thread of a stopped
session ends and shows nothing more, a server outlives its thread, ports are
given back, the UI thread comes back from every click.

**Message text helpers and tinyxml** (`common.h`, `tinyxml/`). State: the tree
of one message. Operations: parsing, `getTypeContent`, `getRootNode`,
`getDeviceChannels`. Hard: a message may be damaged anywhere, and nobody asks
the parser for its error. Correct means: a whole message is read as it was
meant; of a damaged one the registry gets only its first channels, each with its
own fields, of which the last may have its id cut; no damage behind the head of
a message ends the client; the parser ends.

**Left aside**: windows, configuration and logging (no state others depend on);
the decoders (wrappers of FFmpeg; the models record the calls they get);
eXosip, osip and FFmpeg, of which the repository has headers only.

How they interact: SIP contact calls the registry; the registry emits signals
the device tree handles; a receiver calls the parser, which calls the decoders,
which emit pictures to a widget; the UI calls SIP contact to query and invite,
and the sessions to play and stop.

## 2. Modules

| module | models | extends |
|---|---|---|
| `LeaseService` | abstract: devices hold leases, which a check may end a little early | |
| `DeviceInfos` | registry, checking thread, queue of signals, clock | |
| `DeviceView` | device tree in the UI thread | `DeviceInfos` |
| `SipContact` | event loop of registration and messages; devices and network | `DeviceInfos` |
| `SipCalls` | queries and invitations of the UI thread, answers to them | `SipContact` |
| `CatalogText` | from the body of a message to its event: parser of tinyxml, helpers | |
| `PlaySession` | widgets, servers, receiving threads, sockets, queued pictures | |
| `PsStream` | parser, with a camera and an ordered connection | |
| `PacketPipe` | abstract: packets arrive once, whole, in order | |
| `TcpFraming` | receive loop over TCP | |
| `UdpStream` | receive loop over UDP, the network, the parser | `PsStream` |
| `MCPsStream`, `MCUdpStream` | the pictures of the TLC runs | |
| `DeviceInfosProofs` | theorems about the registry | `DeviceInfos` |
| `DeviceViewProofs` | theorems about the device tree | `DeviceView` |
| `SipProofs` | theorems about the event loop, and about calls | `SipCalls`, `DeviceInfosProofs` |
| `PlaySessionProofs` | theorems about the playback sessions | `PlaySession` |
| `TcpFramingProofs` | theorems about the TCP receiver | `TcpFraming` |
| `CatalogTextProofs` | theorems about the text of messages | `CatalogText` |
| `StreamProofs` | theorems about the parser, and about the UDP receiver | `UdpStream` |
| `SequenceLemmas` | what several proofs need of numbers and sequences | |

`TcpFraming` refines `PacketPipe`, and `ReceiveNext` of `PsStream` is such a
pipe seen from its end; so the two models split the TCP path between them.
`PlaySession` has of both receivers what they share with the UI thread, and a
packet in the parser is one state of its threads. `CatalogText` ends with the
kind, device and channel list of an event that `SipContact` starts from.

A definition whose comment begins "Mutation variant" is a faulty form of the one
that follows it; no specification uses it. `PROJECT.json` names for each
property a variant that violates it.

### DeviceInfos

| model | code |
|---|---|
| `devs` | `m_devs`; `expires`, `maxExpires` and `channels` are members of `DeviceItem`, `addr` stands for IP and port |
| `it` | iterator of the sweep; `it > 0` means the checking thread holds the mutex |
| `dueIn` | what is left of `sleep_for`; below 0 the thread is late |
| `signals` | the UI thread's event queue |
| `silence` | history, no counterpart: real time since the device was heard |
| `AppendDevice`, `KeepAlive`, `RemoveItem`, `AppendDeviceChannels` | the method of that name: each holds the mutex from its first access to its last, so each is one step |
| `SweepStart/Keep/Erase/End` | the loop of `deviceChecking`, one element a step |
| `Second`, `DeliverSignal` | time; the UI thread |

A time step is a second of a model in which the interval is 1 or 2 seconds
instead of 10; only ratios of lease and interval matter to the code.

### DeviceView

`tree` is the list of children of the root item with their channels, `scan` the
index of the loop in `deviceRemoved`, one iteration a step because the loop
deletes what it walks over and skips the next child. The slots of one thread
never overlap, so a slot starts only when `scan = 0`. `Upcoming[k]` is the tree
after the first `k` waiting signals, and `RegistryView` what a tree shows when it
is up to date with the registry.

### SipContact

`hand` is `je`, the event in work, and `stage` the place in its handler; a step
is one registry call or one answer, since between the 200 and the call the sweep
and the network run. `inbox` is eXosip's queue. Requests keep what the handlers
look at: kind, presence of Authorization, Expires (or none), address (or none,
when Via has no `rport`/`received`), channel list. `ShortIds` are the ids
`handleRegister` drops. Devices and network are external: a device registers in
two rounds, sends Keepalives and other messages while it is up, and starts anew
when an answer fails to come. Any credentials are accepted by the code as it is,
so the model keeps only whether there are some. `LeftAlone` names the requests
that get no answer: a MESSAGE of another kind, a REGISTER with a short id or
without Expires, a Keepalive or a catalog of a device the registry does not know.

### SipCalls

The UI thread looks a device up under the mutex (`OnQuery`, `OnPlay`) and sends
afterwards (`SendRequest`); in between `asking` holds what it copied. The event
loop of `SipContact` goes on beside it and gets three kinds of events more:
`callAnswered`, whose case runs on into the next one (`HandleCallAnswered`,
`AckAgain`), `messageAnswered` and the responses that are only printed. External:
`home` is where a device is, `owed` the channel list it was asked for, `dialog`
the state of its call; a request that misses the device ends in a failure
response of eXosip, and a device may move, start anew, refuse a call or hang up
at any time.

### CatalogText

A body is a sequence of tags, texts and `misc` (comments, declarations). `stack`
holds the nodes on which `TiXmlDocument::Parse`, `TiXmlElement::Parse` and
`ReadValue` are working; one piece is one step. At an error the code returns null
from each of these calls, and each caller links its node before it does so: `Fail`
empties `body`, `ReturnNull` unwinds. Messages are damaged at every place, in
three ways: they end behind a piece, within it, or lack a tag. A start tag that is
cut is an element, perhaps with a part of its name only, or what `Identify` makes
of a `<` without a letter: no element at all (`CutStartTag`). There are messages
without a body and bodies that are no XML. What then reads a null pointer is
`Crash`. Not there: the unknown node that the `<` alone of a cut end tag becomes,
at which no helper looks. The three helpers parse the same text up to four times;
that is one parse here.

### PlaySession

| model | code |
|---|---|
| `server`, `sess` | `m_streamServer` of each widget; the server objects, numbered by the play that created them |
| `thread`, `running` | where `executeProcess` is; `m_bRunning` |
| `port`, `conn` | the bound socket (0: closed), the accepted connection |
| `sources` | `m_rtpSources`: empty, holding sources, or holding deleted ones |
| `wired`, `pictures` | the connection of the decoders to the widget; queued calls of `setVideoFrame` |
| `ui` | the handler the UI thread is in, and how far |
| `called` | external: ports to which some camera sends, for good, since no BYE is sent |
| `stopped`, `crossed`, `hasty` | history; see the properties |

`StopFree`, `StopCloseConn`, `StopCloseSock` and `StopUnwire` are the lines of
`stop`, one a step, as the receiving thread runs between them. A use of deleted
memory is `Undefined`: it ends the process or goes on. Such uses do happen
(`stop` deletes a source the thread is parsing into); the properties that are
not about them say what holds as long as the process lives.

### PsStream

`pc` is the function the parser is in and `pos` is `dataPos`; `frame` is
`frameBuff` up to `frameLen`, `h264` is `h264Buff` up to `h264Len`. A header is
one cell, payload is counted in cells, and `data` keeps what a longer packet left
behind a shorter one, because the code reads beyond the end of a packet: the test
in `appendFrameData` compares the wrong lengths, so parsing goes on behind the
last byte, and the result depends on what lies there. If that is the header of a
PES packet, the length to copy becomes negative, a number near 2^32 for `memcpy`:
the process ends (`pc = "crashed"`). The camera cuts a picture into packets
wherever it likes (`PackingOk`); `HeaderOffsets` are the places in a packet where
its PES headers may stand, and a packet may end at any of them. Uninitialised
members of a new `RtpSource` are a choice between zeroed memory and a fill pattern.

### TcpFraming

A byte is a pair of packet and position in it, the size prefix being positions
-1 and 0; that makes a byte lost, doubled or moved visible. A size is meaningful
only if read from the two bytes of one prefix; other pairs may give any value.
The code tests no size, so `Sizes` may be any that two bytes can tell. A packet
longer than `rtp_packet` is written behind the array: that ends the process
(`status = "crashed"`), when the first byte beyond the array is written. `Whole`
are the packets `parseWholeRtpPacket` looks at: those longer than an RTP header.
When the camera closes the connection `recv` returns 0 and the loop calls it again:
no variable changes, so it is a stutter, and `StopEnds` says that `stop` ends it.

### UdpStream

`accepted` records which packets passed the gate. The network picks any datagram
under way, may lose it or duplicate it. Left out: datagrams of at most 12 bytes,
which are ignored, and an error of `recvfrom`, which ends the loop.

## 3. Runs

| run | instance | checks | shows |
|---|---|---|---|
| `view` | 2 devices, 1 channel, 2 addresses, leases 2 and 3, interval 2, lateness 1, 2 signals | `ViewTypeOK`, `UniqueIds`, `LeaseClock`, `NoStaleDevice`, `NoEarlyTimeout`, `LeaseRefinement`, `NoDuplicateNodes`, `ViewFollowsRegistry`, `ViewConverges`, `SilentDeviceHidden` | devices are unique; expiry is at most one interval early and late by at most the lateness of each sweep; the registry is a lease service; tree plus waiting signals equal the registry in every state; silence ends a registration and the tree catches up |
| `sip` | 2 devices, one of them with an invalid id, 1 loss | `RequestsAnswered`, `RegistryCalls`, `AnswersTakeEffect`, `LiveDeviceKept` | each request gets one answer, and only those of `LeftAlone` none; the SIP layer uses the registry as its model assumes; a 200 takes effect; a live device comes back |
| `sip_calls` | 1 device with 2 addresses, 1 request or event waiting | `AddressKnown`, `CallsSettle`, `QueryFillsRegistry` | the registry has the address a device registered from last; calls end acknowledged or failed; queries bring channels |
| `play` | 2 widgets, 2 plays, 2 ports, 1 waiting picture, UDP and TCP | `SessionTypeOK`, `ThreadsOutlived`, `PortsFreed`, `PlayFreesOnce`, `StoppedStaysDark`, `StopTakesEffect`, `UiReturns` | sessions end when stopped and leave nothing behind |
| `catalog_text` | up to 2 channels in 4 layouts, no body, no XML, every damage at every place | `WholeMessageRead`, `DamageOnlyShortens`, `CrashOnlyInHead` | whole messages are understood, damaged ones only lose their end, only the head of a message can end the client, and the parser is never stuck (deadlock is checked) |
| `ps_aligned` | 3 pictures out of 3 layouts, every cut into packets of up to 7 cells | `ParsesOwnBytes`, `WholePictures`, `WholeAudio`, `EveryPictureDecoded` | whole pictures and audio, in order; an old header is read in one case only |
| `ps_stale` | 2 pictures out of 3 layouts | `MiddleOnlyStored` | *violated*: finding 3 |
| `ps_run_on` | 2 pictures, headers anywhere | `WholePictures` | *violated*: finding 1 |
| `tcp_whole` | 3 packets of sizes 0, 1, 4, 5, 6, buffer of 5 | `StreamConserved`, `PipeRefinement`, `CrashOnlyOversize`, `EveryPacketParsed` | the receiver is a pipe up to the first packet that does not fit, and only that one ends the process |
| `tcp_lost` | 2 packets, buffer of 2, prefixes may be cut | `InputDrained`, `StopEnds` | garbage in place of a size does not block the thread, and closing the sockets ends it |
| `tcp_split` | prefixes may be cut | `PacketsAsSent` | *violated*: finding 2 |
| `udp_lossy` | 3 pictures out of 2 layouts, numbers modulo 14 from 11, 1 duplicate | `UdpTypeOK`, `AcceptedOnce`, `Healed` | no packet twice; the stream heals |

### Why these bounds

- *Leases 2 and 3 with interval 2*: equal to the interval, which the first sweep
  ends however recent it is, and not a multiple of it, so that a lease is left
  with less than an interval; a lease below the interval takes the same branch as
  one equal to it. The theorems cover every lease and interval.
  Two devices are enough for the sweep to erase the first, the last and a
  neighbour of an erased one; no code relates three.
- *`MaxLate`* bounds how late a sweep is; `NoStaleDevice` states its bound in
  terms of it. *`MaxSignals`* stops new requests while signals wait; a catalog
  may still add its channels and a sweep its removals, so the queue holds several
  signals of one device. *`MaxCatalog`* bounds a catalog; with one channel, a
  catalog of two names it twice.
- *One device in `sip_calls`*: no request of one device changes what another
  gets, save that the first of two with the same channel id is invited. With
  *`MaxWaiting`* 1 a request or an event waits while the device moves and the
  sweep runs; one call at a time follows from one device.
- *Two widgets, two plays*: a session and the next one in the same widget, or two
  at once; a third would only repeat the second. *One waiting picture* tells
  pictures queued before a stop from those after it. *Two ports*: the one the
  first session holds or has given back, and the next; a play may also find none.
- *Two channels, four layouts*: the damaged channel and a whole one before it;
  fields in either order, an element with an element in it, an empty one.
- *Layouts*: two video PES packets, as a picture above 64 kB needs; a key
  frame with system header, stream map and audio; video and private data. A
  packet has up to `Mtu` = 7 cells and pictures have 6 to 9, so that a PES packet
  ends inside a packet, with it, or spans three. `HeaderOffsets` 1 to 3 are behind
  a pack header, behind the headers of a key frame, and behind the rest of a PES
  packet; packets of 1, 2 or 3 cells end there. Three pictures let the third meet
  what the first two left in `data`.
- *TCP*: packets smaller than `rtp_packet`, of just its size and one byte longer, of
  size 0 and of `RtpHeader` size, which are dropped; packets in several `recv`s and
  several packets in one. `tcp_lost` needs `BufSize` small enough that packets and
  stray sizes exceed it.
- *UDP*: with numbers starting at 11 modulo 14 the wrap comes within the run, which
  sends at most 13 packets. `Window` lets the datagrams of one picture overtake
  those of the next.

### Assumptions on the environment, and where they bite

- `RunOn = FALSE`: a further video PES packet of a picture begins an RTP packet.
  A camera that starts an RTP packet with each PES packet does so; `ps_run_on` shows what happens otherwise.
- `PrivateLast`: private data stands at the end of a picture. The parser leaves a
  packet at a private header (`psstreamserver.cpp:117`), so video or audio behind it
  in the same packet is lost. The layouts of the runs have it last.
- `HeaderOffsets` is no assumption on how a camera cuts: a packet may end at one of
  them, and then the parser may take an old header that stands behind it. What is
  assumed is that the first packet of a picture reaches behind its pack, system and
  map headers (`PackingOk`).
- An RTP packet of the camera fits into `rtp->data` (`Mtu`), and the members of
  `RtpSource` behind this array look like no header.
- `SplitPrefix = FALSE` in `tcp_whole`: `recv` does not end between the two bytes
  of a size. TCP does not promise this; `tcp_split` shows what happens.
- `SeqModulus` exceeds the packets sent: an outage of exactly 65536 packets is
  not distinguished from none, by the code or by any other receiver.
- `MaxDup = 1`: two duplicates of neighbouring packets, delivered in turn, pass
  the gate again; `AcceptedOnce` says so. The first datagram is left out of it
  because it is compared with the initial 0xffff.
- Play and stop: the user is not `hasty`, that is, clicks when the thread he
  started is in its loop and the one he stopped is over, in `ThreadsOutlived`,
  `PortsFreed`, `PlayFreesOnce` and `UiReturns`; threads react within milliseconds.
  A click that comes first does break them: the destructor sees `m_bRunning` still
  false and frees the server of a thread that is about to start.
- `crossed`: `accept` returned between the two closes of a `stop`. The thread then
  goes on receiving until the camera resets the connection, and a play into that
  widget would wait for it. The properties exempt just that session, except
  `StoppedStaysDark`, which holds for it as well.
- `SpinForever`: a build may read the plain flag `m_bRunning` once.
  `UiReturns` exempts it.
- UDP and TCP ports are different ones (`FreePorts`), and other programs may have
  any of them.
- Socket handles are not used again by the system after they were closed, and
  closing the `m_connfd` of a session that has none, which is uninitialised, does
  nothing. With reuse, the double close of `m_sockfd` (by `stop` and by the
  thread) could hit another session.
- A device has one request under way, and eXosip recognises retransmissions: it
  hands the loop each request once.

### Fairness

- Checking thread, UI thread, receiving thread and clock: weak fairness. They
  are threads of a preemptive system, and none waits for a condition another can
  make true and false for ever: the checking thread waits for a mutex the others
  hold for a moment only (one step in the model), the UI thread for its queue.
- SIP loop: strong fairness. It waits for the mutex, which a sweep takes again
  and again; but it is free for a whole interval between two sweeps.
- `recv` and the loop of the receiver: weak fairness, for a blocking `recv` that
  has bytes returns. Which number of bytes is left open.
- A registered device sends Keepalives again and again whatever else it sends
  (strong fairness, since other requests may be under way in between); GB28181
  requires it of a device. Nothing is assumed of devices in the registry and
  view runs, and nothing of cameras in the stream runs.

- Calls: eXosip delivers a request or reports its failure; a device that owes a
  channel list sends it when it has no other request open (strong fairness).
- Playback: weak fairness for the handler the UI thread is in and for what a
  receiving thread can do by itself. None for clicks, cameras, `SpinForever`, or
  `ParseOneOfMany`; that a recv brings finitely many packets makes `ParseLast`
  fair.

Deadlock is checked for the view, SIP and the message text. The stream runs say
`CHECK_DEADLOCK FALSE`, because a camera that has sent its `MaxFrames` pictures
leaves the receiver waiting for ever; `play`, because a crash ends the process
and the user may stop clicking.

## 4. Findings

1. A second video PES packet that begins inside an RTP packet is taken for the
   start of a picture (`psstreamserver.cpp:238`), and the decoder is given half
   of one (run `ps_run_on`).
2. When `recv` returns the first byte of a size alone, a stale byte completes it
   (`psstreamtcpserver.cpp:106`), a packet never sent is parsed and the receiver
   is out of step from then on (run `tcp_split`).
3. The test whether bytes are left in a packet compares the wrong lengths
   (`psstreamserver.cpp:274`), so the parser goes on behind a packet that ends a
   frame. If that packet is just as long as what stood before a PES header in an
   earlier one, the old header is parsed and the length to copy is negative
   (`psstreamserver.cpp:203`). The comment at `psstreamserver.cpp:120` says that a
   packet without a header is stored as the middle of a frame (run `ps_stale`).
   `ParsesOwnBytes` shows that this is the only such case.

Three more weaknesses are stated by properties that hold: a packet of more than 4096
bytes over TCP ends the process (`CrashOnlyOversize`), and so does a message without
a body or with a damaged head (`CrashOnlyInHead`); a MESSAGE that is neither Keepalive
nor catalog gets no answer (`RequestsAnswered`), although the comment at
`sipcontact.cpp:105` demands one, for the call at line 107 is commented out.

## 5. Proofs

The theorems hold for every value of the constants: any set of devices,
addresses, channels and leases, any positive check interval and any lateness, any
number of widgets, plays, ports and queued pictures, any number of packets of any
size that two bytes can tell and any buffer (a packet that does not fit ends the
receiver, and the theorems say so), any number and layout of pictures cut in any way
behind their first headers, any number of channels in a message. What they assume of
the constants are the named assumptions of the modules, which TLC evaluates in
the runs: `TimeAssumption`, `NoChannelAssumption`, `BoundAssumption`,
`SipAssumption`, `EventAssumption`, `CallAssumption`, `PlayAssumption`,
`FramingAssumption`, `SizeAssumption`, `LayoutAssumption`, `UdpAssumption`,
`TextAssumption`. They
say which constants are numbers, that `NoEvent`, `NoAddr` and the like are not
what they stand in for, and that a picture begins with video. Some theorems have
a hypothesis more, without which they are false; each is among the assumptions on
the environment above:

| theorems | hypothesis | without it |
|---|---|---|
| TCP receiver | `~SplitPrefix` | run `tcp_split` |
| `StreamHeld`, `PicturesWhole`, `AudioWhole`, `StreamFollowed`, `StreamHeals` | `~RunOn` | run `ps_run_on` |
| the same five | `PrivateLast` | audio or video behind private data in a packet is skipped |
| `ParsedOnce` | `MaxDup <= 1` | two duplicates defeat the gate |
| `ParsedOnce` | `[](sentCount < SeqModulus)` | a number that comes again passes for the old one |

Every theorem rests on an inductive invariant. Each of these was an invariant of a
TLC run before it was proved, on the instance of the component's run or a smaller
one, that of the parser also on pictures of more PES packets. Where an invariant
asks for a function that exists (the chain of trees of `ViewInv`, the streams of
`FramingInv`, the cut into packets of `StreamInv`, the places of `HealInv`), that run
was given the function; of `MessageInv`, the run checked that the trees left are those
of `DocOk`.

### Registry (`DeviceInfosProofs`)

| theorem | says |
|---|---|
| `RegistryInvariant` | `Spec => []IInv` |
| `TypeCorrect`, `UniqueIdsHolds`, `LeaseClockHolds` | `Spec => []TypeOK`, `[]UniqueIds`, `[]LeaseClock` |
| `NoEarlyTimeoutHolds` | `Spec => NoEarlyTimeout` |
| `SweepsCountedHolds` | `Spec => []SweepsCounted`, the second invariant |
| `NoStaleDeviceHolds` | `Spec => []NoStaleDevice` |
| `RegistryImplementsLeases` | `Spec => LeaseRefinement` |

The inductive invariant is `IInv == TypeOK /\ UniqueIds /\ SweepAwake /\
LeaseClock`. What users of the registry care about is `NoEarlyTimeout`: a
sweep may erase a device only after it was silent for its lease less an interval.
It is not inductive by itself: it speaks of a step, and what makes the step right
is the sum in `LeaseClock`, which ties what was charged to a device to the time
that passed. The sum must count an interval already charged but not yet over
(`dueIn > 0`) and one charged to the devices before `it` in the sweep that is
going on; `SweepAwake` is needed so that these two are never both due. An element
that is erased moves those behind it, so uniqueness of ids is needed to say which
history value belongs to which element. Each action has a lemma for what it does
to the list (appending, replacing, erasing) and a step for each conjunct it
touches.

`NoStaleDevice` needs the opposite sum, with the lateness of every sweep.
`SweepsCounted` says of each device that there is a number `c` of sweeps that
charged it, so that its lease has shrunk by `c` intervals, and its silence and
what is left of the sleep together are at most `c` rounds (interval and lateness)
and one interval more, or less the lateness where the sweep in progress has
charged it already. The bound of `NoStaleDevice` follows because something is
left of the lease, so `c` is at most the lease divided by the interval.

`RegistryImplementsLeases` maps the list to a function from devices to leases
(`LeasesHeld`); `UniqueIds` makes the map well defined, and `NoEarlyTimeout`'s
argument gives the guard of `Expire`. `checking` is `it > 0`, so the service also says that no
request is served in the middle of a sweep, and that only a sweep may expire a
lease. Every other step of the registry maps to `Register`, `Heartbeat`,
`Logout`, `Check`, `Tick` or a stutter.

### Device tree (`DeviceViewProofs`)

| theorem | says |
|---|---|
| `ViewInvariant` | `ViewSpec => []ViewInv` |
| `ViewTypesHold`, `NoDuplicateNodesHolds` | `[]ViewTypeOK`, `[]NoDuplicateNodes` |
| `ViewFollowsRegistryHolds` | `[]ViewFollowsRegistry` |
| `RegistrySafeUnderView` | `ViewSpec => Spec`: the registry keeps all it promises |

That tree and waiting signals make the registry is not inductive. A signal is
handled at the front of the queue and another sent at its end, and what a slot
makes of a tree depends on the tree: `deviceRemoved` removes every second node
only, if a device had several in a row. So `ViewInv` says that there is a chain
of trees, from the one shown through one for each waiting signal to the registry,
and that none of them shows a device twice (`Distinct`): the trees the user has
not seen yet are as sound as the one he sees. The chain is then followed at both
ends: a delivery drops its first tree, a registry call appends one and must show
that the signal it sends makes the one from the other. Catalogs send a signal for
each channel; the chain grows by all of them, by a recursion over the list. In
the middle of `deviceRemoved` its signal still counts as waiting, and makes the
same tree of one half worked through as of the one before; that needs `ScanBehind`,
that the loop has left no node of the device behind it. `ChannelsOnce` is the
part of `NoDuplicateNodes` that a set of channels cannot show.

### SIP contact and calls (`SipProofs`)

| theorem | says |
|---|---|
| `SipInvariant` | `SipSpec => []SipInv` |
| `OneAnswerHolds`, `RequestsAnsweredHold`, `RegistryCallsHold` | `[]OneAnswer`, `RequestsAnswered`, `RegistryCalls` |
| `RegistrySafeUnderSip` | the registry keeps its promises under the event loop |
| `CallInvariant` | `CallSpec => []CallInv` |
| `CallTypesHold`, `AddressKnownHolds` | `[]CallTypeOK`, `[]AddressKnown` |
| `OneAnswerInCalls`, `RegistryCallsInCalls`, `RegistrySafeUnderCalls` | the same with calls under way |

`OneAnswer` counts answers. For the count not to grow twice, a request must be in
one place at a time, in eXosip's queue, in the hands of the loop, or answered, and
be the one the device waits for: `OnePlace`. That none is missing is a property of
steps: when the loop is done with a request (`HandlingRequest`), it has answered it
once, or it is one of `LeftAlone` and was not answered. That a Keepalive or a catalog
is left alone depends on the registry at that moment, so the proof goes through each
return path of the handlers (`LoopGoesOn`, `LoopAnswers`). `RegistryCalls`, an action property,
makes the registry's own theorems hold for the composition: every step of the loop
is one of the registry or leaves it alone, with arguments the registry expects
(`Entering`).

`AddressKnown` compares two things that never meet in one step, what a device
believes and what the list holds. It is about the registry: the address the UI
thread has copied may be older, and what becomes of a request sent there is
`CallsSettle`'s matter. `AddressHeld` extends it to the time a 200 is
on its way (the client has accepted, the device does not know) and to the line
between the answer and `appendDevice` (the address is in hand, not in the list);
`HomeAsked` says that a REGISTER names the address of the device all the way.

### Message text (`CatalogTextProofs`)

| theorem | says |
|---|---|
| `WholeRead` | `[]WholeMessageRead` |
| `DamageShortens` | `[]DamageOnlyShortens` |
| `CrashInHead` | `[]CrashOnlyInHead` |

What the parser has done so far says little about the tree it will leave: with one
end tag missing, everything behind it becomes part of an element it does not belong
to, until a tag does not fit. So the invariant `MessageInv` speaks of where the parser
*can get to*. `Moves` are its steps, as a function of the pieces and the stack;
`Safe` says that there is a set of points that has the present one, is closed under
`Moves`, and ends only in trees the parser may leave (`Final`, `DocOk`). A step
keeps that by definition (`SafeMove`); the work is to show that every message, with
every damage, starts at a safe point (`StartsSafe`).

`DocOk` is what the two properties need of a tree, and no more than damage
leaves of it. The list of channels has some first ones, complete, and behind them
either one channel with nothing in it but its own texts (`ItemKid`), or nodes that
are no channels at all (`ListOk`); command and device have a text, or the body ends
right before it (`RootKid`); and the document is without an element only if the
message has none or ends before its root has a name (`BeforeRoot`, `Rootless`). A message that was not damaged gives exactly its tree
(`DocumentNode`).

Safety is shown part by part, from single pieces up to the body. `Reads(part, s, t)`
says that the part, when whole, leads from stack `s` to `t` whatever follows;
`Yields(part, new)` that it gives any open element the children `new`; both compose
(`ReadsConcat`, `YieldsConcat`). `Bears(m, d, part, ...)` says that the damage, if it is
in this part, leads to nothing but safe points. Two parts bear damage together
if each does (`BearsConcat`), and an element does if what it encloses does and
its own two tags can be cut or left out (`BearsGroup`). A tag that lacks is where
this gets long: the parser then reads on with one element too many or too few open,
up to the end tag of the element around (`Mismatch`, `MissingEnd`), so what follows
the damaged part matters, and each level (`ItemPart`, `BearsItem`, `RootPart`) is
stated for whatever may follow. A root without its start tag leaves a document of
several nodes (`RootUntagged`).

The rest are the look-ups: in the tree of a whole message (`RootHas`, `InfosOf`,
`ChannelsAre`) and in what damage leaves (`RootFound`, `ListHas`, `PartFields`,
`CrashesThere`). They filter with `Picked`, not with `SelectSeq`, because the prover
cannot reason about a filter given by an operator.

### Playback sessions (`PlaySessionProofs`)

| theorem | says |
|---|---|
| `SessionInvariant` | `Spec => []IInv` (of this module) |
| `SessionTypes`, `ThreadsOutlivedHolds`, `PortsFreedHolds`, `PlayFreesOnceHolds` | `[]SessionTypeOK`, `[]ThreadsOutlived`, `[]PortsFreed`, `[]PlayFreesOnce` |
| `StoppedStaysDarkHolds` | `Spec => StoppedStaysDark` |

The three safety properties hold together or not at all. A server is deleted
once its thread is over, because the destructor waits for `m_bRunning`
(`ThreadLife` ties the flag to the thread's place) and because a user who is not
hasty leaves no thread in the instructions before it sets the flag (`Patience`).
That a deleted session has given back its port needs that the thread closed it
before clearing the flag; that no widget is left with a deleted server needs that
no two widgets share one (`Ownership`), and which session the UI thread is working
on in each line of its handlers (`HandlerPlace`). `StopHistory` ties the history
variables to those lines.

### TCP receiver (`TcpFramingProofs`)

| theorem | says |
|---|---|
| `FramingInvariant` | `~SplitPrefix` implies `Spec => []FramingInv` |
| `StreamConservedHolds`, `CrashOnlyOversizeHolds` | `[]StreamConserved`, `[]CrashOnlyOversize` |
| `PacketsAsSentHolds` | `[]PacketsAsSent`, the property `tcp_split` violates |
| `PipeRefinementHolds` | `PipeRefinement`: the receiver implements `PacketPipe` |

That the bytes are all there in order does not say how the loop will cut them.
`FramingInv` has for each packet the stream behind it (`v[f]`), and says that
buffer and wire begin with the size of the next packet (`AtSize`), or that the
packet in hand, buffer and wire begin with the bytes of the packet being collected
(`Collecting`). `SizesWhole` is what `~SplitPrefix` gives: the last byte of the
buffer is not the first of a size. With it each of the loop's cases (a size read, a
packet finished, a part of one copied) moves along the stream without losing step,
and no size is read from bytes that are not one. Sizes are what the camera sends,
so a packet may be too long; the receiver crashes only while it collects one that is
(`status = "crashed" => packetSize > BufSize`), and `Collecting` says that it is the
first not parsed yet. A step of the loop is a `Deliver` of
the pipe if it finishes a packet with more than a header, and a stutter if not, also
when it ends the process.

### Stream parser (`StreamProofs`)

| theorem | says |
|---|---|
| `TypesHold`, `TypeCorrect` | types and sizes of buffers, whatever arrives: `[]PTypes`, `[]TypeOK` |
| `OwnBytesParsed` | `[]ParsesOwnBytes`, without further hypotheses |
| `FrameBufferFits` | `[]FrameFits`, without further hypotheses |
| `StreamHeld` | `~RunOn` and `PrivateLast` imply `Spec => []StreamInv` |
| `PicturesWhole` | likewise `[]WholePictures`, the property `ps_run_on` violates |
| `AudioWhole` | likewise `[]WholeAudio` |

What the decoders were given says nothing about what they will be given: that
depends on where in which picture the parser stands, and nothing in its variables
says so. `StreamInv` says that there is such a place and ties everything to it.
Between packets (`Idle`) it is a picture `f` and a cell `p` of it: the packets
under way are the rest of the picture, cut somehow (`Coming`, with the ends `e` of
the packets), and what was parsed is `Parsed(f, p)`. With a packet in hand it is
the cell `a` the packet begins with (`InHand`), and how far the parser has come in
it (`Busy`). `Parsed` knows three situations: at the beginning of a picture, behind
a PES packet (`Clear`), and inside of one (`Inside`), where `frame` holds the part
that came and `frameSize` the announced whole. What was written by then is in
`Output`: the video of the picture up to here in `h264`, whole pictures in
`decoded`, audio packets in `heard`. At the beginning of a picture `Finished` leaves
open whether the decoder has the last one already, for a picture is written only
when the next one begins, and the parser may be stopped in between.

`Begun` and `Output` have one parameter more, `since`: the picture from which on the
parser owes its output. Here it is 0, everything from the first picture on; the
UDP receiver uses the lemmas about steps with the picture the parser came in at.

The last part is `Stale`. The parser looks behind the end of its packet, where
cells of earlier ones are left, so the invariant must say what these can be: headers
only at `HeaderOffsets`, and a pack header only in the first cell. A packet may end
at one of these offsets. Then parsing either stops where it should, or the old
header ends the process; that step changes nothing the decoders have been given
(`StaleHeader`), so `StreamInv` keeps its place (`pc = "crashed"` in `Busy`).
`PrivateLast`
enters where the parser skips private data: it goes to the next packet, so what
stands behind it in this one is lost.

`ParsesOwnBytes` needs no place in a picture, and so neither of the hypotheses.
Its invariant `OwnInv` speaks of the packets only: each is as the camera packs it
(`OwnPacket`: PES headers at `HeaderOffsets`; pack, system and map headers whole, with
more behind them), `Stale`, and the parser stands within its packet or right behind it
(`OwnHand`). An old header behind the end must then be at one of `HeaderOffsets`, and
the packet can have no pack header, for with one the parser does not come
behind its end while a frame is open: that is the exception `BehindTail`.

The cells of a picture are a flattened sequence of PES packets. `PictureCells` says
once which cell stands where, and what the proofs of the steps use is that, never
the flattening. `Write` in three situations (a PES packet whole in one packet, its
first part, its last part) is one lemma, `UnitWritten`.

### UDP receiver (`StreamProofs`)

| theorem | says |
|---|---|
| `UdpTypesHold`, `UdpTypeCorrect` | the types of the parser and of the gate, whatever the network does: `[]UTypes`, `[]UdpTypeOK` |
| `ParsedOnce` | `[]AcceptedOnce` |
| `OwnBytesOverUdp` | `[]ParsesOwnBytes`, on any network |
| `StreamFollowed` | `~RunOn` and `PrivateLast` imply `UdpSpec => []HealInv` |
| `StreamHeals` | likewise `[]Healed` |

A packet could be parsed twice if it was still under way when it had been parsed
and the packet before it could come first again. `GateInv` names the place of the
datagram that came last and of the one that has a duplicate, if any. Every other
packet waits at most once (`Distinct`); a packet parsed is not under way any more,
nor is the one before it, unless it is the one with the duplicate (`Passed`): so of
the two the gate must see in a row to parse it again, one is missing. `NextNumber`
says that numbers modulo `SeqModulus` follow each other only where the packets do,
while fewer were sent than there are numbers.

`OwnInv` of the parser does not mention an order of packets, so it holds behind any
network: a step of the gate hands over some packet of the camera, which is all the
parser's lemmas ask for.

`Healed` looks back: *if* the packets from the first of a picture `F` to the last of
the next were parsed in a row, the decoder has `F`. To prove it one must know
what a row gives before it is complete. `Follows` says it for every `F` and every
packet `q` behind its first: if the packets parsed last are those from the first of
`F` to `q`, then the parser is behind `q` or within it (`InPlace`, from the `Parsed` and
`Busy` of the parser's part, with `since = F`), whatever it was doing before. The first
packet of `F` has a pack header, which ends what was being collected (`ParseHeals`);
`frameBuff` may hold anything then. Each further packet in the row is the next
place, and the proofs of the parser's steps serve again. A packet out of the
row makes the premise false. `PastShown` keeps what was shown when the parser has gone
on. Where a datagram on the network belongs is not in a variable: `b` gives each
packet sent its place in the pictures, packets sent later lie behind
(`Placed`), and every copy under way carries the cells of its place (`Carried`).
Neither the gate nor the size of the numbers matters here, so `StreamHeals` has none of the
bounds of `ParsedOnce`.

### What made the proofs possible

The library's induction theorems take an operator as a parameter and cannot be
used. `SequenceLemmas` has instead that a nonempty set of numbers has a least
element, from the well-foundedness of the numbers: a statement about every
number is proved at its least counterexample. From that follow what the proofs
need of recursive functions (`RecursionExists`) and of `FlattenSeq`, and that a
stream cut in two places is the same stream.

### Only model-checked

- Everything under fairness, which is beyond the prover: `ViewConverges`,
  `SilentDeviceHidden`, `AnswersTakeEffect`, `LiveDeviceKept`, `CallsSettle`,
  `QueryFillsRegistry`, `StopTakesEffect`, `UiReturns`, `EveryPictureDecoded`,
  `EveryPacketParsed`, `InputDrained`, `StopEnds`.

`EveryPictureDecoded` and `EveryPacketParsed` hold up to the end of the process that
`ParsesOwnBytes` and `CrashOnlyOversize` describe.

Every other property of the passing runs is stated by a theorem of this section.

## 6. Not modelled, and what is left

Not modelled, each with its reason:

- *eXosip, osip, FFmpeg*: headers and binaries of libraries, more than half of the
  lines in the repository; how the client uses them is in the external
  definitions.
- *tinyxml beyond the parser and the look-ups*: editing, copying, printing, files,
  streams, handles. The client never calls them. Attributes, entities and
  encodings are below the level of a piece: the messages have no attributes the
  client reads, and a damaged entity changes a text, not the tree.
- *The life of the SIP context* (`initialize`, `onListen`, `onStopListen`): what a
  second `onListen` does depends on how eXosip takes a context that is replaced
  under the loop, or was quit; that is not in this code.
- *The current item of the tree* (`onQuery`, `onPlay`): Qt chooses a new one when a
  node is deleted.
- *Decoders, painting, configuration, log*: no control that other parts depend on.
  The buffer a picture shares with the decoder is listed as a hazard.
- *Two sources on one UDP port*: with one `m_seqNo` they block each other; nothing
  says what should be shown.

The client's own code is about 2500 lines; with tinyxml's parser, what the
modules map is most of what has control worth a model.

Left for the proofs: nothing that a run checks and the prover can state; what is
beyond it is named in section 5.

No module that is to be proved about has a RECURSIVE operator.

## 7. Running the checks

    tlc -workers 2 -config View.cfg DeviceView.tla
    tlapm DeviceInfosProofs.tla      (and each other module named ...Proofs, SequenceLemmas)

`PROJECT.json` lists the module and configuration of every run. The longest,
`udp_lossy`, takes about three minutes; `play` two; the others about one or less.
