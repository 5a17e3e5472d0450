----------------------------- MODULE SipProofs ------------------------------
(***************************************************************************)
(* Proofs about SIP: registration and messages first, then the requests    *)
(* the client sends, for every set of devices, channels, addresses and     *)
(* leases, every number of lost messages and every bound on what waits.    *)
(***************************************************************************)
EXTENDS SipCalls, DeviceInfosProofs

-----------------------------------------------------------------------------
(* Registration and messages: the invariant.                                *)

(* What the loop passes to appendDevice is a lease and an address: a        *)
(* REGISTER without either never gets that far.                             *)
Entering == stage = "append" => hand.expires \in Leases /\ hand.addr \in Addrs

(* answer200OK is called for a Keepalive or a Catalog the registry accepted. *)
Answering == stage = "answer" => hand.kind \in {"Keepalive", "Catalog"}

(* Where the request of a device can be: in the queue of eXosip, in the     *)
(* hands of the loop, not answered yet, or answered.                        *)
RequestAt(d, i) == inbox[i].dev = d /\ inbox[i].kind \in Requests
Waits(d) == \E i \in DOMAIN inbox : RequestAt(d, i)
InHand(d) == stage \in {"handle", "answer"} /\ hand.dev = d /\ hand.kind \in Requests
Back(d) == \E a \in answers : a.dev = d

(* A device has one request, the one it waits for an answer to, and it is   *)
(* in one place at a time: so the loop cannot meet a request that it has    *)
(* answered, nor one the device has forgotten.                              *)
OnePlace ==
    \A d \in Devices :
        /\ \A i, j \in DOMAIN inbox : RequestAt(d, i) /\ RequestAt(d, j) => i = j
        /\ \A a, b \in answers : a.dev = d /\ b.dev = d => a = b
        /\ Waits(d) => ~InHand(d) /\ ~Back(d)
        /\ InHand(d) => ~Back(d)
        /\ \A i \in DOMAIN inbox : RequestAt(d, i) => inbox[i] = asked[d]
        /\ InHand(d) => hand = asked[d]
        /\ Back(d) => asked[d] # NoEvent
        /\ Waits(d) \/ InHand(d) => replied[d] = 0

SipInv == IInv /\ SipTypeOK /\ Entering /\ Answering /\ OnePlace /\ OneAnswer

-----------------------------------------------------------------------------
(* Types. *)

(* A catalog is a sequence of channels, and may be empty. *)
LEMMA CatalogTypes == <<>> \in Catalogs /\ Catalogs \subseteq Seq(Channels)
<1>1. MaxCatalog \in Nat
  BY BoundAssumption
<1>2. <<>> \in [1..0 -> Channels]
  OBVIOUS
<1>3. ASSUME NEW m \in 0..MaxCatalog, NEW f \in [1..m -> Channels]
      PROVE  f \in Seq(Channels)
  BY <1>1, <1>3, IsASeq
<1> QED
  BY <1>1, <1>2, <1>3 DEF Catalogs, SeqOf

(* What the devices send are events of eXosip. *)
LEMMA EventTypes ==
    ASSUME NEW d \in Devices
    PROVE  /\ \A kind \in EventKinds : Event(d, kind) \in Events
           /\ \A auth \in BOOLEAN, expires \in Leases \cup {0, NoExpires},
                 addr \in Addrs \cup {NoAddr} :
                 Register(d, auth, expires, addr) \in Events
           /\ \A list \in Catalogs : Catalog(d, list) \in Events
<1>1. \A kind \in EventKinds : Event(d, kind) \in Events
  BY CatalogTypes DEF Event, Events
<1>2. "REGISTER" \in EventKinds /\ "Catalog" \in EventKinds
  BY DEF EventKinds
<1> QED
  BY <1>1, <1>2, CatalogTypes DEF Event, Events, Register, Catalog

-----------------------------------------------------------------------------
(* The registry. *)

(* Every step of the event loop is a call that DeviceInfos.tla lets the     *)
(* clients of the registry make, or none.                                   *)
LEMMA LoopCallsRegistry ==
    ASSUME SipTypeOK, Entering, Loop
    PROVE  [Next]_vars
<1>0. hand # NoEvent => hand.dev \in Devices /\ hand.list \in Catalogs
  BY DEF SipTypeOK, Events
<1>1. stage # "wait" => hand # NoEvent
  BY DEF SipTypeOK
<1>2. CASE HandleKeepalive
  BY <1>0, <1>1, <1>2 DEF HandleKeepalive, Handling, Unknown, Next, Request
<1>3. CASE HandleCatalog
  BY <1>0, <1>1, <1>3 DEF HandleCatalog, Handling, Unknown, Next, Request
<1>4. CASE EnterDevice
  BY <1>0, <1>1, <1>4 DEF EnterDevice, Entering, Next, Request
<1>5. CASE RemoveDevice
  BY <1>0, <1>1, <1>5 DEF RemoveDevice, Unknown, Next, Request
<1>6. CASE \/ TakeEvent \/ Answer200OK \/ HandleOtherMessage \/ HandleOtherRequest
           \/ IgnoreRegister \/ Challenge \/ RefuseRegister \/ AcceptRegister \/ AcceptLogout
  BY <1>6 DEF TakeEvent, Answer200OK, HandleOtherMessage, HandleOtherRequest, IgnoreRegister,
              Challenge, RefuseRegister, AcceptRegister, AcceptLogout
<1> QED
  BY <1>2, <1>3, <1>4, <1>5, <1>6 DEF Loop

(* So is every step of the whole system. *)
LEMMA StepCallsRegistry ==
    ASSUME SipTypeOK, Entering, [SipNext]_sipVars
    PROVE  [Next]_vars
<1>1. CASE Loop
  BY <1>1, LoopCallsRegistry
<1>2. ASSUME NEW d \in Devices, Agent(d) PROVE UNCHANGED vars
  BY <1>2 DEF Agent, AskRegister, AskKeepalive, AskLogout, AskOther, Ask, GiveUp, ComeBack
<1>3. CASE Answered
  BY <1>3 DEF Answered, ReceiveAnswer
<1>4. CASE Lose
  BY <1>4 DEF Lose
<1>5. CASE Others
  BY <1>5 DEF Others, Next
<1>6. CASE UNCHANGED sipVars
  BY <1>6 DEF sipVars
<1> QED
  BY <1>1, <1>2, <1>3, <1>4, <1>5, <1>6 DEF SipNext

-----------------------------------------------------------------------------
(* The event loop and types. *)

(* The oldest event leaves the queue. *)
LEMMA TakeEventTypes ==
    ASSUME inbox \in Seq(Events), inbox # <<>>
    PROVE  /\ Head(inbox) \in Events /\ Tail(inbox) \in Seq(Events)
           /\ Len(inbox) \in Nat \ {0} /\ DOMAIN inbox = 1..Len(inbox)
           /\ DOMAIN Tail(inbox) = 1..(Len(inbox) - 1)
           /\ Head(inbox) = inbox[1]
           /\ \A i \in 1..(Len(inbox) - 1) : Tail(inbox)[i] = inbox[i + 1]
BY LenProperties, EmptySeq, HeadTailProperties

(* An answer to the request in hand is an answer, and counts as one. *)
LEMMA AnswerTypes ==
    ASSUME SipTypeOK, hand # NoEvent, NEW code \in {200, 400, 401}, Answer(code)
    PROVE  /\ answers' \subseteq [dev : Devices, code : {200, 400, 401}]
           /\ replied' \in [Devices -> Nat]
<1>1. hand.dev \in Devices
  BY DEF SipTypeOK, Events
<1>2. [dev |-> hand.dev, code |-> code] \in [dev : Devices, code : {200, 400, 401}]
  BY <1>1
<1> QED
  BY <1>1, <1>2 DEF Answer, SipTypeOK

(* The loop keeps the types of its event, its stage and its answers.        *)
LEMMA LoopTypes ==
    ASSUME SipTypeOK, TypeOK', Loop
    PROVE  SipTypeOK'
<1>0. /\ NoEvent \notin Events
      /\ stage # "wait" => hand # NoEvent
      /\ hand # NoEvent => hand \in Events
  BY EventAssumption DEF SipTypeOK
<1>1. CASE TakeEvent
  <2>1. /\ inbox' \in Seq(Events) /\ hand' \in Events /\ stage' = "handle"
        /\ hand' # NoEvent
    BY <1>0, <1>1, TakeEventTypes DEF TakeEvent, SipTypeOK
  <2>2. UNCHANGED <<answers, replied, phase, asked, lost>>
    BY <1>1 DEF TakeEvent, agents
  <2> QED
    BY <2>1, <2>2 DEF SipTypeOK
<1>2. CASE Answer200OK \/ HandleOtherRequest \/ AcceptRegister \/ AcceptLogout
  <2>1. Answer(200) /\ UNCHANGED <<vars, agents>>
    BY <1>2 DEF Answer200OK, HandleOtherRequest, AcceptRegister, AcceptLogout
  <2>3. hand # NoEvent
    BY <1>0, <1>2 DEF Answer200OK, HandleOtherRequest, AcceptRegister, AcceptLogout, Registering,
                      Handling
  <2>2. \/ Done \/ GoOn("append") \/ GoOn("remove")
    BY <1>2 DEF Answer200OK, HandleOtherRequest, AcceptRegister, AcceptLogout
  <2> QED
    BY <1>0, <2>1, <2>2, <2>3, AnswerTypes DEF SipTypeOK, Done, GoOn, agents
<1>3. CASE Challenge \/ RefuseRegister
  <2>1. (Answer(401) \/ Answer(400)) /\ UNCHANGED <<vars, agents>> /\ Done
    BY <1>3 DEF Challenge, RefuseRegister
  <2>2. hand # NoEvent
    BY <1>0, <1>3 DEF Challenge, RefuseRegister, Registering, Handling
  <2> QED
    BY <1>0, <2>1, <2>2, AnswerTypes DEF SipTypeOK, Done, agents
<1>4. CASE \/ HandleKeepalive \/ HandleCatalog \/ HandleOtherMessage \/ IgnoreRegister
           \/ EnterDevice \/ RemoveDevice
  <2>1. stage # "wait" /\ NoAnswer /\ UNCHANGED agents /\ (Done \/ GoOn("answer"))
    BY <1>4 DEF HandleKeepalive, HandleCatalog, HandleOtherMessage, IgnoreRegister, EnterDevice,
                RemoveDevice, Registering, Handling
  <2> QED
    BY <1>0, <2>1 DEF SipTypeOK, Done, GoOn, NoAnswer, agents
<1> QED
  BY <1>1, <1>2, <1>3, <1>4 DEF Loop

(* Only AcceptRegister goes on to enter a device, and only a Keepalive or a *)
(* Catalog to answer200OK.                                                  *)
LEMMA LoopEntering ==
    ASSUME SipTypeOK, Entering, Loop
    PROVE  Entering' /\ Answering'
<1>0. stage # "wait" => hand # NoEvent /\ hand \in Events
  BY DEF SipTypeOK
<1>1. CASE AcceptRegister
  BY <1>0, <1>1 DEF AcceptRegister, Registering, Handling, GoOn, Entering, Answering, Events
<1>2. CASE HandleKeepalive \/ HandleCatalog
  BY <1>2 DEF HandleKeepalive, HandleCatalog, Handling, Done, GoOn, Entering, Answering
<1>3. CASE ~AcceptRegister /\ ~HandleKeepalive /\ ~HandleCatalog
  <2>1. stage' \notin {"append", "answer"}
    BY <1>3 DEF Loop, TakeEvent, Answer200OK, HandleOtherRequest, AcceptLogout, Challenge,
                RefuseRegister, HandleOtherMessage, IgnoreRegister, EnterDevice, RemoveDevice,
                Done, GoOn
  <2> QED
    BY <2>1 DEF Entering, Answering
<1> QED
  BY <1>1, <1>2, <1>3

-----------------------------------------------------------------------------
(* The devices, the network and types. *)

(* Asking queues an event and leaves the loop alone. *)
LEMMA AskTypes ==
    ASSUME SipTypeOK, TypeOK', NEW e \in Events, Ask(e)
    PROVE  SipTypeOK'
<1>1. e.dev \in Devices
  BY DEF Events
<1>2. inbox' \in Seq(Events)
  BY AppendProperties DEF SipTypeOK, Ask
<1> QED
  BY <1>1, <1>2 DEF SipTypeOK, Ask

(* Whatever a device asks, it asks for itself. *)
LEMMA AgentAsks ==
    ASSUME NEW d \in Devices, phase \in [Devices -> {"new", "challenged", "up", "leaving", "gone"}],
           AskRegister(d) \/ AskKeepalive(d) \/ AskLogout(d) \/ AskOther(d)
    PROVE  \E e \in Events : e.dev = d /\ e.kind \in Requests /\ Ask(e)
<1>0. /\ \A kind \in Requests : /\ kind \in EventKinds
                              /\ Event(d, kind).dev = d /\ Event(d, kind).kind \in Requests
      /\ \A auth \in BOOLEAN, expires \in Leases \cup {0, NoExpires}, addr \in Addrs \cup {NoAddr} :
            /\ Register(d, auth, expires, addr).dev = d
            /\ Register(d, auth, expires, addr).kind \in Requests
      /\ \A list \in Catalogs : Catalog(d, list).dev = d /\ Catalog(d, list).kind \in Requests
      /\ {"Keepalive", "otherMessage", "otherRequest"} \subseteq Requests
  BY DEF Event, Register, Catalog, Requests, EventKinds
<1>1. CASE AskRegister(d)
  <2>1. PICK lease \in Leases, addr \in Addrs :
            Ask(Register(d, phase[d] = "challenged", lease, addr))
    BY <1>1 DEF AskRegister
  <2>2. /\ Register(d, phase[d] = "challenged", lease, addr) \in Events
        /\ Register(d, phase[d] = "challenged", lease, addr).dev = d
        /\ Register(d, phase[d] = "challenged", lease, addr).kind \in Requests
    BY <1>0, EventTypes
  <2> QED
    BY <2>1, <2>2
<1>2. CASE AskKeepalive(d)
  <2>1. /\ Event(d, "Keepalive") \in Events /\ Event(d, "Keepalive").dev = d
        /\ Event(d, "Keepalive").kind \in Requests
    BY <1>0, EventTypes
  <2> QED
    BY <1>2, <2>1 DEF AskKeepalive
<1>3. CASE AskLogout(d)
  <2>1. /\ Register(d, phase[d] = "leaving", 0, NoAddr) \in Events
        /\ Register(d, phase[d] = "leaving", 0, NoAddr).dev = d
        /\ Register(d, phase[d] = "leaving", 0, NoAddr).kind \in Requests
    BY <1>0, EventTypes
  <2> QED
    BY <1>3, <2>1 DEF AskLogout
<1>4. CASE AskOther(d)
  <2>1. CASE \E list \in Catalogs : Ask(Catalog(d, list))
    BY <1>0, <2>1, EventTypes
  <2>2. CASE \E kind \in {"otherMessage", "otherRequest"} : Ask(Event(d, kind))
    BY <1>0, <2>2, EventTypes
  <2>3. CASE \E expires \in Leases \cup {NoExpires} : Ask(Register(d, TRUE, expires, NoAddr))
    BY <1>0, <2>3, EventTypes
  <2> QED
    BY <1>4, <2>1, <2>2, <2>3 DEF AskOther
<1> QED
  BY <1>1, <1>2, <1>3, <1>4

(* An answer that arrives, or none, moves the device to another phase. *)
LEMMA ReceiveAnswerTypes ==
    ASSUME SipTypeOK, TypeOK', NEW a \in answers, ReceiveAnswer(a)
    PROVE  SipTypeOK'
<1>1. a.dev \in Devices /\ a.code \in {200, 400, 401}
  BY DEF SipTypeOK
<1>2. \A p \in {"new", "challenged", "up", "leaving", "gone"} :
         PhaseAfter(p, asked[a.dev], a.code) \in {"new", "challenged", "up", "leaving", "gone"}
  BY <1>1 DEF PhaseAfter
<1>3. phase' \in [Devices -> {"new", "challenged", "up", "leaving", "gone"}]
  BY <1>1, <1>2, ZenonT(40) DEF ReceiveAnswer, SipTypeOK
<1> QED
  BY <1>1, <1>3 DEF ReceiveAnswer, SipTypeOK

(* So does a device that gives up or comes back. *)
LEMMA MoodTypes ==
    ASSUME SipTypeOK, TypeOK', NEW d \in Devices, GiveUp(d) \/ ComeBack(d)
    PROVE  SipTypeOK'
BY DEF SipTypeOK, GiveUp, ComeBack, sip

(* A request or an answer is lost. *)
LEMMA LoseTypes ==
    ASSUME SipTypeOK, TypeOK', Lose
    PROVE  SipTypeOK'
<1>1. lost' \in 0..MaxLost
  BY SipAssumption DEF Lose, SipTypeOK
<1>2. inbox' \in Seq(Events)
  <2>1. DOMAIN inbox = 1..Len(inbox)
    BY LenProperties DEF SipTypeOK
  <2>2. \A i \in DOMAIN inbox : RemoveAt(inbox, i) \in Seq(Events)
    BY <2>1, RemoveAtProperties DEF SipTypeOK
  <2> QED
    BY <2>2 DEF Lose, SipTypeOK
<1> QED
  BY <1>1, <1>2 DEF Lose, SipTypeOK

(* The sweep, the clock and the UI thread leave the messages alone. *)
LEMMA OthersTypes ==
    ASSUME SipTypeOK, TypeOK', UNCHANGED <<sip, agents>>
    PROVE  SipTypeOK'
BY DEF SipTypeOK, sip, agents

-----------------------------------------------------------------------------
(* A request is in one place. *)

(* A device asks only when it waits for no answer: the new request is the   *)
(* only one of its own.                                                     *)
LEMMA AskOnePlace ==
    ASSUME SipInv, NEW e \in Events, e.kind \in Requests, Ask(e)
    PROVE  OnePlace' /\ OneAnswer'
<1> USE DEF SipInv
<1>0. /\ e.dev \in Devices /\ asked[e.dev] = NoEvent /\ NoEvent \notin Events
      /\ inbox \in Seq(Events)
      /\ hand' = hand /\ stage' = stage /\ answers' = answers
      /\ \A d \in Devices : asked'[d] = IF d = e.dev THEN e ELSE asked[d]
      /\ \A d \in Devices : replied'[d] = IF d = e.dev THEN 0 ELSE replied[d]
  BY EventAssumption DEF Ask, Events, SipTypeOK
<1>1. PICK n \in Nat : /\ DOMAIN inbox = 1..n /\ DOMAIN inbox' = 1..(n + 1)
                       /\ inbox'[n + 1] = e
                       /\ \A i \in 1..n : inbox'[i] = inbox[i]
  BY <1>0, LenProperties, ElementOfSeq, AppendProperties DEF Ask
<1>2. \A d \in Devices : InHand(d)' = InHand(d) /\ Back(d)' = Back(d)
  BY <1>0 DEF InHand, Back
<1>3. ~Waits(e.dev) /\ ~InHand(e.dev) /\ ~Back(e.dev)
  <2>1. ~Waits(e.dev)
    BY <1>0, <1>1 DEF OnePlace, Waits
  <2>2. ~InHand(e.dev)
    BY <1>0 DEF OnePlace, InHand, SipTypeOK
  <2> QED
    BY <1>0, <2>1, <2>2 DEF OnePlace
<1>4. \A d \in Devices, i \in DOMAIN inbox' :
         RequestAt(d, i)' <=> (i \in DOMAIN inbox /\ RequestAt(d, i)) \/ (i = n + 1 /\ d = e.dev)
  BY <1>0, <1>1 DEF RequestAt
<1>5. \A d \in Devices : Waits(d)' <=> Waits(d) \/ d = e.dev
  BY <1>0, <1>1, <1>4 DEF Waits
<1>6. \A d \in Devices, i, j \in DOMAIN inbox' : RequestAt(d, i)' /\ RequestAt(d, j)' => i = j
  <2>1. \A i \in DOMAIN inbox : ~RequestAt(e.dev, i)
    BY <1>1, <1>3 DEF Waits
  <2> QED
    BY <1>0, <1>1, <1>4, <2>1 DEF OnePlace
<1>7. \A d \in Devices, i \in DOMAIN inbox' : RequestAt(d, i)' => inbox'[i] = asked'[d]
  <2>1. \A i \in DOMAIN inbox : ~RequestAt(e.dev, i)
    BY <1>1, <1>3 DEF Waits
  <2> QED
    BY <1>0, <1>1, <1>4, <2>1 DEF OnePlace
<1>8. OnePlace'
  BY <1>0, <1>2, <1>3, <1>5, <1>6, <1>7 DEF OnePlace
<1>9. OneAnswer'
  BY <1>0 DEF OneAnswer
<1> QED
  BY <1>8, <1>9

(* Taking an event moves a request from the queue to the hands of the loop. *)
LEMMA TakeEventOnePlace ==
    ASSUME SipInv, TakeEvent
    PROVE  OnePlace' /\ OneAnswer'
<1> USE DEF SipInv
<1>0. /\ stage = "wait" /\ hand = NoEvent /\ stage' = "handle"
      /\ answers' = answers /\ asked' = asked /\ replied' = replied
      /\ Len(inbox) \in Nat \ {0} /\ DOMAIN inbox = 1..Len(inbox)
      /\ DOMAIN inbox' = 1..(Len(inbox) - 1)
      /\ hand' = inbox[1]
      /\ \A i \in 1..(Len(inbox) - 1) : inbox'[i] = inbox[i + 1]
  BY TakeEventTypes DEF TakeEvent, SipTypeOK, agents
<1>1. \A d \in Devices : ~InHand(d) /\ (InHand(d)' <=> RequestAt(d, 1)) /\ Back(d)' = Back(d)
  BY <1>0 DEF InHand, Back, RequestAt
<1>2. \A i \in DOMAIN inbox' : /\ i + 1 \in DOMAIN inbox /\ i + 1 # 1 /\ i \in Nat
                              /\ inbox'[i] = inbox[i + 1]
                              /\ \A d \in Devices : RequestAt(d, i)' <=> RequestAt(d, i + 1)
  BY <1>0 DEF RequestAt
<1>3. \A d \in Devices : Waits(d)' \/ InHand(d)' => Waits(d)
  BY <1>0, <1>1, <1>2 DEF Waits
<1>4. \A d \in Devices : ~(Waits(d)' /\ InHand(d)')
  <2> SUFFICES ASSUME NEW d \in Devices, NEW i \in DOMAIN inbox', RequestAt(d, i)',
                      RequestAt(d, 1)
               PROVE  FALSE
    BY <1>1 DEF Waits
  <2>1. RequestAt(d, i + 1) /\ i + 1 \in DOMAIN inbox /\ 1 \in DOMAIN inbox /\ i + 1 # 1
    BY <1>0, <1>2
  <2> QED
    BY <2>1 DEF OnePlace
<1>5. \A d \in Devices, i, j \in DOMAIN inbox' : RequestAt(d, i)' /\ RequestAt(d, j)' => i = j
  <2> SUFFICES ASSUME NEW d \in Devices, NEW i \in DOMAIN inbox', NEW j \in DOMAIN inbox',
                      RequestAt(d, i)', RequestAt(d, j)'
               PROVE  i = j
    OBVIOUS
  <2>1. /\ RequestAt(d, i + 1) /\ i + 1 \in DOMAIN inbox /\ i \in Nat
        /\ RequestAt(d, j + 1) /\ j + 1 \in DOMAIN inbox /\ j \in Nat
    BY <1>0, <1>2
  <2>2. i + 1 = j + 1
    BY <2>1 DEF OnePlace
  <2> QED
    BY <2>1, <2>2
<1>6. \A d \in Devices : /\ \A i \in DOMAIN inbox' : RequestAt(d, i)' => inbox'[i] = asked'[d]
                         /\ InHand(d)' => hand' = asked'[d]
  BY <1>0, <1>1, <1>2 DEF OnePlace
<1>7. OnePlace'
  BY <1>0, <1>1, <1>3, <1>4, <1>5, <1>6 DEF OnePlace
<1>8. OneAnswer'
  BY <1>0 DEF OneAnswer
<1> QED
  BY <1>7, <1>8

(* Answering moves it from the hands of the loop to its answer: there was   *)
(* none before, and the loop is through with the request, whatever it goes  *)
(* on to do with the registry.                                              *)
LEMMA AnswerOnePlace ==
    ASSUME SipInv, stage \in {"handle", "answer"}, hand.kind \in Requests,
           NEW code \in {200, 400, 401}, Answer(code),
           inbox' = inbox, asked' = asked, stage' \notin {"handle", "answer"}
    PROVE  OnePlace' /\ OneAnswer'
<1> USE DEF SipInv
<1> DEFINE h == hand.dev
           a == [dev |-> h, code |-> code]
<1>0. /\ h \in Devices /\ InHand(h) /\ replied[h] = 0 /\ hand \in Events
      /\ replied \in [Devices -> Nat] /\ replied' = [replied EXCEPT ![h] = @ + 1]
      /\ answers' = answers \cup {a} /\ a.dev = h
  <2>1. hand \in Events
    BY DEF SipTypeOK
  <2>2. hand.dev \in Devices
    BY <2>1 DEF Events
  <2> QED
    BY <2>1, <2>2 DEF SipTypeOK, Answer, InHand, OnePlace
<1> HIDE DEF a
<1>1. \A d \in Devices : /\ Waits(d)' = Waits(d) /\ ~InHand(d)'
                         /\ \A i \in DOMAIN inbox : RequestAt(d, i)' = RequestAt(d, i)
                         /\ Back(d)' <=> Back(d) \/ d = h
                         /\ InHand(d) => d = h
  BY <1>0 DEF Waits, InHand, Back, RequestAt
<1>2. ~Waits(h) /\ ~Back(h) /\ asked[h] # NoEvent
  BY <1>0, EventAssumption DEF OnePlace
<1>3. \A d \in Devices, b, c \in answers' : b.dev = d /\ c.dev = d => b = c
  BY <1>0, <1>2 DEF OnePlace, Back
<1>4. OnePlace'
  <2> SUFFICES ASSUME NEW d \in Devices
               PROVE  /\ \A i, j \in DOMAIN inbox : RequestAt(d, i) /\ RequestAt(d, j) => i = j
                      /\ Waits(d) => ~(Back(d) \/ d = h)
                      /\ \A i \in DOMAIN inbox : RequestAt(d, i) => inbox[i] = asked[d]
                      /\ Back(d) \/ d = h => asked[d] # NoEvent
                      /\ Waits(d) => replied'[d] = 0
    BY <1>1, <1>3 DEF OnePlace
  <2>1. d # h => replied'[d] = replied[d]
    BY <1>0
  <2> QED
    BY <1>2, <2>1 DEF OnePlace
<1>5. OneAnswer'
  BY <1>0 DEF OneAnswer
<1> QED
  BY <1>4, <1>5

(* Steps of the loop that send no answer drop the event or keep it.         *)
LEMMA NoAnswerOnePlace ==
    ASSUME SipInv, NoAnswer, inbox' = inbox, asked' = asked,
           Done \/ GoOn("ack") \/ (stage = "handle" /\ GoOn("answer"))
    PROVE  OnePlace' /\ OneAnswer'
<1> USE DEF SipInv
<1>1. \A d \in Devices : /\ Waits(d)' = Waits(d) /\ Back(d)' = Back(d)
                         /\ \A i \in DOMAIN inbox : RequestAt(d, i)' = RequestAt(d, i)
                         /\ InHand(d)' => InHand(d) /\ hand' = hand
  BY DEF Waits, Back, InHand, RequestAt, NoAnswer, Done, GoOn
<1> QED
  BY <1>1 DEF OnePlace, OneAnswer, NoAnswer

(* An answer that arrives closes the request: it was in no other place. *)
LEMMA ReceiveAnswerOnePlace ==
    ASSUME SipInv, NEW a \in answers, ReceiveAnswer(a)
    PROVE  OnePlace' /\ OneAnswer'
<1> USE DEF SipInv
<1>0. /\ a.dev \in Devices /\ answers' = answers \ {a} /\ inbox' = inbox /\ hand' = hand
      /\ stage' = stage /\ replied' = replied /\ Back(a.dev)
      /\ \A d \in Devices : asked'[d] = IF d = a.dev THEN NoEvent ELSE asked[d]
  BY DEF ReceiveAnswer, SipTypeOK, Back
<1>1. \A d \in Devices : /\ Waits(d)' = Waits(d) /\ InHand(d)' = InHand(d)
                         /\ \A i \in DOMAIN inbox : RequestAt(d, i)' = RequestAt(d, i)
                         /\ Back(d)' => Back(d)
  BY <1>0 DEF Waits, InHand, Back, RequestAt
<1>2. ~Waits(a.dev) /\ ~InHand(a.dev) /\ ~Back(a.dev)'
  BY <1>0 DEF OnePlace, Back
<1>3. \A i \in DOMAIN inbox : ~RequestAt(a.dev, i)
  BY <1>2 DEF Waits
<1>4. OnePlace'
  BY <1>0, <1>1, <1>2, <1>3 DEF OnePlace
<1> QED
  BY <1>0, <1>4 DEF OneAnswer

(* A device gives up only when its request is nowhere. *)
LEMMA MoodOnePlace ==
    ASSUME SipInv, NEW d \in Devices, GiveUp(d) \/ ComeBack(d)
    PROVE  OnePlace' /\ OneAnswer'
<1> USE DEF SipInv
<1>0. /\ inbox' = inbox /\ hand' = hand /\ stage' = stage /\ answers' = answers
      /\ replied' = replied
  BY DEF GiveUp, ComeBack, sip
<1>1. \A x \in Devices : /\ Waits(x)' = Waits(x) /\ InHand(x)' = InHand(x) /\ Back(x)' = Back(x)
                         /\ \A i \in DOMAIN inbox : RequestAt(x, i)' = RequestAt(x, i)
  BY <1>0 DEF Waits, InHand, Back, RequestAt
<1>2. \A x \in Devices : asked'[x] = asked[x] \/ (~Waits(x) /\ ~InHand(x) /\ ~Back(x))
  <2>1. GiveUp(d) => ~Waits(d) /\ ~InHand(d) /\ ~Back(d)
    BY DEF GiveUp, UnderWay, Waits, InHand, Back, RequestAt, SipTypeOK
  <2>2. \A x \in Devices : x # d => asked'[x] = asked[x]
    BY DEF GiveUp, ComeBack, SipTypeOK
  <2>3. ComeBack(d) => asked' = asked
    BY DEF ComeBack
  <2> QED
    BY <2>1, <2>2, <2>3
<1>3. OnePlace'
  BY <1>0, <1>1, <1>2 DEF OnePlace, Waits
<1> QED
  BY <1>0, <1>3 DEF OneAnswer

(* A lost request or answer is nowhere from then on. *)
LEMMA LoseOnePlace ==
    ASSUME SipInv, Lose
    PROVE  OnePlace' /\ OneAnswer'
<1> USE DEF SipInv
<1>0. /\ hand' = hand /\ stage' = stage /\ asked' = asked /\ replied' = replied
  BY DEF Lose
<1>1. CASE \E a \in answers : answers' = answers \ {a} /\ inbox' = inbox
  <2>1. \A d \in Devices : /\ Waits(d)' = Waits(d) /\ InHand(d)' = InHand(d)
                           /\ \A i \in DOMAIN inbox : RequestAt(d, i)' = RequestAt(d, i)
                           /\ Back(d)' => Back(d)
    BY <1>0, <1>1 DEF Waits, InHand, Back, RequestAt
  <2>2. answers' \subseteq answers /\ inbox' = inbox
    BY <1>1
  <2> QED
    BY <1>0, <2>1, <2>2 DEF OnePlace, OneAnswer
<1>2. ASSUME NEW k \in DOMAIN inbox, inbox' = RemoveAt(inbox, k), answers' = answers
      PROVE  OnePlace' /\ OneAnswer'
  <2> DEFINE old(j) == IF j < k THEN j ELSE j + 1
  <2>1. inbox \in Seq(Events) /\ DOMAIN inbox = 1..Len(inbox) /\ Len(inbox) \in Nat
    BY LenProperties DEF SipTypeOK
  <2>2. /\ inbox' \in Seq(Events) /\ Len(inbox') = Len(inbox) - 1
        /\ \A j \in 1..(Len(inbox) - 1) : inbox'[j] = IF j < k THEN inbox[j] ELSE inbox[j + 1]
    BY <1>2, <2>1, RemoveAtProperties
  <2>3. DOMAIN inbox' = 1..(Len(inbox) - 1)
    BY <2>2, LenProperties
  <2>4. \A j \in DOMAIN inbox' : old(j) \in DOMAIN inbox /\ inbox'[j] = inbox[old(j)]
    BY <2>1, <2>2, <2>3
  <2>5. \A i, j \in DOMAIN inbox' : old(i) = old(j) => i = j
    BY <2>1, <2>3
  <2> HIDE DEF old
  <2>6. \A d \in Devices, j \in DOMAIN inbox' : RequestAt(d, j)' = RequestAt(d, old(j))
    BY <2>4 DEF RequestAt
  <2>7. \A d \in Devices : /\ Waits(d)' => Waits(d)
                           /\ InHand(d)' = InHand(d) /\ Back(d)' = Back(d)
    BY <1>0, <1>2, <2>4, <2>6 DEF Waits, InHand, Back
  <2>8. \A d \in Devices, i, j \in DOMAIN inbox' : RequestAt(d, i)' /\ RequestAt(d, j)' => i = j
    BY <2>4, <2>5, <2>6 DEF OnePlace
  <2>9. \A d \in Devices, i \in DOMAIN inbox' : RequestAt(d, i)' => inbox'[i] = asked[d]
    BY <2>4, <2>6 DEF OnePlace
  <2> QED
    BY <1>0, <1>2, <2>7, <2>8, <2>9 DEF OnePlace, OneAnswer
<1> QED
  BY <1>1, <1>2 DEF Lose

-----------------------------------------------------------------------------
(* The invariant and the theorems. *)

(* Before the first request nothing is under way. *)
LEMMA SipInvInit == SipInit => SipInv
<1> SUFFICES ASSUME SipInit PROVE SipInv
  OBVIOUS
<1>1. IInv /\ TypeOK
  BY InvInit DEF SipInit, IInv
<1>2. inbox \in Seq(Events) /\ DOMAIN inbox = {}
  BY EmptySeq DEF SipInit
<1>3. SipTypeOK
  BY <1>1, <1>2, SipAssumption DEF SipInit, SipTypeOK
<1> QED
  BY <1>1, <1>2, <1>3 DEF SipInv, SipInit, Entering, Answering, OnePlace, OneAnswer, Waits,
                              InHand, Back

(* The loop keeps every request in one place. *)
LEMMA LoopOnePlace ==
    ASSUME SipInv, Loop
    PROVE  OnePlace' /\ OneAnswer'
<1>1. CASE TakeEvent
  BY <1>1, TakeEventOnePlace
<1>2. CASE \/ Answer200OK \/ HandleOtherRequest \/ AcceptRegister \/ AcceptLogout
           \/ Challenge \/ RefuseRegister
  <2>1. /\ stage \in {"handle", "answer"}
        /\ Answer(200) \/ Answer(401) \/ Answer(400)
        /\ Done \/ GoOn("append") \/ GoOn("remove")
        /\ UNCHANGED agents
    BY <1>2 DEF Answer200OK, HandleOtherRequest, AcceptRegister, AcceptLogout, Challenge,
                RefuseRegister, Registering, Handling
  <2>2. inbox' = inbox /\ asked' = asked /\ stage' \notin {"handle", "answer"}
    BY <2>1 DEF Done, GoOn, agents
  <2>3. hand.kind \in Requests
    BY <1>2 DEF Answer200OK, HandleOtherRequest, AcceptRegister, AcceptLogout, Challenge,
                RefuseRegister, Registering, Handling, SipInv, Answering, Requests
  <2> QED
    BY <2>1, <2>2, <2>3, AnswerOnePlace
<1>3. CASE \/ HandleKeepalive \/ HandleCatalog \/ HandleOtherMessage \/ IgnoreRegister
           \/ EnterDevice \/ RemoveDevice
  <2>1. /\ stage \in {"handle", "append", "remove"} /\ NoAnswer /\ UNCHANGED agents
        /\ Done \/ (stage = "handle" /\ GoOn("answer"))
    BY <1>3 DEF HandleKeepalive, HandleCatalog, HandleOtherMessage, IgnoreRegister, EnterDevice,
                RemoveDevice, Registering, Handling
  <2>2. inbox' = inbox /\ asked' = asked
    BY <2>1 DEF Done, GoOn, agents
  <2> QED
    BY <2>1, <2>2, NoAnswerOnePlace
<1> QED
  BY <1>1, <1>2, <1>3 DEF Loop

(* Every step preserves the invariant. *)
LEMMA SipInvStep == SipInv /\ [SipNext]_sipVars => SipInv'
<1> SUFFICES ASSUME SipInv, [SipNext]_sipVars PROVE SipInv'
  OBVIOUS
<1>0. IInv' /\ TypeOK' /\ SipTypeOK /\ Entering /\ Answering
  BY StepCallsRegistry, InvStep DEF SipInv, IInv
<1>1. CASE Loop
  BY <1>0, <1>1, LoopTypes, LoopEntering, LoopOnePlace DEF SipInv
<1>2. ASSUME NEW d \in Devices, Agent(d) PROVE SipInv'
  <2>1. CASE AskRegister(d) \/ AskKeepalive(d) \/ AskLogout(d) \/ AskOther(d)
    <3>1. PICK e \in Events : e.kind \in Requests /\ Ask(e)
      BY <1>0, <2>1, AgentAsks DEF SipTypeOK
    <3>2. Entering' /\ Answering'
      BY <1>0, <3>1 DEF Ask, Entering, Answering
    <3> QED
      BY <1>0, <3>1, <3>2, AskTypes, AskOnePlace DEF SipInv
  <2>2. CASE GiveUp(d) \/ ComeBack(d)
    <3>1. Entering' /\ Answering'
      BY <1>0, <2>2 DEF GiveUp, ComeBack, sip, Entering, Answering
    <3> QED
      BY <1>0, <2>2, <3>1, MoodTypes, MoodOnePlace DEF SipInv
  <2> QED
    BY <1>2, <2>1, <2>2 DEF Agent
<1>3. CASE Answered
  <2>1. PICK a \in answers : ReceiveAnswer(a)
    BY <1>3 DEF Answered
  <2>2. Entering' /\ Answering'
    BY <1>0, <2>1 DEF ReceiveAnswer, Entering, Answering
  <2> QED
    BY <1>0, <2>1, <2>2, ReceiveAnswerTypes, ReceiveAnswerOnePlace DEF SipInv
<1>4. CASE Lose
  <2>1. Entering' /\ Answering'
    BY <1>0, <1>4 DEF Lose, Entering, Answering
  <2> QED
    BY <1>0, <1>4, <2>1, LoseTypes, LoseOnePlace DEF SipInv
<1>5. CASE UNCHANGED <<sip, agents>>
  <2>1. SipTypeOK'
    BY <1>0, <1>5, OthersTypes
  <2>2. /\ inbox' = inbox /\ hand' = hand /\ stage' = stage /\ answers' = answers
        /\ replied' = replied /\ asked' = asked
    BY <1>5 DEF sip, agents
  <2> QED
    BY <1>0, <2>1, <2>2 DEF SipInv, Entering, Answering, OnePlace, OneAnswer, Waits,
                                InHand, Back, RequestAt
<1> QED
  BY <1>1, <1>2, <1>3, <1>4, <1>5 DEF SipNext, Others, sipVars

(* The invariant holds in every state of every behaviour. *)
THEOREM SipInvariant == SipSpec => []SipInv
<1>1. SipInit => SipInv
  BY SipInvInit
<1>2. SipInv /\ [SipNext]_sipVars => SipInv'
  BY SipInvStep
<1> QED
  BY <1>1, <1>2, PTL DEF SipSpec

(* No request is answered twice, however requests, answers and losses are   *)
(* interleaved with the work of the loop.                                   *)
THEOREM OneAnswerHolds == SipSpec => []OneAnswer
<1>1. SipInv => OneAnswer
  BY DEF SipInv
<1> QED
  BY <1>1, SipInvariant, PTL

(* The loop goes on to answer a request only of a device it found, ... *)
LEMMA LoopGoesOn ==
    ASSUME Loop, stage = "handle", stage' = "answer"
    PROVE  ~LeftAlone
<1>1. HandleKeepalive \/ HandleCatalog
  BY DEF Loop, TakeEvent, Answer200OK, HandleOtherMessage, HandleOtherRequest, IgnoreRegister,
         Challenge, RefuseRegister, AcceptRegister, EnterDevice, AcceptLogout, RemoveDevice,
         Done, GoOn
<1>2. /\ hand.kind \in {"Keepalive", "Catalog"}
      /\ KeepAlive(hand.dev) \/ AppendDeviceChannels(hand.dev, hand.list)
  BY <1>1 DEF HandleKeepalive, HandleCatalog, Handling, Done
<1>3. Registered(hand.dev)
  BY <1>2 DEF KeepAlive, AppendDeviceChannels, FirstAt, Registered
<1> QED
  BY <1>2, <1>3 DEF LeftAlone

(* ... and when it is done with a request, it has answered it. *)
LEMMA LoopAnswers ==
    ASSUME SipInv, Loop, HandlingRequest, stage' \notin {"handle", "answer"}
    PROVE  replied'[hand.dev] = IF stage = "handle" /\ LeftAlone THEN 0 ELSE 1
<1>1. /\ SipTypeOK /\ hand # NoEvent /\ hand.dev \in Devices
      /\ replied \in [Devices -> Nat]
  BY DEF SipInv, SipTypeOK, Events, HandlingRequest
<1>2. replied[hand.dev] = 0
  BY <1>1 DEF SipInv, OnePlace, InHand, HandlingRequest
<1>3. (\E code : Answer(code)) => replied'[hand.dev] = 1
  BY <1>1, <1>2 DEF Answer
<1>4. NoAnswer => replied'[hand.dev] = 0
  BY <1>2 DEF NoAnswer
<1>5. CASE Answer200OK
  <2>1. stage # "handle" /\ Answer(200)
    BY <1>5 DEF Answer200OK
  <2> QED
    BY <1>3, <2>1
<1>6. CASE Challenge \/ RefuseRegister \/ AcceptRegister \/ AcceptLogout
  <2>1. /\ hand.kind = "REGISTER" /\ (\E code : Answer(code))
        /\ hand.expires = 0 \/ (hand.expires # NoExpires /\ hand.dev \notin ShortIds)
    BY <1>6 DEF Challenge, RefuseRegister, AcceptRegister, AcceptLogout, Registering, Handling
  <2>2. ~LeftAlone
    BY <2>1, SipAssumption DEF LeftAlone
  <2> QED
    BY <1>3, <2>1, <2>2
<1>7. CASE HandleOtherRequest
  <2>1. hand.kind = "otherRequest" /\ Answer(200)
    BY <1>7 DEF HandleOtherRequest, Handling
  <2>2. ~LeftAlone
    BY <2>1 DEF LeftAlone
  <2> QED
    BY <1>3, <2>1, <2>2
<1>8. CASE HandleKeepalive \/ HandleCatalog
  <2>1. /\ stage = "handle" /\ hand.kind \in {"Keepalive", "Catalog"}
        /\ NoAnswer /\ (GoOn("answer") \/ Unknown)
    BY <1>8 DEF HandleKeepalive, HandleCatalog, Handling
  <2>2. Unknown
    BY <2>1 DEF GoOn
  <2>3. LeftAlone
    BY <2>1, <2>2 DEF LeftAlone, Unknown
  <2> QED
    BY <1>4, <2>1, <2>3
<1>9. CASE HandleOtherMessage \/ IgnoreRegister
  <2>1. /\ stage = "handle" /\ NoAnswer
        /\ \/ hand.kind = "otherMessage"
           \/ /\ hand.kind = "REGISTER"
              /\ hand.expires = NoExpires \/ (hand.expires # 0 /\ hand.dev \in ShortIds)
    BY <1>9 DEF HandleOtherMessage, IgnoreRegister, Registering, Handling
  <2>2. LeftAlone
    BY <2>1 DEF LeftAlone
  <2> QED
    BY <1>4, <2>1, <2>2
<1>10. CASE TakeEvent \/ EnterDevice \/ RemoveDevice
  <2>1. stage \notin {"handle", "answer"}
    BY <1>10 DEF TakeEvent, EnterDevice, RemoveDevice
  <2> QED
    BY <2>1 DEF HandlingRequest
<1> QED
  BY <1>5, <1>6, <1>7, <1>8, <1>9, <1>10 DEF Loop

(* Whatever a device requests is answered exactly once by the time the loop *)
(* is done with it, unless it is one of the requests that the code leaves   *)
(* alone, however requests, answers and losses are interleaved with its     *)
(* work.                                                                    *)
THEOREM RequestsAnsweredHold == SipSpec => RequestsAnswered
<1> DEFINE Right == /\ stage = "handle" /\ stage' = "answer" => ~LeftAlone
                    /\ stage' \notin {"handle", "answer"} =>
                          replied'[hand.dev] = IF stage = "handle" /\ LeftAlone THEN 0 ELSE 1
<1>1. ASSUME SipInv, SipNext, HandlingRequest PROVE Right
  <2>1. SUFFICES ASSUME stage' # stage PROVE Right
    BY <1>1 DEF HandlingRequest
  <2>2. Loop
    <3>1. \A d \in Devices : ~Agent(d)
      BY <2>1 DEF Agent, AskRegister, AskKeepalive, AskLogout, AskOther, Ask, GiveUp, ComeBack, sip
    <3>2. ~Answered /\ ~Lose /\ ~Others
      BY <2>1 DEF Answered, ReceiveAnswer, Lose, Others, sip
    <3> QED
      BY <1>1, <3>1, <3>2 DEF SipNext
  <2> QED
    BY <1>1, <2>2, LoopAnswers, LoopGoesOn
<1>2. SipInv /\ [SipNext]_sipVars => [HandlingRequest => Right]_sipVars
  BY <1>1
<1> QED
  BY <1>2, SipInvariant, PTL DEF SipSpec, RequestsAnswered

(* The SIP layer is one of the clients DeviceInfos.tla allows. *)
THEOREM RegistryCallsHold == SipSpec => RegistryCalls
<1>1. SipInit => Init
  BY DEF SipInit
<1>2. SipInv /\ [SipNext]_sipVars => [Next]_vars
  BY StepCallsRegistry DEF SipInv
<1> QED
  BY <1>1, <1>2, SipInvariant, PTL DEF SipSpec, Spec, RegistryCalls

(* So the registry that the event loop fills never holds a device twice,    *)
(* never times one out early and keeps no silent one too long, under SIP    *)
(* traffic of any kind.                                                     *)
THEOREM RegistrySafeUnderSip ==
    SipSpec => []UniqueIds /\ []LeaseClock /\ NoEarlyTimeout /\ []NoStaleDevice
BY RegistryCallsHold, UniqueIdsHolds, LeaseClockHolds, NoEarlyTimeoutHolds,
   NoStaleDeviceHolds, PTL DEF RegistryCalls

-----------------------------------------------------------------------------
(* Requests: the invariant.                                                 *)

(* A REGISTER on its way, or in hand, or answered, names the address the    *)
(* device is at: it asks again before it uses another one.                  *)
Registers(e) == e # NoEvent /\ e.kind = "REGISTER" /\ e.expires # 0

HomeAsked == \A d \in Devices : Registers(asked[d]) => asked[d].addr = home[d]

(* The client has accepted the address of the device, whether the device    *)
(* knows or its 200 is still on the way.                                    *)
Accepted(d) == \/ phase[d] = "up"
               \/ \E a \in answers : a.dev = d /\ a.code = 200 /\ Registers(asked[d])

(* Then it has the address, in the registry if the device is there, or in   *)
(* hand if the call that enters it is still to come.                        *)
Entered(d) == stage = "append" /\ hand.dev = d

AddressHeld ==
    \A d \in Devices : Accepted(d) =>
        /\ Entered(d) => hand.addr = home[d]
        /\ ~Entered(d) => \A i \in DOMAIN devs : devs[i].id = d => devs[i].addr = home[d]

CallInv == SipInv /\ CallTypeOK /\ HomeAsked /\ AddressHeld

-----------------------------------------------------------------------------
(* The registry and addresses. *)

(* No device gets another address, and none is new. *)
AddressesKept ==
    \A i \in DOMAIN devs' :
        \E j \in DOMAIN devs : devs'[i].id = devs[j].id /\ devs'[i].addr = devs[j].addr

(* Every operation of the registry but appendDevice leaves the addresses    *)
(* alone.                                                                   *)
LEMMA RegistryKeepsAddresses ==
    ASSUME TypeOK, UniqueIds,
           \/ \E d \in Devices : \/ KeepAlive(d) \/ RemoveItem(d)
                                 \/ \E list \in Catalogs : AppendDeviceChannels(d, list)
           \/ Sweep \/ Second \/ DeliverSignal \/ UNCHANGED vars
    PROVE  AddressesKept
<1>1. ASSUME NEW d \in Devices, KeepAlive(d) PROVE AddressesKept
  <2>1. PICK i \in DOMAIN devs :
            devs' = [devs EXCEPT ![i] = [@ EXCEPT !.expires = devs[i].maxExpires]]
    BY <1>1 DEF KeepAlive
  <2> QED
    BY <2>1, Elements DEF AddressesKept, Device, TypeOK
<1>2. ASSUME NEW d \in Devices, NEW list \in Catalogs, AppendDeviceChannels(d, list)
      PROVE  AddressesKept
  <2>1. PICK i \in DOMAIN devs :
            devs' = [devs EXCEPT ![i] =
                        [@ EXCEPT !.channels = devs[i].channels \cup ToSet(list)]]
    BY <1>2 DEF AppendDeviceChannels
  <2> QED
    BY <2>1, Elements DEF AddressesKept, Device, TypeOK
<1>3. CASE SweepKeep
  <2>1. devs' = [devs EXCEPT ![it] = [@ EXCEPT !.expires = devs[it].expires - CheckInterval]]
    BY <1>3 DEF SweepKeep
  <2> QED
    BY <2>1, Elements DEF AddressesKept, Device, TypeOK
<1>4. ASSUME NEW i \in DOMAIN devs, devs' = RemoveAt(devs, i) PROVE AddressesKept
  <2>1. /\ DOMAIN devs' = 1..(Len(devs) - 1)
        /\ \A j \in 1..(Len(devs) - 1) : devs'[j] = IF j < i THEN devs[j] ELSE devs[j + 1]
    BY <1>4, RemovalProperties
  <2>2. Len(devs) \in Nat /\ DOMAIN devs = 1..Len(devs)
    BY Elements
  <2> QED
    BY <2>1, <2>2 DEF AddressesKept
<1>5. CASE (\E d \in Devices : RemoveItem(d)) \/ SweepErase
  BY <1>4, <1>5 DEF RemoveItem, SweepErase
<1>6. CASE SweepStart \/ SweepEnd \/ Second \/ DeliverSignal \/ UNCHANGED vars
  BY <1>6 DEF SweepStart, SweepEnd, Second, DeliverSignal, vars, AddressesKept
<1> QED
  BY <1>1, <1>2, <1>3, <1>5, <1>6 DEF Sweep

(* appendDevice notes the address of its device and no other. *)
LEMMA AppendNotesAddress ==
    ASSUME TypeOK, UniqueIds, NEW d \in Devices, NEW addr \in Addrs, NEW lease \in Leases,
           AppendDevice(d, addr, lease)
    PROVE  \A i \in DOMAIN devs' :
              \/ devs'[i].id = d /\ devs'[i].addr = addr
              \/ \E j \in DOMAIN devs : /\ devs[j].id # d /\ devs'[i].id = devs[j].id
                                        /\ devs'[i].addr = devs[j].addr
<1>1. CASE RefreshDevice(d, addr, lease)
  <2>1. PICK i \in DOMAIN devs :
            /\ FirstAt(d, i)
            /\ devs' = [devs EXCEPT ![i] = [@ EXCEPT !.addr = addr,
                                                     !.maxExpires = lease,
                                                     !.expires = lease]]
    BY <1>1 DEF RefreshDevice
  <2>2. devs[i].id = d /\ \A j \in DOMAIN devs : j # i => devs[j].id # d
    BY <2>1 DEF FirstAt, UniqueIds
  <2> QED
    BY <2>1, <2>2, Elements DEF Device, TypeOK
<1>2. CASE AddDevice(d, addr, lease)
  <2> DEFINE new == NewDevice(d, addr, lease)
  <2>1. new \in Device /\ new.id = d /\ new.addr = addr /\ devs' = Append(devs, new)
    BY <1>2, TimeAssumption DEF AddDevice, NewDevice, Device
  <2> HIDE DEF new
  <2>2. /\ DOMAIN devs' = 1..(Len(devs) + 1)
        /\ \A j \in 1..Len(devs) : devs'[j] = devs[j]
        /\ devs'[Len(devs) + 1] = new
    BY <2>1, Elements, AppendProperties DEF TypeOK
  <2>3. \A j \in 1..Len(devs) : devs[j].id # d
    BY <1>2, Elements DEF AddDevice, Registered
  <2> QED
    BY <2>1, <2>2, <2>3, Elements
<1> QED
  BY <1>1, <1>2 DEF AppendDevice

-----------------------------------------------------------------------------
(* Where the address of a device is held. *)

(* What leaves the addresses, the loop and the device alone keeps it. *)
LEMMA HeldAlike ==
    ASSUME AddressHeld, AddressesKept,
           NEW S, \A d \in S : /\ Accepted(d)' => Accepted(d)
                               /\ home'[d] = home[d]
                               /\ Entered(d)' <=> Entered(d)
                               /\ Entered(d) => hand'.addr = hand.addr,
           \A d \in Devices \ S : ~Accepted(d)'
    PROVE  AddressHeld'
<1> SUFFICES ASSUME NEW d \in Devices, Accepted(d)'
             PROVE  /\ Entered(d)' => hand'.addr = home'[d]
                    /\ ~Entered(d)' =>
                          \A i \in DOMAIN devs' : devs'[i].id = d => devs'[i].addr = home'[d]
  BY DEF AddressHeld
<1>1. d \in S
  OBVIOUS
<1>2. /\ Accepted(d) /\ home'[d] = home[d] /\ (Entered(d)' <=> Entered(d))
      /\ Entered(d) => hand'.addr = hand.addr
  BY <1>1
<1> QED
  BY <1>2 DEF AddressHeld, AddressesKept

(* The event loop: a 200 for a REGISTER leaves with its address in hand,    *)
(* and the call of appendDevice puts it into the registry.                  *)
LEMMA LoopKeepsAddresses ==
    ASSUME CallInv, Loop, UNCHANGED calls
    PROVE  HomeAsked' /\ AddressHeld'
<1> USE DEF CallInv
<1>0. /\ SipTypeOK /\ OnePlace /\ Answering /\ Entering /\ TypeOK /\ UniqueIds
      /\ stage # "wait" => hand # NoEvent /\ hand \in Events /\ hand.dev \in Devices
  BY DEF SipInv, IInv, SipTypeOK, Events
<1>1. phase' = phase /\ asked' = asked /\ home' = home
  BY DEF calls, agents, Loop, TakeEvent, HandleKeepalive, HandleCatalog, Answer200OK,
         HandleOtherMessage, HandleOtherRequest, IgnoreRegister, Challenge, RefuseRegister,
         AcceptRegister, EnterDevice, AcceptLogout, RemoveDevice
<1>2. HomeAsked'
  BY <1>1 DEF HomeAsked, Registers
<1>3. CASE AcceptRegister
  <2>1. /\ Registers(hand) /\ InHand(hand.dev) /\ hand' = hand /\ stage' = "append"
        /\ stage = "handle" /\ UNCHANGED vars /\ hand.dev \in Devices
        /\ answers' = answers \cup {[dev |-> hand.dev, code |-> 200]}
    BY <1>0, <1>3 DEF AcceptRegister, Registering, Handling, GoOn, Answer, Registers, InHand,
                      Requests
  <2>2. hand.addr = home[hand.dev]
    BY <1>0, <2>1 DEF OnePlace, HomeAsked
  <2>3. \A d \in Devices : /\ Entered(d)' <=> d = hand.dev
                           /\ ~Entered(d)
                           /\ Accepted(d)' => Accepted(d) \/ d = hand.dev
    BY <1>1, <2>1 DEF Entered, Accepted, Registers
  <2>4. devs' = devs
    BY <2>1 DEF vars
  <2>5. AddressHeld'
    BY <1>1, <2>1, <2>2, <2>3, <2>4 DEF AddressHeld
  <2> QED
    BY <1>2, <2>5
<1>4. CASE EnterDevice
  <2>1. /\ stage = "append" /\ stage' = "wait" /\ answers' = answers
        /\ AppendDevice(hand.dev, hand.addr, hand.expires)
    BY <1>4 DEF EnterDevice, Done, NoAnswer
  <2>2. \A i \in DOMAIN devs' :
              \/ devs'[i].id = hand.dev /\ devs'[i].addr = hand.addr
              \/ \E j \in DOMAIN devs : /\ devs[j].id # hand.dev /\ devs'[i].id = devs[j].id
                                        /\ devs'[i].addr = devs[j].addr
    BY <1>0, <2>1, AppendNotesAddress DEF Entering
  <2>3. \A d \in Devices : /\ Entered(d) <=> d = hand.dev
                           /\ ~Entered(d)'
                           /\ Accepted(d)' <=> Accepted(d)
    BY <1>1, <2>1 DEF Entered, Accepted, Registers
  <2>4. AddressHeld'
    <3> SUFFICES ASSUME NEW d \in Devices, Accepted(d), NEW i \in DOMAIN devs', devs'[i].id = d
                 PROVE  devs'[i].addr = home[d]
      BY <1>1, <2>3 DEF AddressHeld
    <3>1. CASE d = hand.dev
      BY <2>2, <2>3, <3>1 DEF AddressHeld
    <3>2. CASE d # hand.dev
      BY <2>2, <2>3, <3>2 DEF AddressHeld
    <3> QED
      BY <3>1, <3>2
  <2> QED
    BY <1>2, <2>4
<1>5. CASE ~AcceptRegister /\ ~EnterDevice
  <2>1. stage # "append" /\ stage' # "append"
    BY <1>5 DEF Loop, TakeEvent, HandleKeepalive, HandleCatalog, Answer200OK, HandleOtherMessage,
                HandleOtherRequest, IgnoreRegister, Challenge, RefuseRegister, AcceptLogout,
                RemoveDevice, Registering, Handling, Done, GoOn
  <2>2. AddressesKept
    <3>1. UNCHANGED vars => AddressesKept
      BY DEF vars, AddressesKept
    <3>2. CASE HandleKeepalive \/ HandleCatalog \/ RemoveDevice
      <4>1. hand.dev \in Devices /\ hand.list \in Catalogs
        BY <1>0, <3>2 DEF HandleKeepalive, HandleCatalog, RemoveDevice, Handling, Events
      <4> QED
        BY <1>0, <3>1, <3>2, <4>1, RegistryKeepsAddresses
           DEF HandleKeepalive, HandleCatalog, RemoveDevice, Unknown
    <3>3. CASE ~HandleKeepalive /\ ~HandleCatalog /\ ~RemoveDevice
      BY <1>5, <3>1, <3>3 DEF Loop, TakeEvent, Answer200OK, HandleOtherMessage,
                HandleOtherRequest, IgnoreRegister, Challenge, RefuseRegister, AcceptLogout
    <3> QED
      BY <3>2, <3>3
  <2>3. ASSUME NEW d \in Devices, Accepted(d)'
        PROVE  Accepted(d)
    <3>1. CASE Answer200OK \/ HandleOtherRequest \/ AcceptLogout
      <4>1. /\ InHand(hand.dev) /\ ~Registers(hand) /\ hand.dev \in Devices
            /\ answers' = answers \cup {[dev |-> hand.dev, code |-> 200]}
        BY <1>0, <3>1 DEF Answer200OK, HandleOtherRequest, AcceptLogout, Handling, Answer,
                          Answering, Registers, InHand, Requests
      <4>2. ~Registers(asked[hand.dev])
        BY <1>0, <4>1 DEF OnePlace
      <4> QED
        BY <1>1, <2>3, <4>1, <4>2 DEF Accepted
    <3>2. CASE ~Answer200OK /\ ~HandleOtherRequest /\ ~AcceptLogout
      <4>1. \A a \in answers' : a.code = 200 => a \in answers
        BY <1>5, <3>2 DEF Loop, TakeEvent, HandleKeepalive, HandleCatalog, HandleOtherMessage,
                IgnoreRegister, Challenge, RefuseRegister, RemoveDevice, Answer, NoAnswer
      <4> QED
        BY <1>1, <2>3, <4>1 DEF Accepted, Registers
    <3> QED
      BY <3>1, <3>2
  <2>4. \A d \in Devices : ~Entered(d) /\ ~Entered(d)'
    BY <2>1 DEF Entered
  <2> QED
    BY <1>1, <1>2, <2>2, <2>3, <2>4, HeldAlike
<1> QED
  BY <1>3, <1>4, <1>5

(* A device asks to be registered at another address only when the client   *)
(* holds none of it that it believes in.                                    *)
LEMMA AskKeepsAddresses ==
    ASSUME CallInv, NEW e \in Events, Ask(e),
           \A d \in Devices : d # e.dev => home'[d] = home[d],
           Registers(e) => phase[e.dev] # "up" /\ home'[e.dev] = e.addr,
           ~Registers(e) => home' = home
    PROVE  HomeAsked' /\ AddressHeld'
<1> USE DEF CallInv
<1>0. /\ e.dev \in Devices /\ asked[e.dev] = NoEvent /\ OnePlace
      /\ devs' = devs /\ hand' = hand /\ stage' = stage /\ answers' = answers /\ phase' = phase
      /\ \A d \in Devices : asked'[d] = IF d = e.dev THEN e ELSE asked[d]
  BY DEF SipInv, Ask, vars, SipTypeOK, Events
<1>1. HomeAsked'
  BY <1>0 DEF HomeAsked, Registers
<1>2. ~Back(e.dev)
  BY <1>0 DEF OnePlace
<1>3. \A d \in Devices : Accepted(d)' <=> Accepted(d)
  BY <1>0, <1>2 DEF Accepted, Registers, Back
<1>4. \A d \in Devices : Entered(d)' = Entered(d)
  BY <1>0 DEF Entered
<1>5. Registers(e) => ~Accepted(e.dev)
  BY <1>2 DEF Accepted, Back
<1>6. AddressHeld'
  BY <1>0, <1>3, <1>4, <1>5 DEF AddressHeld
<1> QED
  BY <1>1, <1>6

(* An answer tells the device what the client has accepted. *)
LEMMA ReceiveAnswerKeepsAddresses ==
    ASSUME CallInv, NEW a \in answers, ReceiveAnswer(a), UNCHANGED calls
    PROVE  HomeAsked' /\ AddressHeld'
<1> USE DEF CallInv
<1>0. /\ a.dev \in Devices /\ a.code \in {200, 400, 401} /\ OnePlace
      /\ devs' = devs /\ hand' = hand /\ stage' = stage /\ home' = home
      /\ answers' = answers \ {a}
      /\ \A d \in Devices : asked'[d] = IF d = a.dev THEN NoEvent ELSE asked[d]
      /\ \A d \in Devices : d # a.dev => phase'[d] = phase[d]
      /\ phase'[a.dev] = PhaseAfter(phase[a.dev], asked[a.dev], a.code)
      /\ asked[a.dev] # NoEvent
  BY DEF SipInv, SipTypeOK, ReceiveAnswer, vars, calls, OnePlace, Back
<1>1. HomeAsked'
  BY <1>0 DEF HomeAsked, Registers
<1>2. phase'[a.dev] = "up" => Accepted(a.dev)
  BY <1>0 DEF PhaseAfter, Accepted, Registers
<1>3. \A d \in Devices : Accepted(d)' => Accepted(d)
  BY <1>0, <1>2 DEF Accepted, Registers
<1>4. \A d \in Devices : Entered(d)' <=> Entered(d)
  BY <1>0 DEF Entered
<1>5. AddressHeld'
  BY <1>0, <1>3, <1>4 DEF AddressHeld
<1> QED
  BY <1>1, <1>5

(* Every other step leaves the addresses alone, or the device forgets its   *)
(* registration.                                                            *)
LEMMA OthersKeepAddresses ==
    ASSUME CallInv, AddressesKept, home' = home, answers' = answers,
           \A d \in Devices : asked'[d] \in {asked[d], NoEvent},
           \A d \in Devices : phase'[d] = "up" => phase[d] = "up",
           hand' = hand \/ ("append" \notin {stage, stage'}),
           stage = "append" <=> stage' = "append"
    PROVE  HomeAsked' /\ AddressHeld'
<1> USE DEF CallInv
<1>1. HomeAsked'
  BY DEF HomeAsked, Registers
<1>2. \A d \in Devices : Accepted(d)' => Accepted(d)
  BY DEF Accepted, Registers
<1>3. \A d \in Devices : /\ Entered(d)' <=> Entered(d)
                         /\ Entered(d) => hand' = hand
  BY DEF Entered
<1> QED
  BY <1>1, <1>2, <1>3, HeldAlike

-----------------------------------------------------------------------------
(* The steps the calls add to the event loop and its queue. *)

(* The loop drops an event that asks for no answer, or goes on with it into *)
(* the next case.                                                           *)
LEMMA DropKeepsSip ==
    ASSUME SipInv, stage # "wait", NoAnswer, Done \/ GoOn("ack"), UNCHANGED <<vars, agents>>
    PROVE  SipInv'
<1> USE DEF SipInv
<1>0. IInv'
  BY InvStep
<1>1. SipTypeOK'
  BY <1>0, EventAssumption DEF IInv, SipTypeOK, Done, GoOn, NoAnswer, agents
<1>2. Entering' /\ Answering'
  BY DEF Entering, Answering, Done, GoOn
<1>3. OnePlace' /\ OneAnswer'
  BY NoAnswerOnePlace DEF Done, GoOn, agents
<1> QED
  BY <1>0, <1>1, <1>2, <1>3

(* The answer of a device to a request of the client is one more event that *)
(* waits, and no request.                                                   *)
LEMMA RespondKeepsSip ==
    ASSUME SipInv, NEW d \in Devices,
           NEW kind \in {"callAnswered", "messageAnswered", "otherResponse"}, Respond(d, kind),
           UNCHANGED <<vars, hand, stage, answers, replied, agents>>
    PROVE  SipInv'
<1> USE DEF SipInv
<1>0. IInv' /\ inbox \in Seq(Events)
  BY InvStep DEF SipTypeOK
<1>1. Event(d, kind) \in Events /\ Event(d, kind).kind \notin Requests
  BY EventTypes DEF EventKinds, Event, Requests
<1>2. SipTypeOK'
  <2>1. inbox' \in Seq(Events)
    BY <1>0, <1>1, AppendProperties DEF Respond
  <2> QED
    BY <1>0, <2>1 DEF IInv, SipTypeOK, agents
<1>3. PICK n \in Nat : /\ DOMAIN inbox = 1..n /\ DOMAIN inbox' = 1..(n + 1)
                       /\ inbox'[n + 1] = Event(d, kind)
                       /\ \A i \in 1..n : inbox'[i] = inbox[i]
  BY <1>0, <1>1, LenProperties, ElementOfSeq, AppendProperties DEF Respond
<1>4. \A x \in Devices, i \in DOMAIN inbox' :
         RequestAt(x, i)' <=> i \in DOMAIN inbox /\ RequestAt(x, i)
  BY <1>1, <1>3 DEF RequestAt
<1>5. /\ hand' = hand /\ stage' = stage /\ answers' = answers /\ replied' = replied
      /\ asked' = asked
  BY DEF agents
<1>6. \A x \in Devices : /\ Waits(x)' <=> Waits(x)
                         /\ InHand(x)' <=> InHand(x)
                         /\ Back(x)' <=> Back(x)
  BY <1>3, <1>4, <1>5 DEF Waits, InHand, Back
<1>7. OnePlace'
  BY <1>3, <1>4, <1>5, <1>6 DEF OnePlace
<1> QED
  BY <1>0, <1>2, <1>5, <1>7 DEF Entering, Answering, OneAnswer

(* A device that starts anew has no request open. *)
LEMMA StartAnewKeepsSip ==
    ASSUME SipInv, NEW d \in Devices, StartAnew(d)
    PROVE  SipInv'
<1> USE DEF SipInv
<1>0. /\ IInv' /\ UNCHANGED <<inbox, hand, stage, answers, replied, asked, lost>>
      /\ phase' = [phase EXCEPT ![d] = "new"]
  BY InvStep DEF StartAnew, sip
<1>1. SipTypeOK'
  BY <1>0 DEF IInv, SipTypeOK
<1>2. OnePlace' /\ OneAnswer'
  BY <1>0 DEF OnePlace, OneAnswer, Waits, InHand, Back, RequestAt
<1> QED
  BY <1>0, <1>1, <1>2 DEF Entering, Answering

(* What arrives at a device, or misses it, is answered. *)
LEMMA ArriveResponds ==
    ASSUME CallInv, Arrive
    PROVE  \E d \in Devices, kind \in {"callAnswered", "messageAnswered", "otherResponse"} :
              Respond(d, kind)
<1>1. PICK r \in outbox : TakeQuery(r) \/ TakeInvite(r) \/ Fail(r)
  BY DEF Arrive
<1>2. r.dev \in Devices
  BY DEF CallInv, CallTypeOK, OutRequest
<1> QED
  BY <1>1, <1>2 DEF TakeQuery, TakeInvite, Fail

(* So every step keeps what is proved of registration and messages. *)
LEMMA CallStepKeepsSip ==
    ASSUME CallInv, [CallNext]_callVars
    PROVE  SipInv'
<1> USE DEF CallInv
<1>1. CASE [SipNext]_sipVars
  BY <1>1, SipInvStep
<1>2. ASSUME NEW d \in Devices, OnQuery(d) \/ HangUp(d) \/ SendCatalog(d) \/ CallAgent(d)
      PROVE  SipInv'
  <2>1. CASE OnQuery(d)
    BY <1>1, <2>1 DEF OnQuery
  <2>2. CASE HangUp(d)
    BY <2>2, RespondKeepsSip DEF HangUp
  <2>3. CASE SendCatalog(d)
    <3>1. AskOther(d)
      BY <2>3 DEF SendCatalog, AskOther
    <3> QED
      BY <1>1, <3>1 DEF SipNext, Agent
  <2>4. CASE CallAgent(d)
    <3>1. Agent(d) \/ StartAnew(d)
      BY <2>4 DEF CallAgent, Agent
    <3> QED
      BY <1>1, <3>1, StartAnewKeepsSip DEF SipNext
  <2> QED
    BY <1>2, <2>1, <2>2, <2>3, <2>4
<1>3. CASE \/ \E c \in Channels : OnPlay(c)
           \/ SendRequest
           \/ (Answered \/ Others) /\ UNCHANGED calls
           \/ UNCHANGED callVars
  BY <1>1, <1>3 DEF OnPlay, SendRequest, SipNext, callVars
<1>4. CASE CallLoop
  <2>1. CASE Loop
    BY <1>1, <2>1 DEF SipNext
  <2>2. CASE HandleCallAnswered \/ AckAgain \/ HandleResponse
    BY <2>2, DropKeepsSip DEF HandleCallAnswered, AckAgain, HandleResponse, Handling
  <2> QED
    BY <1>4, <2>1, <2>2 DEF CallLoop
<1>5. CASE Arrive
  BY <1>5, ArriveResponds, RespondKeepsSip DEF Arrive
<1> QED
  BY <1>2, <1>3, <1>4, <1>5 DEF CallNext

(* The types of what the calls add. *)
CallTypes == /\ asking \in OutRequest \cup {NoEvent}
             /\ outbox \subseteq OutRequest
             /\ home \in [Devices -> Addrs \cup {NoAddr}]
             /\ owed \subseteq Devices
             /\ dialog \in [Devices -> {"none", "invited", "answered", "acked"}]

(* A request of the client copies the id and the address of a device. *)
LEMMA LookUpTypes ==
    ASSUME TypeOK, NEW kind \in OutKinds, NEW i \in DOMAIN devs, LookUp(kind, i)
    PROVE  asking' \in OutRequest /\ devs[i].id \in Devices
BY Elements DEF LookUp, OutRequest

(* Steps of the UI thread, the devices and the network keep the types. *)
LEMMA CallStepKeepsTypes ==
    ASSUME CallInv, [CallNext]_callVars
    PROVE  CallTypes'
<1> USE DEF CallInv
<1>0. /\ CallTypes /\ TypeOK
      /\ hand # NoEvent => hand.dev \in Devices
      /\ stage # "wait" => hand # NoEvent
  BY DEF CallTypeOK, CallTypes, SipTypeOK, Events
<1>1. CASE UNCHANGED calls
  BY <1>0, <1>1 DEF calls, CallTypes
<1>2. ASSUME NEW d \in Devices, OnQuery(d) \/ HangUp(d) \/ SendCatalog(d) \/ CallAgent(d)
      PROVE  CallTypes'
  <2>1. CASE OnQuery(d)
    <3>1. asking' \in OutRequest
      BY <1>0, <2>1, LookUpTypes DEF OnQuery, OutKinds
    <3> QED
      BY <1>0, <2>1, <3>1 DEF OnQuery, CallTypes
  <2>2. CASE HangUp(d)
    BY <1>0, <2>2 DEF HangUp, Call, CallTypes
  <2>3. CASE SendCatalog(d)
    BY <1>0, <2>3 DEF SendCatalog, CallTypes
  <2>4. CASE CallAgent(d)
    <3>1. home' \in [Devices -> Addrs \cup {NoAddr}]
      <4>1. CASE AskRegister(d)
        <5>1. PICK lease \in Leases, addr \in Addrs :
                  Ask(Register(d, phase[d] = "challenged", lease, addr))
          BY <4>1 DEF AskRegister
        <5>2. asked'[d].addr = addr
          BY <5>1 DEF Ask, Register, Event, SipTypeOK, CallTypeOK
        <5>3. home' = [home EXCEPT ![d] = asked'[d].addr] \/ home' = home
          BY <2>4 DEF CallAgent
        <5> QED
          BY <1>0, <5>2, <5>3 DEF CallTypes
      <4>2. CASE ~AskRegister(d)
        BY <1>0, <2>4, <4>2 DEF CallAgent, CallTypes
      <4> QED
        BY <4>1, <4>2
    <3>2. owed' \subseteq owed /\ UNCHANGED <<asking, outbox, dialog>>
      BY <2>4 DEF CallAgent
    <3> QED
      BY <1>0, <3>1, <3>2 DEF CallTypes
  <2> QED
    BY <1>2, <2>1, <2>2, <2>3, <2>4
<1>3. ASSUME NEW c \in Channels, OnPlay(c)
      PROVE  CallTypes'
  <2>1. PICK i \in DOMAIN devs : /\ LookUp("invite", i)
                                 /\ dialog' = [dialog EXCEPT ![devs[i].id] = "invited"]
    BY <1>3 DEF OnPlay
  <2>2. asking' \in OutRequest /\ devs[i].id \in Devices
    BY <1>0, <2>1, LookUpTypes DEF OutKinds
  <2> QED
    BY <1>0, <1>3, <2>1, <2>2 DEF OnPlay, CallTypes
<1>4. CASE SendRequest
  BY <1>0, <1>4 DEF SendRequest, CallTypes
<1>5. CASE HandleCallAnswered \/ AckAgain
  <2>1. hand.dev \in Devices /\ SendAck(hand.dev) /\ UNCHANGED <<asking, outbox, home, owed>>
    BY <1>0, <1>5 DEF HandleCallAnswered, AckAgain, Handling
  <2> QED
    BY <1>0, <2>1 DEF SendAck, Call, CallTypes
<1>6. CASE Arrive
  <2>1. PICK r \in outbox : TakeQuery(r) \/ TakeInvite(r) \/ Fail(r)
    BY <1>6 DEF Arrive
  <2>2. r.dev \in Devices /\ outbox' \subseteq outbox /\ UNCHANGED <<asking, home>>
    BY <1>0, <1>6, <2>1 DEF Arrive, CallTypes, OutRequest
  <2> QED
    BY <1>0, <2>1, <2>2 DEF TakeQuery, TakeInvite, Fail, Call, CallTypes
<1> QED
  BY <1>1, <1>2, <1>3, <1>4, <1>5, <1>6 DEF CallNext, CallLoop, HandleResponse, callVars, calls

-----------------------------------------------------------------------------
(* The invariant and the theorems. *)

(* Every step keeps the addresses where they belong. *)
LEMMA CallStepKeepsAddresses ==
    ASSUME CallInv, [CallNext]_callVars
    PROVE  HomeAsked' /\ AddressHeld'
<1> USE DEF CallInv
<1>0. TypeOK /\ UniqueIds /\ CallTypeOK /\ SipTypeOK
  BY DEF SipInv, IInv
<1>u. UNCHANGED vars => AddressesKept
  BY DEF vars, AddressesKept
<1>1. ASSUME NEW d \in Devices, OnQuery(d) \/ HangUp(d) \/ SendCatalog(d) \/ CallAgent(d)
      PROVE  HomeAsked' /\ AddressHeld'
  <2>1. CASE OnQuery(d) \/ HangUp(d)
    BY <1>u, <2>1, OthersKeepAddresses DEF OnQuery, HangUp, sipVars, sip, agents
  <2>2. CASE SendCatalog(d)
    <3>1. PICK list \in Catalogs : Ask(Catalog(d, list))
      BY <2>2 DEF SendCatalog
    <3>2. Catalog(d, list) \in Events /\ ~Registers(Catalog(d, list))
      BY EventTypes DEF Catalog, Event, Registers
    <3>3. home' = home
      BY <2>2 DEF SendCatalog
    <3> QED
      BY <3>1, <3>2, <3>3, AskKeepsAddresses
  <2>3. CASE AskRegister(d) /\ home' = [home EXCEPT ![d] = asked'[d].addr]
    <3>1. PICK lease \in Leases, addr \in Addrs :
              Ask(Register(d, phase[d] = "challenged", lease, addr))
      BY <2>3 DEF AskRegister
    <3> DEFINE e == Register(d, phase[d] = "challenged", lease, addr)
    <3>2. e \in Events /\ e.dev = d /\ e.addr = addr /\ Registers(e)
      <4>1. e \in Events
        BY EventTypes
      <4>2. lease # 0 /\ e # NoEvent
        BY <4>1, TimeAssumption, EventAssumption
      <4> QED
        BY <4>1, <4>2 DEF Register, Event, Registers
    <3> HIDE DEF e
    <3>3. asked'[d] = e
      BY <3>1, <3>2, <1>0 DEF Ask, SipTypeOK, e
    <3>4. phase[d] # "up" /\ home'[d] = e.addr /\ \A x \in Devices : x # d => home'[x] = home[x]
      BY <2>3, <3>3, <1>0 DEF AskRegister, CallTypeOK
    <3>5. Ask(e)
      BY <3>1 DEF e
    <3> QED
      BY <3>2, <3>4, <3>5, AskKeepsAddresses
  <2>4. CASE (AskKeepalive(d) \/ AskLogout(d)) /\ home' = home
    <3>1. PICK e \in Events : Ask(e) /\ ~Registers(e)
      <4>1. /\ Event(d, "Keepalive") \in Events
            /\ Register(d, phase[d] = "leaving", 0, NoAddr) \in Events
        BY EventTypes DEF EventKinds
      <4>2. /\ ~Registers(Event(d, "Keepalive"))
            /\ ~Registers(Register(d, phase[d] = "leaving", 0, NoAddr))
        BY DEF Registers, Event, Register
      <4> QED
        BY <2>4, <4>1, <4>2 DEF AskKeepalive, AskLogout
    <3> QED
      BY <2>4, <3>1, AskKeepsAddresses
  <2>5. CASE (GiveUp(d) \/ ComeBack(d) \/ StartAnew(d)) /\ home' = home
    <3>1. /\ UNCHANGED <<devs, hand, stage, answers>>
          /\ \A x \in Devices : asked'[x] \in {asked[x], NoEvent}
          /\ \A x \in Devices : phase'[x] = "up" => phase[x] = "up"
      BY <1>0, <2>5 DEF GiveUp, ComeBack, StartAnew, sip, vars, SipTypeOK
    <3>2. AddressesKept
      BY <3>1 DEF AddressesKept
    <3> QED
      BY <2>5, <3>1, <3>2, OthersKeepAddresses
  <2> QED
    BY <1>1, <2>1, <2>2, <2>3, <2>4, <2>5 DEF CallAgent
<1>2. CASE \/ \E c \in Channels : OnPlay(c)
           \/ SendRequest \/ Arrive \/ UNCHANGED callVars
  <2>1. UNCHANGED <<vars, home, answers, asked, phase, hand, stage>>
    BY <1>2 DEF OnPlay, SendRequest, Arrive, callVars, calls, sipVars, sip, agents
  <2> QED
    BY <1>u, <2>1, OthersKeepAddresses
<1>3. CASE HandleCallAnswered \/ AckAgain \/ HandleResponse
  <2>1. /\ UNCHANGED <<vars, home, answers, asked, phase>>
        /\ stage \in {"handle", "ack"} /\ stage' \in {"ack", "wait"}
    BY <1>3 DEF HandleCallAnswered, AckAgain, HandleResponse, Handling, Done, GoOn, NoAnswer,
                agents, calls
  <2> QED
    BY <1>u, <2>1, OthersKeepAddresses
<1>4. CASE Loop /\ UNCHANGED calls
  BY <1>4, LoopKeepsAddresses
<1>5. CASE Answered /\ UNCHANGED calls
  BY <1>5, ReceiveAnswerKeepsAddresses DEF Answered
<1>6. CASE Others /\ UNCHANGED calls
  <2>1. AddressesKept
    BY <1>0, <1>6, RegistryKeepsAddresses DEF Others
  <2> QED
    BY <1>6, <2>1, OthersKeepAddresses DEF Others, sip, agents, calls
<1> QED
  BY <1>1, <1>2, <1>3, <1>4, <1>5, <1>6 DEF CallNext, CallLoop

(* Before the first request no device is at any address. *)
LEMMA CallInvInit == CallInit => CallInv
<1> SUFFICES ASSUME CallInit PROVE CallInv
  OBVIOUS
<1>1. SipInv
  BY SipInvInit DEF CallInit
<1>2. CallTypeOK
  BY <1>1 DEF SipInv, CallInit, CallTypeOK
<1>3. HomeAsked /\ AddressHeld
  BY DEF CallInit, SipInit, HomeAsked, AddressHeld, Accepted, Registers
<1> QED
  BY <1>1, <1>2, <1>3 DEF CallInv

(* Every step preserves the invariant. *)
LEMMA CallInvStep == CallInv /\ [CallNext]_callVars => CallInv'
<1> SUFFICES ASSUME CallInv, [CallNext]_callVars PROVE CallInv'
  OBVIOUS
<1>1. SipInv' /\ CallTypes'
  BY CallStepKeepsSip, CallStepKeepsTypes
<1>2. CallTypeOK'
  BY <1>1 DEF CallTypeOK, CallTypes, SipInv
<1> QED
  BY <1>1, <1>2, CallStepKeepsAddresses DEF CallInv

(* The invariant holds in every state of every behaviour. *)
THEOREM CallInvariant == CallSpec => []CallInv
BY CallInvInit, CallInvStep, PTL DEF CallSpec

(* Requests under way name known devices and addresses, and a dialog is in  *)
(* one of its four states.                                                  *)
THEOREM CallTypesHold == CallSpec => []CallTypeOK
<1>1. CallInv => CallTypeOK
  BY DEF CallInv
<1> QED
  BY <1>1, CallInvariant, PTL

(* The address of a device in the registry is the one it registered from    *)
(* last, whenever the device believes itself registered and the call that   *)
(* notes the address is not still to come.  A request may still be sent to  *)
(* another: the UI thread sends it to a copy it made before.                *)
THEOREM AddressKnownHolds == CallSpec => []AddressKnown
<1>1. CallInv => AddressKnown
  <2> SUFFICES ASSUME CallInv, NEW i \in DOMAIN devs, phase[devs[i].id] = "up",
                      ~Entered(devs[i].id)
               PROVE  devs[i].addr = home[devs[i].id]
    BY DEF AddressKnown, Entered
  <2>1. devs[i].id \in Devices
    BY Elements DEF CallInv, SipInv, IInv
  <2> QED
    BY <2>1 DEF CallInv, AddressHeld, Accepted
<1> QED
  BY <1>1, CallInvariant, PTL

(* The requests of the client do not disturb those of the devices: none is  *)
(* answered twice here either.                                              *)
THEOREM OneAnswerInCalls == CallSpec => []OneAnswer
<1>1. CallInv => OneAnswer
  BY DEF CallInv, SipInv
<1> QED
  BY <1>1, CallInvariant, PTL

(* Requests of the client read the registry and do not change it.           *)
LEMMA CallStepCallsRegistry ==
    ASSUME CallInv, [CallNext]_callVars
    PROVE  [Next]_vars
<1>0. SipTypeOK /\ Entering
  BY DEF CallInv, SipInv
<1>1. CASE [SipNext]_sipVars
  BY <1>0, <1>1, StepCallsRegistry
<1>2. ASSUME NEW d \in Devices, OnQuery(d) \/ HangUp(d) \/ SendCatalog(d) \/ CallAgent(d)
      PROVE  UNCHANGED vars
  BY <1>2 DEF OnQuery, HangUp, SendCatalog, CallAgent, AskRegister, AskKeepalive, AskLogout,
              Ask, GiveUp, ComeBack, StartAnew, sipVars, vars
<1>3. CASE CallLoop
  <2>1. CASE Loop
    BY <1>0, <2>1, LoopCallsRegistry
  <2>2. CASE HandleCallAnswered \/ AckAgain \/ HandleResponse
    BY <2>2 DEF HandleCallAnswered, AckAgain, HandleResponse
  <2> QED
    BY <1>3, <2>1, <2>2 DEF CallLoop
<1>4. CASE \/ \E c \in Channels : OnPlay(c)
           \/ SendRequest \/ Arrive \/ UNCHANGED callVars
  BY <1>4 DEF OnPlay, SendRequest, Arrive, callVars, sipVars
<1>5. CASE (Answered \/ Others) /\ UNCHANGED calls
  BY <1>1, <1>5 DEF SipNext
<1> QED
  BY <1>2, <1>3, <1>4, <1>5 DEF CallNext

(* With calls under way, too, the SIP layer is one of the clients           *)
(* DeviceInfos.tla allows.                                                  *)
THEOREM RegistryCallsInCalls == CallSpec => RegistryCalls
<1>1. CallInit => Init
  BY DEF CallInit, SipInit
<1>2. CallInv /\ [CallNext]_callVars => [Next]_vars
  BY CallStepCallsRegistry
<1> QED
  BY <1>1, <1>2, CallInvariant, PTL DEF CallSpec, Spec, RegistryCalls

(* So with SIP traffic in both directions the registry holds no device      *)
(* twice, times none out early and keeps no silent one too long.            *)
THEOREM RegistrySafeUnderCalls ==
    CallSpec => []UniqueIds /\ []LeaseClock /\ NoEarlyTimeout /\ []NoStaleDevice
BY RegistryCallsInCalls, UniqueIdsHolds, LeaseClockHolds, NoEarlyTimeoutHolds,
   NoStaleDeviceHolds, PTL DEF RegistryCalls
=============================================================================
