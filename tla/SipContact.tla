------------------------------ MODULE SipContact ------------------------------
(***************************************************************************)
(* Registration and messages over SIP: the event loop of class SipContact  *)
(* on top of the registry.  eXosip queues the requests of the devices; the *)
(* loop handles one event at a time, calls the registry, which another     *)
(* thread may keep locked, and answers.  A step of the loop is one such    *)
(* call or one answer, so that the sweep and the devices run in between.   *)
(*                                                                         *)
(* Which requests are answered at all is the client's protocol: a device   *)
(* whose Keepalive gets no answer registers again.  The devices and the    *)
(* network are external: a device has one request under way at a time,     *)
(* whose retransmissions eXosip recognises; requests and answers may get   *)
(* lost; the timer of a request is long against the client's work on it.   *)
(* Any Authorization header is accepted, so only its presence is modelled. *)
(***************************************************************************)
EXTENDS DeviceInfos

CONSTANTS ShortIds,   \* device ids of fewer than 20 characters
          NoAddr,     \* the contact of a request whose Via has no rport
          NoExpires,  \* the Expires of a REGISTER without that header
          NoEvent,    \* no event in hand
          MaxLost     \* bound: requests and answers the network loses

ASSUME SipAssumption == /\ ShortIds \subseteq Devices
                        /\ NoAddr \notin Addrs /\ NoExpires \notin Nat
                        /\ MaxLost \in Nat

VARIABLES inbox,    \* events of eXosip, oldest first
          hand,     \* je, the event the loop works on
          stage,    \* what the loop does next with it
          answers,  \* answers on their way to the devices
          phase,    \* external: where each device is in its registration
          asked,    \* external: its request that is still open, or NoEvent
          replied,  \* history: answers sent to its last request
          lost      \* messages lost so far

sip == <<inbox, hand, stage, answers, replied>>
agents == <<phase, asked, lost>>
sipVars == <<vars, sip, agents>>

Event(d, kind) == [dev |-> d, kind |-> kind, auth |-> FALSE, expires |-> NoExpires,
                   addr |-> NoAddr, list |-> <<>>]

Register(d, auth, expires, addr) ==
    [Event(d, "REGISTER") EXCEPT !.auth = auth, !.expires = expires, !.addr = addr]

Catalog(d, list) == [Event(d, "Catalog") EXCEPT !.list = list]

(* What devices request. *)
Requests == {"REGISTER", "Keepalive", "Catalog", "otherMessage", "otherRequest"}

(* Requests of devices; then answers to the requests of SipCalls.tla.       *)
EventKinds == {"REGISTER", "Keepalive", "Catalog", "otherMessage", "otherRequest",
               "callAnswered", "messageAnswered", "otherResponse"}

Events == [dev : Devices, kind : EventKinds, auth : BOOLEAN,
           expires : Leases \cup {0, NoExpires}, addr : Addrs \cup {NoAddr},
           list : Catalogs]

ASSUME EventAssumption == NoEvent \notin Events

SipTypeOK ==
    /\ TypeOK
    /\ inbox \in Seq(Events) /\ hand \in Events \cup {NoEvent}
    /\ stage \in {"wait", "handle", "answer", "append", "remove", "ack"}
    /\ stage = "wait" <=> hand = NoEvent
    /\ answers \subseteq [dev : Devices, code : {200, 400, 401}]
    /\ phase \in [Devices -> {"new", "challenged", "up", "leaving", "gone"}]
    /\ asked \in [Devices -> Events \cup {NoEvent}]
    /\ replied \in [Devices -> Nat] /\ lost \in 0..MaxLost

SipInit == /\ Init
           /\ inbox = <<>> /\ hand = NoEvent /\ stage = "wait"
           /\ answers = {} /\ replied = [d \in Devices |-> 0]
           /\ phase = [d \in Devices |-> "new"]
           /\ asked = [d \in Devices |-> NoEvent]
           /\ lost = 0

-----------------------------------------------------------------------------
(* The event loop. *)

TakeEvent ==
    /\ stage = "wait" /\ inbox # <<>>
    /\ hand' = Head(inbox) /\ inbox' = Tail(inbox)
    /\ stage' = "handle"
    /\ UNCHANGED <<vars, answers, replied, agents>>

Handling(kind) == stage = "handle" /\ hand.kind = kind

Done == hand' = NoEvent /\ stage' = "wait" /\ UNCHANGED inbox

GoOn(next) == stage' = next /\ UNCHANGED <<inbox, hand>>

Answer(code) == /\ answers' = answers \cup {[dev |-> hand.dev, code |-> code]}
                /\ replied' = [replied EXCEPT ![hand.dev] = @ + 1]

NoAnswer == UNCHANGED <<answers, replied>>

Unknown == MutexFree /\ ~Registered(hand.dev) /\ UNCHANGED vars

(* Mutation variant: a Keepalive is answered whoever sends it. *)
HandleKeepaliveAlways ==
    /\ Handling("Keepalive")
    /\ (Room /\ KeepAlive(hand.dev)) \/ Unknown
    /\ GoOn("answer")
    /\ NoAnswer /\ UNCHANGED agents

(* A Keepalive is answered if the registry knows the device. *)
HandleKeepalive ==
    /\ Handling("Keepalive")
    /\ \/ Room /\ KeepAlive(hand.dev) /\ GoOn("answer")
       \/ Unknown /\ Done
    /\ NoAnswer /\ UNCHANGED agents

(* Mutation variant: a catalog that finds the registry locked is only       *)
(* answered.                                                                *)
HandleCatalogTry ==
    /\ Handling("Catalog")
    /\ \/ Room /\ AppendDeviceChannels(hand.dev, hand.list) /\ GoOn("answer")
       \/ ~MutexFree /\ GoOn("answer") /\ UNCHANGED vars
       \/ Unknown /\ Done
    /\ NoAnswer /\ UNCHANGED agents

(* parserCatalog: so is the answer to a catalog query. *)
HandleCatalog ==
    /\ Handling("Catalog")
    /\ \/ Room /\ AppendDeviceChannels(hand.dev, hand.list) /\ GoOn("answer")
       \/ Unknown /\ Done
    /\ NoAnswer /\ UNCHANGED agents

(* answer200OK *)
Answer200OK ==
    /\ stage = "answer"
    /\ Answer(200) /\ Done
    /\ UNCHANGED <<vars, agents>>

(* Any other MESSAGE is printed, the answer is commented out. *)
HandleOtherMessage ==
    /\ Handling("otherMessage")
    /\ Done /\ NoAnswer
    /\ UNCHANGED <<vars, agents>>

HandleOtherRequest ==
    /\ Handling("otherRequest")
    /\ Answer(200) /\ Done
    /\ UNCHANGED <<vars, agents>>

Registering == Handling("REGISTER") /\ hand.expires \notin {NoExpires, 0}

(* A REGISTER without Expires and one of an invalid id get no answer. *)
IgnoreRegister ==
    /\ Handling("REGISTER")
    /\ hand.expires = NoExpires \/ (Registering /\ hand.dev \in ShortIds)
    /\ Done /\ NoAnswer
    /\ UNCHANGED <<vars, agents>>

(* handleRegister and handleLogout, no Authorization header. *)
Challenge ==
    /\ Handling("REGISTER") /\ ~hand.auth
    /\ hand.expires = 0 \/ (Registering /\ hand.dev \notin ShortIds)
    /\ Answer(401) /\ Done
    /\ UNCHANGED <<vars, agents>>

(* Mutation variant: the handling ends without an answer. *)
RefuseRegisterSilently ==
    /\ Registering /\ hand.dev \notin ShortIds /\ hand.auth
    /\ hand.addr = NoAddr
    /\ Done /\ NoAnswer
    /\ UNCHANGED <<vars, agents>>

(* handleRegister: the address to note is in the Via header. *)
RefuseRegister ==
    /\ Registering /\ hand.dev \notin ShortIds /\ hand.auth
    /\ hand.addr = NoAddr
    /\ Answer(400) /\ Done
    /\ UNCHANGED <<vars, agents>>

(* The 200 goes out first, then the device is entered. *)
AcceptRegister ==
    /\ Registering /\ hand.dev \notin ShortIds /\ hand.auth
    /\ hand.addr # NoAddr
    /\ Answer(200) /\ GoOn("append")
    /\ UNCHANGED <<vars, agents>>

(* Mutation variant: a locked registry is not waited for. *)
EnterDeviceTry ==
    /\ stage = "append"
    /\ \/ Room /\ AppendDevice(hand.dev, hand.addr, hand.expires)
       \/ ~MutexFree /\ UNCHANGED vars
    /\ Done /\ NoAnswer
    /\ UNCHANGED agents

EnterDevice ==
    /\ stage = "append"
    /\ Room /\ AppendDevice(hand.dev, hand.addr, hand.expires)
    /\ Done /\ NoAnswer
    /\ UNCHANGED agents

(* handleLogout: the 200 goes out first, then the device is removed. *)
AcceptLogout ==
    /\ Handling("REGISTER") /\ hand.expires = 0 /\ hand.auth
    /\ Answer(200) /\ GoOn("remove")
    /\ UNCHANGED <<vars, agents>>

(* Mutation variant: the device is removed without the lock. *)
RemoveDeviceUnlocked ==
    /\ stage = "remove"
    /\ (Room /\ RemoveItemUnlocked(hand.dev)) \/ Unknown
    /\ Done /\ NoAnswer
    /\ UNCHANGED agents

RemoveDevice ==
    /\ stage = "remove"
    /\ (Room /\ RemoveItem(hand.dev)) \/ Unknown
    /\ Done /\ NoAnswer
    /\ UNCHANGED agents

Loop == \/ TakeEvent
        \/ HandleKeepalive
        \/ HandleCatalog
        \/ Answer200OK
        \/ HandleOtherMessage
        \/ HandleOtherRequest
        \/ IgnoreRegister
        \/ Challenge
        \/ RefuseRegister
        \/ AcceptRegister
        \/ EnterDevice
        \/ AcceptLogout
        \/ RemoveDevice

-----------------------------------------------------------------------------
(* Devices and network (external). *)

Ask(e) ==
    /\ asked[e.dev] = NoEvent
    /\ asked' = [asked EXCEPT ![e.dev] = e]
    /\ inbox' = Append(inbox, e)
    /\ replied' = [replied EXCEPT ![e.dev] = 0]
    /\ UNCHANGED <<vars, hand, stage, answers, phase, lost>>

(* A device registers, at first without credentials. *)
AskRegister(d) ==
    /\ phase[d] \in {"new", "challenged"}
    /\ \E lease \in Leases, addr \in Addrs :
          Ask(Register(d, phase[d] = "challenged", lease, addr))

AskKeepalive(d) == phase[d] = "up" /\ Ask(Event(d, "Keepalive"))

(* It logs out, at first without credentials. *)
AskLogout(d) ==
    /\ phase[d] \in {"up", "leaving"}
    /\ Ask(Register(d, phase[d] = "leaving", 0, NoAddr))

(* What else a registered device may send. *)
AskOther(d) ==
    /\ phase[d] = "up"
    /\ \/ \E list \in Catalogs : Ask(Catalog(d, list))
       \/ \E kind \in {"otherMessage", "otherRequest"} : Ask(Event(d, kind))
       \/ \E expires \in Leases \cup {NoExpires} : Ask(Register(d, TRUE, expires, NoAddr))

(* What an answer to this request makes of the device. *)
PhaseAfter(p, request, code) ==
    CASE code = 401 -> IF request.expires = 0 THEN "leaving" ELSE "challenged"
      [] code = 400 -> "new"
      [] code = 200 -> IF request.kind # "REGISTER" THEN p
                       ELSE IF request.expires = 0 THEN "gone" ELSE "up"

ReceiveAnswer(a) ==
    /\ answers' = answers \ {a}
    /\ asked' = [asked EXCEPT ![a.dev] = NoEvent]
    /\ phase' = [phase EXCEPT ![a.dev] = PhaseAfter(@, asked[a.dev], a.code)]
    /\ UNCHANGED <<vars, inbox, hand, stage, replied, lost>>

UnderWay(d) == \/ \E i \in DOMAIN inbox : inbox[i].dev = d
               \/ hand # NoEvent /\ hand.dev = d
               \/ \E a \in answers : a.dev = d

(* No answer: the device starts again. *)
GiveUp(d) ==
    /\ asked[d] # NoEvent /\ ~UnderWay(d)
    /\ asked' = [asked EXCEPT ![d] = NoEvent]
    /\ phase' = [phase EXCEPT ![d] = "new"]
    /\ UNCHANGED <<vars, sip, lost>>

(* A device that logged out comes back. *)
ComeBack(d) ==
    /\ phase[d] = "gone"
    /\ phase' = [phase EXCEPT ![d] = "new"]
    /\ UNCHANGED <<vars, sip, asked, lost>>

Lose ==
    /\ lost < MaxLost /\ lost' = lost + 1
    /\ \/ \E i \in DOMAIN inbox : inbox' = RemoveAt(inbox, i) /\ UNCHANGED answers
       \/ \E a \in answers : answers' = answers \ {a} /\ UNCHANGED inbox
    /\ UNCHANGED <<vars, hand, stage, replied, phase, asked>>

Answered == \E a \in answers : ReceiveAnswer(a)

Agent(d) == \/ AskRegister(d)
            \/ AskKeepalive(d)
            \/ AskLogout(d)
            \/ AskOther(d)
            \/ GiveUp(d)
            \/ ComeBack(d)

Others == (Sweep \/ Second \/ DeliverSignal) /\ UNCHANGED <<sip, agents>>

SipNext == \/ Loop
           \/ \E d \in Devices : Agent(d)
           \/ Answered
           \/ Lose
           \/ Others

SipSpec == SipInit /\ [][SipNext]_sipVars

(* The client's threads run and time passes; the loop gets the mutex, which  *)
(* is free for all of an interval, so its steps need strong fairness.  A     *)
(* device goes on with what it began, and while it is registered it sends a  *)
(* Keepalive again and again, whatever else it sends.                        *)
SipFairness ==
    /\ SF_sipVars(Loop)
    /\ WF_sipVars(Sweep /\ UNCHANGED <<sip, agents>>)
    /\ WF_sipVars(Second /\ UNCHANGED <<sip, agents>>)
    /\ WF_sipVars(DeliverSignal /\ UNCHANGED <<sip, agents>>)
    /\ WF_sipVars(Answered)
    /\ \A d \in Devices : /\ WF_sipVars(AskRegister(d))
                          /\ WF_sipVars(phase[d] = "leaving" /\ AskLogout(d))
                          /\ WF_sipVars(GiveUp(d))
                          /\ SF_sipVars(AskKeepalive(d))

FairSipSpec == SipSpec /\ SipFairness

-----------------------------------------------------------------------------
(* Properties. *)

(* The SIP layer calls the registry only as DeviceInfos.tla lets its callers *)
(* do, one call at a time and never inside a sweep: what is proved there of  *)
(* the registry holds in this system.                                        *)
RegistryCalls == Spec

(* No request is answered twice. *)
OneAnswer == \A d \in Devices : replied[d] <= 1

(* Whatever a device requests is answered exactly once by the time the loop *)
(* is done with it, though the answer may be steps away from the reading of *)
(* the event.  What is left alone is a MESSAGE of another kind, a REGISTER  *)
(* that does not say for how long or whose id is too short, and what a      *)
(* device says that the registry does not know at that moment.              *)
LeftAlone ==
    \/ hand.kind = "otherMessage"
    \/ hand.kind = "REGISTER" /\ hand.expires = NoExpires
    \/ hand.kind = "REGISTER" /\ hand.expires # 0 /\ hand.dev \in ShortIds
    \/ hand.kind \in {"Keepalive", "Catalog"} /\ ~Registered(hand.dev)

HandlingRequest == stage \in {"handle", "answer"} /\ hand.kind \in Requests

RequestsAnswered ==
    [][HandlingRequest =>
          /\ stage = "handle" /\ stage' = "answer" => ~LeftAlone
          /\ stage' \notin {"handle", "answer"} =>
                replied'[hand.dev] = IF stage = "handle" /\ LeftAlone THEN 0 ELSE 1]_sipVars

(* A 200 is a promise: the answer to a REGISTER goes out before the registry *)
(* is asked, and the device is entered, or removed, all the same.            *)
AnswersTakeEffect ==
    \A d \in Devices :
       /\ (stage = "append" /\ hand.dev = d) ~> Registered(d)
       /\ (stage = "remove" /\ hand.dev = d) ~> ~Registered(d)

(* A device that does not log out is registered again and again: when it was *)
(* timed out its next Keepalive is not answered, and it registers anew.      *)
LiveDeviceKept ==
    \A d \in Devices \ ShortIds : []<>(Registered(d) \/ phase[d] \in {"leaving", "gone"})

=============================================================================
