-------------------------------- MODULE SipCalls --------------------------------
(***************************************************************************)
(* The requests of the client: queryCatalog and handleInvite, which the UI *)
(* thread runs beside the event loop, and what the loop does with answers. *)
(* Both look a device up in the registry, let go of the mutex and send the *)
(* request to the address they copied.  The answer, and the channel list   *)
(* that follows a query, come back to the event loop, which enters the     *)
(* channels that a later invitation finds the device by.                   *)
(*                                                                         *)
(* External: a device answers requests that reach it at the address it     *)
(* registered from last; a request that misses it ends in a failure        *)
(* response.  Requests of the devices are not lost here, as they are in    *)
(* SipContact.tla.  One call per device at a time (a bound).               *)
(***************************************************************************)
EXTENDS SipContact

CONSTANT MaxWaiting  \* bound: requests of the client and events that wait

ASSUME CallAssumption == MaxWaiting \in Nat

VARIABLES asking,  \* the UI thread's request, device looked up; or NoEvent
          outbox,  \* requests under way to the devices
          home,    \* external: the address each device registered from last
          owed,    \* external: devices that have a channel list to send
          dialog   \* external: the call of each device

calls == <<asking, outbox, home, owed, dialog>>
callVars == <<sipVars, calls>>

OutKinds == {"query", "invite"}
OutRequest == [kind : OutKinds, dev : Devices, addr : Addrs]

CallTypeOK == /\ SipTypeOK
              /\ asking \in OutRequest \cup {NoEvent}
              /\ outbox \subseteq OutRequest
              /\ home \in [Devices -> Addrs \cup {NoAddr}]
              /\ owed \subseteq Devices
              /\ dialog \in [Devices -> {"none", "invited", "answered", "acked"}]

CallInit == /\ SipInit
            /\ asking = NoEvent /\ outbox = {} /\ owed = {}
            /\ home = [d \in Devices |-> NoAddr]
            /\ dialog = [d \in Devices |-> "none"]

-----------------------------------------------------------------------------
(* The UI thread. *)

CanAsk == asking = NoEvent /\ Cardinality(outbox) + Len(inbox) < MaxWaiting

LookUp(kind, i) == asking' = [kind |-> kind, dev |-> devs[i].id, addr |-> devs[i].addr]

(* onQuery, and queryCatalog up to the end of getDeviceInfo. *)
OnQuery(d) ==
    /\ CanAsk /\ MutexFree
    /\ \E i \in DOMAIN devs : FirstAt(d, i) /\ LookUp("query", i)
    /\ UNCHANGED <<sipVars, outbox, home, owed, dialog>>

(* getDeviceInfoByChannelId takes the first device that has the channel. *)
HasFirst(c, i) == c \in devs[i].channels /\ \A j \in 1..(i - 1) : c \notin devs[j].channels

(* handleInvite, called by onPlay, up to the end of that search. *)
OnPlay(c) ==
    /\ CanAsk /\ MutexFree
    /\ \E i \in DOMAIN devs : /\ HasFirst(c, i) /\ LookUp("invite", i)
                              /\ dialog[devs[i].id] \in {"none", "acked"}
                              /\ dialog' = [dialog EXCEPT ![devs[i].id] = "invited"]
    /\ UNCHANGED <<sipVars, outbox, home, owed>>

(* The rest of queryCatalog and handleInvite. *)
SendRequest ==
    /\ asking # NoEvent
    /\ outbox' = outbox \cup {asking}
    /\ asking' = NoEvent
    /\ UNCHANGED <<sipVars, home, owed, dialog>>

-----------------------------------------------------------------------------
(* The event loop. *)

Call(d, state) == dialog' = [dialog EXCEPT ![d] = state]

(* An ACK can be built while the dialog exists. *)
SendAck(d) == Call(d, IF dialog[d] = "answered" THEN "acked" ELSE dialog[d])

(* Mutation variant: the case begins with the break that it lacks. *)
HandleCallAnsweredNot ==
    /\ Handling("callAnswered")
    /\ Done /\ NoAnswer
    /\ UNCHANGED <<vars, agents, calls>>

(* answerACK; without a break the case goes on into the next one. *)
HandleCallAnswered ==
    /\ Handling("callAnswered")
    /\ SendAck(hand.dev)
    /\ GoOn("ack") /\ NoAnswer
    /\ UNCHANGED <<vars, agents, asking, outbox, home, owed>>

AckAgain ==
    /\ stage = "ack"
    /\ SendAck(hand.dev)
    /\ Done /\ NoAnswer
    /\ UNCHANGED <<vars, agents, asking, outbox, home, owed>>

(* There is no dialog to build an ACK for a MESSAGE in; other responses are *)
(* printed.                                                                 *)
HandleResponse ==
    /\ Handling("messageAnswered") \/ Handling("otherResponse")
    /\ Done /\ NoAnswer
    /\ UNCHANGED <<vars, agents, calls>>

CallLoop == \/ Loop /\ UNCHANGED calls
            \/ HandleCallAnswered
            \/ AckAgain
            \/ HandleResponse

-----------------------------------------------------------------------------
(* Devices and network (external). *)

Respond(d, kind) == inbox' = Append(inbox, Event(d, kind))

At(d, addr) == phase[d] = "up" /\ home[d] = addr

Reached(r) == At(r.dev, r.addr)

TakeQuery(r) ==
    /\ r.kind = "query" /\ Reached(r)
    /\ owed' = owed \cup {r.dev}
    /\ Respond(r.dev, "messageAnswered")
    /\ UNCHANGED dialog

TakeInvite(r) ==
    /\ r.kind = "invite" /\ Reached(r)
    /\ Call(r.dev, "answered")
    /\ Respond(r.dev, "callAnswered")
    /\ UNCHANGED owed

(* The request missed the device, or the device refuses the call. *)
Fail(r) ==
    /\ ~Reached(r) \/ r.kind = "invite"
    /\ dialog' = IF r.kind = "invite" THEN [dialog EXCEPT ![r.dev] = "none"] ELSE dialog
    /\ Respond(r.dev, "otherResponse")
    /\ UNCHANGED owed

Arrive == /\ \E r \in outbox : /\ TakeQuery(r) \/ TakeInvite(r) \/ Fail(r)
                               /\ outbox' = outbox \ {r}
          /\ UNCHANGED <<vars, hand, stage, answers, replied, agents, asking, home>>

SendCatalog(d) ==
    /\ d \in owed /\ phase[d] = "up"
    /\ \E list \in Catalogs \ {<<>>} : Ask(Catalog(d, list))
    /\ owed' = owed \ {d}
    /\ UNCHANGED <<asking, outbox, home, dialog>>

(* Either side may end a call; the client's event for it is only printed. *)
HangUp(d) ==
    /\ dialog[d] \in {"answered", "acked"} /\ Len(inbox) < MaxWaiting
    /\ Call(d, "none")
    /\ Respond(d, "otherResponse")
    /\ UNCHANGED <<vars, hand, stage, answers, replied, agents, asking, outbox, home, owed>>

(* A device that renews its registration, or that was switched off and on,  *)
(* registers while the client still knows it, perhaps at an old address.    *)
StartAnew(d) ==
    /\ phase[d] = "up" /\ asked[d] = NoEvent
    /\ phase' = [phase EXCEPT ![d] = "new"]
    /\ UNCHANGED <<vars, sip, asked, lost>>

(* A device that starts anew forgets what it was asked. *)
CallAgent(d) ==
    /\ \/ /\ AskRegister(d)
          /\ home' = [home EXCEPT ![d] = asked'[d].addr]
       \/ AskKeepalive(d) /\ UNCHANGED home
       \/ AskLogout(d) /\ UNCHANGED home
       \/ GiveUp(d) /\ UNCHANGED home
       \/ (ComeBack(d) \/ StartAnew(d)) /\ UNCHANGED home
    /\ owed' = IF phase'[d] = "up" THEN owed ELSE owed \ {d}
    /\ UNCHANGED <<asking, outbox, dialog>>

CallNext == \/ \E d \in Devices : OnQuery(d) \/ HangUp(d) \/ SendCatalog(d) \/ CallAgent(d)
            \/ \E c \in Channels : OnPlay(c)
            \/ SendRequest
            \/ CallLoop
            \/ Arrive
            \/ (Answered \/ Others) /\ UNCHANGED calls

CallSpec == CallInit /\ [][CallNext]_callVars

(* As in SipContact.tla; the UI thread goes on with a request it began, the *)
(* network delivers or fails, and a device that owes a channel list sends   *)
(* it when none of its requests is open.                                    *)
CallFairness ==
    /\ SF_callVars(CallLoop)
    /\ WF_callVars(SendRequest)
    /\ WF_callVars(Arrive)
    /\ WF_callVars((Sweep \/ Second) /\ UNCHANGED <<sip, agents, calls>>)
    /\ WF_callVars(DeliverSignal /\ UNCHANGED <<sip, agents, calls>>)
    /\ WF_callVars(Answered /\ UNCHANGED calls)
    /\ \A d \in Devices : SF_callVars(SendCatalog(d))

FairCallSpec == CallSpec /\ CallFairness

-----------------------------------------------------------------------------
(* Properties. *)

(* The address in the registry is where the device is, as far as the device *)
(* knows, but for the moment between the 200 and the call that notes it.    *)
(* That is what a request finds that is looked up now; one looked up before *)
(* may be sent to where the device was.                                     *)
AddressKnown ==
    \A i \in DOMAIN devs :
        LET d == devs[i].id
        IN phase[d] = "up" /\ ~(stage = "append" /\ hand.dev = d) => devs[i].addr = home[d]

(* Every invitation is settled: it fails, or the camera accepts and its 200 *)
(* is acknowledged, whatever becomes of the registration meanwhile.         *)
CallsSettle ==
    \A d \in Devices : dialog[d] \in {"invited", "answered"} ~> dialog[d] \in {"none", "acked"}

(* A query fills the registry with channels: what the device sends back     *)
(* finds it under the id the query named.  Unless the device moves, logs    *)
(* out or loses its registration before it has answered.                    *)
Undisturbed(d) == \E i \in DOMAIN devs : devs[i].id = d /\ At(d, devs[i].addr)

HasChannels(d) == \E i \in DOMAIN devs : devs[i].id = d /\ devs[i].channels # {}

QueryFillsRegistry ==
    \A d \in Devices :
        asking # NoEvent /\ asking.kind = "query" /\ asking.dev = d /\ At(d, asking.addr)
            ~> HasChannels(d) \/ ~Undisturbed(d)
=============================================================================
