------------------------------- MODULE DeviceView -------------------------------
(***************************************************************************)
(* The device tree of the main window (class GBClient), fed by the signals *)
(* of the registry.  The registry lives in the SIP thread and the sweeping *)
(* thread, the tree in the UI thread; between them is the UI thread's      *)
(* event queue, so the tree always shows some past of the registry.        *)
(*                                                                         *)
(* The children of topLevelItem(0) are the devices, their children the     *)
(* channels.  The root exists: onListen adds it in the handler that starts *)
(* the SIP thread, before the event loop can run a slot.  The loop of      *)
(* deviceRemoved is modelled one iteration per step, because it goes on    *)
(* after it has deleted a child and moves the index past the next one.     *)
(***************************************************************************)
EXTENDS DeviceInfos

VARIABLES tree,   \* the children of topLevelItem(0)
          scan    \* the i of the loop in deviceRemoved; 0: not in that slot

viewVars == <<devs, signals, it, dueIn, silence, tree, scan>>

Node == [dev : Devices, chans : Seq(Channels)]

ViewTypeOK == /\ TypeOK
              /\ tree \in Seq(Node)
              /\ scan \in 0..(Len(tree) + 2)

ViewInit == Init /\ tree = <<>> /\ scan = 0

-----------------------------------------------------------------------------
(* The UI thread calls the slot of the oldest queued signal. *)
PendingCall(kind) == scan = 0 /\ signals # <<>> /\ Head(signals).kind = kind

OnDeviceAppended ==
    /\ PendingCall("deviceAppended")
    /\ tree' = Append(tree, [dev |-> Head(signals).dev, chans |-> <<>>])
    /\ DeliverSignal
    /\ UNCHANGED scan

(* Mutation variant: the search for the channel is lost. *)
WithChannelAgain(node, c) == [node EXCEPT !.chans = Append(@, c)]

(* The first node of the device gets the channel unless it has it already;  *)
(* a channel of a device that is not shown is dropped.                      *)
WithChannel(node, c) ==
    IF c \in ToSet(node.chans) THEN node ELSE [node EXCEPT !.chans = Append(@, c)]

NodeAt(d, i) == tree[i].dev = d /\ \A j \in 1..(i - 1) : tree[j].dev # d

OnChannelReceived ==
    /\ PendingCall("channelReceived")
    /\ LET d == Head(signals).dev
           c == Head(signals).chan
       IN \/ \E i \in DOMAIN tree :
                /\ NodeAt(d, i)
                /\ tree' = [tree EXCEPT ![i] = WithChannel(@, c)]
          \/ /\ \A i \in DOMAIN tree : tree[i].dev # d
             /\ UNCHANGED tree
    /\ DeliverSignal
    /\ UNCHANGED scan

(* Mutation variant: the loop starts at the second child. *)
RemoveLoopEnterLate ==
    /\ PendingCall("deviceRemoved")
    /\ scan' = 2
    /\ UNCHANGED <<vars, tree>>

RemoveLoopEnter ==
    /\ PendingCall("deviceRemoved")
    /\ scan' = 1
    /\ UNCHANGED <<vars, tree>>

RemoveLoopStep ==
    /\ scan \in DOMAIN tree
    /\ tree' = IF tree[scan].dev = Head(signals).dev THEN RemoveAt(tree, scan) ELSE tree
    /\ scan' = scan + 1
    /\ UNCHANGED vars

RemoveLoopExit ==
    /\ scan > Len(tree)
    /\ scan > 0
    /\ scan' = 0
    /\ DeliverSignal
    /\ UNCHANGED tree

UiStep == \/ OnDeviceAppended
          \/ OnChannelReceived
          \/ RemoveLoopEnter
          \/ RemoveLoopStep
          \/ RemoveLoopExit

ViewNext == \/ /\ \/ \E d \in Devices : Request(d)
                  \/ Sweep
                  \/ Second
               /\ UNCHANGED <<tree, scan>>
            \/ UiStep

ViewSpec == ViewInit /\ [][ViewNext]_viewVars

(* The sweeping thread and the UI thread are scheduled and time passes. *)
ViewFairness == /\ WF_viewVars(Sweep /\ UNCHANGED <<tree, scan>>)
                /\ WF_viewVars(Second /\ UNCHANGED <<tree, scan>>)
                /\ WF_viewVars(UiStep)

FairViewSpec == ViewSpec /\ ViewFairness

-----------------------------------------------------------------------------
(* Properties. *)

(* The tree never shows a device twice, nor a channel twice in a device:    *)
(* deviceAppended adds without looking, and the loop of deviceRemoved skips *)
(* the child after one it deletes, so a second copy might never go away.    *)
NoDuplicateNodes ==
    /\ \A i, j \in DOMAIN tree : tree[i].dev = tree[j].dev => i = j
    /\ \A i \in DOMAIN tree : IsInjective(tree[i].chans)

(* What the slot of a signal makes of a tree that shows no device twice.    *)
Handled(t, s) ==
    CASE s.kind = "deviceAppended" -> Append(t, [dev |-> s.dev, chans |-> {}])
      [] s.kind = "deviceRemoved" ->
            IF \E i \in DOMAIN t : t[i].dev = s.dev
            THEN RemoveAt(t, CHOOSE i \in DOMAIN t : t[i].dev = s.dev) ELSE t
      [] s.kind = "channelReceived" ->
            [i \in DOMAIN t |-> IF t[i].dev = s.dev
                                THEN [t[i] EXCEPT !.chans = @ \cup {s.chan}] ELSE t[i]]

Shown == [i \in DOMAIN tree |-> [dev |-> tree[i].dev, chans |-> ToSet(tree[i].chans)]]

(* What the tree shows when that many of the queued signals are handled.    *)
Upcoming[k \in 0..Len(signals)] ==
    IF k = 0 THEN Shown ELSE Handled(Upcoming[k - 1], signals[k])

RegistryView == [i \in DOMAIN devs |-> [dev |-> devs[i].id, chans |-> devs[i].channels]]

(* The tree and the signals under way always add up to the registry: the    *)
(* same devices, in the same order, with the same channels, whatever the    *)
(* SIP thread and the sweep have done since the tree was last up to date.   *)
ViewFollowsRegistry == Upcoming[Len(signals)] = RegistryView

InTree(d) == \E i \in DOMAIN tree : tree[i].dev = d

(* A device that stays registered is shown and stays shown, one that stays  *)
(* away is dropped and stays dropped.                                       *)
ViewConverges ==
    \A d \in Devices : /\ <>[]Registered(d) => <>[]InTree(d)
                       /\ <>[]~Registered(d) => <>[]~InTree(d)

(* A device that falls silent leaves the tree: again and again it is not    *)
(* shown, or it has just been heard from.                                   *)
SilentDeviceHidden ==
    \A d \in Devices : []<>(~InTree(d) \/ (Registered(d) /\ silence[d] = 0))
=============================================================================
