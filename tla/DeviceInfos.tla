------------------------------ MODULE DeviceInfos ------------------------------
(***************************************************************************)
(* The device registry: class DeviceInfos of GBClient.                     *)
(*                                                                         *)
(* m_devs is a list of devices under one mutex, _iterMutex.  The SIP       *)
(* thread calls appendDevice, keepAlive, removeItem and                    *)
(* appendDeviceChannels; a second thread, deviceChecking, sleeps           *)
(* DEVICE_CHECK_INTERVAL seconds, then sweeps the list with the mutex held *)
(* and either charges a whole interval to a device or erases it.  Every    *)
(* change the user is shown goes out as a Qt signal; the receiver lives in *)
(* the UI thread, so an emission is an entry in that thread's event queue. *)
(*                                                                         *)
(* An operation that holds the mutex from its first to its last access of  *)
(* m_devs is one action.  The sweep is one action per list element, so     *)
(* that the UI thread and the clock run beside it.  messageOutput, a line  *)
(* of text for the log window, is left out.                                *)
(***************************************************************************)
EXTENDS Integers, Sequences, FiniteSets, SequencesExt

CONSTANTS Devices,        \* device ids
          Channels,       \* channel ids
          Addrs,          \* contact addresses (ip and port together)
          Leases,         \* values of the Expires of a REGISTER, in seconds
          CheckInterval,  \* DEVICE_CHECK_INTERVAL
          MaxLate,        \* bound: seconds by which a sweep may be late
          MaxCatalog,     \* bound: channels in one Catalog response
          MaxSignals,     \* bound: no new request while so many signals wait
          NoChannel       \* the channel field of a signal that has none

ASSUME TimeAssumption == /\ CheckInterval \in Nat \ {0}
                         /\ MaxLate \in Nat
                         /\ Leases \subseteq Nat \ {0}
ASSUME NoChannelAssumption == NoChannel \notin Channels
ASSUME BoundAssumption == MaxCatalog \in Nat /\ MaxSignals \in Nat

VARIABLES devs,     \* m_devs, in list order
          signals,  \* emitted signals the UI thread has not handled yet
          it,       \* the sweep's position in m_devs; 0: no sweep, mutex free
          dueIn,    \* seconds until deviceChecking wakes; <= 0: awake, or late
          silence   \* history: seconds since a registered device was heard from

vars == <<devs, signals, it, dueIn, silence>>

Device == [id : Devices, addr : Addrs, expires : Nat \ {0},
           maxExpires : Leases, channels : SUBSET Channels]

SignalKinds == {"deviceAppended", "deviceRemoved", "channelReceived"}
Signal == [kind : SignalKinds, dev : Devices, chan : Channels \cup {NoChannel}]

(* deviceAppended and deviceRemoved carry the device id, channelReceived the *)
(* channel as well.                                                          *)
DeviceSignal(kind, d) == [kind |-> kind, dev |-> d, chan |-> NoChannel]
ChannelSignal(d, c) == [kind |-> "channelReceived", dev |-> d, chan |-> c]

TypeOK == /\ devs \in Seq(Device)
          /\ signals \in Seq(Signal)
          /\ it \in 0..(Len(devs) + 1)
          /\ dueIn \in (-MaxLate)..CheckInterval
          /\ silence \in [Devices -> Nat]

Init == /\ devs = <<>>
        /\ signals = <<>>
        /\ it = 0
        /\ dueIn = CheckInterval
        /\ silence = [d \in Devices |-> 0]

Registered(d) == \E i \in DOMAIN devs : devs[i].id = d

(* Every loop of the class stops at the first element with the id. *)
FirstAt(d, i) == devs[i].id = d /\ \A j \in 1..(i - 1) : devs[j].id # d

MutexFree == it = 0

Heard(d) == silence' = [silence EXCEPT ![d] = 0]

-----------------------------------------------------------------------------
(* The operations of the SIP thread.                                        *)

NewDevice(d, addr, lease) == [id |-> d, addr |-> addr, expires |-> lease,
                              maxExpires |-> lease, channels |-> {}]

(* Mutation variant: the refresh forgets setExpires. *)
RefreshKeepsExpires(d, addr, lease) ==
    /\ \E i \in DOMAIN devs :
          /\ FirstAt(d, i)
          /\ devs' = [devs EXCEPT ![i] = [@ EXCEPT !.addr = addr, !.maxExpires = lease]]
    /\ UNCHANGED signals

(* Mutation variant: the refresh forgets the new address. *)
RefreshKeepsAddr(d, addr, lease) ==
    /\ \E i \in DOMAIN devs :
          /\ FirstAt(d, i)
          /\ devs' = [devs EXCEPT ![i] = [@ EXCEPT !.maxExpires = lease, !.expires = lease]]
    /\ UNCHANGED signals

(* A known device gets the new address and lease and keeps its channels,    *)
(* with no signal.                                                          *)
RefreshDevice(d, addr, lease) ==
    /\ \E i \in DOMAIN devs :
          /\ FirstAt(d, i)
          /\ devs' = [devs EXCEPT ![i] = [@ EXCEPT !.addr = addr,
                                                   !.maxExpires = lease,
                                                   !.expires = lease]]
    /\ UNCHANGED signals

(* Mutation variant: the search for a known device is lost. *)
AddDeviceAlways(d, addr, lease) ==
    /\ devs' = Append(devs, NewDevice(d, addr, lease))
    /\ signals' = Append(signals, DeviceSignal("deviceAppended", d))

AddDevice(d, addr, lease) ==
    /\ ~Registered(d)
    /\ devs' = Append(devs, NewDevice(d, addr, lease))
    /\ signals' = Append(signals, DeviceSignal("deviceAppended", d))

(* handleRegister passes the Expires of the request as maxExpires and as    *)
(* expires.                                                                 *)
AppendDevice(d, addr, lease) ==
    /\ MutexFree
    /\ RefreshDevice(d, addr, lease) \/ AddDevice(d, addr, lease)
    /\ Heard(d)
    /\ UNCHANGED <<it, dueIn>>

(* Mutation variant: the keepalive is acknowledged, the lease not renewed. *)
KeepAliveNoRenewal(d) ==
    /\ MutexFree
    /\ Registered(d)
    /\ Heard(d)
    /\ UNCHANGED <<devs, signals, it, dueIn>>

(* Returns false and changes nothing when the device is unknown. *)
KeepAlive(d) ==
    /\ MutexFree
    /\ \E i \in DOMAIN devs :
          /\ FirstAt(d, i)
          /\ devs' = [devs EXCEPT ![i] = [@ EXCEPT !.expires = devs[i].maxExpires]]
    /\ Heard(d)
    /\ UNCHANGED <<signals, it, dueIn>>

(* Mutation variant: removeItem without the lock_guard. *)
RemoveItemUnlocked(d) ==
    /\ \E i \in DOMAIN devs :
          /\ FirstAt(d, i)
          /\ devs' = RemoveAt(devs, i)
    /\ signals' = Append(signals, DeviceSignal("deviceRemoved", d))
    /\ Heard(d)
    /\ UNCHANGED <<it, dueIn>>

RemoveItem(d) ==
    /\ MutexFree
    /\ \E i \in DOMAIN devs :
          /\ FirstAt(d, i)
          /\ devs' = RemoveAt(devs, i)
    /\ signals' = Append(signals, DeviceSignal("deviceRemoved", d))
    /\ Heard(d)
    /\ UNCHANGED <<it, dueIn>>

(* addChannels replaces the properties of a channel it knows and inserts    *)
(* the others; a signal goes out for every element, known or not.           *)
AppendDeviceChannels(d, list) ==
    /\ MutexFree
    /\ \E i \in DOMAIN devs :
          /\ FirstAt(d, i)
          /\ devs' = [devs EXCEPT ![i] =
                        [@ EXCEPT !.channels = devs[i].channels \cup ToSet(list)]]
    /\ signals' = signals \o [k \in DOMAIN list |-> ChannelSignal(d, list[k])]
    /\ UNCHANGED <<it, dueIn, silence>>

-----------------------------------------------------------------------------
(* deviceChecking, the sweeping thread.                                     *)

(* sleep_for sleeps at least the interval; then the thread takes the mutex. *)
SweepStart ==
    /\ MutexFree
    /\ dueIn <= 0
    /\ it' = 1
    /\ UNCHANGED <<devs, signals, dueIn, silence>>

SweepKeep ==
    /\ it \in DOMAIN devs
    /\ devs[it].expires > CheckInterval
    /\ devs' = [devs EXCEPT ![it] = [@ EXCEPT !.expires = devs[it].expires - CheckInterval]]
    /\ it' = it + 1
    /\ UNCHANGED <<signals, dueIn, silence>>

(* Mutation variant: the iterator moves on after an erase as well. *)
SweepEraseSkips ==
    /\ it \in DOMAIN devs
    /\ devs[it].expires <= CheckInterval
    /\ devs' = RemoveAt(devs, it)
    /\ signals' = Append(signals, DeviceSignal("deviceRemoved", devs[it].id))
    /\ Heard(devs[it].id)
    /\ it' = it + 1
    /\ UNCHANGED dueIn

(* Mutation variant: the erased device is not announced. *)
SweepEraseUnannounced ==
    /\ it \in DOMAIN devs
    /\ devs[it].expires <= CheckInterval
    /\ devs' = RemoveAt(devs, it)
    /\ Heard(devs[it].id)
    /\ UNCHANGED <<signals, it, dueIn>>

SweepErase ==
    /\ it \in DOMAIN devs
    /\ devs[it].expires <= CheckInterval
    /\ devs' = RemoveAt(devs, it)
    /\ signals' = Append(signals, DeviceSignal("deviceRemoved", devs[it].id))
    /\ Heard(devs[it].id)
    /\ UNCHANGED <<it, dueIn>>

(* Mutation variant: the thread sweeps again without sleeping. *)
SweepEndNoSleep ==
    /\ it > Len(devs)
    /\ it' = 0
    /\ UNCHANGED <<devs, signals, dueIn, silence>>

SweepEnd ==
    /\ it > Len(devs)
    /\ it' = 0
    /\ dueIn' = CheckInterval
    /\ UNCHANGED <<devs, signals, silence>>

Sweep == SweepStart \/ SweepKeep \/ SweepErase \/ SweepEnd

-----------------------------------------------------------------------------
(* The clock and the UI thread.                                             *)

(* Time passes; the sleeping thread is late by at most MaxLate seconds.     *)
Second ==
    /\ dueIn > -MaxLate
    /\ dueIn' = dueIn - 1
    /\ silence' = [d \in Devices |-> IF Registered(d) THEN silence[d] + 1 ELSE 0]
    /\ UNCHANGED <<devs, signals, it>>

(* The UI thread handles the oldest queued signal. *)
DeliverSignal ==
    /\ signals # <<>>
    /\ signals' = Tail(signals)
    /\ UNCHANGED <<devs, it, dueIn, silence>>

-----------------------------------------------------------------------------
(* Requests arrive only while fewer than MaxSignals signals wait. *)
Room == Len(signals) < MaxSignals

Catalogs == SeqOf(Channels, MaxCatalog)

Request(d) ==
    /\ Room
    /\ \/ \E addr \in Addrs, lease \in Leases : AppendDevice(d, addr, lease)
       \/ KeepAlive(d)
       \/ RemoveItem(d)
       \/ \E list \in Catalogs : AppendDeviceChannels(d, list)

Next == \/ \E d \in Devices : Request(d)
        \/ Sweep
        \/ Second
        \/ DeliverSignal

Spec == Init /\ [][Next]_vars

-----------------------------------------------------------------------------
(* Properties. *)

(* m_devs never holds a device twice.  All of the class stops at the first  *)
(* match, so a second copy could never be refreshed or logged out.          *)
UniqueIds == \A i, j \in DOMAIN devs : devs[i].id = devs[j].id => i = j

(* What the sweep has charged to a device is never more than the time the   *)
(* device has really been silent, but for the part of the current interval  *)
(* that has still to pass: expires may run ahead of the clock by at most    *)
(* one interval.                                                            *)
Prepaid(i) == (IF i < it THEN CheckInterval ELSE 0) + (IF dueIn > 0 THEN dueIn ELSE 0)

LeaseClock == \A i \in DOMAIN devs :
    /\ devs[i].expires <= devs[i].maxExpires
    /\ silence[devs[i].id] + devs[i].expires + Prepaid(i) >= devs[i].maxExpires

(* A sweep only happens when the sleep is over, and holds the mutex.        *)
SweepAwake == it > 0 => dueIn <= 0

(* The heart-beat timeout is never early by more than one interval: a       *)
(* device the sweep erases has been silent for its lease less the check     *)
(* interval.  (A lease of up to one interval may end at once.)              *)
NoEarlyTimeout ==
    [][\A d \in Devices, i \in DOMAIN devs :
          it > 0 /\ FirstAt(d, i) /\ ~Registered(d)'
             => silence[d] + CheckInterval >= devs[i].maxExpires]_vars

(* Nor is it late without bound: lateness of the sweeps adds up, so a       *)
(* silent device stays for at most as many (late) intervals as its lease    *)
(* has full or started intervals.                                           *)
Intervals(lease) == (lease + CheckInterval - 1) \div CheckInterval

NoStaleDevice == \A i \in DOMAIN devs :
    silence[devs[i].id] <= Intervals(devs[i].maxExpires) * (CheckInterval + MaxLate)

(* The registry implements the lease service, early by at most one interval. *)
ItemOf(d) == CHOOSE i \in DOMAIN devs : devs[i].id = d

LeasesHeld == [d \in {devs[i].id : i \in DOMAIN devs} |->
                 [addr |-> devs[ItemOf(d)].addr, term |-> devs[ItemOf(d)].maxExpires]]

Service == INSTANCE LeaseService WITH Terms <- Leases, Slack <- CheckInterval,
                                      leases <- LeasesHeld, idle <- silence,
                                      checking <- it > 0

LeaseRefinement == Service!Spec
=============================================================================
