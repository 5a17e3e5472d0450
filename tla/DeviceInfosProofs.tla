--------------------------- MODULE DeviceInfosProofs ---------------------------
(***************************************************************************)
(* Proofs about the device registry, for every set of devices, every set   *)
(* of leases, every check interval and every lateness of the sweep.        *)
(***************************************************************************)
EXTENDS DeviceInfos, SequenceLemmas

(* The inductive invariant.  LeaseClock alone is not inductive: it needs    *)
(* the ids to be unique (the silence of a device is kept by id, its expires *)
(* by position), and the end of a sweep must find the sleep over.           *)
IInv == /\ TypeOK
        /\ UniqueIds
        /\ SweepAwake
        /\ LeaseClock

-----------------------------------------------------------------------------
(* Sequences. *)

(* A sequence of signals built from a catalog, or by removing the head, is  *)
(* a sequence of signals.                                                   *)
LEMMA SignalTypes ==
    ASSUME signals \in Seq(Signal), NEW d \in Devices
    PROVE  /\ Append(signals, DeviceSignal("deviceAppended", d)) \in Seq(Signal)
           /\ Append(signals, DeviceSignal("deviceRemoved", d)) \in Seq(Signal)
           /\ \A list \in Seq(Channels) :
                 signals \o [k \in DOMAIN list |-> ChannelSignal(d, list[k])] \in Seq(Signal)
           /\ signals # <<>> => Tail(signals) \in Seq(Signal)
<1>1. /\ DeviceSignal("deviceAppended", d) \in Signal
      /\ DeviceSignal("deviceRemoved", d) \in Signal
      /\ \A c \in Channels : ChannelSignal(d, c) \in Signal
  BY DEF DeviceSignal, ChannelSignal, Signal, SignalKinds
<1>2. ASSUME NEW list \in Seq(Channels)
      PROVE  signals \o [k \in DOMAIN list |-> ChannelSignal(d, list[k])] \in Seq(Signal)
  <2> DEFINE more == [k \in DOMAIN list |-> ChannelSignal(d, list[k])]
  <2>1. more \in Seq(Signal)
    <3>1. /\ Len(list) \in Nat
          /\ DOMAIN list = 1..Len(list)
          /\ \A k \in 1..Len(list) : list[k] \in Channels
      BY LenProperties, ElementOfSeq
    <3>2. more \in [1..Len(list) -> Signal]
      BY <1>1, <3>1
    <3> QED
      BY <3>1, <3>2
  <2> HIDE DEF more
  <2> QED
    BY <2>1, ConcatProperties DEF more
<1>3. signals # <<>> => Tail(signals) \in Seq(Signal)
  BY HeadTailProperties
<1> QED
  BY <1>1, <1>2, <1>3

(* The elements of the registry, spelled out for the provers. *)
LEMMA Elements ==
    ASSUME TypeOK
    PROVE  /\ Len(devs) \in Nat
           /\ DOMAIN devs = 1..Len(devs)
           /\ \A i \in 1..Len(devs) :
                 /\ devs[i] \in Device
                 /\ devs[i].id \in Devices
                 /\ devs[i].addr \in Addrs
                 /\ devs[i].expires \in Nat \ {0}
                 /\ devs[i].maxExpires \in Leases
                 /\ devs[i].maxExpires \in Nat \ {0}
                 /\ devs[i].channels \in SUBSET Channels
                 /\ silence[devs[i].id] \in Nat
           /\ \A d \in Devices : silence[d] \in Nat
           /\ it \in Nat /\ dueIn \in Int /\ CheckInterval \in Nat \ {0} /\ MaxLate \in Nat
<1>1. devs \in Seq(Device)
  BY DEF TypeOK
<1>2. /\ Len(devs) \in Nat
      /\ DOMAIN devs = 1..Len(devs)
      /\ \A i \in 1..Len(devs) : devs[i] \in Device
  BY <1>1, LenProperties, ElementOfSeq
<1>3. \A i \in 1..Len(devs) :
         /\ devs[i].id \in Devices
         /\ devs[i].addr \in Addrs
         /\ devs[i].expires \in Nat \ {0}
         /\ devs[i].maxExpires \in Leases
         /\ devs[i].channels \in SUBSET Channels
  BY <1>2 DEF Device
<1>4. \A d \in Devices : silence[d] \in Nat
  BY DEF TypeOK
<1>5. CheckInterval \in Nat \ {0} /\ MaxLate \in Nat /\ Leases \subseteq Nat \ {0}
  BY TimeAssumption
<1>6. it \in Nat /\ dueIn \in Int
  BY <1>2, <1>5 DEF TypeOK
<1>7. \A i \in 1..Len(devs) : devs[i].maxExpires \in Nat \ {0} /\ silence[devs[i].id] \in Nat
  BY <1>3, <1>4, <1>5
<1> QED
  BY <1>2, <1>3, <1>4, <1>5, <1>6, <1>7

(* Replacing one element by one with the same id keeps the registry well    *)
(* formed.                                                                  *)
LEMMA UpdateProperties ==
    ASSUME TypeOK, UniqueIds,
           NEW i \in DOMAIN devs, NEW new \in Device, new.id = devs[i].id,
           devs' = [devs EXCEPT ![i] = new]
    PROVE  /\ devs' \in Seq(Device)
           /\ Len(devs') = Len(devs)
           /\ DOMAIN devs' = 1..Len(devs)
           /\ \A j \in 1..Len(devs) : devs'[j] = IF j = i THEN new ELSE devs[j]
           /\ UniqueIds'
<1>1. /\ devs' \in Seq(Device)
      /\ Len(devs') = Len(devs)
      /\ \A j \in 1..Len(devs) : devs'[j] = IF j = i THEN new ELSE devs[j]
  BY Elements, ExceptSeq DEF TypeOK
<1>2. DOMAIN devs' = 1..Len(devs)
  BY <1>1, LenProperties
<1> QED
  BY <1>1, <1>2, Elements DEF UniqueIds

(* So does removing an element. *)
LEMMA RemovalProperties ==
    ASSUME TypeOK, UniqueIds,
           NEW i \in DOMAIN devs,
           devs' = RemoveAt(devs, i)
    PROVE  /\ devs' \in Seq(Device)
           /\ Len(devs') = Len(devs) - 1
           /\ DOMAIN devs' = 1..(Len(devs) - 1)
           /\ \A j \in 1..(Len(devs) - 1) :
                 devs'[j] = IF j < i THEN devs[j] ELSE devs[j + 1]
           /\ \A j \in 1..(Len(devs) - 1) : devs'[j].id # devs[i].id
           /\ UniqueIds'
<1>1. /\ devs' \in Seq(Device)
      /\ Len(devs') = Len(devs) - 1
      /\ \A j \in 1..(Len(devs) - 1) :
            devs'[j] = IF j < i THEN devs[j] ELSE devs[j + 1]
  BY Elements, RemoveAtProperties DEF TypeOK
<1>2. DOMAIN devs' = 1..(Len(devs) - 1)
  BY <1>1, LenProperties
<1> DEFINE old(j) == IF j < i THEN j ELSE j + 1
<1>0. /\ Len(devs) \in Nat /\ DOMAIN devs = 1..Len(devs) /\ i \in 1..Len(devs)
      /\ \A j, k \in 1..Len(devs) : devs[j].id = devs[k].id => j = k
  BY Elements DEF UniqueIds
<1>5. \A j \in 1..(Len(devs) - 1) : old(j) \in 1..Len(devs) /\ old(j) # i /\ devs'[j] = devs[old(j)]
  BY <1>0, <1>1
<1>6. \A j, k \in 1..(Len(devs) - 1) : old(j) = old(k) => j = k
  BY <1>0
<1>3. \A j \in 1..(Len(devs) - 1) : devs'[j].id # devs[i].id
  BY <1>0, <1>5
<1>4. UniqueIds'
  <2> HIDE DEF old
  <2>1. \A j, k \in 1..(Len(devs) - 1) : devs'[j].id = devs'[k].id => j = k
    BY <1>0, <1>5, <1>6
  <2> QED
    BY <2>1, <1>2 DEF UniqueIds
<1> QED
  BY <1>1, <1>2, <1>3, <1>4

-----------------------------------------------------------------------------
(* The invariant holds initially and every action preserves it.             *)

(* The empty registry satisfies it. *)
LEMMA InvInit == Init => IInv
<1> SUFFICES ASSUME Init PROVE IInv
  OBVIOUS
<1>1. TypeOK
  <2>1. devs = <<>> /\ devs \in Seq(Device) /\ Len(devs) = 0
    BY DEF Init
  <2>2. signals \in Seq(Signal)
    BY DEF Init
  <2>3. dueIn \in (-MaxLate)..CheckInterval
    BY TimeAssumption DEF Init
  <2>4. silence \in [Devices -> Nat]
    BY DEF Init
  <2> QED
    BY <2>1, <2>2, <2>3, <2>4 DEF TypeOK, Init
<1>2. DOMAIN devs = {}
  BY DEF Init
<1> QED
  BY <1>1, <1>2 DEF IInv, Init, UniqueIds, SweepAwake, LeaseClock

(* A device whose lease starts afresh, at any place in the list. *)
LEMMA FreshLease ==
    ASSUME TypeOK, NEW n \in Nat \ {0}
    PROVE  \A i : 0 + n + Prepaid(i) >= n
BY Elements DEF Prepaid

(* appendDevice preserves the invariant: a refreshed or new device starts   *)
(* with its whole lease and no silence.                                     *)
LEMMA AppendDevicePreserves ==
    ASSUME IInv, NEW d \in Devices, NEW addr \in Addrs, NEW lease \in Leases,
           AppendDevice(d, addr, lease)
    PROVE  IInv'
<1> USE DEF IInv
<1>0. /\ it = 0 /\ it' = 0 /\ dueIn' = dueIn
      /\ silence' = [silence EXCEPT ![d] = 0]
      /\ silence' \in [Devices -> Nat]
      /\ silence'[d] = 0
      /\ \A x \in Devices \ {d} : silence'[x] = silence[x]
      /\ lease \in Nat \ {0}
  BY Elements, TimeAssumption DEF AppendDevice, MutexFree, Heard, TypeOK
<1>1. CASE RefreshDevice(d, addr, lease)
  <2>1. PICK i \in DOMAIN devs :
            /\ FirstAt(d, i)
            /\ devs' = [devs EXCEPT ![i] = [@ EXCEPT !.addr = addr,
                                                     !.maxExpires = lease,
                                                     !.expires = lease]]
    BY <1>1 DEF RefreshDevice
  <2> DEFINE new == [devs[i] EXCEPT !.addr = addr, !.maxExpires = lease, !.expires = lease]
  <2>2. /\ new \in Device /\ new.id = d /\ devs[i].id = d
        /\ new.expires = lease /\ new.maxExpires = lease
        /\ devs' = [devs EXCEPT ![i] = new]
    BY <2>1, <1>0, Elements, ZenonT(40) DEF Device, FirstAt
  <2> HIDE DEF new
  <2>3. /\ devs' \in Seq(Device)
        /\ Len(devs') = Len(devs)
        /\ DOMAIN devs' = 1..Len(devs)
        /\ \A j \in 1..Len(devs) : devs'[j] = IF j = i THEN new ELSE devs[j]
        /\ UniqueIds'
    BY <2>2, UpdateProperties
  <2>4. TypeOK'
    BY <1>0, <1>1, <2>3, Elements DEF TypeOK, RefreshDevice
  <2>5. LeaseClock'
    <3> SUFFICES ASSUME NEW j \in 1..Len(devs)
                 PROVE  /\ devs'[j].expires <= devs'[j].maxExpires
                        /\ silence'[devs'[j].id] + devs'[j].expires + Prepaid(j)'
                              >= devs'[j].maxExpires
      BY <2>3 DEF LeaseClock
    <3>1. Prepaid(j)' = Prepaid(j)
      BY <1>0 DEF Prepaid
    <3>2. CASE j = i
      BY <3>1, <3>2, <1>0, <2>2, <2>3, FreshLease
    <3>3. CASE j # i
      <4>1. devs'[j] = devs[j] /\ devs[j].id # d /\ devs[j].id \in Devices
        BY <3>3, <2>2, <2>3, Elements DEF UniqueIds
      <4> QED
        BY <4>1, <3>1, <1>0, Elements DEF LeaseClock
    <3> QED
      BY <3>2, <3>3
  <2> QED
    BY <2>3, <2>4, <2>5, <1>0 DEF SweepAwake
<1>2. CASE AddDevice(d, addr, lease)
  <2> DEFINE new == NewDevice(d, addr, lease)
  <2>1. /\ new \in Device /\ new.id = d
        /\ new.expires = lease /\ new.maxExpires = lease
        /\ devs' = Append(devs, new)
    BY <1>2, <1>0 DEF AddDevice, NewDevice, Device
  <2> HIDE DEF new
  <2>2. /\ devs' \in Seq(Device)
        /\ Len(devs') = Len(devs) + 1
        /\ DOMAIN devs' = 1..(Len(devs) + 1)
        /\ \A j \in 1..Len(devs) : devs'[j] = devs[j]
        /\ devs'[Len(devs) + 1] = new
    BY <2>1, Elements DEF TypeOK
  <2>3. \A j \in 1..Len(devs) : devs[j].id # d
    BY <1>2, Elements DEF AddDevice, Registered
  <2>4. TypeOK'
    BY <1>0, <1>2, <2>2, Elements, SignalTypes DEF TypeOK, AddDevice
  <2>5. UniqueIds'
    BY <2>1, <2>2, <2>3, Elements DEF UniqueIds
  <2>6. LeaseClock'
    <3> SUFFICES ASSUME NEW j \in 1..(Len(devs) + 1)
                 PROVE  /\ devs'[j].expires <= devs'[j].maxExpires
                        /\ silence'[devs'[j].id] + devs'[j].expires + Prepaid(j)'
                              >= devs'[j].maxExpires
      BY <2>2 DEF LeaseClock
    <3>1. Prepaid(j)' = Prepaid(j)
      BY <1>0 DEF Prepaid
    <3>2. CASE j = Len(devs) + 1
      BY <3>1, <3>2, <1>0, <2>1, <2>2, FreshLease
    <3>3. CASE j \in 1..Len(devs)
      <4>1. devs'[j] = devs[j] /\ devs[j].id \in Devices \ {d}
        BY <3>3, <2>2, <2>3, Elements
      <4> QED
        BY <4>1, <3>1, <3>3, <1>0, Elements DEF LeaseClock
    <3> QED
      BY <3>2, <3>3, Elements
  <2> QED
    BY <2>4, <2>5, <2>6, <1>0 DEF SweepAwake
<1> QED
  BY <1>1, <1>2 DEF AppendDevice

(* keepAlive preserves it: expires goes back to the whole lease. *)
LEMMA KeepAlivePreserves ==
    ASSUME IInv, NEW d \in Devices, KeepAlive(d)
    PROVE  IInv'
<1> USE DEF IInv
<1>0. /\ it = 0 /\ it' = 0 /\ dueIn' = dueIn /\ signals' = signals
      /\ silence' \in [Devices -> Nat]
      /\ silence'[d] = 0
      /\ \A x \in Devices \ {d} : silence'[x] = silence[x]
  BY Elements DEF KeepAlive, MutexFree, Heard, TypeOK
<1>1. PICK i \in DOMAIN devs :
          /\ FirstAt(d, i)
          /\ devs' = [devs EXCEPT ![i] = [@ EXCEPT !.expires = devs[i].maxExpires]]
  BY DEF KeepAlive
<1> DEFINE new == [devs[i] EXCEPT !.expires = devs[i].maxExpires]
<1>2. /\ new \in Device /\ new.id = d /\ devs[i].id = d
      /\ new.expires = devs[i].maxExpires /\ new.maxExpires = devs[i].maxExpires
      /\ devs' = [devs EXCEPT ![i] = new]
  BY <1>1, Elements DEF Device, FirstAt
<1> HIDE DEF new
<1>3. /\ devs' \in Seq(Device)
      /\ Len(devs') = Len(devs)
      /\ DOMAIN devs' = 1..Len(devs)
      /\ \A j \in 1..Len(devs) : devs'[j] = IF j = i THEN new ELSE devs[j]
      /\ UniqueIds'
  BY <1>2, UpdateProperties
<1>4. TypeOK'
  BY <1>0, <1>3, Elements DEF TypeOK
<1>5. LeaseClock'
  <2> SUFFICES ASSUME NEW j \in 1..Len(devs)
               PROVE  /\ devs'[j].expires <= devs'[j].maxExpires
                      /\ silence'[devs'[j].id] + devs'[j].expires + Prepaid(j)'
                            >= devs'[j].maxExpires
    BY <1>3 DEF LeaseClock
  <2>1. Prepaid(j)' = Prepaid(j)
    BY <1>0 DEF Prepaid
  <2>2. CASE j = i
    BY <2>1, <2>2, <1>0, <1>2, <1>3, FreshLease, Elements
  <2>3. CASE j # i
    <3>1. devs'[j] = devs[j] /\ devs[j].id # d /\ devs[j].id \in Devices
      BY <2>3, <1>2, <1>3, Elements DEF UniqueIds
    <3> QED
      BY <3>1, <2>1, <1>0, Elements DEF LeaseClock
  <2> QED
    BY <2>2, <2>3
<1> QED
  BY <1>0, <1>3, <1>4, <1>5 DEF SweepAwake

(* appendDeviceChannels preserves it: ids and leases stay as they are. *)
LEMMA AppendDeviceChannelsPreserves ==
    ASSUME IInv, NEW d \in Devices, NEW list \in Seq(Channels),
           AppendDeviceChannels(d, list)
    PROVE  IInv'
<1> USE DEF IInv
<1>0. /\ it' = it /\ dueIn' = dueIn /\ silence' = silence
      /\ signals' = signals \o [k \in DOMAIN list |-> ChannelSignal(d, list[k])]
      /\ signals' \in Seq(Signal)
  BY SignalTypes DEF AppendDeviceChannels, TypeOK
<1>1. PICK i \in DOMAIN devs :
          /\ FirstAt(d, i)
          /\ devs' = [devs EXCEPT ![i] =
                        [@ EXCEPT !.channels = devs[i].channels \cup ToSet(list)]]
  BY DEF AppendDeviceChannels
<1> DEFINE new == [devs[i] EXCEPT !.channels = devs[i].channels \cup ToSet(list)]
<1>2. /\ new \in Device /\ new.id = devs[i].id
      /\ new.expires = devs[i].expires /\ new.maxExpires = devs[i].maxExpires
      /\ devs' = [devs EXCEPT ![i] = new]
  <2>1. ToSet(list) \subseteq Channels
    BY LenProperties, ElementOfSeq DEF ToSet
  <2> QED
    BY <2>1, <1>1, Elements DEF Device
<1> HIDE DEF new
<1>3. /\ devs' \in Seq(Device)
      /\ Len(devs') = Len(devs)
      /\ DOMAIN devs' = 1..Len(devs)
      /\ \A j \in 1..Len(devs) : devs'[j] = IF j = i THEN new ELSE devs[j]
      /\ UniqueIds'
  BY <1>2, UpdateProperties
<1>4. TypeOK'
  BY <1>0, <1>3, Elements DEF TypeOK
<1>5. LeaseClock'
  BY <1>0, <1>2, <1>3, Elements, ZenonT(40) DEF LeaseClock, Prepaid
<1> QED
  BY <1>0, <1>3, <1>4, <1>5 DEF SweepAwake

(* removeItem preserves it: the mutex keeps it out of a sweep. *)
LEMMA RemoveItemPreserves ==
    ASSUME IInv, NEW d \in Devices, RemoveItem(d)
    PROVE  IInv'
<1> USE DEF IInv
<1>0. /\ it = 0 /\ it' = 0 /\ dueIn' = dueIn
      /\ silence' \in [Devices -> Nat]
      /\ \A x \in Devices \ {d} : silence'[x] = silence[x]
      /\ signals' \in Seq(Signal)
  BY Elements, SignalTypes DEF RemoveItem, MutexFree, Heard, TypeOK
<1>1. PICK i \in DOMAIN devs : FirstAt(d, i) /\ devs' = RemoveAt(devs, i)
  BY DEF RemoveItem
<1>2. /\ devs' \in Seq(Device)
      /\ Len(devs') = Len(devs) - 1
      /\ DOMAIN devs' = 1..(Len(devs) - 1)
      /\ \A j \in 1..(Len(devs) - 1) :
            devs'[j] = IF j < i THEN devs[j] ELSE devs[j + 1]
      /\ \A j \in 1..(Len(devs) - 1) : devs'[j].id # devs[i].id
      /\ UniqueIds'
  BY <1>1, RemovalProperties
<1>3. TypeOK'
  BY <1>0, <1>2, Elements DEF TypeOK
<1>4. LeaseClock'
  <2> SUFFICES ASSUME NEW j \in 1..(Len(devs) - 1)
               PROVE  /\ devs'[j].expires <= devs'[j].maxExpires
                      /\ silence'[devs'[j].id] + devs'[j].expires + Prepaid(j)'
                            >= devs'[j].maxExpires
    BY <1>2 DEF LeaseClock
  <2>1. PICK k \in 1..Len(devs) :
            /\ devs'[j] = devs[k]
            /\ k = IF j < i THEN j ELSE j + 1
    BY <1>2, Elements
  <2>2. devs[k].id \in Devices \ {d}
    BY <2>1, <1>1, <1>2, Elements DEF FirstAt
  <2>3. Prepaid(j)' = Prepaid(k)
    BY <1>0, Elements DEF Prepaid
  <2> QED
    BY <2>1, <2>2, <2>3, <1>0, Elements DEF LeaseClock
<1> QED
  BY <1>0, <1>2, <1>3, <1>4 DEF SweepAwake

(* A sweep starts only when the sleep is over. *)
LEMMA SweepStartPreserves ==
    ASSUME IInv, SweepStart
    PROVE  IInv'
<1> USE DEF IInv
<1>1. it = 0 /\ it' = 1 /\ dueIn <= 0 /\ UNCHANGED <<devs, signals, dueIn, silence>>
  BY DEF SweepStart, MutexFree
<1>2. TypeOK'
  BY <1>1, Elements DEF TypeOK
<1>3. LeaseClock'
  <2>1. \A i \in 1..Len(devs) : Prepaid(i)' = Prepaid(i)
    BY <1>1, Elements DEF Prepaid
  <2> QED
    BY <2>1, <1>1, Elements DEF LeaseClock
<1> QED
  BY <1>1, <1>2, <1>3 DEF UniqueIds, SweepAwake

(* The sweep preserves it when it charges an interval to a device. *)
LEMMA SweepKeepPreserves ==
    ASSUME IInv, SweepKeep
    PROVE  IInv'
<1> USE DEF IInv
<1>0. /\ it \in 1..Len(devs) /\ it' = it + 1 /\ dueIn <= 0
      /\ devs[it].expires > CheckInterval
      /\ UNCHANGED <<signals, dueIn, silence>>
  BY Elements DEF SweepKeep, SweepAwake
<1> DEFINE new == [devs[it] EXCEPT !.expires = devs[it].expires - CheckInterval]
<1>1. /\ new \in Device /\ new.id = devs[it].id
      /\ new.expires = devs[it].expires - CheckInterval
      /\ new.maxExpires = devs[it].maxExpires
      /\ devs' = [devs EXCEPT ![it] = new]
  <2>1. devs[it].expires - CheckInterval \in Nat \ {0}
    BY <1>0, Elements
  <2> QED
    BY <2>1, <1>0, Elements DEF SweepKeep, Device
<1> HIDE DEF new
<1>2. /\ devs' \in Seq(Device)
      /\ Len(devs') = Len(devs)
      /\ DOMAIN devs' = 1..Len(devs)
      /\ \A j \in 1..Len(devs) : devs'[j] = IF j = it THEN new ELSE devs[j]
      /\ UniqueIds'
  BY <1>0, <1>1, UpdateProperties, Elements
<1>3. TypeOK'
  BY <1>0, <1>2, Elements DEF TypeOK
<1>4. LeaseClock'
  <2> SUFFICES ASSUME NEW j \in 1..Len(devs)
               PROVE  /\ devs'[j].expires <= devs'[j].maxExpires
                      /\ silence'[devs'[j].id] + devs'[j].expires + Prepaid(j)'
                            >= devs'[j].maxExpires
    BY <1>2 DEF LeaseClock
  <2>1. CASE j = it
    <3>1. Prepaid(j)' = CheckInterval /\ Prepaid(j) = 0
      BY <2>1, <1>0, Elements DEF Prepaid
    <3> QED
      BY <3>1, <2>1, <1>0, <1>1, <1>2, Elements, SMTT(40) DEF LeaseClock
  <2>2. CASE j # it
    <3>1. Prepaid(j)' = Prepaid(j)
      BY <2>2, <1>0, Elements DEF Prepaid
    <3> QED
      BY <3>1, <2>2, <1>0, <1>2, Elements DEF LeaseClock
  <2> QED
    BY <2>1, <2>2
<1> QED
  BY <1>0, <1>2, <1>3, <1>4 DEF SweepAwake

(* ... when it erases a device: the next one moves to the place of the sweep. *)
LEMMA SweepErasePreserves ==
    ASSUME IInv, SweepErase
    PROVE  IInv'
<1> USE DEF IInv
<1> DEFINE d == devs[it].id
<1>0. /\ it \in 1..Len(devs) /\ it' = it /\ dueIn' = dueIn
      /\ d \in Devices
      /\ devs' = RemoveAt(devs, it)
      /\ signals' \in Seq(Signal)
      /\ silence' \in [Devices -> Nat]
      /\ \A x \in Devices \ {d} : silence'[x] = silence[x]
  BY Elements, SignalTypes DEF SweepErase, Heard, TypeOK
<1>1. /\ devs' \in Seq(Device)
      /\ Len(devs') = Len(devs) - 1
      /\ DOMAIN devs' = 1..(Len(devs) - 1)
      /\ \A j \in 1..(Len(devs) - 1) :
            devs'[j] = IF j < it THEN devs[j] ELSE devs[j + 1]
      /\ \A j \in 1..(Len(devs) - 1) : devs'[j].id # d
      /\ UniqueIds'
  BY <1>0, RemovalProperties, Elements
<1> HIDE DEF d
<1>2. TypeOK'
  BY <1>0, <1>1, Elements DEF TypeOK
<1>3. LeaseClock'
  <2> SUFFICES ASSUME NEW j \in 1..(Len(devs) - 1)
               PROVE  /\ devs'[j].expires <= devs'[j].maxExpires
                      /\ silence'[devs'[j].id] + devs'[j].expires + Prepaid(j)'
                            >= devs'[j].maxExpires
    BY <1>1 DEF LeaseClock
  <2>1. PICK k \in 1..Len(devs) :
            /\ devs'[j] = devs[k]
            /\ k = IF j < it THEN j ELSE j + 1
    BY <1>1, Elements
  <2>2. devs[k].id \in Devices \ {d}
    BY <2>1, <1>1, Elements
  <2>3. Prepaid(j)' = Prepaid(k)
    BY <2>1, <1>0, Elements DEF Prepaid
  <2> QED
    BY <2>1, <2>2, <2>3, <1>0, Elements DEF LeaseClock
<1> QED
  BY <1>0, <1>1, <1>2, <1>3 DEF SweepAwake

(* ... and when it ends: what was charged is what the next sleep will last. *)
LEMMA SweepEndPreserves ==
    ASSUME IInv, SweepEnd
    PROVE  IInv'
<1> USE DEF IInv
<1>0. /\ it > Len(devs) /\ it' = 0 /\ dueIn' = CheckInterval
      /\ dueIn <= 0
      /\ UNCHANGED <<devs, signals, silence>>
  BY Elements DEF SweepEnd, SweepAwake
<1>1. TypeOK'
  BY <1>0, Elements DEF TypeOK
<1>2. LeaseClock'
  <2>1. \A i \in 1..Len(devs) : Prepaid(i)' = CheckInterval /\ Prepaid(i) = CheckInterval
    BY <1>0, Elements DEF Prepaid
  <2> QED
    BY <2>1, <1>0, Elements DEF LeaseClock
<1> QED
  BY <1>0, <1>1, <1>2 DEF UniqueIds, SweepAwake

(* A sum does not shrink when one term grows by one and another loses no more. *)
LEMMA LaterSum ==
    ASSUME NEW s \in Int, NEW e \in Int, NEW p \in Int, NEW q \in Int, NEW m \in Int,
           s + e + p >= m, q + 1 >= p
    PROVE  (s + 1) + e + q >= m
  OBVIOUS

(* A second of the clock adds to the silence what the sleep is shortened by. *)
LEMMA SecondPreserves ==
    ASSUME IInv, Second
    PROVE  IInv'
<1> USE DEF IInv
<1>0. /\ dueIn > -MaxLate /\ dueIn' = dueIn - 1
      /\ silence' = [d \in Devices |-> IF Registered(d) THEN silence[d] + 1 ELSE 0]
      /\ UNCHANGED <<devs, signals, it>>
  BY DEF Second
<1>1. TypeOK'
  <2>1. dueIn' \in (-MaxLate)..CheckInterval
    BY <1>0, Elements DEF TypeOK
  <2>2. silence' \in [Devices -> Nat]
    BY <1>0, Elements
  <2> QED
    BY <2>1, <2>2, <1>0 DEF TypeOK
<1>2. LeaseClock'
  <2> SUFFICES ASSUME NEW i \in 1..Len(devs)
               PROVE  /\ devs[i].expires <= devs[i].maxExpires
                      /\ silence'[devs[i].id] + devs[i].expires + Prepaid(i)'
                            >= devs[i].maxExpires
    BY <1>0, Elements DEF LeaseClock
  <2>1. silence'[devs[i].id] = silence[devs[i].id] + 1
    BY <1>0, Elements DEF Registered
  <2>2. Prepaid(i)' + 1 >= Prepaid(i) /\ Prepaid(i)' \in Nat /\ Prepaid(i) \in Nat
    BY <1>0, Elements DEF Prepaid
  <2>3. /\ devs[i].expires <= devs[i].maxExpires
        /\ silence[devs[i].id] + devs[i].expires + Prepaid(i) >= devs[i].maxExpires
    BY Elements DEF LeaseClock
  <2>4. /\ devs[i].expires \in Int /\ devs[i].maxExpires \in Int
        /\ silence[devs[i].id] \in Int /\ Prepaid(i) \in Int /\ Prepaid(i)' \in Int
    BY <2>2, Elements
  <2>5. (silence[devs[i].id] + 1) + devs[i].expires + Prepaid(i)' >= devs[i].maxExpires
    BY <2>2, <2>3, <2>4, LaterSum
  <2> QED
    BY <2>1, <2>3, <2>5
<1> QED
  BY <1>0, <1>1, <1>2, Elements DEF UniqueIds, SweepAwake

(* The UI thread does not touch the registry. *)
LEMMA DeliverSignalPreserves ==
    ASSUME IInv, DeliverSignal
    PROVE  IInv'
<1> USE DEF IInv
<1>1. signals' \in Seq(Signal)
  BY HeadTailProperties DEF DeliverSignal, TypeOK
<1>2. UNCHANGED <<devs, it, dueIn, silence>>
  BY DEF DeliverSignal
<1> QED
  BY <1>1, <1>2 DEF TypeOK, UniqueIds, SweepAwake, LeaseClock, Prepaid

(* Every step of the registry preserves the invariant. *)
LEMMA InvStep == IInv /\ [Next]_vars => IInv'
<1> SUFFICES ASSUME IInv, [Next]_vars PROVE IInv'
  OBVIOUS
<1>1. CASE \E d \in Devices : Request(d)
  <2>1. PICK d \in Devices : Request(d)
    BY <1>1
  <2>2. Catalogs \subseteq Seq(Channels)
    BY DEF Catalogs, SeqOf
  <2> QED
    BY <2>1, <2>2, AppendDevicePreserves, KeepAlivePreserves, RemoveItemPreserves,
       AppendDeviceChannelsPreserves DEF Request
<1>2. CASE Sweep
  BY <1>2, SweepStartPreserves, SweepKeepPreserves, SweepErasePreserves,
     SweepEndPreserves DEF Sweep
<1>3. CASE Second
  BY <1>3, SecondPreserves
<1>4. CASE DeliverSignal
  BY <1>4, DeliverSignalPreserves
<1>5. CASE UNCHANGED vars
  BY <1>5 DEF vars, IInv, TypeOK, UniqueIds, SweepAwake, LeaseClock, Prepaid
<1> QED
  BY <1>1, <1>2, <1>3, <1>4, <1>5 DEF Next

-----------------------------------------------------------------------------
(* The results. *)

(* In every behaviour the registry is well typed, holds no device twice,    *)
(* sweeps only when the sleep is over, and never charges a device more than *)
(* its silence and one interval.                                            *)
THEOREM RegistryInvariant == Spec => []IInv
<1>1. Init => IInv
  BY InvInit
<1>2. IInv /\ [Next]_vars => IInv'
  BY InvStep
<1> QED
  BY <1>1, <1>2, PTL DEF Spec

(* The list, the queued signals, the position of the sweep and the clock    *)
(* keep their types; the sweep never stands beyond the end of the list.     *)
THEOREM TypeCorrect == Spec => []TypeOK
<1>1. IInv => TypeOK
  BY DEF IInv
<1> QED
  BY <1>1, RegistryInvariant, PTL

(* m_devs never holds a device twice. *)
THEOREM UniqueIdsHolds == Spec => []UniqueIds
<1>1. IInv => UniqueIds
  BY DEF IInv
<1> QED
  BY <1>1, RegistryInvariant, PTL

(* expires never runs ahead of the real silence by more than an interval. *)
THEOREM LeaseClockHolds == Spec => []LeaseClock
<1>1. IInv => LeaseClock
  BY DEF IInv
<1> QED
  BY <1>1, RegistryInvariant, PTL

(* Only SweepErase can take a device away while a sweep is under way. *)
LEMMA OnlyEraseRemoves ==
    ASSUME IInv, [Next]_vars, it > 0,
           NEW d \in Devices, Registered(d), ~Registered(d)'
    PROVE  SweepErase /\ devs[it].id = d
<1> USE DEF IInv
<1>1. devs' # devs
  BY DEF Registered
<1>2. SweepKeep \/ SweepErase
  <2>1. \A x \in Devices : ~Request(x)
    <3> SUFFICES ASSUME NEW x \in Devices, Request(x) PROVE it = 0
      BY Elements
    <3> QED
      BY DEF Request, AppendDevice, KeepAlive, RemoveItem, AppendDeviceChannels, MutexFree
  <2> QED
    BY <1>1, <2>1 DEF Next, vars, Sweep, SweepStart, SweepEnd, Second, DeliverSignal
<1>3. ~SweepKeep
  <2> SUFFICES ASSUME SweepKeep PROVE FALSE
    OBVIOUS
  <2>1. /\ Len(devs') = Len(devs)
        /\ DOMAIN devs' = 1..Len(devs)
        /\ \A j \in 1..Len(devs) : devs'[j].id = devs[j].id
    <3> DEFINE e == devs[it].expires - CheckInterval
               new == [devs[it] EXCEPT !.expires = e]
    <3>1. it \in 1..Len(devs) /\ devs' = [devs EXCEPT ![it] = new]
      BY Elements DEF SweepKeep
    <3>2. e \in Nat \ {0} /\ new \in Device /\ new.id = devs[it].id
      <4>1. e \in Nat \ {0}
        BY <3>1, Elements DEF SweepKeep
      <4> QED
        BY <4>1, <3>1, Elements DEF Device
    <3> HIDE DEF new
    <3> QED
      BY <3>1, <3>2, UpdateProperties, Elements
  <2> QED
    BY <2>1, Elements DEF Registered
<1>4. SweepErase
  BY <1>2, <1>3
<1>5. devs[it].id = d
  <2>1. it \in 1..Len(devs) /\ devs' = RemoveAt(devs, it)
    BY <1>4, Elements DEF SweepErase
  <2>2. /\ DOMAIN devs' = 1..(Len(devs) - 1)
        /\ \A j \in 1..(Len(devs) - 1) :
              devs'[j] = IF j < it THEN devs[j] ELSE devs[j + 1]
    BY <2>1, RemovalProperties, Elements
  <2>3. PICK k \in 1..Len(devs) : devs[k].id = d
    BY Elements DEF Registered
  <2>4. ASSUME k # it PROVE FALSE
    <3>1. CASE k < it
      <4>1. k \in 1..(Len(devs) - 1) /\ devs'[k] = devs[k]
        BY <3>1, <2>1, <2>2, <2>3, Elements
      <4> QED
        BY <4>1, <2>2, <2>3 DEF Registered
    <3>2. CASE k > it
      <4>1. k - 1 \in 1..(Len(devs) - 1) /\ devs'[k - 1] = devs[k]
        BY <3>2, <2>1, <2>2, <2>3, Elements
      <4> QED
        BY <4>1, <2>2, <2>3 DEF Registered
    <3> QED
      BY <3>1, <3>2, <2>4, <2>1, <2>3, Elements
  <2> QED
    BY <2>3, <2>4
<1> QED
  BY <1>4, <1>5

(* A heart-beat timeout is early by at most one check interval. *)
THEOREM NoEarlyTimeoutHolds == Spec => NoEarlyTimeout
<1> DEFINE Early == \A d \in Devices, i \in DOMAIN devs :
                       it > 0 /\ FirstAt(d, i) /\ ~Registered(d)'
                          => silence[d] + CheckInterval >= devs[i].maxExpires
<1>1. IInv /\ [Next]_vars => Early
  <2> SUFFICES ASSUME IInv, [Next]_vars,
                      NEW d \in Devices, NEW i \in DOMAIN devs,
                      it > 0, FirstAt(d, i), ~Registered(d)'
               PROVE  silence[d] + CheckInterval >= devs[i].maxExpires
    OBVIOUS
  <2> USE DEF IInv
  <2>1. Registered(d) /\ devs[i].id = d /\ i \in 1..Len(devs)
    BY Elements DEF FirstAt, Registered
  <2>2. SweepErase /\ devs[it].id = d
    BY <2>1, OnlyEraseRemoves
  <2>3. it \in 1..Len(devs) /\ i = it /\ devs[it].expires <= CheckInterval
    BY <2>1, <2>2, Elements DEF SweepErase, UniqueIds
  <2>4. Prepaid(it) = 0
    BY <2>3, Elements DEF Prepaid, SweepAwake
  <2>5. silence[devs[it].id] + devs[it].expires + Prepaid(it) >= devs[it].maxExpires
    BY <2>3, Elements DEF LeaseClock
  <2> QED
    BY <2>1, <2>3, <2>4, <2>5, Elements
<1>2. NoEarlyTimeout <=> [][Early]_vars
  BY DEF NoEarlyTimeout
<1> QED
  BY <1>1, <1>2, RegistryInvariant, PTL DEF Spec

-----------------------------------------------------------------------------
(* No device stays after its lease.  For this the invariant has to count    *)
(* the sweeps: a device that c sweeps have charged has been silent for at   *)
(* most c late intervals and what is gone of the next one; and c intervals  *)
(* are less than its lease, for there is something left of it.              *)

Round == CheckInterval + MaxLate

(* The intervals charged make p seconds of the lease, and q with lateness. *)
Behind(i, p, q) ==
    /\ devs[i].maxExpires = devs[i].expires + p
    /\ silence[devs[i].id] + dueIn <= q + IF i < it THEN -MaxLate ELSE CheckInterval

OnTime(i) == \E c \in Nat : Behind(i, c * CheckInterval, c * Round)

SweepsCounted == \A i \in DOMAIN devs : OnTime(i)

(* One round more. *)
LEMMA OneRoundMore ==
    ASSUME NEW c \in Nat
    PROVE  /\ c * CheckInterval \in Nat /\ c * Round \in Nat
           /\ (c + 1) * CheckInterval \in Nat /\ (c + 1) * Round \in Nat
           /\ (c + 1) * CheckInterval = c * CheckInterval + CheckInterval
           /\ (c + 1) * Round = c * Round + CheckInterval + MaxLate
<1>1. PICK r \in Nat : r = Round /\ r = CheckInterval + MaxLate
  BY TimeAssumption DEF Round
<1>2. c * r \in Nat /\ (c + 1) * r \in Nat /\ (c + 1) * r = c * r + r
  OBVIOUS
<1>3. c * CheckInterval \in Nat /\ (c + 1) * CheckInterval \in Nat
  BY TimeAssumption
<1>4. (c + 1) * CheckInterval = c * CheckInterval + CheckInterval
  BY TimeAssumption
<1>5. c * r + r = c * r + CheckInterval + MaxLate
  BY <1>1, <1>2, TimeAssumption
<1> QED
  BY <1>1, <1>2, <1>3, <1>4, <1>5

(* Nothing added. *)
LEMMA NoTermsAdded ==
    ASSUME NEW t \in Int, NEW c \in Nat, t <= c
    PROVE  0 + t <= 0 + c
OBVIOUS

(* A device that was heard from has been charged nothing. *)
LEMMA HeardOnTime ==
    ASSUME TypeOK', NEW j, devs'[j].expires \in Nat, devs'[j].maxExpires = devs'[j].expires,
           silence'[devs'[j].id] = 0, it' = 0, j \in Nat
    PROVE  OnTime(j)'
<1>1. dueIn' <= CheckInterval /\ dueIn' \in Int
  BY TimeAssumption DEF TypeOK
<1>2. 0 * CheckInterval = 0 /\ 0 * Round = 0
  BY TimeAssumption DEF Round
<1>3. Behind(j, 0, 0)'
  <2>1. ~(j < it')
    OBVIOUS
  <2>2. /\ devs'[j].maxExpires = devs'[j].expires + 0
        /\ silence'[devs'[j].id] + dueIn' <= 0 + CheckInterval
    <3>1. PICK e \in Nat, t \in Int : e = devs'[j].expires /\ t = dueIn' /\ t <= CheckInterval
      BY <1>1
    <3>2. e = e + 0
      BY <3>1
    <3>4. CheckInterval \in Nat
      BY TimeAssumption
    <3>5. 0 + t <= 0 + CheckInterval
      BY <3>1, <3>4, NoTermsAdded
    <3>3. devs'[j].maxExpires = devs'[j].expires /\ silence'[devs'[j].id] = 0
      OBVIOUS
    <3> QED
      BY <3>1, <3>2, <3>3, <3>5, Zenon
  <2> QED
    BY <2>1, <2>2 DEF Behind
<1> QED
  BY <1>2, <1>3 DEF OnTime

(* A device that is charged nothing, now or at another place in the list. *)
LEMMA SameOnTime ==
    ASSUME NEW j, NEW k, OnTime(k),
           devs'[j].expires = devs[k].expires, devs'[j].maxExpires = devs[k].maxExpires,
           silence'[devs'[j].id] + dueIn' = silence[devs[k].id] + dueIn,
           j < it' <=> k < it
    PROVE  OnTime(j)'
<1>1. PICK c \in Nat : Behind(k, c * CheckInterval, c * Round)
  BY DEF OnTime
<1>2. PICK p \in Nat, q \in Nat : p = c * CheckInterval /\ q = c * Round
  BY OneRoundMore
<1>3. Behind(j, p, q)'
  BY <1>1, <1>2 DEF Behind
<1> QED
  BY <1>2, <1>3 DEF OnTime

(* A request leaves the devices it is not about alone: they are where they  *)
(* were, or one place further on.                                           *)
LEMMA RequestOnTime ==
    ASSUME IInv, TypeOK', SweepsCounted, NEW d \in Devices, Request(d)
    PROVE  SweepsCounted'
<1> USE DEF IInv
<1>0. /\ it = 0 /\ it' = 0 /\ dueIn' = dueIn
      /\ \A x \in Devices \ {d} : silence'[x] = silence[x]
  BY Elements DEF Request, AppendDevice, KeepAlive, RemoveItem, AppendDeviceChannels,
                  MutexFree, Heard, TypeOK
<1>1. \A i \in 1..Len(devs) : OnTime(i)
  BY Elements DEF SweepsCounted
<1>2. ASSUME NEW j \in Nat, NEW k \in 1..Len(devs), devs[k].id # d, devs'[j] = devs[k]
      PROVE  OnTime(j)'
  <2>1. devs[k].id \in Devices \ {d}
    BY <1>2, Elements
  <2>2. silence'[devs'[j].id] + dueIn' = silence[devs[k].id] + dueIn
    BY <1>0, <1>2, <2>1
  <2>3. j < it' <=> k < it
    BY <1>0, Elements
  <2>4. OnTime(k)
    BY <1>1
  <2> QED
    BY <1>2, <2>2, <2>3, <2>4, SameOnTime
<1>3. ASSUME NEW addr \in Addrs, NEW lease \in Leases, AppendDevice(d, addr, lease)
      PROVE  SweepsCounted'
  <2>0. lease \in Nat \ {0} /\ silence'[d] = 0
    BY <1>3, Elements, TimeAssumption DEF AppendDevice, Heard, TypeOK
  <2>1. CASE RefreshDevice(d, addr, lease)
    <3>1. PICK i \in DOMAIN devs :
              /\ FirstAt(d, i)
              /\ devs' = [devs EXCEPT ![i] = [@ EXCEPT !.addr = addr,
                                                       !.maxExpires = lease,
                                                       !.expires = lease]]
      BY <2>1 DEF RefreshDevice
    <3> DEFINE new == [devs[i] EXCEPT !.addr = addr, !.maxExpires = lease, !.expires = lease]
    <3>2. /\ new \in Device /\ new.id = d /\ devs[i].id = d
          /\ new.expires = lease /\ new.maxExpires = lease
          /\ devs' = [devs EXCEPT ![i] = new]
      BY <2>0, <3>1, Elements, ZenonT(40) DEF Device, FirstAt
    <3> HIDE DEF new
    <3>3. /\ DOMAIN devs' = 1..Len(devs)
          /\ \A j \in 1..Len(devs) : devs'[j] = IF j = i THEN new ELSE devs[j]
      BY <3>2, UpdateProperties
    <3>4. ASSUME NEW j \in 1..Len(devs) PROVE OnTime(j)'
      <4>1. CASE j = i
        BY <1>0, <2>0, <3>2, <3>3, <4>1, HeardOnTime, Elements
      <4>2. CASE j # i
        BY <1>2, <3>2, <3>3, <4>2, Elements DEF UniqueIds
      <4> QED
        BY <4>1, <4>2
    <3> QED
      BY <3>3, <3>4 DEF SweepsCounted
  <2>2. CASE AddDevice(d, addr, lease)
    <3> DEFINE new == NewDevice(d, addr, lease)
    <3>1. /\ new \in Device /\ new.id = d /\ new.expires = lease /\ new.maxExpires = lease
          /\ devs' = Append(devs, new)
      BY <2>0, <2>2 DEF AddDevice, NewDevice, Device
    <3> HIDE DEF new
    <3>2. /\ DOMAIN devs' = 1..(Len(devs) + 1)
          /\ \A j \in 1..Len(devs) : devs'[j] = devs[j]
          /\ devs'[Len(devs) + 1] = new
      BY <3>1, Elements DEF TypeOK
    <3>3. \A j \in 1..Len(devs) : devs[j].id # d
      BY <2>2, Elements DEF AddDevice, Registered
    <3>4. ASSUME NEW j \in 1..(Len(devs) + 1) PROVE OnTime(j)'
      <4>1. CASE j = Len(devs) + 1
        BY <1>0, <2>0, <3>1, <3>2, <4>1, HeardOnTime, Elements, SMTT(40)
      <4>2. CASE j \in 1..Len(devs)
        BY <1>2, <3>2, <3>3, <4>2, Elements
      <4> QED
        BY <4>1, <4>2, Elements
    <3> QED
      BY <3>2, <3>4 DEF SweepsCounted
  <2> QED
    BY <1>3, <2>1, <2>2 DEF AppendDevice
<1>4. ASSUME KeepAlive(d) PROVE SweepsCounted'
  <2>0. silence'[d] = 0
    BY <1>4, Elements DEF KeepAlive, Heard, TypeOK
  <2>1. PICK i \in DOMAIN devs :
            /\ FirstAt(d, i)
            /\ devs' = [devs EXCEPT ![i] = [@ EXCEPT !.expires = devs[i].maxExpires]]
    BY <1>4 DEF KeepAlive
  <2> DEFINE new == [devs[i] EXCEPT !.expires = devs[i].maxExpires]
  <2>2. /\ new \in Device /\ new.id = d /\ devs[i].id = d
        /\ new.expires = devs[i].maxExpires /\ new.maxExpires = devs[i].maxExpires
        /\ devs' = [devs EXCEPT ![i] = new]
    BY <2>1, Elements DEF Device, FirstAt
  <2> HIDE DEF new
  <2>3. /\ DOMAIN devs' = 1..Len(devs)
        /\ \A j \in 1..Len(devs) : devs'[j] = IF j = i THEN new ELSE devs[j]
    BY <2>2, UpdateProperties
  <2>4. ASSUME NEW j \in 1..Len(devs) PROVE OnTime(j)'
    <3>1. CASE j = i
      BY <1>0, <2>0, <2>2, <2>3, <3>1, HeardOnTime, Elements
    <3>2. CASE j # i
      BY <1>2, <2>2, <2>3, <3>2, Elements DEF UniqueIds
    <3> QED
      BY <3>1, <3>2
  <2> QED
    BY <2>3, <2>4 DEF SweepsCounted
<1>5. ASSUME RemoveItem(d) PROVE SweepsCounted'
  <2>1. PICK i \in DOMAIN devs : FirstAt(d, i) /\ devs' = RemoveAt(devs, i)
    BY <1>5 DEF RemoveItem
  <2>2. /\ DOMAIN devs' = 1..(Len(devs) - 1)
        /\ \A j \in 1..(Len(devs) - 1) :
              devs'[j] = IF j < i THEN devs[j] ELSE devs[j + 1]
        /\ \A j \in 1..(Len(devs) - 1) : devs'[j].id # devs[i].id
    BY <2>1, RemovalProperties
  <2>3. ASSUME NEW j \in 1..(Len(devs) - 1) PROVE OnTime(j)'
    <3>1. PICK k \in 1..Len(devs) : devs'[j] = devs[k]
      <4>1. j \in 1..Len(devs) /\ j + 1 \in 1..Len(devs)
        BY <1>1, Elements
      <4>2. devs'[j] = devs[j] \/ devs'[j] = devs[j + 1]
        BY <2>2
      <4> QED
        BY <4>1, <4>2
    <3>2. devs[k].id # d
      BY <2>1, <2>2, <3>1 DEF FirstAt
    <3> QED
      BY <1>2, <3>1, <3>2
  <2> QED
    BY <2>2, <2>3 DEF SweepsCounted
<1>6. ASSUME NEW list \in Seq(Channels), AppendDeviceChannels(d, list) PROVE SweepsCounted'
  <2>0. silence' = silence
    BY <1>6 DEF AppendDeviceChannels
  <2>1. PICK i \in DOMAIN devs :
            /\ FirstAt(d, i)
            /\ devs' = [devs EXCEPT ![i] =
                          [@ EXCEPT !.channels = devs[i].channels \cup ToSet(list)]]
    BY <1>6 DEF AppendDeviceChannels
  <2> DEFINE new == [devs[i] EXCEPT !.channels = devs[i].channels \cup ToSet(list)]
  <2>2. /\ new \in Device /\ new.id = devs[i].id
        /\ new.expires = devs[i].expires /\ new.maxExpires = devs[i].maxExpires
        /\ devs' = [devs EXCEPT ![i] = new]
    <3>1. ToSet(list) \subseteq Channels
      BY LenProperties, ElementOfSeq DEF ToSet
    <3> QED
      BY <3>1, <2>1, Elements DEF Device
  <2> HIDE DEF new
  <2>3. /\ DOMAIN devs' = 1..Len(devs)
        /\ \A j \in 1..Len(devs) : devs'[j] = IF j = i THEN new ELSE devs[j]
    BY <2>2, UpdateProperties
  <2>4. ASSUME NEW j \in 1..Len(devs) PROVE OnTime(j)'
    <3>1. /\ devs'[j].expires = devs[j].expires /\ devs'[j].maxExpires = devs[j].maxExpires
          /\ devs'[j].id = devs[j].id
      BY <2>2, <2>3
    <3>2. silence'[devs'[j].id] + dueIn' = silence[devs[j].id] + dueIn
      BY <1>0, <2>0, <3>1
    <3> QED
      BY <1>0, <1>1, <3>1, <3>2, SameOnTime
  <2> QED
    BY <2>3, <2>4 DEF SweepsCounted
<1>7. Catalogs \subseteq Seq(Channels)
  BY DEF Catalogs, SeqOf
<1> QED
  BY <1>3, <1>4, <1>5, <1>6, <1>7 DEF Request

(* The sweep charges an interval where one has passed. *)
LEMMA SweepKeepOnTime ==
    ASSUME IInv, SweepsCounted, SweepKeep
    PROVE  SweepsCounted'
<1> USE DEF IInv
<1>0. /\ it \in 1..Len(devs) /\ it' = it + 1 /\ dueIn' = dueIn /\ silence' = silence
      /\ devs[it].expires > CheckInterval
  BY Elements DEF SweepKeep
<1> DEFINE new == [devs[it] EXCEPT !.expires = devs[it].expires - CheckInterval]
<1>1. /\ new \in Device /\ new.id = devs[it].id
      /\ new.expires = devs[it].expires - CheckInterval
      /\ new.maxExpires = devs[it].maxExpires
      /\ devs' = [devs EXCEPT ![it] = new]
  <2>1. devs[it].expires - CheckInterval \in Nat \ {0}
    BY <1>0, Elements
  <2> QED
    BY <2>1, <1>0, Elements DEF SweepKeep, Device
<1> HIDE DEF new
<1>2. /\ DOMAIN devs' = 1..Len(devs)
      /\ \A j \in 1..Len(devs) : devs'[j] = IF j = it THEN new ELSE devs[j]
  BY <1>0, <1>1, UpdateProperties, Elements
<1>3. \A i \in 1..Len(devs) : OnTime(i)
  BY Elements DEF SweepsCounted
<1>4. ASSUME NEW j \in 1..Len(devs) PROVE OnTime(j)'
  <2>1. CASE j = it
    <3>1. PICK c \in Nat : Behind(j, c * CheckInterval, c * Round)
      BY <1>3 DEF OnTime
    <3>2. PICK p \in Nat, q \in Nat, p1 \in Nat, q1 \in Nat, n \in Nat :
             /\ p = c * CheckInterval /\ q = c * Round
             /\ n = c + 1 /\ p1 = n * CheckInterval /\ q1 = n * Round
             /\ p1 = p + CheckInterval /\ q1 = q + CheckInterval + MaxLate
      <4>1. (c + 1) \in Nat
        OBVIOUS
      <4>2. /\ c * CheckInterval \in Nat /\ c * Round \in Nat
            /\ (c + 1) * CheckInterval \in Nat /\ (c + 1) * Round \in Nat
            /\ (c + 1) * CheckInterval = c * CheckInterval + CheckInterval
            /\ (c + 1) * Round = c * Round + CheckInterval + MaxLate
        BY OneRoundMore
      <4> QED
        BY <4>1, <4>2, Zenon
    <3>3. /\ devs[j].maxExpires = devs[j].expires + p
          /\ silence[devs[j].id] + dueIn <= q + CheckInterval
      BY <1>0, <2>1, <3>1, <3>2 DEF Behind
    <3>4. /\ devs'[j].maxExpires = devs'[j].expires + p1
          /\ silence'[devs'[j].id] + dueIn' <= q1 + (-MaxLate)
      <4>1. PICK s \in Nat, e \in Nat, m \in Nat, t \in Int :
               s = silence[devs[j].id] /\ e = devs[j].expires /\ m = devs[j].maxExpires /\ t = dueIn
        BY Elements
      <4>2. /\ devs'[j].maxExpires = m /\ devs'[j].expires = e - CheckInterval
            /\ silence'[devs'[j].id] = s /\ dueIn' = t
        BY <1>0, <1>1, <1>2, <2>1, <4>1
      <4>3. m = e + p /\ s + t <= q + CheckInterval
        BY <3>3, <4>1
      <4>4. p1 = p + CheckInterval /\ q1 = q + CheckInterval + MaxLate
        BY <3>2, Zenon
      <4>5. m = (e - CheckInterval) + p1 /\ s + t <= q1 + (-MaxLate)
        BY <4>3, <4>4, TimeAssumption
      <4> QED
        BY <4>2, <4>5
    <3>5. Behind(j, p1, q1)'
      BY <1>0, <2>1, <3>4, Elements DEF Behind
    <3> QED
      BY <3>2, <3>5 DEF OnTime
  <2>2. CASE j # it
    <3>1. devs'[j] = devs[j] /\ (j < it' <=> j < it)
      BY <1>0, <1>2, <2>2
    <3>2. silence'[devs'[j].id] + dueIn' = silence[devs[j].id] + dueIn
      BY <1>0, <3>1
    <3> QED
      BY <1>3, <3>1, <3>2, SameOnTime
  <2> QED
    BY <2>1, <2>2
<1> QED
  BY <1>2, <1>4 DEF SweepsCounted

(* It erases the others; those behind move up, with the place of the sweep  *)
(* before them.                                                             *)
LEMMA SweepEraseOnTime ==
    ASSUME IInv, SweepsCounted, SweepErase
    PROVE  SweepsCounted'
<1> USE DEF IInv
<1>0. /\ it \in 1..Len(devs) /\ it' = it /\ dueIn' = dueIn
      /\ devs' = RemoveAt(devs, it)
      /\ \A x \in Devices \ {devs[it].id} : silence'[x] = silence[x]
  BY Elements DEF SweepErase, Heard, TypeOK
<1>1. /\ DOMAIN devs' = 1..(Len(devs) - 1)
      /\ \A j \in 1..(Len(devs) - 1) :
            devs'[j] = IF j < it THEN devs[j] ELSE devs[j + 1]
      /\ \A j \in 1..(Len(devs) - 1) : devs'[j].id # devs[it].id
  BY <1>0, RemovalProperties, Elements
<1>2. \A i \in 1..Len(devs) : OnTime(i)
  BY Elements DEF SweepsCounted
<1>3. ASSUME NEW j \in 1..(Len(devs) - 1) PROVE OnTime(j)'
  <2>1. PICK k \in 1..Len(devs) : devs'[j] = devs[k] /\ k = IF j < it THEN j ELSE j + 1
    BY <1>1, Elements
  <2>2. devs[k].id \in Devices \ {devs[it].id}
    BY <1>1, <2>1, Elements
  <2>3. silence'[devs'[j].id] + dueIn' = silence[devs[k].id] + dueIn
    BY <1>0, <2>1, <2>2
  <2>4. j < it' <=> k < it
    BY <1>0, <2>1, Elements
  <2> QED
    BY <1>2, <2>1, <2>3, <2>4, SameOnTime
<1> QED
  BY <1>1, <1>3 DEF SweepsCounted

(* When the sweep ends the next interval begins, for every device. *)
LEMMA SweepEndOnTime ==
    ASSUME IInv, SweepsCounted, SweepEnd
    PROVE  SweepsCounted'
<1> USE DEF IInv
<1>0. /\ it > Len(devs) /\ it' = 0 /\ dueIn' = CheckInterval
      /\ dueIn >= -MaxLate /\ devs' = devs /\ silence' = silence
  BY Elements DEF SweepEnd, TypeOK
<1>1. ASSUME NEW j \in 1..Len(devs) PROVE OnTime(j)'
  <2>1. PICK c \in Nat : Behind(j, c * CheckInterval, c * Round)
    BY Elements DEF SweepsCounted, OnTime
  <2>2. PICK p \in Nat, q \in Nat : p = c * CheckInterval /\ q = c * Round
    BY OneRoundMore
  <2>3. /\ devs[j].maxExpires = devs[j].expires + p
        /\ silence[devs[j].id] + dueIn <= q + (-MaxLate)
    <3>1. j < it
      BY <1>0, Elements
    <3> QED
      BY <2>1, <2>2, <3>1 DEF Behind
  <2>4. silence[devs[j].id] + CheckInterval <= q + CheckInterval
    BY <1>0, <2>3, Elements, SMTT(40)
  <2>5. ~(j < it')
    BY <1>0
  <2>6. Behind(j, p, q)'
    BY <1>0, <2>3, <2>4, <2>5 DEF Behind
  <2> QED
    BY <2>2, <2>6 DEF OnTime
<1> QED
  BY <1>0, <1>1, Elements DEF SweepsCounted

(* Every step of the registry counts its sweeps. *)
LEMMA CountedStep ==
    ASSUME IInv, IInv', SweepsCounted, [Next]_vars
    PROVE  SweepsCounted'
<1>0. TypeOK /\ TypeOK' /\ \A i \in 1..Len(devs) : OnTime(i)
  BY Elements DEF IInv, SweepsCounted
<1>1. ASSUME devs' = devs,
             \A i \in 1..Len(devs) : /\ i < it' <=> i < it
                                     /\ silence'[devs[i].id] + dueIn'
                                          = silence[devs[i].id] + dueIn
      PROVE  SweepsCounted'
  <2>1. ASSUME NEW j \in 1..Len(devs) PROVE OnTime(j)'
    BY <1>0, <1>1, SameOnTime
  <2> QED
    BY <1>0, <1>1, <2>1, Elements DEF SweepsCounted
<1>2. CASE \E d \in Devices : Request(d)
  BY <1>0, <1>2, RequestOnTime
<1>3. CASE SweepStart
  <2>1. it = 0 /\ it' = 1 /\ UNCHANGED <<devs, dueIn, silence>>
    BY <1>3 DEF SweepStart, MutexFree
  <2> QED
    BY <1>1, <2>1
<1>4. CASE SweepKeep
  BY <1>4, SweepKeepOnTime
<1>5. CASE SweepErase
  BY <1>5, SweepEraseOnTime
<1>6. CASE SweepEnd
  BY <1>6, SweepEndOnTime
<1>7. CASE Second
  <2>1. devs' = devs /\ it' = it
    BY <1>7 DEF Second
  <2>2. ASSUME NEW i \in 1..Len(devs)
        PROVE  silence'[devs[i].id] + dueIn' = silence[devs[i].id] + dueIn
    <3>1. silence'[devs[i].id] = silence[devs[i].id] + 1 /\ dueIn' = dueIn - 1
      BY <1>0, <1>7, Elements DEF Second, Registered
    <3>2. silence[devs[i].id] \in Nat /\ dueIn \in Int
      BY <1>0, Elements
    <3> QED
      BY <3>1, <3>2
  <2> QED
    BY <1>1, <2>1, <2>2
<1>8. CASE DeliverSignal \/ UNCHANGED vars
  <2>1. UNCHANGED <<devs, it, dueIn, silence>>
    BY <1>8 DEF DeliverSignal, vars
  <2> QED
    BY <1>1, <2>1
<1> QED
  BY <1>2, <1>3, <1>4, <1>5, <1>6, <1>7, <1>8 DEF Next, Sweep

(* A quotient is the largest of the factors that fit. *)
LEMMA Quotient ==
    ASSUME NEW n \in Nat, NEW d \in Nat \ {0}, NEW k \in Nat, k * d <= n
    PROVE  n \div d \in Nat /\ k <= n \div d
OBVIOUS

(* c intervals that leave something of the lease are one less than it has,  *)
(* full or started.                                                         *)
LEMMA IntervalsLeft ==
    ASSUME NEW c \in Nat, NEW m \in Nat, c * CheckInterval < m
    PROVE  /\ Intervals(m) \in Nat
           /\ (c + 1) * Round <= Intervals(m) * Round
<1>1. CheckInterval \in Nat \ {0} /\ Round \in Nat
  BY TimeAssumption DEF Round
<1>2. Intervals(m) \in Nat /\ c + 1 <= Intervals(m)
  <2>1. PICK n \in Nat, k \in Nat : n = m + CheckInterval - 1 /\ k = c + 1
    BY <1>1
  <2>2. k * CheckInterval <= n
    BY <1>1, <2>1, OneRoundMore
  <2>3. n \div CheckInterval \in Nat /\ k <= n \div CheckInterval
    BY <1>1, <2>2, Quotient
  <2> QED
    BY <2>1, <2>3 DEF Intervals
<1>3. PICK z \in Nat : Intervals(m) = (c + 1) + z
  <2>1. Intervals(m) - (c + 1) \in Nat /\ Intervals(m) = (c + 1) + (Intervals(m) - (c + 1))
    BY <1>2
  <2> QED
    BY <2>1
<1>4. Intervals(m) * Round = (c + 1) * Round + z * Round
  BY <1>1, <1>3
<1>5. z * Round \in Nat /\ (c + 1) * Round \in Nat
  BY <1>1
<1> QED
  BY <1>2, <1>4, <1>5

(* The sweeps are counted in every behaviour. *)
THEOREM SweepsCountedHolds == Spec => []SweepsCounted
<1>1. Init => SweepsCounted
  <2>1. SUFFICES ASSUME Init PROVE DOMAIN devs = {}
    BY DEF SweepsCounted
  <2> QED
    BY <2>1 DEF Init
<1>2. IInv /\ IInv' /\ SweepsCounted /\ [Next]_vars => SweepsCounted'
  BY CountedStep
<1> QED
  BY <1>1, <1>2, RegistryInvariant, PTL DEF Spec

(* A silent device stays for at most as many late intervals as its lease    *)
(* has, however late every single sweep is.                                 *)
THEOREM NoStaleDeviceHolds == Spec => []NoStaleDevice
<1>1. ASSUME IInv, SweepsCounted PROVE NoStaleDevice
  <2>0. TypeOK
    BY <1>1 DEF IInv
  <2>1. SUFFICES ASSUME NEW i \in 1..Len(devs)
                 PROVE  silence[devs[i].id] <= Intervals(devs[i].maxExpires) * Round
    BY <2>0, Elements DEF NoStaleDevice, Round
  <2>2. PICK c \in Nat : Behind(i, c * CheckInterval, c * Round)
    BY <1>1, <2>0, Elements DEF SweepsCounted, OnTime
  <2>3. PICK m \in Nat, s \in Nat, e \in Nat \ {0} :
           m = devs[i].maxExpires /\ s = silence[devs[i].id] /\ e = devs[i].expires
    BY <2>0, Elements
  <2>4. PICK p \in Nat, q \in Nat, q1 \in Nat :
           /\ p = c * CheckInterval /\ q = c * Round
           /\ q1 = (c + 1) * Round /\ q1 = q + CheckInterval + MaxLate
    BY OneRoundMore, Zenon
  <2>5. m = e + p /\ s + dueIn <= q + CheckInterval /\ dueIn >= -MaxLate /\ dueIn \in Int
    <3>1. dueIn >= -MaxLate /\ dueIn \in Int
      BY <2>0, TimeAssumption DEF TypeOK
    <3>2. m = e + p /\ s + dueIn <= q + IF i < it THEN -MaxLate ELSE CheckInterval
      BY <2>2, <2>3, <2>4 DEF Behind
    <3>3. s + dueIn <= q + CheckInterval
      BY <3>1, <3>2, TimeAssumption
    <3> QED
      BY <3>1, <3>2, <3>3
  <2>6. s <= q1
    BY <2>4, <2>5, TimeAssumption
  <2>7. c * CheckInterval < m
    BY <2>3, <2>4, <2>5
  <2>8. /\ Intervals(m) \in Nat /\ (c + 1) * Round <= Intervals(m) * Round
    BY <2>7, IntervalsLeft
  <2>9. Intervals(m) * Round \in Nat
    BY <2>8, TimeAssumption DEF Round
  <2> QED
    BY <2>3, <2>4, <2>6, <2>8, <2>9
<1> QED
  BY <1>1, RegistryInvariant, SweepsCountedHolds, PTL

-----------------------------------------------------------------------------
(* The registry implements the lease service: every behaviour of            *)
(* DeviceInfos is one of LeaseService when only the registered devices,     *)
(* with their address and lease, their silence, and whether a sweep is      *)
(* going on are looked at.                                                  *)

LeaseOf(i) == [addr |-> devs[i].addr, term |-> devs[i].maxExpires]

(* With unique ids, the lease of a device is that of its list element. *)
Mapped == /\ DOMAIN LeasesHeld = {devs[i].id : i \in 1..Len(devs)}
          /\ \A i \in 1..Len(devs) : LeasesHeld[devs[i].id] = LeaseOf(i)
          /\ LeasesHeld = [d \in DOMAIN LeasesHeld |-> LeasesHeld[d]]

(* The mapping is well defined: unique ids make it a function of the list. *)
LEMMA MappedHolds == IInv => Mapped
<1> SUFFICES ASSUME IInv PROVE Mapped
  OBVIOUS
<1> USE DEF IInv
<1>1. /\ DOMAIN LeasesHeld = {devs[i].id : i \in 1..Len(devs)}
      /\ LeasesHeld = [d \in DOMAIN LeasesHeld |-> LeasesHeld[d]]
  BY Elements DEF LeasesHeld
<1>2. ASSUME NEW i \in 1..Len(devs)
      PROVE  LeasesHeld[devs[i].id] = LeaseOf(i)
  <2>1. ItemOf(devs[i].id) = i
    BY Elements DEF ItemOf, UniqueIds
  <2>2. devs[i].id \in {devs[k].id : k \in DOMAIN devs}
    BY Elements
  <2> QED
    BY <2>1, <2>2 DEF LeasesHeld, LeaseOf
<1> QED
  BY <1>1, <1>2 DEF Mapped

(* So it is in the next state. *)
LEMMA MappedNext == IInv' => Mapped'
BY MappedHolds, PTL

(* A step that changes no id, address or lease changes no lease held. *)
LEMMA SameLeases ==
    ASSUME IInv, IInv',
           Len(devs') = Len(devs),
           \A j \in 1..Len(devs) : /\ devs'[j].id = devs[j].id
                                   /\ devs'[j].addr = devs[j].addr
                                   /\ devs'[j].maxExpires = devs[j].maxExpires
    PROVE  LeasesHeld' = LeasesHeld
<1>0. Mapped /\ Mapped'
  BY MappedHolds, MappedNext
<1>1. DOMAIN LeasesHeld' = DOMAIN LeasesHeld
  BY <1>0 DEF Mapped
<1>2. ASSUME NEW d \in DOMAIN LeasesHeld
      PROVE  LeasesHeld'[d] = LeasesHeld[d]
  <2>1. PICK j \in 1..Len(devs) : devs[j].id = d
    BY <1>0 DEF Mapped
  <2>2. LeasesHeld[d] = [addr |-> devs[j].addr, term |-> devs[j].maxExpires]
    BY <2>1, <1>0 DEF Mapped, LeaseOf
  <2>3. LeasesHeld'[d] = [addr |-> devs'[j].addr, term |-> devs'[j].maxExpires]
    BY <2>1, <1>0 DEF Mapped, LeaseOf
  <2> QED
    BY <2>2, <2>3
<1> QED
  BY <1>0, <1>1, <1>2 DEF Mapped

(* Removing a list element ends the lease of that device and no other. *)
LEMMA LeaseEnds ==
    ASSUME IInv, IInv', NEW i \in 1..Len(devs), devs' = RemoveAt(devs, i)
    PROVE  /\ devs[i].id \in DOMAIN LeasesHeld
           /\ LeasesHeld[devs[i].id] = LeaseOf(i)
           /\ LeasesHeld' = Service!Without(devs[i].id)
<1> DEFINE d == devs[i].id
<1>0. Mapped /\ Mapped'
  BY MappedHolds, MappedNext
<1>1. d \in DOMAIN LeasesHeld /\ LeasesHeld[d] = LeaseOf(i)
  BY <1>0 DEF Mapped
<1>2. /\ Len(devs') = Len(devs) - 1
      /\ \A j \in 1..(Len(devs) - 1) :
            devs'[j] = IF j < i THEN devs[j] ELSE devs[j + 1]
      /\ \A j \in 1..(Len(devs) - 1) : devs'[j].id # d
  BY RemovalProperties, Elements DEF IInv
<1>3. ASSUME NEW k \in 1..Len(devs), k # i
      PROVE  \E j \in 1..(Len(devs) - 1) : devs'[j] = devs[k]
  <2>1. CASE k < i
    <3>1. k \in 1..(Len(devs) - 1) /\ devs'[k] = devs[k]
      BY <2>1, <1>2, Elements DEF IInv
    <3> QED
      BY <3>1
  <2>2. CASE k > i
    <3>1. k - 1 \in 1..(Len(devs) - 1) /\ devs'[k - 1] = devs[k]
      BY <2>2, <1>2, Elements DEF IInv
    <3> QED
      BY <3>1
  <2> QED
    BY <2>1, <2>2, <1>3, Elements DEF IInv
<1>4. ASSUME NEW j \in 1..(Len(devs) - 1)
      PROVE  \E k \in 1..Len(devs) : devs'[j] = devs[k]
  <2>1. (IF j < i THEN j ELSE j + 1) \in 1..Len(devs)
    BY Elements DEF IInv
  <2>2. devs'[j] = devs[IF j < i THEN j ELSE j + 1]
    BY <1>2
  <2> QED
    BY <2>1, <2>2
<1>5. DOMAIN LeasesHeld' = DOMAIN LeasesHeld \ {d}
  <2>1. ASSUME NEW x \in DOMAIN LeasesHeld' PROVE x \in DOMAIN LeasesHeld \ {d}
    BY <1>0, <1>2, <1>4 DEF Mapped
  <2>2. ASSUME NEW x \in DOMAIN LeasesHeld \ {d} PROVE x \in DOMAIN LeasesHeld'
    <3>1. PICK k \in 1..Len(devs) : devs[k].id = x
      BY <1>0 DEF Mapped
    <3>2. PICK j \in 1..(Len(devs) - 1) : devs'[j] = devs[k]
      BY <3>1, <1>3
    <3> QED
      BY <3>1, <3>2, <1>0, <1>2 DEF Mapped
  <2> QED
    BY <2>1, <2>2
<1>6. ASSUME NEW x \in DOMAIN LeasesHeld \ {d}
      PROVE  LeasesHeld'[x] = LeasesHeld[x]
  <2>1. PICK k \in 1..Len(devs) : devs[k].id = x
    BY <1>0 DEF Mapped
  <2>2. PICK j \in 1..(Len(devs) - 1) : devs'[j] = devs[k]
    BY <2>1, <1>3
  <2>3. LeasesHeld[x] = [addr |-> devs[k].addr, term |-> devs[k].maxExpires]
    BY <2>1, <1>0 DEF Mapped, LeaseOf
  <2>4. LeasesHeld'[x] = [addr |-> devs'[j].addr, term |-> devs'[j].maxExpires]
    BY <2>1, <2>2, <1>0, <1>2 DEF Mapped, LeaseOf
  <2> QED
    BY <2>2, <2>3, <2>4
<1>7. LeasesHeld' = [x \in DOMAIN LeasesHeld \ {d} |-> LeasesHeld[x]]
  BY <1>0, <1>5, <1>6 DEF Mapped
<1> QED
  BY <1>1, <1>7 DEF Service!Without

-----------------------------------------------------------------------------
(* Each action is a step of the service, or no step at all.                 *)

(* appendDevice is Register, for a new device and for a known one. *)
LEMMA AppendDeviceRegisters ==
    ASSUME IInv, IInv', NEW d \in Devices, NEW addr \in Addrs, NEW lease \in Leases,
           AppendDevice(d, addr, lease)
    PROVE  Service!Register(d, addr, lease)
<1> USE DEF IInv
<1>0. Mapped /\ Mapped'
  BY MappedHolds, MappedNext
<1> SUFFICES /\ DOMAIN LeasesHeld' = DOMAIN LeasesHeld \cup {d}
             /\ LeasesHeld'[d] = [addr |-> addr, term |-> lease]
             /\ \A x \in DOMAIN LeasesHeld : x # d => LeasesHeld'[x] = LeasesHeld[x]
  BY <1>0, SMTT(40) DEF Service!Register, AppendDevice, Heard, MutexFree, Mapped
<1>1. CASE RefreshDevice(d, addr, lease)
  <2>1. PICK i \in DOMAIN devs :
            /\ FirstAt(d, i)
            /\ devs' = [devs EXCEPT ![i] = [@ EXCEPT !.addr = addr,
                                                     !.maxExpires = lease,
                                                     !.expires = lease]]
    BY <1>1 DEF RefreshDevice
  <2> DEFINE new == [devs[i] EXCEPT !.addr = addr, !.maxExpires = lease, !.expires = lease]
  <2>2. /\ new \in Device /\ new.id = d /\ devs[i].id = d /\ i \in 1..Len(devs)
        /\ new.addr = addr /\ new.maxExpires = lease
        /\ devs' = [devs EXCEPT ![i] = new]
    BY <2>1, Elements, TimeAssumption DEF Device, FirstAt
  <2> HIDE DEF new
  <2>3. /\ Len(devs') = Len(devs)
        /\ \A j \in 1..Len(devs) : devs'[j] = IF j = i THEN new ELSE devs[j]
    BY <2>2, UpdateProperties
  <2>4. DOMAIN LeasesHeld' = DOMAIN LeasesHeld /\ d \in DOMAIN LeasesHeld
    BY <1>0, <2>2, <2>3 DEF Mapped
  <2>5. LeasesHeld'[d] = [addr |-> addr, term |-> lease]
    BY <1>0, <2>2, <2>3 DEF Mapped, LeaseOf
  <2>6. ASSUME NEW x \in DOMAIN LeasesHeld, x # d
        PROVE  LeasesHeld'[x] = LeasesHeld[x]
    <3>1. PICK k \in 1..Len(devs) : devs[k].id = x
      BY <1>0 DEF Mapped
    <3>2. k # i /\ devs'[k] = devs[k]
      BY <3>1, <2>2, <2>3, <2>6
    <3>3. LeasesHeld[x] = [addr |-> devs[k].addr, term |-> devs[k].maxExpires]
      BY <3>1, <1>0 DEF Mapped, LeaseOf
    <3>4. LeasesHeld'[x] = [addr |-> devs'[k].addr, term |-> devs'[k].maxExpires]
      BY <3>1, <3>2, <2>3, <1>0 DEF Mapped, LeaseOf
    <3> QED
      BY <3>2, <3>3, <3>4
  <2> QED
    BY <2>4, <2>5, <2>6
<1>2. CASE AddDevice(d, addr, lease)
  <2> DEFINE n == Len(devs) + 1
  <2>1. /\ Len(devs') = n
        /\ \A j \in 1..Len(devs) : devs'[j] = devs[j]
        /\ devs'[n].id = d /\ devs'[n].addr = addr /\ devs'[n].maxExpires = lease
    <3> DEFINE new == NewDevice(d, addr, lease)
    <3>1. new.id = d /\ new.addr = addr /\ new.maxExpires = lease
      BY DEF NewDevice
    <3>2. devs' = Append(devs, new) /\ devs \in Seq(Device)
      BY <1>2 DEF AddDevice, TypeOK
    <3> HIDE DEF new
    <3>3. Len(devs') = n /\ devs'[n] = new /\ \A j \in 1..Len(devs) : devs'[j] = devs[j]
      BY <3>2, Elements
    <3> QED
      BY <3>1, <3>3
  <2>2. n \in 1..n /\ 1..n = 1..Len(devs) \cup {n}
    BY Elements
  <2>3. \A j \in 1..Len(devs) : devs[j].id # d
    BY <1>2, Elements DEF AddDevice, Registered
  <2>4. DOMAIN LeasesHeld' = DOMAIN LeasesHeld \cup {d}
    BY <1>0, <2>1, <2>2 DEF Mapped
  <2>5. LeasesHeld'[d] = [addr |-> addr, term |-> lease]
    BY <1>0, <2>1, <2>2 DEF Mapped, LeaseOf
  <2>6. ASSUME NEW x \in DOMAIN LeasesHeld
        PROVE  LeasesHeld'[x] = LeasesHeld[x]
    <3>1. PICK k \in 1..Len(devs) : devs[k].id = x
      BY <1>0 DEF Mapped
    <3>2. devs'[k] = devs[k] /\ k \in 1..n
      BY <3>1, <2>1, <2>2
    <3>3. LeasesHeld[x] = [addr |-> devs[k].addr, term |-> devs[k].maxExpires]
      BY <3>1, <1>0 DEF Mapped, LeaseOf
    <3>4. LeasesHeld'[x] = [addr |-> devs'[k].addr, term |-> devs'[k].maxExpires]
      BY <3>1, <3>2, <2>1, <1>0 DEF Mapped, LeaseOf
    <3> QED
      BY <3>2, <3>3, <3>4
  <2> QED
    BY <2>4, <2>5, <2>6
<1> QED
  BY <1>1, <1>2 DEF AppendDevice

(* keepAlive is Heartbeat. *)
LEMMA KeepAliveBeats ==
    ASSUME IInv, IInv', NEW d \in Devices, KeepAlive(d)
    PROVE  Service!Heartbeat(d)
<1> USE DEF IInv
<1>1. PICK i \in DOMAIN devs :
          /\ FirstAt(d, i)
          /\ devs' = [devs EXCEPT ![i] = [@ EXCEPT !.expires = devs[i].maxExpires]]
  BY DEF KeepAlive
<1> DEFINE new == [devs[i] EXCEPT !.expires = devs[i].maxExpires]
<1>2. /\ new \in Device /\ new.id = d /\ devs[i].id = d /\ i \in 1..Len(devs)
      /\ new.addr = devs[i].addr /\ new.maxExpires = devs[i].maxExpires
      /\ devs' = [devs EXCEPT ![i] = new]
  BY <1>1, Elements DEF Device, FirstAt
<1> HIDE DEF new
<1>3. /\ Len(devs') = Len(devs)
      /\ \A j \in 1..Len(devs) : devs'[j] = IF j = i THEN new ELSE devs[j]
  BY <1>2, UpdateProperties
<1>4. LeasesHeld' = LeasesHeld
  BY <1>2, <1>3, SameLeases
<1>5. d \in DOMAIN LeasesHeld
  BY <1>2, MappedHolds DEF Mapped
<1> QED
  BY <1>4, <1>5 DEF Service!Heartbeat, KeepAlive, Heard, MutexFree

(* A catalog changes no lease. *)
LEMMA AppendDeviceChannelsStutters ==
    ASSUME IInv, IInv', NEW d \in Devices, NEW list \in Seq(Channels),
           AppendDeviceChannels(d, list)
    PROVE  UNCHANGED Service!vars
<1> USE DEF IInv
<1>1. PICK i \in DOMAIN devs :
          devs' = [devs EXCEPT ![i] =
                     [@ EXCEPT !.channels = devs[i].channels \cup ToSet(list)]]
  BY DEF AppendDeviceChannels
<1> DEFINE new == [devs[i] EXCEPT !.channels = devs[i].channels \cup ToSet(list)]
<1>2. /\ new \in Device /\ new.id = devs[i].id /\ i \in 1..Len(devs)
      /\ new.addr = devs[i].addr /\ new.maxExpires = devs[i].maxExpires
      /\ devs' = [devs EXCEPT ![i] = new]
  <2>1. ToSet(list) \subseteq Channels
    BY LenProperties, ElementOfSeq DEF ToSet
  <2> QED
    BY <2>1, <1>1, Elements DEF Device
<1> HIDE DEF new
<1>3. /\ Len(devs') = Len(devs)
      /\ \A j \in 1..Len(devs) : devs'[j] = IF j = i THEN new ELSE devs[j]
  BY <1>2, UpdateProperties
<1>4. LeasesHeld' = LeasesHeld
  BY <1>2, <1>3, SameLeases
<1> QED
  BY <1>4 DEF Service!vars, AppendDeviceChannels

(* removeItem is Logout. *)
LEMMA RemoveItemLogsOut ==
    ASSUME IInv, IInv', NEW d \in Devices, RemoveItem(d)
    PROVE  Service!Logout(d)
<1>1. PICK i \in 1..Len(devs) : devs[i].id = d /\ devs' = RemoveAt(devs, i)
  BY Elements DEF RemoveItem, FirstAt, IInv
<1> QED
  BY <1>1, LeaseEnds DEF RemoveItem, Heard, MutexFree, Service!Logout, Service!End

(* Charging a device changes no lease. *)
LEMMA SweepKeepStutters ==
    ASSUME IInv, IInv', SweepKeep
    PROVE  UNCHANGED Service!vars
<1> USE DEF IInv
<1> DEFINE new == [devs[it] EXCEPT !.expires = devs[it].expires - CheckInterval]
<1>0. it \in 1..Len(devs) /\ devs[it].expires - CheckInterval \in Nat \ {0}
  BY Elements DEF SweepKeep
<1>1. /\ new \in Device /\ new.id = devs[it].id
      /\ new.addr = devs[it].addr /\ new.maxExpires = devs[it].maxExpires
      /\ devs' = [devs EXCEPT ![it] = new]
  BY <1>0, Elements DEF SweepKeep, Device
<1> HIDE DEF new
<1>2. /\ Len(devs') = Len(devs)
      /\ \A j \in 1..Len(devs) : devs'[j] = IF j = it THEN new ELSE devs[j]
  BY <1>0, <1>1, UpdateProperties, Elements
<1>3. LeasesHeld' = LeasesHeld
  BY <1>1, <1>2, SameLeases
<1>4. it > 0 /\ it' > 0
  BY <1>0, Elements DEF SweepKeep
<1> QED
  BY <1>3, <1>4 DEF Service!vars, SweepKeep

(* Erasing a device is Expire: LeaseClock says it was silent long enough. *)
LEMMA SweepEraseExpires ==
    ASSUME IInv, IInv', SweepErase
    PROVE  \E d \in Devices : Service!Expire(d)
<1> USE DEF IInv
<1> DEFINE d == devs[it].id
<1>1. /\ it \in 1..Len(devs) /\ d \in Devices /\ devs' = RemoveAt(devs, it)
      /\ devs[it].expires <= CheckInterval
      /\ silence' = [silence EXCEPT ![d] = 0]
  BY Elements DEF SweepErase, Heard
<1>2. /\ d \in DOMAIN LeasesHeld
      /\ LeasesHeld[d] = LeaseOf(it)
      /\ LeasesHeld' = Service!Without(d)
  BY <1>1, LeaseEnds
<1>3. silence[d] + CheckInterval >= devs[it].maxExpires
  <2>1. Prepaid(it) = 0
    BY <1>1, Elements DEF Prepaid, SweepAwake
  <2>2. silence[d] + devs[it].expires + Prepaid(it) >= devs[it].maxExpires
    BY <1>1, Elements DEF LeaseClock
  <2> QED
    BY <2>1, <2>2, <1>1, Elements
<1>4. LeasesHeld[d].term = devs[it].maxExpires
  BY <1>2 DEF LeaseOf
<1>5. it > 0 /\ it' = it
  BY <1>1 DEF SweepErase
<1>6. Service!Expire(d)
  BY <1>1, <1>2, <1>3, <1>4, <1>5 DEF Service!Expire, Service!End
<1> QED
  BY <1>1, <1>6

(* A second is Tick. *)
LEMMA SecondTicks ==
    ASSUME IInv, IInv', Second
    PROVE  Service!Tick
<1>1. devs' = devs
  BY DEF Second
<1>2. LeasesHeld' = LeasesHeld
  BY <1>1, SameLeases
<1>3. \A d \in Devices : Registered(d) <=> d \in DOMAIN LeasesHeld
  BY MappedHolds, Elements DEF Mapped, Registered, IInv
<1> QED
  BY <1>2, <1>3 DEF Service!Tick, Second

(* A sweep begins and ends a check. *)
LEMMA SweepChecks ==
    ASSUME IInv, IInv', SweepStart \/ SweepEnd
    PROVE  Service!Check
<1>1. devs' = devs /\ silence' = silence
  BY DEF SweepStart, SweepEnd
<1>2. (it' > 0) = ~(it > 0)
  BY Elements DEF SweepStart, SweepEnd, MutexFree, IInv
<1> QED
  BY <1>1, <1>2, SameLeases DEF Service!Check

(* Other steps change neither the registry nor the silence. *)
LEMMA OthersStutter ==
    ASSUME IInv, IInv', DeliverSignal \/ UNCHANGED vars
    PROVE  UNCHANGED Service!vars
<1>1. devs' = devs /\ silence' = silence /\ it' = it
  BY DEF DeliverSignal, vars
<1> QED
  BY <1>1, SameLeases DEF Service!vars

(* The empty registry is the empty service. *)
LEMMA ServiceInit == Init => Service!Init
<1> SUFFICES ASSUME Init PROVE Service!Init
  OBVIOUS
<1>1. Mapped
  BY InvInit, MappedHolds
<1>2. DOMAIN LeasesHeld = {}
  BY <1>1 DEF Mapped, Init
<1>3. LeasesHeld = [d \in {} |-> 0]
  BY <1>1, <1>2 DEF Mapped
<1> QED
  BY <1>3 DEF Service!Init, Init

(* Every step of the registry is a step of the service or no step. *)
LEMMA ServiceStep ==
    IInv /\ IInv' /\ [Next]_vars => [Service!Next]_(Service!vars)
<1> SUFFICES ASSUME IInv, IInv', [Next]_vars
             PROVE  [Service!Next]_(Service!vars)
  OBVIOUS
<1>1. CASE \E d \in Devices : Request(d)
  <2>1. PICK d \in Devices : Request(d)
    BY <1>1
  <2>2. Catalogs \subseteq Seq(Channels)
    BY DEF Catalogs, SeqOf
  <2>3. CASE \E addr \in Addrs, lease \in Leases : AppendDevice(d, addr, lease)
    BY <2>3, AppendDeviceRegisters DEF Service!Next
  <2>4. CASE KeepAlive(d)
    BY <2>4, KeepAliveBeats DEF Service!Next
  <2>5. CASE RemoveItem(d)
    BY <2>5, RemoveItemLogsOut DEF Service!Next
  <2>6. CASE \E list \in Catalogs : AppendDeviceChannels(d, list)
    BY <2>6, <2>2, AppendDeviceChannelsStutters
  <2> QED
    BY <2>1, <2>3, <2>4, <2>5, <2>6 DEF Request
<1>2. CASE Sweep
  BY <1>2, SweepKeepStutters, SweepEraseExpires, SweepChecks DEF Sweep, Service!Next
<1>3. CASE Second
  BY <1>3, SecondTicks DEF Service!Next
<1>4. CASE DeliverSignal \/ UNCHANGED vars
  BY <1>4, OthersStutter
<1> QED
  BY <1>1, <1>2, <1>3, <1>4 DEF Next

(* The registry implements the lease service: a device holds a lease from   *)
(* the REGISTER that grants it until it logs out, or has been silent for    *)
(* the term of the lease less one check interval.                           *)
THEOREM RegistryImplementsLeases == Spec => LeaseRefinement
<1>1. Init => Service!Init
  BY ServiceInit
<1>2. IInv /\ IInv' /\ [Next]_vars => [Service!Next]_(Service!vars)
  BY ServiceStep
<1> QED
  BY <1>1, <1>2, RegistryInvariant, PTL DEF Spec, LeaseRefinement, Service!Spec
=============================================================================
