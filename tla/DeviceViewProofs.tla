--------------------------- MODULE DeviceViewProofs ---------------------------
(***************************************************************************)
(* Proofs about the device tree, for every set of devices and channels,    *)
(* every length of a catalog and of the queue of signals.                  *)
(***************************************************************************)
EXTENDS DeviceView, DeviceInfosProofs, SequenceLemmas

-----------------------------------------------------------------------------
(* The invariant.                                                           *)

(* What a tree shows, the channels of a device as a set. *)
ViewNode == [dev : Devices, chans : SUBSET Channels]

Distinct(t) == \A i, j \in DOMAIN t : t[i].dev = t[j].dev => i = j

(* The signals ss make the tree t into r, through trees that show no device *)
(* twice.  (The registry was r when the last of them was sent, and what it  *)
(* was when the first was sent shows no device twice either.)               *)
Run(v, t, ss, r) ==
    /\ v[0] = t /\ v[Len(ss)] = r
    /\ \A k \in 1..Len(ss) : v[k] = Handled(v[k - 1], ss[k])
    /\ \A k \in 0..Len(ss) : Distinct(v[k])

Makes(t, ss, r) == \E v \in [0..Len(ss) -> Seq(ViewNode)] : Run(v, t, ss, r)

ChannelsOnce == \A i \in DOMAIN tree : IsInjective(tree[i].chans)

(* The loop of deviceRemoved has left no node of the device behind it: the  *)
(* one it skips after a deletion is another device's.                       *)
ScanBehind ==
    scan > 0 => /\ signals # <<>> /\ Head(signals).kind = "deviceRemoved"
                /\ \A i \in DOMAIN tree : i < scan => tree[i].dev # Head(signals).dev

ViewInv == /\ IInv
           /\ ViewTypeOK
           /\ ChannelsOnce
           /\ ScanBehind
           /\ Makes(Shown, signals, RegistryView)

-----------------------------------------------------------------------------
(* What the slots make of a tree. *)

(* A view, spelled out. *)
LEMMA ViewElements ==
    ASSUME NEW t \in Seq(ViewNode)
    PROVE  /\ Len(t) \in Nat /\ DOMAIN t = 1..Len(t) /\ t \in [1..Len(t) -> ViewNode]
           /\ \A i \in 1..Len(t) : /\ t[i] \in ViewNode /\ t[i].dev \in Devices
                                   /\ t[i].chans \in SUBSET Channels
<1>1. Len(t) \in Nat /\ DOMAIN t = 1..Len(t) /\ t \in [1..Len(t) -> ViewNode]
  BY LenProperties
<1>2. \A i \in 1..Len(t) : t[i] \in ViewNode
  BY <1>1
<1> QED
  BY <1>1, <1>2 DEF ViewNode

(* A node with channels added, spelled out. *)
LEMMA NodeWith ==
    ASSUME NEW a, NEW b, NEW r \in ViewNode, r.dev = a, r.chans = b, NEW cs
    PROVE  [r EXCEPT !.chans = r.chans \cup cs] = [dev |-> a, chans |-> b \cup cs]
BY DEF ViewNode

(* deviceAppended adds a node without channels. *)
LEMMA HandledAppended ==
    ASSUME NEW t, NEW s, s.kind = "deviceAppended"
    PROVE  Handled(t, s) = Append(t, [dev |-> s.dev, chans |-> {}])
BY DEF Handled

(* deviceRemoved takes out the node of the device, or does nothing. *)
LEMMA HandledRemoved ==
    ASSUME NEW t, NEW s, s.kind = "deviceRemoved", Distinct(t)
    PROVE  /\ \A i \in DOMAIN t : t[i].dev = s.dev => Handled(t, s) = RemoveAt(t, i)
           /\ (\A i \in DOMAIN t : t[i].dev # s.dev) => Handled(t, s) = t
<1>1. ASSUME NEW i \in DOMAIN t, t[i].dev = s.dev
      PROVE  (CHOOSE j \in DOMAIN t : t[j].dev = s.dev) = i
  BY <1>1 DEF Distinct
<1> QED
  BY <1>1 DEF Handled

(* channelReceived adds the channel to the node of the device. *)
LEMMA HandledChannel ==
    ASSUME NEW t, NEW s, s.kind = "channelReceived"
    PROVE  Handled(t, s) =
              [i \in DOMAIN t |-> IF t[i].dev = s.dev
                                  THEN [t[i] EXCEPT !.chans = @ \cup {s.chan}] ELSE t[i]]
BY DEF Handled

-----------------------------------------------------------------------------
(* Runs of signals. *)

(* Nothing waits: the tree is the registry. *)
LEMMA MakesNone ==
    ASSUME NEW t \in Seq(ViewNode), Distinct(t)
    PROVE  Makes(t, <<>>, t)
<1> DEFINE v == [k \in 0..0 |-> t]
<1>1. v \in [0..0 -> Seq(ViewNode)] /\ Len(<<>>) = 0
  OBVIOUS
<1>2. Run(v, t, <<>>, t)
  BY <1>1 DEF Run
<1> QED
  BY <1>1, <1>2 DEF Makes

(* A signal more. *)
LEMMA MakesAppend ==
    ASSUME NEW t, NEW r, NEW ss \in Seq(Signal), NEW s \in Signal, Makes(t, ss, r),
           Handled(r, s) \in Seq(ViewNode), Distinct(Handled(r, s))
    PROVE  Makes(t, Append(ss, s), Handled(r, s))
<1>1. PICK v \in [0..Len(ss) -> Seq(ViewNode)] : Run(v, t, ss, r)
  BY DEF Makes
<1>2. PICK n \in Nat : n = Len(ss)
  BY LenProperties
<1>3. /\ Len(Append(ss, s)) = n + 1
      /\ \A k \in 1..n : Append(ss, s)[k] = ss[k]
      /\ Append(ss, s)[n + 1] = s
  BY <1>2, AppendProperties
<1> DEFINE w == [k \in 0..(n + 1) |-> IF k <= n THEN v[k] ELSE Handled(r, s)]
<1>4. w \in [0..(n + 1) -> Seq(ViewNode)]
  BY <1>1, <1>2
<1>5. \A k \in 0..n : w[k] = v[k]
  BY <1>2
<1>6. w[n + 1] = Handled(r, s)
  BY <1>2
<1> HIDE DEF w
<1>7. Run(w, t, Append(ss, s), Handled(r, s))
  <2>1. w[0] = t
    BY <1>1, <1>5, <1>2 DEF Run
  <2>2. \A k \in 1..(n + 1) : w[k] = Handled(w[k - 1], Append(ss, s)[k])
    <3>1. \A k \in 1..n : w[k] = Handled(w[k - 1], Append(ss, s)[k])
      BY <1>1, <1>2, <1>3, <1>5, SMTT(40) DEF Run
    <3>2. w[n] = r
      BY <1>1, <1>2, <1>5 DEF Run
    <3> QED
      BY <1>2, <1>3, <1>6, <3>1, <3>2
  <2>3. \A k \in 0..(n + 1) : Distinct(w[k])
    BY <1>1, <1>2, <1>5, <1>6 DEF Run
  <2> QED
    BY <1>3, <1>6, <2>1, <2>2, <2>3 DEF Run
<1> QED
  BY <1>3, <1>4, <1>7 DEF Makes

(* The oldest signal is handled. *)
LEMMA MakesTail ==
    ASSUME NEW t, NEW r, NEW ss \in Seq(Signal), ss # <<>>, Makes(t, ss, r)
    PROVE  /\ Makes(Handled(t, Head(ss)), Tail(ss), r)
           /\ Handled(t, Head(ss)) \in Seq(ViewNode) /\ Distinct(Handled(t, Head(ss)))
           /\ t \in Seq(ViewNode) /\ Distinct(t)
<1>1. PICK v \in [0..Len(ss) -> Seq(ViewNode)] : Run(v, t, ss, r)
  BY DEF Makes
<1>2. PICK n \in Nat : n + 1 = Len(ss)
  <2>1. Len(ss) \in Nat \ {0}
    BY EmptySeq
  <2>2. Len(ss) - 1 \in Nat /\ (Len(ss) - 1) + 1 = Len(ss)
    BY <2>1
  <2> QED
    BY <2>2
<1>3. /\ Len(Tail(ss)) = n /\ Head(ss) = ss[1]
      /\ \A k \in 1..n : Tail(ss)[k] = ss[k + 1]
  <2>1. /\ Len(Tail(ss)) = Len(ss) - 1
        /\ \A i \in 1..Len(Tail(ss)) : Tail(ss)[i] = ss[i + 1]
    BY HeadTailProperties
  <2>2. Head(ss) = ss[1]
    OBVIOUS
  <2> QED
    BY <1>2, <2>1, <2>2
<1> DEFINE w == [k \in 0..n |-> v[k + 1]]
<1>4. w \in [0..n -> Seq(ViewNode)] /\ \A k \in 0..n : w[k] = v[k + 1]
  <2>1. ASSUME NEW k \in 0..n PROVE v[k + 1] \in Seq(ViewNode)
    <3>1. k + 1 \in 0..Len(ss)
      BY <1>2
    <3> QED
      BY <1>1, <3>1
  <2> QED
    BY <2>1
<1> HIDE DEF w
<1>5. /\ v[0] = t /\ v[0] \in Seq(ViewNode) /\ Distinct(v[0])
      /\ v[1] = Handled(t, Head(ss)) /\ v[1] \in Seq(ViewNode) /\ Distinct(v[1])
  <2>1. 0 \in 0..Len(ss) /\ 1 \in 0..Len(ss) /\ 1 \in 1..Len(ss) /\ 1 - 1 = 0
    BY <1>2
  <2>2. v[1] = Handled(v[1 - 1], ss[1]) /\ v[0] = t
    BY <1>1, <2>1 DEF Run
  <2>3. v[1] = Handled(t, Head(ss))
    BY <1>3, <2>1, <2>2
  <2>4. v[0] \in Seq(ViewNode) /\ v[1] \in Seq(ViewNode)
    BY <1>1, <2>1
  <2>5. Distinct(v[0]) /\ Distinct(v[1])
    BY <1>1, <2>1 DEF Run
  <2> QED
    BY <2>2, <2>3, <2>4, <2>5
<1>6. Run(w, Handled(t, Head(ss)), Tail(ss), r)
  <2>1. w[0] = Handled(t, Head(ss)) /\ w[n] = r
    BY <1>1, <1>2, <1>4, <1>5 DEF Run
  <2>2. ASSUME NEW k \in 1..n PROVE w[k] = Handled(w[k - 1], Tail(ss)[k])
    <3>0. k + 1 \in 1..Len(ss)
      BY <1>2
    <3>1. PICK m \in 1..Len(ss) : m = k + 1 /\ k = m - 1
      BY <3>0
    <3>2. v[m] = Handled(v[m - 1], ss[m])
      BY <1>1 DEF Run
    <3>3. w[k] = v[m] /\ w[k - 1] = v[m - 1] /\ Tail(ss)[k] = ss[m]
      <4>1. k \in 0..n /\ k - 1 \in 0..n /\ (k - 1) + 1 = m - 1
        BY <3>1
      <4> QED
        BY <1>3, <1>4, <3>1, <4>1
    <3> QED
      BY <3>2, <3>3
  <2>3. ASSUME NEW k \in 0..n PROVE Distinct(w[k])
    <3>1. k + 1 \in 0..Len(ss)
      BY <1>2
    <3>2. Distinct(v[k + 1])
      BY <1>1, <3>1 DEF Run
    <3> QED
      BY <1>4, <3>2
  <2> QED
    BY <1>3, <2>1, <2>2, <2>3 DEF Run
<1> QED
  BY <1>3, <1>4, <1>5, <1>6 DEF Makes

(* The tree may be another one, if the oldest signal makes the same of it. *)
LEMMA MakesAlike ==
    ASSUME NEW t, NEW r, NEW ss \in Seq(Signal), ss # <<>>, Makes(t, ss, r),
           NEW u \in Seq(ViewNode), Distinct(u), Handled(u, Head(ss)) = Handled(t, Head(ss))
    PROVE  Makes(u, ss, r)
<1>1. PICK v \in [0..Len(ss) -> Seq(ViewNode)] : Run(v, t, ss, r)
  BY DEF Makes
<1>2. Len(ss) \in Nat \ {0} /\ Head(ss) = ss[1]
  BY EmptySeq
<1> DEFINE w == [v EXCEPT ![0] = u]
<1>3. /\ w \in [0..Len(ss) -> Seq(ViewNode)] /\ w[0] = u
      /\ \A k \in 1..Len(ss) : w[k] = v[k]
  BY <1>1, <1>2
<1> HIDE DEF w
<1>4. w[1] = Handled(w[0], ss[1])
  BY <1>1, <1>2, <1>3 DEF Run
<1>5. \A k \in 1..Len(ss) : w[k] = Handled(w[k - 1], ss[k])
  <2>1. ASSUME NEW k \in 2..Len(ss) PROVE w[k] = Handled(w[k - 1], ss[k])
    <3>1. k \in 1..Len(ss) /\ k - 1 \in 1..Len(ss)
      BY <1>2
    <3>2. w[k] = v[k] /\ w[k - 1] = v[k - 1] /\ v[k] = Handled(v[k - 1], ss[k])
      BY <1>1, <1>3, <3>1 DEF Run
    <3> QED
      BY <3>2
  <2> QED
    BY <1>2, <1>4, <2>1
<1>6. Run(w, u, ss, r)
  BY <1>1, <1>2, <1>3, <1>5 DEF Run
<1> QED
  BY <1>3, <1>6 DEF Makes

(* What the queued signals make of the tree is what the fold of the module  *)
(* says: a run satisfies its recursion, and two functions that do agree,    *)
(* for there is no least number at which they do not.                       *)
LEMMA UpcomingIs ==
    ASSUME signals \in Seq(Signal), NEW r, Makes(Shown, signals, r)
    PROVE  Upcoming[Len(signals)] = r
<1>1. PICK n \in Nat : n = Len(signals)
  BY LenProperties
<1>2. PICK v \in [0..n -> Seq(ViewNode)] : Run(v, Shown, signals, r)
  BY <1>1 DEF Makes
<1>3. v = [k \in 0..n |-> IF k = 0 THEN Shown ELSE Handled(v[k - 1], signals[k])]
  <2>1. \A k \in 0..n : v[k] = IF k = 0 THEN Shown ELSE Handled(v[k - 1], signals[k])
    BY <1>1, <1>2 DEF Run
  <2> QED
    BY <1>2, <2>1
<1>4. Upcoming = [k \in 0..n |-> IF k = 0 THEN Shown ELSE Handled(Upcoming[k - 1], signals[k])]
  <2> DEFINE Solves(f) ==
        f = [k \in 0..Len(signals) |-> IF k = 0 THEN Shown ELSE Handled(f[k - 1], signals[k])]
  <2>1. Upcoming = CHOOSE f : Solves(f)
    BY DEF Upcoming
  <2>2. Solves(v)
    BY <1>1, <1>3
  <2> HIDE DEF Solves
  <2>3. Solves(Upcoming)
    BY <2>1, <2>2
  <2> QED
    BY <1>1, <2>3 DEF Solves
<1> DEFINE T == {k \in 0..n : Upcoming[k] # v[k]}
<1>5. ASSUME T # {} PROVE FALSE
  <2>0. T \subseteq Nat
    OBVIOUS
  <2>1. PICK x \in T : \A y \in T : x <= y
    <3> HIDE DEF T
    <3> QED
      BY <1>5, <2>0, LeastNumber
  <2>2. x \in 0..n /\ Upcoming[x] # v[x]
    OBVIOUS
  <2>3. x # 0
    BY <1>3, <1>4, <2>2
  <2>4. x - 1 \in 0..n /\ x - 1 < x
    BY <2>2, <2>3
  <2>5. Upcoming[x - 1] = v[x - 1]
    BY <2>1, <2>4
  <2> QED
    BY <1>3, <1>4, <2>2, <2>3, <2>5
<1>6. Upcoming[n] = v[n]
  BY <1>5, SMTT(40)
<1> QED
  BY <1>1, <1>2, <1>6 DEF Run

-----------------------------------------------------------------------------
(* What the registry shows, and its signals. *)

(* A catalog is a sequence of channels. *)
LEMMA CatalogsAreSequences == Catalogs \subseteq Seq(Channels)
<1>1. ASSUME NEW m \in 0..MaxCatalog, NEW f \in [1..m -> Channels]
      PROVE  f \in Seq(Channels)
  BY <1>1, IsASeq, BoundAssumption
<1> QED
  BY <1>1 DEF Catalogs, SeqOf

(* A list of devices as a tree that is up to date shows it. *)
ViewOf(ds) == [i \in DOMAIN ds |-> [dev |-> ds[i].id, chans |-> ds[i].channels]]

(* It is a view, and shows no device twice. *)
LEMMA ViewOfTypes ==
    ASSUME NEW ds \in Seq(Device), \A i, j \in DOMAIN ds : ds[i].id = ds[j].id => i = j
    PROVE  /\ ViewOf(ds) \in Seq(ViewNode) /\ Distinct(ViewOf(ds))
           /\ Len(ds) \in Nat /\ DOMAIN ds = 1..Len(ds)
           /\ Len(ViewOf(ds)) = Len(ds) /\ DOMAIN ViewOf(ds) = 1..Len(ds)
           /\ \A i \in 1..Len(ds) : ViewOf(ds)[i] = [dev |-> ds[i].id, chans |-> ds[i].channels]
<1>1. /\ Len(ds) \in Nat /\ DOMAIN ds = 1..Len(ds)
      /\ \A i \in 1..Len(ds) : ds[i] \in Device
  BY LenProperties, ElementOfSeq
<1>2. \A i \in 1..Len(ds) : [dev |-> ds[i].id, chans |-> ds[i].channels] \in ViewNode
  BY <1>1 DEF Device, ViewNode
<1>3. /\ ViewOf(ds) \in [1..Len(ds) -> ViewNode]
      /\ \A i \in 1..Len(ds) : ViewOf(ds)[i] = [dev |-> ds[i].id, chans |-> ds[i].channels]
  BY <1>1, <1>2 DEF ViewOf
<1>4. ViewOf(ds) \in Seq(ViewNode) /\ Len(ViewOf(ds)) = Len(ds)
  BY <1>1, <1>3
<1> QED
  BY <1>1, <1>3, <1>4 DEF Distinct

(* Addresses and leases are not shown. *)
LEMMA SameView ==
    ASSUME NEW ds \in Seq(Device), NEW es \in Seq(Device), Len(es) = Len(ds),
           \A i \in 1..Len(ds) : es[i].id = ds[i].id /\ es[i].channels = ds[i].channels
    PROVE  ViewOf(es) = ViewOf(ds)
<1>1. DOMAIN ds = 1..Len(ds) /\ DOMAIN es = 1..Len(ds)
  BY LenProperties
<1> QED
  BY <1>1 DEF ViewOf

(* A catalog is a signal for each of its channels, and the tree gets one    *)
(* channel with each.                                                       *)
With(r, d, list, j) ==
    [i \in DOMAIN r |-> IF r[i].dev = d
                        THEN [r[i] EXCEPT !.chans = @ \cup {list[k] : k \in 1..j}] ELSE r[i]]

(* With(r, d, list, j) is a view. *)
LEMMA WithTypes ==
    ASSUME NEW r \in Seq(ViewNode), Distinct(r), NEW d \in Devices, NEW list \in Seq(Channels),
           NEW j \in 0..Len(list)
    PROVE  With(r, d, list, j) \in Seq(ViewNode) /\ Distinct(With(r, d, list, j))
<1>0. /\ Len(r) \in Nat /\ DOMAIN r = 1..Len(r)
      /\ \A i \in 1..Len(r) : /\ r[i] \in ViewNode /\ r[i].dev \in Devices
                              /\ r[i].chans \in SUBSET Channels
  BY ViewElements
<1>1. {list[k] : k \in 1..j} \subseteq Channels
  BY LenProperties, ElementOfSeq
<1>2. \A i \in 1..Len(r) :
         /\ With(r, d, list, j)[i] \in ViewNode
         /\ With(r, d, list, j)[i].dev = r[i].dev
  BY <1>0, <1>1 DEF With, ViewNode
<1>3. With(r, d, list, j) \in [1..Len(r) -> ViewNode]
  BY <1>0, <1>2 DEF With
<1> QED
  BY <1>0, <1>2, <1>3 DEF Distinct

(* Each signal makes one of them into the next. *)
LEMMA WithNext ==
    ASSUME NEW r \in Seq(ViewNode), NEW d \in Devices, NEW list \in Seq(Channels),
           NEW j \in 1..Len(list)
    PROVE  With(r, d, list, j) = Handled(With(r, d, list, j - 1), ChannelSignal(d, list[j]))
<1> DEFINE s == ChannelSignal(d, list[j])
           w == With(r, d, list, j - 1)
<1>0. s.kind = "channelReceived" /\ s.dev = d /\ s.chan = list[j]
  BY DEF ChannelSignal
<1> HIDE DEF s, w
<1>1. Handled(w, s) = [i \in DOMAIN w |-> IF w[i].dev = s.dev
                                          THEN [w[i] EXCEPT !.chans = @ \cup {s.chan}] ELSE w[i]]
  BY <1>0, HandledChannel
<1>2. /\ DOMAIN w = DOMAIN r /\ DOMAIN r = 1..Len(r)
      /\ \A i \in DOMAIN r : r[i] \in ViewNode
  <2>1. DOMAIN r = 1..Len(r) /\ \A i \in 1..Len(r) : r[i] \in ViewNode
    BY ViewElements
  <2> QED
    BY <2>1 DEF With, w
<1>3. {list[k] : k \in 1..j} = {list[k] : k \in 1..(j - 1)} \cup {list[j]}
  <2>1. 1..j = 1..(j - 1) \cup {j}
    BY LenProperties
  <2> QED
    BY <2>1
<1>4. ASSUME NEW i \in DOMAIN r
      PROVE  With(r, d, list, j)[i] = Handled(w, s)[i]
  <2>1. CASE r[i].dev = d
    <3>1. w[i] = [r[i] EXCEPT !.chans = @ \cup {list[k] : k \in 1..(j - 1)}]
      BY <2>1 DEF With, w
    <3>2. w[i].dev = d
      BY <1>2, <2>1, <3>1 DEF ViewNode
    <3>3. Handled(w, s)[i] = [w[i] EXCEPT !.chans = @ \cup {list[j]}]
      BY <1>0, <1>1, <1>2, <3>2
    <3>4. With(r, d, list, j)[i] = [r[i] EXCEPT !.chans = @ \cup {list[k] : k \in 1..j}]
      BY <2>1 DEF With
    <3> QED
      BY <1>2, <1>3, <3>1, <3>3, <3>4 DEF ViewNode
  <2>2. CASE r[i].dev # d
    <3>1. w[i] = r[i] /\ With(r, d, list, j)[i] = r[i]
      BY <2>2 DEF With, w
    <3> QED
      BY <1>0, <1>1, <1>2, <2>2, <3>1
  <2> QED
    BY <2>1, <2>2
<1>6. With(r, d, list, j) = [i \in DOMAIN r |-> With(r, d, list, j)[i]]
  BY DEF With
<1>7. Handled(w, s) = [i \in DOMAIN r |-> Handled(w, s)[i]]
  BY <1>1, <1>2
<1> QED
  BY <1>4, <1>6, <1>7 DEF s, w

(* So the signals of a catalog make a tree with its channels. *)
LEMMA MakesChannels ==
    ASSUME NEW t, NEW r \in Seq(ViewNode), Distinct(r), NEW ss \in Seq(Signal), Makes(t, ss, r),
           NEW d \in Devices, NEW list \in Seq(Channels)
    PROVE  Makes(t, ss \o [k \in DOMAIN list |-> ChannelSignal(d, list[k])],
                 With(r, d, list, Len(list)))
<1> DEFINE more == [k \in DOMAIN list |-> ChannelSignal(d, list[k])]
           ss2 == ss \o more
<1>1. PICK v \in [0..Len(ss) -> Seq(ViewNode)] : Run(v, t, ss, r)
  BY DEF Makes
<1>2. PICK n \in Nat, m \in Nat : n = Len(ss) /\ m = Len(list)
  BY LenProperties
<1>3. /\ Len(ss2) = n + m
      /\ \A k \in 1..n : ss2[k] = ss[k]
      /\ \A k \in 1..m : ss2[n + k] = ChannelSignal(d, list[k])
  <2>1. DOMAIN list = 1..m /\ \A k \in 1..m : list[k] \in Channels
    BY <1>2, LenProperties, ElementOfSeq
  <2>2. \A k \in 1..m : ChannelSignal(d, list[k]) \in Signal
    BY <2>1 DEF ChannelSignal, Signal, SignalKinds
  <2>3. /\ more \in Seq(Signal) /\ Len(more) = m
        /\ \A k \in 1..m : more[k] = ChannelSignal(d, list[k])
    BY <1>2, <2>1, <2>2
  <2> HIDE DEF more
  <2>4. /\ Len(ss2) = n + m
        /\ \A k \in 1..(n + m) : ss2[k] = IF k <= n THEN ss[k] ELSE more[k - n]
    BY <1>2, <2>3, ConcatProperties
  <2>5. ASSUME NEW k \in 1..m PROVE ss2[n + k] = more[k]
    <3>1. n + k \in 1..(n + m) /\ ~(n + k <= n) /\ (n + k) - n = k
      BY <1>2
    <3> QED
      BY <2>4, <3>1
  <2> QED
    BY <1>2, <2>3, <2>4, <2>5
<1> HIDE DEF ss2
<1> DEFINE w(j) == With(r, d, list, j)
           u == [k \in 0..(n + m) |-> IF k <= n THEN v[k] ELSE w(k - n)]
<1>4. /\ \A j \in 0..m : w(j) \in Seq(ViewNode) /\ Distinct(w(j))
      /\ \A j \in 1..m : w(j) = Handled(w(j - 1), ChannelSignal(d, list[j]))
  BY <1>2, WithTypes, WithNext
<1>5. w(0) = r
  <2>1. DOMAIN r = 1..Len(r) /\ \A i \in 1..Len(r) : r[i] \in ViewNode
    BY ViewElements
  <2>2. {list[k] : k \in 1..0} = {}
    OBVIOUS
  <2>3. \A i \in DOMAIN r : w(0)[i] = r[i]
    BY <2>1, <2>2 DEF With, ViewNode
  <2>4. DOMAIN w(0) = DOMAIN r /\ w(0) = [i \in DOMAIN r |-> w(0)[i]]
    BY DEF With
  <2>5. r = [i \in DOMAIN r |-> r[i]]
    BY <2>1, ViewElements
  <2> QED
    BY <2>3, <2>4, <2>5
<1> HIDE DEF w
<1>6. /\ \A k \in 0..n : u[k] = v[k]
      /\ \A j \in 0..m : u[n + j] = w(j)
  <2>1. v[n] = r
    BY <1>1, <1>2 DEF Run
  <2>2. ASSUME NEW j \in 0..m PROVE u[n + j] = w(j)
    <3>1. n + j \in 0..(n + m) /\ (n + j) - n = j /\ (n + j <= n <=> j = 0) /\ n + 0 = n
      BY <1>2
    <3> QED
      BY <1>5, <2>1, <3>1
  <2> QED
    BY <1>2, <2>2
<1>7. u \in [0..(n + m) -> Seq(ViewNode)]
  <2>1. ASSUME NEW k \in 0..(n + m) PROVE u[k] \in Seq(ViewNode)
    <3>1. CASE k <= n
      BY <1>1, <1>2, <3>1
    <3>2. CASE k > n
      <4>1. k - n \in 0..m /\ u[k] = w(k - n)
        BY <1>2, <3>2
      <4> QED
        BY <1>4, <4>1
    <3> QED
      BY <1>2, <3>1, <3>2
  <2> QED
    BY <2>1
<1> HIDE DEF u
<1>8. Run(u, t, ss2, w(m))
  <2>1. u[0] = t /\ u[n + m] = w(m)
    BY <1>1, <1>2, <1>6 DEF Run
  <2>2. ASSUME NEW k \in 1..(n + m) PROVE u[k] = Handled(u[k - 1], ss2[k])
    <3>1. CASE k <= n
      <4>1. k \in 1..n /\ k \in 0..n /\ k - 1 \in 0..n
        BY <1>2, <3>1
      <4>2. v[k] = Handled(v[k - 1], ss[k])
        BY <1>1, <1>2, <4>1 DEF Run
      <4> QED
        BY <1>3, <1>6, <4>1, <4>2
    <3>2. CASE k > n
      <4>1. PICK j \in 1..m : k = n + j /\ k - 1 = n + (j - 1) /\ j - 1 \in 0..m
        <5>1. k - n \in 1..m /\ k = n + (k - n) /\ k - 1 = n + ((k - n) - 1) /\ (k - n) - 1 \in 0..m
          BY <1>2, <3>2
        <5> QED
          BY <5>1
      <4>2. w(j) = Handled(w(j - 1), ChannelSignal(d, list[j]))
        BY <1>4
      <4> QED
        BY <1>3, <1>6, <4>1, <4>2
    <3> QED
      BY <1>2, <3>1, <3>2
  <2>3. ASSUME NEW k \in 0..(n + m) PROVE Distinct(u[k])
    <3>1. CASE k <= n
      BY <1>1, <1>2, <1>6, <3>1 DEF Run
    <3>2. CASE k > n
      <4>1. k - n \in 0..m /\ k = n + (k - n)
        BY <1>2, <3>2
      <4> QED
        BY <1>4, <1>6, <4>1
    <3> QED
      BY <1>2, <3>1, <3>2
  <2> QED
    BY <1>3, <2>1, <2>2, <2>3 DEF Run
<1>9. Makes(t, ss2, w(m))
  BY <1>3, <1>7, <1>8 DEF Makes
<1> QED
  BY <1>2, <1>9 DEF ss2, w

(* An erased device is one signal. *)
LEMMA MakesRemoval ==
    ASSUME IInv, NEW t, Makes(t, signals, ViewOf(devs)), NEW i \in DOMAIN devs,
           devs' = RemoveAt(devs, i),
           signals' = Append(signals, DeviceSignal("deviceRemoved", devs[i].id))
    PROVE  Makes(t, signals', ViewOf(devs'))
<1> USE DEF IInv
<1> DEFINE s == DeviceSignal("deviceRemoved", devs[i].id)
<1>0. /\ devs \in Seq(Device) /\ signals \in Seq(Signal) /\ Len(devs) \in Nat
      /\ i \in 1..Len(devs) /\ devs[i].id \in Devices
  BY Elements DEF TypeOK
<1>1. s \in Signal /\ s.kind = "deviceRemoved" /\ s.dev = devs[i].id
  BY <1>0 DEF DeviceSignal, Signal, SignalKinds
<1>2. /\ devs' \in Seq(Device) /\ Len(devs') = Len(devs) - 1
      /\ \A j \in 1..(Len(devs) - 1) : devs'[j] = IF j < i THEN devs[j] ELSE devs[j + 1]
      /\ \A j, k \in DOMAIN devs' : devs'[j].id = devs'[k].id => j = k
  BY RemovalProperties DEF UniqueIds
<1> DEFINE r == ViewOf(devs)
           es == devs'
           q == ViewOf(es)
<1>3. /\ r \in Seq(ViewNode) /\ Distinct(r) /\ Len(r) = Len(devs) /\ DOMAIN r = 1..Len(devs)
      /\ \A j \in 1..Len(devs) : r[j] = [dev |-> devs[j].id, chans |-> devs[j].channels]
  BY <1>0, ViewOfTypes DEF UniqueIds
<1>4. /\ es \in Seq(Device) /\ q \in Seq(ViewNode) /\ Distinct(q) /\ Len(q) = Len(devs) - 1
      /\ \A j \in 1..(Len(devs) - 1) : q[j] = [dev |-> es[j].id, chans |-> es[j].channels]
  BY <1>2, ViewOfTypes
<1> HIDE DEF r, q
<1>5. Handled(r, s) = RemoveAt(r, i)
  <2>1. i \in DOMAIN r /\ r[i].dev = s.dev
    BY <1>0, <1>1, <1>3
  <2> HIDE DEF s
  <2> QED
    BY <1>1, <1>3, <2>1, HandledRemoved
<1>6. RemoveAt(r, i) = q
  <2>0. i \in 1..Len(r)
    BY <1>0, <1>3
  <2>1. /\ RemoveAt(r, i) \in Seq(ViewNode)
        /\ Len(RemoveAt(r, i)) = Len(devs) - 1
        /\ \A j \in 1..(Len(devs) - 1) : RemoveAt(r, i)[j] = IF j < i THEN r[j] ELSE r[j + 1]
    BY <1>3, <2>0, RemoveAtProperties
  <2>2. ASSUME NEW j \in 1..(Len(devs) - 1)
        PROVE  RemoveAt(r, i)[j] = q[j]
    <3>1. PICK k \in 1..Len(devs) : k = IF j < i THEN j ELSE j + 1
      <4>1. j \in 1..Len(devs) /\ j + 1 \in 1..Len(devs)
        BY <1>0
      <4> QED
        BY <4>1
    <3>2. RemoveAt(r, i)[j] = r[k] /\ es[j] = devs[k]
      BY <1>2, <2>1, <3>1
    <3> QED
      BY <1>3, <1>4, <3>2
  <2> QED
    BY <1>4, <2>1, <2>2, SeqEqual
<1> HIDE DEF s
<1>7. Makes(t, Append(signals, s), Handled(r, s))
  BY <1>0, <1>1, <1>4, <1>5, <1>6, MakesAppend DEF r
<1> QED
  BY <1>5, <1>6, <1>7 DEF s, q

(* A new device is one signal. *)
LEMMA MakesAddition ==
    ASSUME IInv, NEW t, Makes(t, signals, ViewOf(devs)), NEW d \in Devices, NEW new \in Device,
           new.id = d, new.channels = {}, ~Registered(d),
           devs' = Append(devs, new),
           signals' = Append(signals, DeviceSignal("deviceAppended", d))
    PROVE  Makes(t, signals', ViewOf(devs'))
<1> USE DEF IInv
<1> DEFINE s == DeviceSignal("deviceAppended", d)
           node == [dev |-> d, chans |-> {}]
<1>0. /\ devs \in Seq(Device) /\ signals \in Seq(Signal) /\ Len(devs) \in Nat
      /\ DOMAIN devs = 1..Len(devs)
  BY Elements DEF TypeOK
<1>1. s \in Signal /\ s.kind = "deviceAppended" /\ s.dev = d /\ node \in ViewNode
  BY <1>0 DEF DeviceSignal, Signal, SignalKinds, ViewNode
<1>2. /\ devs' \in Seq(Device) /\ Len(devs') = Len(devs) + 1
      /\ DOMAIN devs' = 1..(Len(devs) + 1)
      /\ \A j \in 1..Len(devs) : devs'[j] = devs[j]
      /\ devs'[Len(devs) + 1] = new
  BY <1>0, AppendProperties, LenProperties
<1>3. /\ ViewOf(devs) \in Seq(ViewNode) /\ Len(ViewOf(devs)) = Len(devs)
      /\ \A j \in 1..Len(devs) : ViewOf(devs)[j] = [dev |-> devs[j].id, chans |-> devs[j].channels]
  BY <1>0, ViewOfTypes DEF UniqueIds
<1>4. \A j, k \in DOMAIN devs' : devs'[j].id = devs'[k].id => j = k
  BY <1>0, <1>2 DEF UniqueIds, Registered
<1> DEFINE es == devs'
<1>5. /\ ViewOf(es) \in Seq(ViewNode) /\ Distinct(ViewOf(es)) /\ Len(ViewOf(es)) = Len(devs) + 1
      /\ \A j \in 1..(Len(devs) + 1) : ViewOf(es)[j] = [dev |-> es[j].id, chans |-> es[j].channels]
  BY <1>2, <1>4, ViewOfTypes
<1>6. Handled(ViewOf(devs), s) = Append(ViewOf(devs), node)
  BY <1>1, HandledAppended
<1>7. Append(ViewOf(devs), node) = ViewOf(es)
  <2>1. /\ Append(ViewOf(devs), node) \in Seq(ViewNode)
        /\ Len(Append(ViewOf(devs), node)) = Len(devs) + 1
        /\ \A j \in 1..Len(devs) : Append(ViewOf(devs), node)[j] = ViewOf(devs)[j]
        /\ Append(ViewOf(devs), node)[Len(devs) + 1] = node
    BY <1>1, <1>3, AppendProperties
  <2>2. ASSUME NEW j \in 1..(Len(devs) + 1)
        PROVE  Append(ViewOf(devs), node)[j] = ViewOf(es)[j]
    BY <1>0, <1>2, <1>3, <1>5, <2>1
  <2> QED
    BY <1>5, <2>1, <2>2, SeqEqual
<1> HIDE DEF s
<1>8. Makes(t, Append(signals, s), Handled(ViewOf(devs), s))
  BY <1>0, <1>1, <1>5, <1>6, <1>7, MakesAppend
<1> QED
  BY <1>6, <1>7, <1>8 DEF s

(* Whatever the SIP thread and the sweep do, the signals say it. *)
LEMMA RegistryMakes ==
    ASSUME IInv, NEW t, Makes(t, signals, ViewOf(devs)),
           \/ \E d \in Devices : Request(d)
           \/ Sweep \/ Second
    PROVE  Makes(t, signals', ViewOf(devs'))
<1> USE DEF IInv
<1>0. devs \in Seq(Device) /\ signals \in Seq(Signal)
  BY DEF TypeOK
<1>u. ASSUME NEW i \in DOMAIN devs, NEW new \in Device, new.id = devs[i].id,
             new.channels = devs[i].channels, devs' = [devs EXCEPT ![i] = new],
             signals' = signals
      PROVE  Makes(t, signals', ViewOf(devs'))
  <2>1. /\ devs' \in Seq(Device) /\ Len(devs') = Len(devs)
        /\ \A j \in 1..Len(devs) : devs'[j] = IF j = i THEN new ELSE devs[j]
    BY <1>u, UpdateProperties
  <2>2. ViewOf(devs') = ViewOf(devs)
    BY <1>0, <1>u, <2>1, SameView
  <2> QED
    BY <1>u, <2>2
<1>1. ASSUME NEW d \in Devices, NEW addr \in Addrs, NEW lease \in Leases,
             AppendDevice(d, addr, lease)
      PROVE  Makes(t, signals', ViewOf(devs'))
  <2>1. CASE RefreshDevice(d, addr, lease)
    <3>1. PICK i \in DOMAIN devs :
              devs' = [devs EXCEPT ![i] = [@ EXCEPT !.addr = addr, !.maxExpires = lease,
                                                    !.expires = lease]]
      BY <2>1 DEF RefreshDevice
    <3> DEFINE new == [devs[i] EXCEPT !.addr = addr, !.maxExpires = lease, !.expires = lease]
    <3>2. /\ new \in Device /\ new.id = devs[i].id /\ new.channels = devs[i].channels
          /\ devs' = [devs EXCEPT ![i] = new]
      BY <3>1, Elements, TimeAssumption DEF Device
    <3> HIDE DEF new
    <3> QED
      BY <1>u, <2>1, <3>2 DEF RefreshDevice
  <2>2. CASE AddDevice(d, addr, lease)
    <3> DEFINE new == NewDevice(d, addr, lease)
    <3>1. new \in Device /\ new.id = d /\ new.channels = {} /\ devs' = Append(devs, new)
      BY <2>2, TimeAssumption DEF AddDevice, NewDevice, Device
    <3> HIDE DEF new
    <3> QED
      BY <2>2, <3>1, MakesAddition DEF AddDevice
  <2> QED
    BY <1>1, <2>1, <2>2 DEF AppendDevice
<1>2. ASSUME NEW d \in Devices, KeepAlive(d)
      PROVE  Makes(t, signals', ViewOf(devs'))
  <2>1. PICK i \in DOMAIN devs :
            devs' = [devs EXCEPT ![i] = [@ EXCEPT !.expires = devs[i].maxExpires]]
    BY <1>2 DEF KeepAlive
  <2> DEFINE new == [devs[i] EXCEPT !.expires = devs[i].maxExpires]
  <2>2. /\ new \in Device /\ new.id = devs[i].id /\ new.channels = devs[i].channels
        /\ devs' = [devs EXCEPT ![i] = new]
    BY <2>1, Elements DEF Device
  <2> HIDE DEF new
  <2> QED
    BY <1>u, <1>2, <2>2 DEF KeepAlive
<1>3. ASSUME NEW d \in Devices, RemoveItem(d)
      PROVE  Makes(t, signals', ViewOf(devs'))
  <2>1. PICK i \in DOMAIN devs : devs[i].id = d /\ devs' = RemoveAt(devs, i)
    BY <1>3 DEF RemoveItem, FirstAt
  <2> QED
    BY <1>3, <2>1, MakesRemoval DEF RemoveItem
<1>4. ASSUME NEW d \in Devices, NEW list \in Catalogs, AppendDeviceChannels(d, list)
      PROVE  Makes(t, signals', ViewOf(devs'))
  <2>1. PICK i \in DOMAIN devs :
            /\ FirstAt(d, i)
            /\ devs' = [devs EXCEPT ![i] =
                          [@ EXCEPT !.channels = devs[i].channels \cup ToSet(list)]]
    BY <1>4 DEF AppendDeviceChannels
  <2>2. list \in Seq(Channels)
    BY CatalogsAreSequences
  <2> DEFINE new == [devs[i] EXCEPT !.channels = devs[i].channels \cup ToSet(list)]
             cs == {list[k] : k \in 1..Len(list)}
  <2>3. /\ new \in Device /\ new.id = devs[i].id /\ devs[i].id = d
        /\ new.channels = devs[i].channels \cup cs
        /\ devs' = [devs EXCEPT ![i] = new]
    <3>1. ToSet(list) = cs /\ cs \subseteq Channels
      BY <2>2, LenProperties, ElementOfSeq DEF ToSet
    <3> HIDE DEF cs
    <3> QED
      BY <2>1, <3>1, Elements DEF Device, FirstAt
  <2> HIDE DEF new, cs
  <2>4. /\ devs' \in Seq(Device) /\ Len(devs') = Len(devs) /\ DOMAIN devs' = 1..Len(devs)
        /\ \A j \in 1..Len(devs) : devs'[j] = IF j = i THEN new ELSE devs[j]
        /\ \A j, k \in DOMAIN devs' : devs'[j].id = devs'[k].id => j = k
    BY <2>3, UpdateProperties, ZenonT(40) DEF UniqueIds
  <2> DEFINE es == devs'
             r == ViewOf(devs)
  <2>5. /\ r \in Seq(ViewNode) /\ Distinct(r) /\ DOMAIN r = 1..Len(devs)
        /\ \A j \in 1..Len(devs) : r[j] = [dev |-> devs[j].id, chans |-> devs[j].channels]
    BY <1>0, ViewOfTypes DEF UniqueIds
  <2>6. /\ DOMAIN es = 1..Len(devs)
        /\ ViewOf(es) = [j \in 1..Len(devs) |-> [dev |-> es[j].id, chans |-> es[j].channels]]
    BY <2>4 DEF ViewOf
  <2> HIDE DEF r
  <2>7. With(r, d, list, Len(list)) = ViewOf(es)
    <3>1. ASSUME NEW j \in 1..Len(devs)
          PROVE  (IF r[j].dev = d THEN [r[j] EXCEPT !.chans = @ \cup cs] ELSE r[j])
                    = [dev |-> es[j].id, chans |-> es[j].channels]
      <4>1. CASE j = i
        <5>1. r[j] = [dev |-> d, chans |-> devs[i].channels]
          BY <2>3, <2>5, <4>1
        <5>2. es[j].id = d /\ es[j].channels = devs[i].channels \cup cs
          BY <2>3, <2>4, <4>1
        <5>3. (IF r[j].dev = d THEN [r[j] EXCEPT !.chans = @ \cup cs] ELSE r[j])
                 = [dev |-> d, chans |-> devs[i].channels \cup cs]
          <6>1. r[j] \in ViewNode /\ r[j].dev = d /\ r[j].chans = devs[i].channels
            BY <2>5, <5>1
          <6> QED
            BY <6>1 DEF ViewNode
        <5>4. [dev |-> es[j].id, chans |-> es[j].channels]
                 = [dev |-> d, chans |-> devs[i].channels \cup cs]
          BY <5>2
        <5> HIDE DEF es
        <5> QED
          BY <5>3, <5>4
      <4>2. CASE j # i
        <5>1. devs[j].id # d
          BY <2>3, <4>2, Elements DEF UniqueIds
        <5> QED
          BY <2>4, <2>5, <4>2, <5>1
      <4> QED
        BY <4>1, <4>2
    <3> QED
      BY <2>5, <2>6, <3>1 DEF With, cs
  <2>8. Makes(t, signals \o [k \in DOMAIN list |-> ChannelSignal(d, list[k])],
              With(r, d, list, Len(list)))
    BY <1>0, <2>2, <2>5, MakesChannels DEF r
  <2> QED
    BY <1>4, <2>7, <2>8 DEF AppendDeviceChannels
<1>5. CASE SweepKeep
  <2> DEFINE new == [devs[it] EXCEPT !.expires = devs[it].expires - CheckInterval]
  <2>1. /\ new \in Device /\ new.id = devs[it].id /\ new.channels = devs[it].channels
        /\ devs' = [devs EXCEPT ![it] = new] /\ it \in DOMAIN devs
    <3>1. it \in DOMAIN devs /\ devs[it].expires - CheckInterval \in Nat \ {0}
      BY <1>5, Elements DEF SweepKeep
    <3> QED
      BY <1>5, <3>1, Elements DEF Device, SweepKeep
  <2> HIDE DEF new
  <2> QED
    BY <1>u, <1>5, <2>1 DEF SweepKeep
<1>6. CASE SweepErase
  BY <1>6, MakesRemoval DEF SweepErase
<1>7. CASE SweepStart \/ SweepEnd \/ Second
  BY <1>7 DEF SweepStart, SweepEnd, Second
<1> QED
  BY <1>1, <1>2, <1>3, <1>4, <1>5, <1>6, <1>7 DEF Request, Sweep

-----------------------------------------------------------------------------
(* The tree. *)

(* What a tree shows. *)
ShownOf(tr) == [i \in DOMAIN tr |-> [dev |-> tr[i].dev, chans |-> ToSet(tr[i].chans)]]

(* It is as long as the tree and has its devices. *)
LEMMA ShownOfTypes ==
    ASSUME NEW tr \in Seq(Node)
    PROVE  /\ Len(tr) \in Nat /\ DOMAIN tr = 1..Len(tr) /\ \A i \in 1..Len(tr) : tr[i] \in Node
           /\ ShownOf(tr) \in Seq(ViewNode)
           /\ Len(ShownOf(tr)) = Len(tr) /\ DOMAIN ShownOf(tr) = 1..Len(tr)
           /\ \A i \in 1..Len(tr) :
                 ShownOf(tr)[i] = [dev |-> tr[i].dev, chans |-> ToSet(tr[i].chans)]
<1>1. Len(tr) \in Nat /\ DOMAIN tr = 1..Len(tr) /\ \A i \in 1..Len(tr) : tr[i] \in Node
  BY LenProperties, ElementOfSeq
<1>2. \A s \in Seq(Channels) : ToSet(s) \subseteq Channels
  BY LenProperties, ElementOfSeq DEF ToSet
<1>3. \A i \in 1..Len(tr) : [dev |-> tr[i].dev, chans |-> ToSet(tr[i].chans)] \in ViewNode
  BY <1>1, <1>2 DEF Node, ViewNode
<1>4. /\ ShownOf(tr) \in [1..Len(tr) -> ViewNode]
      /\ \A i \in 1..Len(tr) :
            ShownOf(tr)[i] = [dev |-> tr[i].dev, chans |-> ToSet(tr[i].chans)]
  BY <1>1, <1>3 DEF ShownOf
<1> QED
  BY <1>1, <1>4

(* Whatever the signals make of it, the tree shows no device twice now. *)
LEMMA MakesStart ==
    ASSUME NEW t, NEW ss \in Seq(Signal), NEW r, Makes(t, ss, r)
    PROVE  t \in Seq(ViewNode) /\ Distinct(t)
<1>1. Len(ss) \in Nat /\ 0 \in 0..Len(ss)
  BY LenProperties
<1>2. PICK v \in [0..Len(ss) -> Seq(ViewNode)] : Run(v, t, ss, r)
  BY DEF Makes
<1> QED
  BY <1>1, <1>2 DEF Run

(* The SIP thread and the sweep queue signals behind those that wait. *)
LEMMA HeadStays ==
    ASSUME IInv, signals # <<>>, \/ \E d \in Devices : Request(d)
                                 \/ Sweep \/ Second
    PROVE  signals' # <<>> /\ Head(signals') = Head(signals)
<1> USE DEF IInv
<1>0. signals \in Seq(Signal) /\ Len(signals) \in Nat \ {0}
  BY EmptySeq DEF TypeOK
<1>1. ASSUME NEW s \in Signal, signals' = Append(signals, s)
      PROVE  signals' # <<>> /\ Head(signals') = Head(signals)
  BY <1>0, <1>1, AppendProperties
<1>2. ASSUME NEW d \in Devices, RemoveItem(d)
      PROVE  signals' # <<>> /\ Head(signals') = Head(signals)
  BY <1>1, <1>2 DEF RemoveItem, DeviceSignal, Signal, SignalKinds
<1>3. CASE SweepErase
  <2>1. devs[it].id \in Devices
    BY <1>3, Elements DEF SweepErase
  <2> QED
    BY <1>1, <1>3, <2>1 DEF SweepErase, DeviceSignal, Signal, SignalKinds
<1>4. ASSUME NEW d \in Devices, NEW addr \in Addrs, NEW lease \in Leases,
             AppendDevice(d, addr, lease)
      PROVE  signals' # <<>> /\ Head(signals') = Head(signals)
  <2>1. CASE RefreshDevice(d, addr, lease)
    BY <2>1 DEF RefreshDevice
  <2>2. CASE AddDevice(d, addr, lease)
    BY <1>1, <2>2 DEF AddDevice, DeviceSignal, Signal, SignalKinds
  <2> QED
    BY <1>4, <2>1, <2>2 DEF AppendDevice
<1>5. ASSUME NEW d \in Devices, NEW list \in Catalogs, AppendDeviceChannels(d, list)
      PROVE  signals' # <<>> /\ Head(signals') = Head(signals)
  <2> DEFINE more == [k \in DOMAIN list |-> ChannelSignal(d, list[k])]
  <2>1. list \in Seq(Channels) /\ DOMAIN list = 1..Len(list) /\ Len(list) \in Nat
    BY CatalogsAreSequences, LenProperties
  <2>2. \A k \in DOMAIN list : ChannelSignal(d, list[k]) \in Signal
    BY <2>1, ElementOfSeq DEF ChannelSignal, Signal, SignalKinds
  <2>3. more \in Seq(Signal)
    BY <2>1, <2>2
  <2>4. signals' = signals \o more
    BY <1>5 DEF AppendDeviceChannels
  <2> HIDE DEF more
  <2>5. Len(signals') # 0 /\ signals' \in Seq(Signal) /\ signals'[1] = signals[1]
    BY <1>0, <2>3, <2>4, ConcatProperties, LenProperties
  <2> QED
    BY <1>0, <2>5
<1>6. CASE \/ \E d \in Devices : KeepAlive(d)
           \/ SweepStart \/ SweepKeep \/ SweepEnd \/ Second
  BY <1>6 DEF KeepAlive, SweepStart, SweepKeep, SweepEnd, Second
<1> QED
  BY <1>2, <1>3, <1>4, <1>5, <1>6 DEF Request, Sweep

(* The tree as it is shown. *)
LEMMA ViewFacts ==
    ASSUME ViewInv
    PROVE  /\ tree \in Seq(Node) /\ signals \in Seq(Signal) /\ scan \in 0..(Len(tree) + 2)
           /\ Len(tree) \in Nat /\ DOMAIN tree = 1..Len(tree)
           /\ \A i \in 1..Len(tree) : tree[i] \in Node
           /\ Makes(ShownOf(tree), signals, ViewOf(devs))
           /\ ShownOf(tree) \in Seq(ViewNode) /\ Distinct(ShownOf(tree))
           /\ \A i, j \in DOMAIN tree : tree[i].dev = tree[j].dev => i = j
           /\ signals # <<>> => Head(signals) \in Signal
<1>1. /\ tree \in Seq(Node) /\ signals \in Seq(Signal) /\ scan \in 0..(Len(tree) + 2)
      /\ Makes(ShownOf(tree), signals, ViewOf(devs))
  BY DEF ViewInv, ViewTypeOK, TypeOK, Shown, ShownOf, RegistryView, ViewOf
<1>2. /\ Len(tree) \in Nat /\ DOMAIN tree = 1..Len(tree)
      /\ \A i \in 1..Len(tree) : tree[i] \in Node
      /\ ShownOf(tree) \in Seq(ViewNode) /\ DOMAIN ShownOf(tree) = 1..Len(tree)
      /\ \A i \in 1..Len(tree) :
            ShownOf(tree)[i] = [dev |-> tree[i].dev, chans |-> ToSet(tree[i].chans)]
  BY <1>1, ShownOfTypes
<1>3. \A i \in 1..Len(tree) : ShownOf(tree)[i].dev = tree[i].dev
  BY <1>2
<1>4. Distinct(ShownOf(tree))
  BY <1>1, MakesStart
<1>5. signals # <<>> => Head(signals) \in Signal
  BY <1>1, HeadTailProperties
<1> QED
  BY <1>1, <1>2, <1>3, <1>4, <1>5 DEF Distinct

(* The invariant, put together from its parts. *)
LEMMA ViewInvFrom ==
    ASSUME IInv', tree' \in Seq(Node), scan' \in 0..(Len(tree') + 2), ChannelsOnce',
           ScanBehind', Makes(ShownOf(tree'), signals', ViewOf(devs'))
    PROVE  ViewInv'
BY DEF ViewInv, ViewTypeOK, IInv, Shown, ShownOf, RegistryView, ViewOf

(* A slot that has made of the tree what its signal says is done with it. *)
LEMMA SlotDone ==
    ASSUME ViewInv, DeliverSignal, tree' \in Seq(Node), scan' = 0, ChannelsOnce',
           ShownOf(tree') = Handled(ShownOf(tree), Head(signals))
    PROVE  ViewInv'
<1>1. signals # <<>> /\ signals \in Seq(Signal) /\ Makes(ShownOf(tree), signals, ViewOf(devs))
  BY ViewFacts DEF DeliverSignal
<1>2. Makes(ShownOf(tree'), signals', ViewOf(devs'))
  BY <1>1, MakesTail DEF DeliverSignal
<1>3. IInv'
  BY InvStep DEF ViewInv, Next
<1>4. scan' \in 0..(Len(tree') + 2) /\ ScanBehind'
  BY LenProperties DEF ScanBehind
<1> QED
  BY <1>2, <1>3, <1>4, ViewInvFrom

(* deviceAppended. *)
LEMMA OnDeviceAppendedPreserves ==
    ASSUME ViewInv, OnDeviceAppended
    PROVE  ViewInv'
<1> DEFINE d == Head(signals).dev
           new == [dev |-> d, chans |-> <<>>]
<1>0. /\ signals # <<>> /\ Head(signals).kind = "deviceAppended" /\ scan = 0 /\ scan' = 0
      /\ DeliverSignal /\ tree' = Append(tree, new)
  BY DEF OnDeviceAppended, PendingCall
<1>1. d \in Devices
  <2>1. Head(signals) \in Signal
    BY <1>0, ViewFacts
  <2> QED
    BY <2>1 DEF Signal
<1>2. new \in Node /\ new.dev = d /\ new.chans = <<>>
  BY <1>1 DEF Node
<1>3. tree \in Seq(Node) /\ Len(tree) \in Nat
  BY ViewFacts
<1> DEFINE tr == tree'
<1>4. /\ tr \in Seq(Node) /\ Len(tr) = Len(tree) + 1 /\ DOMAIN tr = 1..(Len(tree) + 1)
      /\ \A j \in 1..Len(tree) : tr[j] = tree[j]
      /\ tr[Len(tree) + 1] = new
  BY <1>0, <1>2, <1>3, AppendProperties, LenProperties
<1>5. ChannelsOnce'
  <2>1. ASSUME NEW i \in 1..(Len(tree) + 1) PROVE IsInjective(tr[i].chans)
    <3>1. CASE i = Len(tree) + 1
      <4>1. tr[i].chans = <<>>
        BY <1>2, <1>4, <3>1
      <4> QED
        BY <4>1 DEF IsInjective
    <3>2. CASE i # Len(tree) + 1
      <4>1. i \in DOMAIN tree /\ tr[i] = tree[i]
        BY <1>4, <3>2, ViewFacts
      <4> QED
        BY <4>1 DEF ViewInv, ChannelsOnce
    <3> QED
      BY <3>1, <3>2
  <2> QED
    BY <1>4, <2>1 DEF ChannelsOnce
<1>6. ShownOf(tr) = Append(ShownOf(tree), [dev |-> d, chans |-> {}])
  <2> DEFINE node == [dev |-> d, chans |-> {}]
             sh == ShownOf(tree)
  <2>1. node \in ViewNode
    BY <1>1 DEF ViewNode
  <2>2. /\ sh \in Seq(ViewNode) /\ Len(sh) = Len(tree)
        /\ \A i \in 1..Len(tree) : sh[i] = [dev |-> tree[i].dev, chans |-> ToSet(tree[i].chans)]
    BY <1>3, ShownOfTypes
  <2>3. /\ ShownOf(tr) \in Seq(ViewNode) /\ Len(ShownOf(tr)) = Len(tree) + 1
        /\ \A i \in 1..(Len(tree) + 1) :
              ShownOf(tr)[i] = [dev |-> tr[i].dev, chans |-> ToSet(tr[i].chans)]
    <3> HIDE DEF tr
    <3> QED
      BY <1>4, ShownOfTypes
  <2> HIDE DEF node, sh
  <2>4. /\ Append(sh, node) \in Seq(ViewNode) /\ Len(Append(sh, node)) = Len(tree) + 1
        /\ \A i \in 1..Len(tree) : Append(sh, node)[i] = sh[i]
        /\ Append(sh, node)[Len(tree) + 1] = node
    BY <2>1, <2>2, AppendProperties
  <2>5. ASSUME NEW i \in 1..(Len(tree) + 1) PROVE ShownOf(tr)[i] = Append(sh, node)[i]
    <3>1. CASE i = Len(tree) + 1
      <4>1. ToSet(<<>>) = {}
        BY DEF ToSet
      <4>2. tr[i].dev = d /\ tr[i].chans = <<>>
        BY <1>2, <1>4, <3>1
      <4>3. ShownOf(tr)[i] = [dev |-> d, chans |-> {}]
        BY <2>3, <4>1, <4>2
      <4> QED
        BY <2>4, <3>1, <4>3 DEF node
    <3>2. CASE i # Len(tree) + 1
      <4>1. i \in 1..Len(tree)
        BY <1>3, <3>2
      <4> QED
        BY <1>4, <2>2, <2>3, <2>4, <4>1
    <3> QED
      BY <3>1, <3>2
  <2>6. ShownOf(tr) = Append(sh, node)
    BY <2>3, <2>4, <2>5, SeqEqual
  <2> QED
    BY <2>6 DEF node, sh
<1>7. ShownOf(tr) = Handled(ShownOf(tree), Head(signals))
  BY <1>0, <1>6, HandledAppended
<1> QED
  BY <1>0, <1>4, <1>5, <1>7, SlotDone

(* A channel more in a list that shows none twice. *)
LEMMA ChannelAdded ==
    ASSUME NEW node \in Node, IsInjective(node.chans), NEW c \in Channels
    PROVE  /\ WithChannel(node, c) \in Node /\ WithChannel(node, c).dev = node.dev
           /\ IsInjective(WithChannel(node, c).chans)
           /\ ToSet(WithChannel(node, c).chans) = ToSet(node.chans) \cup {c}
<1> DEFINE s == node.chans
<1>0. s \in Seq(Channels) /\ node.dev \in Devices /\ ToSet(s) = {s[i] : i \in DOMAIN s}
  BY DEF Node, ToSet
<1>1. CASE c \in ToSet(s)
  BY <1>0, <1>1 DEF WithChannel
<1>2. CASE c \notin ToSet(s)
  <2> DEFINE u == Append(s, c)
  <2>1. /\ u \in Seq(Channels) /\ Len(s) \in Nat /\ DOMAIN s = 1..Len(s)
        /\ DOMAIN u = 1..(Len(s) + 1)
        /\ \A i \in 1..Len(s) : u[i] = s[i]
        /\ u[Len(s) + 1] = c
    BY <1>0, AppendProperties, LenProperties
  <2>2. WithChannel(node, c) \in Node /\ WithChannel(node, c).dev = node.dev
        /\ WithChannel(node, c).chans = u
    BY <1>2, <2>1 DEF WithChannel, Node
  <2> HIDE DEF u
  <2>3. \A i \in 1..Len(s) : s[i] # c
    BY <1>0, <1>2, <2>1
  <2>4. IsInjective(u)
    <3>1. ASSUME NEW i \in DOMAIN u, NEW j \in DOMAIN u, u[i] = u[j] PROVE i = j
      <4>1. CASE i = Len(s) + 1
        BY <2>1, <2>3, <3>1, <4>1
      <4>2. CASE j = Len(s) + 1
        BY <2>1, <2>3, <3>1, <4>2
      <4>3. CASE i # Len(s) + 1 /\ j # Len(s) + 1
        <5>1. i \in DOMAIN s /\ j \in DOMAIN s /\ s[i] = s[j]
          BY <2>1, <3>1, <4>3
        <5> QED
          BY <5>1 DEF IsInjective
      <4> QED
        BY <4>1, <4>2, <4>3
    <3> QED
      BY <3>1 DEF IsInjective
  <2>5. ToSet(u) = ToSet(s) \cup {c}
    <3>1. DOMAIN u = DOMAIN s \cup {Len(s) + 1}
      BY <2>1
    <3>2. ToSet(u) = {u[i] : i \in DOMAIN u}
      BY DEF ToSet
    <3> QED
      BY <1>0, <2>1, <3>1, <3>2
  <2> QED
    BY <2>2, <2>4, <2>5
<1> QED
  BY <1>1, <1>2

(* channelReceived: the node of the device gets the channel, if there is    *)
(* one.  (The channel of the signal is a channel, for the tree the signals  *)
(* make shows channels only.)                                               *)
LEMMA OnChannelReceivedPreserves ==
    ASSUME ViewInv, OnChannelReceived
    PROVE  ViewInv'
<1> DEFINE s == Head(signals)
           sh == ShownOf(tree)
<1>0. /\ signals # <<>> /\ s.kind = "channelReceived" /\ scan = 0 /\ scan' = 0
      /\ DeliverSignal
  BY DEF OnChannelReceived, PendingCall
<1>1. /\ tree \in Seq(Node) /\ signals \in Seq(Signal)
      /\ Len(tree) \in Nat /\ DOMAIN tree = 1..Len(tree)
      /\ \A i \in 1..Len(tree) : tree[i] \in Node
      /\ \A i, j \in DOMAIN tree : tree[i].dev = tree[j].dev => i = j
      /\ Makes(sh, signals, ViewOf(devs))
  BY ViewFacts
<1>2. /\ sh \in Seq(ViewNode) /\ Len(sh) = Len(tree) /\ DOMAIN sh = 1..Len(tree)
      /\ \A i \in 1..Len(tree) : sh[i] = [dev |-> tree[i].dev, chans |-> ToSet(tree[i].chans)]
  BY <1>1, ShownOfTypes
<1>3. \A i \in 1..Len(tree) : /\ sh[i] \in ViewNode /\ sh[i].dev = tree[i].dev
                              /\ sh[i].chans = ToSet(tree[i].chans)
  BY <1>2, ViewElements
<1> HIDE DEF s, sh
<1>4. Handled(sh, s) =
         [i \in 1..Len(tree) |-> IF sh[i].dev = s.dev
                                 THEN [sh[i] EXCEPT !.chans = @ \cup {s.chan}] ELSE sh[i]]
  BY <1>0, <1>2, HandledChannel
<1>5. Handled(sh, s) \in Seq(ViewNode)
  BY <1>0, <1>1, MakesTail DEF s
<1>6. CASE \A i \in DOMAIN tree : tree[i].dev # s.dev
  <2>1. tree' = tree
    BY <1>6 DEF OnChannelReceived, NodeAt, s
  <2>2. Handled(sh, s) = [i \in 1..Len(tree) |-> sh[i]]
    <3>1. \A i \in 1..Len(tree) : sh[i].dev # s.dev
      BY <1>1, <1>3, <1>6
    <3> QED
      BY <1>4, <3>1
  <2>3. [i \in 1..Len(tree) |-> sh[i]] = sh
    BY <1>2
  <2>4. ShownOf(tree') = Handled(ShownOf(tree), Head(signals))
    BY <2>1, <2>2, <2>3 DEF s, sh
  <2>5. ChannelsOnce'
    BY <2>1 DEF ViewInv, ChannelsOnce
  <2> QED
    BY <1>0, <1>1, <2>1, <2>4, <2>5, SlotDone
<1>7. ASSUME NEW i \in DOMAIN tree, tree[i].dev = s.dev,
             tree' = [tree EXCEPT ![i] = WithChannel(@, s.chan)]
      PROVE  ViewInv'
  <2>1. s.chan \in Channels
    <3>1. Handled(sh, s)[i] \in ViewNode
      <4>1. Len(Handled(sh, s)) = Len(tree)
        BY <1>1, <1>4, <1>5
      <4> QED
        BY <1>1, <1>5, <1>7, <4>1, ElementOfSeq
    <3>2. Handled(sh, s)[i] = [sh[i] EXCEPT !.chans = @ \cup {s.chan}]
      BY <1>1, <1>3, <1>4, <1>7
    <3>3. Handled(sh, s)[i].chans = sh[i].chans \cup {s.chan}
      <4>1. sh[i] \in ViewNode
        BY <1>1, <1>3
      <4> QED
        BY <3>2, <4>1 DEF ViewNode
    <3> QED
      BY <3>1, <3>3 DEF ViewNode
  <2> DEFINE new == WithChannel(tree[i], s.chan)
             tr == tree'
  <2>2. tree[i] \in Node /\ IsInjective(tree[i].chans)
    BY <1>1, <1>7 DEF ViewInv, ChannelsOnce
  <2>3. /\ new \in Node /\ new.dev = tree[i].dev /\ IsInjective(new.chans)
        /\ ToSet(new.chans) = ToSet(tree[i].chans) \cup {s.chan}
    BY <2>1, <2>2, ChannelAdded
  <2>4. tree' = [tree EXCEPT ![i] = new]
    BY <1>7
  <2> HIDE DEF new
  <2>5. /\ tr \in Seq(Node) /\ Len(tr) = Len(tree) /\ DOMAIN tr = 1..Len(tree)
        /\ \A j \in 1..Len(tree) : tr[j] = IF j = i THEN new ELSE tree[j]
    BY <1>1, <1>7, <2>3, <2>4, ExceptSeq, LenProperties
  <2>6. ChannelsOnce'
    <3>1. \A j \in 1..Len(tree) : IsInjective(tr[j].chans)
      BY <1>1, <2>3, <2>5 DEF ViewInv, ChannelsOnce
    <3> QED
      BY <2>5, <3>1 DEF ChannelsOnce
  <2>7. ShownOf(tr) = Handled(sh, s)
    <3>1. /\ ShownOf(tr) \in Seq(ViewNode) /\ Len(ShownOf(tr)) = Len(tree)
          /\ DOMAIN ShownOf(tr) = 1..Len(tree)
          /\ \A j \in 1..Len(tree) :
                ShownOf(tr)[j] = [dev |-> tr[j].dev, chans |-> ToSet(tr[j].chans)]
      <4> HIDE DEF tr
      <4> QED
        BY <2>5, ShownOfTypes
    <3>2. ASSUME NEW j \in 1..Len(tree) PROVE ShownOf(tr)[j] = Handled(sh, s)[j]
      <4>1. CASE j = i
        <5>1. Handled(sh, s)[j] = [sh[i] EXCEPT !.chans = @ \cup {s.chan}]
          BY <1>1, <1>3, <1>4, <1>7, <4>1
        <5>2. [sh[i] EXCEPT !.chans = @ \cup {s.chan}]
                 = [dev |-> tree[i].dev, chans |-> ToSet(tree[i].chans) \cup {s.chan}]
          <6>1. /\ sh[i] \in ViewNode /\ sh[i].dev = tree[i].dev
                /\ sh[i].chans = ToSet(tree[i].chans)
            BY <1>1, <1>3
          <6>2. PICK r \in ViewNode : r = sh[i]
            BY <6>1
          <6>3. PICK cs : cs = {s.chan}
            OBVIOUS
          <6>4. PICK b : b = ToSet(tree[i].chans)
            OBVIOUS
          <6>5. PICK a : a = tree[i].dev
            OBVIOUS
          <6>6. r.dev = a /\ r.chans = b
            BY <6>1, <6>2, <6>4, <6>5
          <6>7. [r EXCEPT !.chans = r.chans \cup cs] = [dev |-> a, chans |-> b \cup cs]
            BY <6>6, NodeWith
          <6> QED
            BY <6>2, <6>3, <6>4, <6>5, <6>7
        <5> QED
          BY <2>3, <2>5, <3>1, <4>1, <5>1, <5>2
      <4>2. CASE j # i
        <5>1. tree[j].dev # s.dev
          BY <1>1, <1>7, <4>2
        <5> QED
          BY <1>2, <1>3, <1>4, <2>5, <3>1, <4>2, <5>1
      <4> QED
        BY <4>1, <4>2
    <3>3. /\ ShownOf(tr) = [j \in 1..Len(tree) |-> ShownOf(tr)[j]]
          /\ Handled(sh, s) = [j \in 1..Len(tree) |-> Handled(sh, s)[j]]
      BY <1>4, <3>1
    <3> QED
      BY <3>2, <3>3
  <2> QED
    BY <1>0, <2>5, <2>6, <2>7, SlotDone DEF sh, s
<1> QED
  BY <1>6, <1>7 DEF OnChannelReceived, NodeAt, s

(* deviceRemoved is called. *)
LEMMA RemoveLoopEnterPreserves ==
    ASSUME ViewInv, RemoveLoopEnter
    PROVE  ViewInv'
<1>1. /\ signals # <<>> /\ Head(signals).kind = "deviceRemoved"
      /\ tree' = tree /\ scan' = 1 /\ UNCHANGED vars
  BY DEF RemoveLoopEnter, PendingCall
<1>2. /\ tree \in Seq(Node) /\ Len(tree) \in Nat /\ DOMAIN tree = 1..Len(tree)
      /\ Makes(ShownOf(tree), signals, ViewOf(devs))
  BY ViewFacts
<1>3. IInv'
  BY <1>1, InvStep DEF ViewInv
<1>4. ChannelsOnce'
  BY <1>1 DEF ViewInv, ChannelsOnce
<1>5. scan' \in 0..(Len(tree') + 2)
  BY <1>1, <1>2
<1>6. ScanBehind'
  BY <1>1, <1>2 DEF ScanBehind, vars
<1>7. Makes(ShownOf(tree'), signals', ViewOf(devs'))
  BY <1>1, <1>2 DEF vars
<1> QED
  BY <1>1, <1>2, <1>3, <1>4, <1>5, <1>6, <1>7, ViewInvFrom

(* Its loop has gone over the tree: no node of the device is left, and the  *)
(* signal changes nothing any more.                                         *)
LEMMA RemoveLoopExitPreserves ==
    ASSUME ViewInv, RemoveLoopExit
    PROVE  ViewInv'
<1> DEFINE s == Head(signals)
           sh == ShownOf(tree)
<1>1. /\ scan > Len(tree) /\ scan > 0 /\ scan' = 0 /\ tree' = tree /\ DeliverSignal
  BY DEF RemoveLoopExit
<1>2. /\ tree \in Seq(Node) /\ Len(tree) \in Nat /\ DOMAIN tree = 1..Len(tree)
      /\ scan \in 0..(Len(tree) + 2) /\ sh \in Seq(ViewNode) /\ Distinct(sh)
  BY ViewFacts
<1>3. s.kind = "deviceRemoved" /\ \A i \in 1..Len(tree) : tree[i].dev # s.dev
  BY <1>1, <1>2 DEF ViewInv, ScanBehind
<1>4. /\ DOMAIN sh = 1..Len(tree)
      /\ \A i \in 1..Len(tree) : sh[i] = [dev |-> tree[i].dev, chans |-> ToSet(tree[i].chans)]
  BY <1>2, ShownOfTypes
<1> HIDE DEF s, sh
<1>5. \A i \in DOMAIN sh : sh[i].dev # s.dev
  BY <1>3, <1>4
<1>6. Handled(sh, s) = sh
  BY <1>2, <1>3, <1>5, HandledRemoved
<1>7. ChannelsOnce'
  BY <1>1 DEF ViewInv, ChannelsOnce
<1>8. ShownOf(tree') = Handled(ShownOf(tree), Head(signals))
  BY <1>1, <1>6 DEF s, sh
<1> QED
  BY <1>1, <1>2, <1>7, <1>8, SlotDone

(* One turn of the loop.  A node of another device stays.  The node of the  *)
(* device goes; the tree has no second one, so that what the signal makes   *)
(* of the tree is done, and nothing that the loop skips is of the device.   *)
LEMMA RemoveLoopStepPreserves ==
    ASSUME ViewInv, RemoveLoopStep
    PROVE  ViewInv'
<1> DEFINE s == Head(signals)
           sh == ShownOf(tree)
           tr == tree'
<1>1. /\ scan \in DOMAIN tree /\ scan' = scan + 1 /\ UNCHANGED vars
      /\ tree' = IF tree[scan].dev = s.dev THEN RemoveAt(tree, scan) ELSE tree
  BY DEF RemoveLoopStep
<1>2. /\ tree \in Seq(Node) /\ signals \in Seq(Signal)
      /\ Len(tree) \in Nat /\ DOMAIN tree = 1..Len(tree)
      /\ \A i \in 1..Len(tree) : tree[i] \in Node
      /\ Makes(sh, signals, ViewOf(devs)) /\ Distinct(sh)
      /\ \A i, j \in DOMAIN tree : tree[i].dev = tree[j].dev => i = j
  BY ViewFacts
<1>3. /\ scan \in 1..Len(tree) /\ signals # <<>> /\ s.kind = "deviceRemoved"
      /\ \A i \in 1..Len(tree) : i < scan => tree[i].dev # s.dev
  BY <1>1, <1>2 DEF ViewInv, ScanBehind
<1>4. IInv' /\ signals' = signals /\ devs' = devs /\ Head(signals') = s
  BY <1>1, InvStep DEF ViewInv, vars
<1>5. CASE tree[scan].dev # s.dev
  <2>1. tree' = tree
    BY <1>1, <1>5
  <2>2. ChannelsOnce'
    BY <2>1 DEF ViewInv, ChannelsOnce
  <2>3. scan' \in 0..(Len(tree') + 2)
    BY <1>1, <1>2, <1>3, <2>1
  <2>4. \A i \in DOMAIN tree : i < scan + 1 => tree[i].dev # s.dev
    <3>1. \A i \in 1..Len(tree) : i < scan + 1 => i < scan \/ i = scan
      BY <1>3
    <3> QED
      BY <1>2, <1>3, <1>5, <3>1
  <2>5. ScanBehind'
    <3> HIDE DEF s
    <3>1. s = Head(signals)
      BY DEF s
    <3> QED
      BY <1>1, <1>3, <1>4, <2>1, <2>4, <3>1 DEF ScanBehind
  <2>6. Makes(ShownOf(tree'), signals', ViewOf(devs'))
    BY <1>2, <1>4, <2>1
  <2> QED
    BY <1>2, <1>4, <2>1, <2>2, <2>3, <2>5, <2>6, ViewInvFrom
<1>6. CASE tree[scan].dev = s.dev
  <2>0. tr = RemoveAt(tree, scan)
    BY <1>1, <1>6
  <2>1. /\ tr \in Seq(Node) /\ Len(tr) = Len(tree) - 1 /\ DOMAIN tr = 1..(Len(tree) - 1)
        /\ \A j \in 1..(Len(tree) - 1) : tr[j] = IF j < scan THEN tree[j] ELSE tree[j + 1]
    <3>1. /\ RemoveAt(tree, scan) \in Seq(Node)
          /\ Len(RemoveAt(tree, scan)) = Len(tree) - 1
          /\ \A j \in 1..(Len(tree) - 1) :
                RemoveAt(tree, scan)[j] = IF j < scan THEN tree[j] ELSE tree[j + 1]
      BY <1>2, <1>3, RemoveAtProperties
    <3> HIDE DEF tr
    <3> QED
      BY <2>0, <3>1, LenProperties
  <2>2. \A j \in 1..(Len(tree) - 1) :
           \E i \in 1..Len(tree) : /\ i # scan /\ tr[j] = tree[i]
                                   /\ i = IF j < scan THEN j ELSE j + 1
    <3>1. ASSUME NEW j \in 1..(Len(tree) - 1)
          PROVE  \E i \in 1..Len(tree) : /\ i # scan /\ tr[j] = tree[i]
                                         /\ i = IF j < scan THEN j ELSE j + 1
      <4>1. PICK i \in 1..Len(tree) : i # scan /\ i = IF j < scan THEN j ELSE j + 1
        <5>1. j \in 1..Len(tree) /\ j + 1 \in 1..Len(tree)
          BY <1>2
        <5> QED
          BY <1>3, <5>1
      <4> QED
        BY <2>1, <4>1
    <3> QED
      BY <3>1
  <2>3. \A j \in 1..(Len(tree) - 1) : tr[j].dev # s.dev
    BY <1>2, <1>3, <1>6, <2>2
  <2>4. ChannelsOnce'
    <3>1. \A j \in 1..(Len(tree) - 1) : IsInjective(tr[j].chans)
      BY <1>2, <2>2 DEF ViewInv, ChannelsOnce
    <3> QED
      BY <2>1, <3>1 DEF ChannelsOnce
  <2>5. scan' \in 0..(Len(tree') + 2)
    <3>1. Len(tree') = Len(tree) - 1
      BY <2>1
    <3>2. scan + 1 \in 0..((Len(tree) - 1) + 2)
      BY <1>2, <1>3
    <3>3. scan' = scan + 1
      BY <1>1
    <3> QED
      BY <3>1, <3>2, <3>3
  <2>6. ScanBehind'
    <3> HIDE DEF s
    <3>1. s = Head(signals)
      BY DEF s
    <3> QED
      BY <1>3, <1>4, <2>1, <2>3, <3>1 DEF ScanBehind
  <2>7. Makes(ShownOf(tree'), signals', ViewOf(devs'))
    <3>1. /\ sh \in Seq(ViewNode) /\ Len(sh) = Len(tree) /\ DOMAIN sh = 1..Len(tree)
          /\ \A i \in 1..Len(tree) : sh[i] = [dev |-> tree[i].dev, chans |-> ToSet(tree[i].chans)]
      BY <1>2, ShownOfTypes
    <3>2. /\ ShownOf(tr) \in Seq(ViewNode) /\ Len(ShownOf(tr)) = Len(tree) - 1
          /\ DOMAIN ShownOf(tr) = 1..(Len(tree) - 1)
          /\ \A i \in 1..(Len(tree) - 1) :
                ShownOf(tr)[i] = [dev |-> tr[i].dev, chans |-> ToSet(tr[i].chans)]
      <4> HIDE DEF tr
      <4> QED
        BY <2>1, ShownOfTypes
    <3> HIDE DEF sh
    <3>3. ShownOf(tr) = RemoveAt(sh, scan)
      <4>1. /\ RemoveAt(sh, scan) \in Seq(ViewNode)
            /\ Len(RemoveAt(sh, scan)) = Len(tree) - 1
            /\ \A j \in 1..(Len(tree) - 1) :
                  RemoveAt(sh, scan)[j] = IF j < scan THEN sh[j] ELSE sh[j + 1]
        <5>1. scan \in 1..Len(sh)
          BY <1>3, <3>1
        <5> QED
          BY <3>1, <5>1, RemoveAtProperties
      <4>2. ASSUME NEW j \in 1..(Len(tree) - 1)
            PROVE  ShownOf(tr)[j] = RemoveAt(sh, scan)[j]
        <5>1. PICK i \in 1..Len(tree) : tr[j] = tree[i] /\ i = IF j < scan THEN j ELSE j + 1
          BY <2>2
        <5>2. RemoveAt(sh, scan)[j] = sh[i]
          BY <4>1, <5>1
        <5> QED
          BY <3>1, <3>2, <5>1, <5>2
      <4> QED
        BY <3>2, <4>1, <4>2, SeqEqual
    <3> HIDE DEF s, tr
    <3>4. Handled(sh, s) = RemoveAt(sh, scan)
      <4>1. scan \in DOMAIN sh /\ sh[scan].dev = s.dev
        BY <1>3, <1>6, <3>1
      <4> QED
        BY <1>2, <1>3, <4>1, HandledRemoved DEF sh
    <3>5. \A i \in DOMAIN ShownOf(tr) : ShownOf(tr)[i].dev # s.dev
      BY <2>3, <3>2
    <3>6. Handled(sh, s) \in Seq(ViewNode) /\ Distinct(Handled(sh, s))
      BY <1>2, <1>3, MakesTail DEF s, sh
    <3>7. Handled(ShownOf(tr), s) = ShownOf(tr)
      BY <1>3, <3>3, <3>4, <3>5, <3>6, HandledRemoved
    <3>8. Makes(ShownOf(tr), signals, ViewOf(devs))
      BY <1>2, <1>3, <3>2, <3>3, <3>4, <3>6, <3>7, MakesAlike DEF s, sh
    <3> QED
      BY <1>4, <3>8 DEF tr
  <2> QED
    BY <1>4, <2>1, <2>4, <2>5, <2>6, <2>7, ViewInvFrom
<1> QED
  BY <1>5, <1>6

(* The SIP thread, the sweep and the clock leave the tree alone; what they  *)
(* change, the signals say.                                                 *)
LEMMA RegistryStepPreserves ==
    ASSUME ViewInv, UNCHANGED <<tree, scan>>, \/ \E d \in Devices : Request(d)
                                              \/ Sweep \/ Second
    PROVE  ViewInv'
<1>1. IInv /\ IInv'
  BY InvStep DEF ViewInv, Next
<1>2. tree' = tree /\ scan' = scan
  OBVIOUS
<1>3. /\ tree \in Seq(Node) /\ scan \in 0..(Len(tree) + 2)
      /\ Makes(ShownOf(tree), signals, ViewOf(devs))
  BY ViewFacts
<1>4. Makes(ShownOf(tree), signals', ViewOf(devs'))
  BY <1>1, <1>3, RegistryMakes
<1>5. ChannelsOnce'
  BY <1>2 DEF ViewInv, ChannelsOnce
<1>6. ScanBehind'
  <2>1. signals # <<>> => signals' # <<>> /\ Head(signals') = Head(signals)
    BY <1>1, HeadStays
  <2> QED
    BY <1>2, <2>1 DEF ViewInv, ScanBehind
<1> QED
  BY <1>1, <1>2, <1>3, <1>4, <1>5, <1>6, ViewInvFrom

(* Every step preserves the invariant. *)
LEMMA ViewInvStep == ViewInv /\ [ViewNext]_viewVars => ViewInv'
<1> SUFFICES ASSUME ViewInv, [ViewNext]_viewVars PROVE ViewInv'
  OBVIOUS
<1>1. CASE /\ \/ \E d \in Devices : Request(d)
              \/ Sweep
              \/ Second
           /\ UNCHANGED <<tree, scan>>
  BY <1>1, RegistryStepPreserves
<1>2. CASE UiStep
  BY <1>2, OnDeviceAppendedPreserves, OnChannelReceivedPreserves, RemoveLoopEnterPreserves,
     RemoveLoopStepPreserves, RemoveLoopExitPreserves DEF UiStep
<1>3. CASE UNCHANGED viewVars
  <2>1. UNCHANGED vars /\ tree' = tree /\ scan' = scan /\ signals' = signals /\ devs' = devs
    BY <1>3 DEF viewVars, vars
  <2>2. IInv'
    BY <2>1, InvStep DEF ViewInv
  <2>3. ChannelsOnce' /\ ScanBehind'
    BY <2>1 DEF ViewInv, ChannelsOnce, ScanBehind
  <2>4. /\ tree \in Seq(Node) /\ scan \in 0..(Len(tree) + 2)
        /\ Makes(ShownOf(tree), signals, ViewOf(devs))
    BY ViewFacts
  <2> QED
    BY <2>1, <2>2, <2>3, <2>4, ViewInvFrom
<1> QED
  BY <1>1, <1>2, <1>3 DEF ViewNext

(* It holds before the first request. *)
LEMMA ViewInvInit == ViewInit => ViewInv
<1> SUFFICES ASSUME ViewInit PROVE ViewInv
  OBVIOUS
<1>1. IInv /\ TypeOK
  BY InvInit DEF ViewInit, IInv
<1>2. devs = <<>> /\ signals = <<>> /\ tree = <<>> /\ scan = 0
  BY DEF ViewInit, Init
<1>3. ViewTypeOK /\ ChannelsOnce /\ ScanBehind
  BY <1>1, <1>2, EmptySeq DEF ViewTypeOK, ChannelsOnce, ScanBehind
<1>4. Makes(<<>>, <<>>, <<>>)
  <2>1. <<>> \in Seq(ViewNode) /\ DOMAIN <<>> = {}
    OBVIOUS
  <2>2. Distinct(<<>>)
    BY <2>1 DEF Distinct
  <2> QED
    BY <2>1, <2>2, MakesNone
<1>5. Shown = <<>> /\ RegistryView = <<>>
  BY <1>2 DEF Shown, RegistryView
<1> QED
  BY <1>1, <1>2, <1>3, <1>4, <1>5 DEF ViewInv

-----------------------------------------------------------------------------
(* Theorems. *)

(* The invariant of the device tree: with the invariant of the registry it  *)
(* says that the tree and the waiting signals make the registry, through    *)
(* trees that show no device twice, and that the loop of deviceRemoved      *)
(* leaves nothing of the device behind.                                     *)
THEOREM ViewInvariant == ViewSpec => []ViewInv
<1> QED
  BY ViewInvInit, ViewInvStep, PTL DEF ViewSpec

(* The tree is a list of nodes, and the loop of deviceRemoved never is more *)
(* than one child past the end.                                             *)
THEOREM ViewTypesHold == ViewSpec => []ViewTypeOK
<1>1. ViewInv => ViewTypeOK
  BY DEF ViewInv
<1> QED
  BY <1>1, ViewInvariant, PTL

(* The tree never shows a device twice, nor a channel twice in a device,    *)
(* though deviceAppended does not look.                                     *)
THEOREM NoDuplicateNodesHolds == ViewSpec => []NoDuplicateNodes
<1>1. ViewInv => NoDuplicateNodes
  BY ViewFacts DEF ViewInv, ChannelsOnce, NoDuplicateNodes
<1> QED
  BY <1>1, ViewInvariant, PTL

(* The tree and the signals under way add up to the registry.               *)
THEOREM ViewFollowsRegistryHolds == ViewSpec => []ViewFollowsRegistry
<1>1. ViewInv => ViewFollowsRegistry
  BY UpcomingIs DEF ViewInv, ViewTypeOK, TypeOK, ViewFollowsRegistry
<1> QED
  BY <1>1, ViewInvariant, PTL

(* The registry under the tree keeps every promise it makes by itself.      *)
THEOREM RegistrySafeUnderView == ViewSpec => Spec
<1>1. ViewInit => Init
  BY DEF ViewInit
<1>2. [ViewNext]_viewVars => [Next]_vars
  BY DEF ViewNext, viewVars, vars, UiStep, OnDeviceAppended, OnChannelReceived,
         RemoveLoopEnter, RemoveLoopStep, RemoveLoopExit, Next
<1> QED
  BY <1>1, <1>2, PTL DEF ViewSpec, Spec
=============================================================================
