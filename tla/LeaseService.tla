------------------------------ MODULE LeaseService ------------------------------
(***************************************************************************)
(* What the device registry of GBClient promises, without saying how: a    *)
(* device that registers holds a lease with a contact address and a term.  *)
(* Hearing from it (a new REGISTER, a Keepalive) restarts the idle clock.  *)
(* Now and then the leases are checked, and no request is served meanwhile.*)
(* A lease ends when the device logs out, or in a check: and there only    *)
(* once the device has been idle for its term less Slack.                  *)
(*                                                                         *)
(* DeviceInfos.tla implements this service (see LeaseRefinement there).    *)
(***************************************************************************)
EXTENDS Integers

CONSTANTS Devices,  \* device ids
          Addrs,    \* contact addresses
          Terms,    \* granted lease terms, in seconds
          Slack     \* how many seconds early a lease may expire

VARIABLES leases,   \* leases[d]: address and term, for the devices that hold one
          idle,     \* idle[d]: seconds since d was last heard from
          checking  \* whether the leases are being checked

vars == <<leases, idle, checking>>

Lease == [addr : Addrs, term : Terms]

TypeOK == /\ DOMAIN leases \subseteq Devices
          /\ \A d \in DOMAIN leases : leases[d] \in Lease
          /\ idle \in [Devices -> Nat]
          /\ checking \in BOOLEAN

Init == /\ leases = [d \in {} |-> 0]
        /\ idle = [d \in Devices |-> 0]
        /\ checking = FALSE

Without(d) == [x \in DOMAIN leases \ {d} |-> leases[x]]

-----------------------------------------------------------------------------
(* A new lease, or a new address and term for a device that has one. *)
Register(d, addr, term) ==
    /\ ~checking
    /\ leases' = [x \in DOMAIN leases \cup {d} |->
                    IF x = d THEN [addr |-> addr, term |-> term] ELSE leases[x]]
    /\ idle' = [idle EXCEPT ![d] = 0]
    /\ UNCHANGED checking

(* The device shows it is alive: the lease runs for its full term again. *)
Heartbeat(d) == /\ ~checking
                /\ d \in DOMAIN leases
                /\ idle' = [idle EXCEPT ![d] = 0]
                /\ UNCHANGED <<leases, checking>>

End(d) == /\ d \in DOMAIN leases
          /\ leases' = Without(d)
          /\ idle' = [idle EXCEPT ![d] = 0]
          /\ UNCHANGED checking

Logout(d) == ~checking /\ End(d)

Expire(d) == checking /\ End(d) /\ idle[d] + Slack >= leases[d].term

(* A check begins or ends. *)
Check == checking' = ~checking /\ UNCHANGED <<leases, idle>>

Tick == /\ idle' = [d \in Devices |-> IF d \in DOMAIN leases THEN idle[d] + 1 ELSE 0]
        /\ UNCHANGED <<leases, checking>>

Next == \/ Tick
        \/ Check
        \/ \E d \in Devices : \/ \E addr \in Addrs, term \in Terms : Register(d, addr, term)
                              \/ Heartbeat(d)
                              \/ Logout(d)
                              \/ Expire(d)

Spec == Init /\ [][Next]_vars
=============================================================================
