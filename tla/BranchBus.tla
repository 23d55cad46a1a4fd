------------------------------ MODULE BranchBus ------------------------------
(***************************************************************************)
(* What the coupler handling promises to the rest of the program, with no  *)
(* couplers' memory, loops or retries: at any time at most one branch of   *)
(* the bus is powered, a device is sampled only while exactly the branch   *)
(* it hangs on is powered (none, for a device on the trunk), and the       *)
(* wiring is only redefined while every branch is off.                     *)
(***************************************************************************)
EXTENDS FiniteSets

CONSTANTS
    Devices,  \* the readable devices
    None,     \* "on the trunk"; "no device is being sampled"
    Routes    \* the wirings: functions from Devices to a branch or None

VARIABLES
    route,    \* the wiring in force
    live,     \* the set of powered branches: empty or a singleton
    sampling  \* the device being sampled, or None

vars == <<route, live, sampling>>

Needs(d) == {route[d]} \ {None}

Init ==
    /\ route \in Routes
    /\ live = {}
    /\ sampling = None

\* Another branch is powered only once every branch of another coupler is off;
\* a coupler itself breaks before it makes.
Connect(b) ==
    /\ sampling = None
    /\ \A l \in live : l.coupler = b.coupler
    /\ live' = {b}
    /\ UNCHANGED <<route, sampling>>

Disconnect ==
    /\ sampling = None
    /\ live' = {}
    /\ UNCHANGED <<route, sampling>>

Sample(d) ==
    /\ sampling = None
    /\ live = Needs(d)
    /\ sampling' = d
    /\ UNCHANGED <<route, live>>

Done ==
    /\ sampling # None
    /\ sampling' = None
    /\ UNCHANGED <<route, live>>

Rewire ==
    /\ sampling = None
    /\ live = {}
    /\ route' \in Routes
    /\ UNCHANGED <<live, sampling>>

Next ==
    \/ \E d \in Devices :
           \/ route[d] # None /\ Connect(route[d])
           \/ Sample(d)
    \/ Disconnect
    \/ Done
    \/ Rewire

Spec == Init /\ [][Next]_vars
=============================================================================
