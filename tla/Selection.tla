----------------------------- MODULE Selection ------------------------------
(***************************************************************************)
(* What w1_select_device promises to the readers, with no search in it:    *)
(* a device is reported as found only when it is on the bus, and one       *)
(* attempt fails to find it only if the attempt was not calm, that is, if  *)
(* the device was away, some device left, or the bus was noisy.  Devices   *)
(* that join the bus during an attempt disturb nothing.                    *)
(***************************************************************************)
EXTENDS Naturals

CONSTANTS
    Devices,   \* the devices there are
    None,      \* "nothing is asked for"
    MaxRetry   \* attempts per device in one pass

VARIABLES
    bus,       \* the devices on the bus
    noise,     \* TRUE while the bus is disturbed
    state,     \* "idle", "asking", "found" or "failed"
    asked,     \* the device asked for
    attempt,   \* the number of the attempt
    calm       \* nothing disturbed this attempt so far

vars == <<bus, noise, state, asked, attempt, calm>>

Init ==
    /\ bus \subseteq Devices
    /\ noise = FALSE
    /\ state = "idle"
    /\ asked = None
    /\ attempt = 0
    /\ calm = FALSE

\* The devices come and go, noise begins and ends.
Environment ==
    /\ bus' \subseteq Devices
    /\ noise' \in BOOLEAN
    /\ calm' = (calm /\ bus \subseteq bus' /\ ~noise')
    /\ UNCHANGED <<state, asked, attempt>>

Attempt(d, n) ==
    /\ state' = "asking"
    /\ asked' = d
    /\ attempt' = n
    /\ calm' = (d \in bus /\ ~noise)
    /\ UNCHANGED <<bus, noise>>

Ask(d) == state = "idle" /\ Attempt(d, 1)
Again  == state = "failed" /\ attempt < MaxRetry /\ Attempt(asked, attempt + 1)

Find ==
    /\ state = "asking"
    /\ asked \in bus
    /\ state' = "found"
    /\ UNCHANGED <<bus, noise, asked, attempt, calm>>

Miss ==
    /\ state = "asking"
    /\ ~calm
    /\ state' = "failed"
    /\ UNCHANGED <<bus, noise, asked, attempt, calm>>

\* The reader makes nothing of the device it was given.
Unread ==
    /\ state = "found"
    /\ state' = "failed"
    /\ UNCHANGED <<bus, noise, asked, attempt, calm>>

\* The device was read, or its attempts are used up.
Leave ==
    /\ state = "found" \/ (state = "failed" /\ attempt = MaxRetry)
    /\ state' = "idle"
    /\ asked' = None
    /\ attempt' = 0
    /\ calm' = FALSE
    /\ UNCHANGED <<bus, noise>>

Next ==
    \/ Environment
    \/ \E d \in Devices : Ask(d)
    \/ Again
    \/ Find
    \/ Miss
    \/ Unread
    \/ Leave

Spec == Init /\ [][Next]_vars
=============================================================================
