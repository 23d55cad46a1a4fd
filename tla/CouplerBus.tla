----------------------------- MODULE CouplerBus -----------------------------
(***************************************************************************)
(* The DS2409 couplers that split the 1-wire bus into switched branches.   *)
(* w1sensors.c keeps, for each coupler, the lines it last asked for        *)
(* (active_lines) and sends a switch command only when the wanted lines    *)
(* differ from that memory; the answer of the command is not looked at.    *)
(* This module puts the remembered lines next to the lines that are really *)
(* powered, and follows every command of a read pass: the selection of one *)
(* device after the other, the retries, the final "all off", and the       *)
(* reload of the configuration between passes.                             *)
(*                                                                         *)
(* The device table is a set: its rows come in whatever order the database *)
(* returns them.                                                           *)
(*                                                                         *)
(* A definition named X_Slip... is a plausible mistake in X; the runs are  *)
(* shown to notice it when X is replaced by it.                            *)
(***************************************************************************)
EXTENDS Integers, FiniteSets

CONSTANTS
    Couplers,   \* couplers wired to the bus
    Devices,    \* readable devices (sensors) wired to the bus
    None,       \* "no coupler" for a device, "no device" for the pass
    Configs,    \* the configurations a (re)load can produce
    MaxRetry,   \* W1_RETRY: reads of one device in one pass
    MaxFaults   \* bound on the switch commands that get lost

COUPLER_UNDEFINED == -1
COUPLER_ALL_OFF   == 0
COUPLER_AUX_ON    == 2
COUPLER_MAIN_ON   == 4

Branches == {COUPLER_AUX_ON, COUPLER_MAIN_ON}
Lines    == {COUPLER_ALL_OFF} \union Branches

\* What w1_initialize_couplers builds out of the w1sensors rows: the couplers
\* in the table, and for each device the branch it hangs on, if any.
Config == [table : SUBSET Couplers,
           route : [Devices -> [coupler : Couplers, branch : Branches]
                                 \union {None}]]

ASSUME CouplerAssumption ==
    /\ None \notin Devices
    /\ None \notin [coupler : Couplers, branch : Branches]
    /\ Configs \subseteq Config
    /\ \A cf \in Configs : \A d \in Devices :
           cf.route[d] # None => cf.route[d].coupler \in cf.table
    /\ MaxRetry \in Nat \ {0}
    /\ MaxFaults \in Nat

VARIABLES
    config,    \* the configuration in force
    hw,        \* hw[c]: the lines coupler c really connects
    cached,    \* cached[c]: priv->active_lines of coupler c
    pc,        \* where the program is in a pass
    dev,       \* the device being read
    todo,      \* couplers the current switch-off loop has still to visit
    rest,      \* due devices the pass has still to read
    attempt,   \* rtry
    faults,    \* number of commands lost so far
    missed,    \* couplers whose last command was lost (history)
    driven     \* couplers this process ever sent a command to (history)

vars == <<config, hw, cached, pc, dev, todo, rest, attempt,
          faults, missed, driven>>
bus  == <<hw, cached, faults, missed, driven>>

-----------------------------------------------------------------------------
\* The branch device d hangs on, None on the trunk (w->coupler).
Own(d) == config.route[d]

OthersOf_SlipTrunkOnly(d) == {c \in config.table : Own(d) = None}
OthersOf_SlipNotOnTrunk(d) ==
    {c \in config.table : Own(d) # None /\ c # Own(d).coupler}

\* The couplers the loop of w1_select_device switches off: all but our own.
OthersOf(d) == {c \in config.table : Own(d) = None \/ c # Own(d).coupler}

\* SetSwitch1F: the command reaches the coupler, which leaves its previous
\* branch as it connects the new one; or it is lost on the wire.
SetSwitch1F(c, lines) ==
    /\ driven' = driven \union {c}
    /\ \/ /\ hw' = [hw EXCEPT ![c] = lines]
          /\ missed' = missed \ {c}
          /\ UNCHANGED faults
       \/ /\ faults < MaxFaults
          /\ faults' = faults + 1
          /\ missed' = missed \union {c}
          /\ UNCHANGED hw

SetCoupler_SlipNoMemory(c, lines) ==
    SetSwitch1F(c, lines) /\ cached' = [cached EXCEPT ![c] = lines]
SetCoupler_SlipOnOff(c, lines) ==
    /\ IF (cached[c] \in Branches) # (lines \in Branches)
       THEN SetSwitch1F(c, lines)
       ELSE UNCHANGED <<hw, faults, missed, driven>>
    /\ cached' = [cached EXCEPT ![c] = lines]

\* w1_set_coupler: no command when the memory says it is not needed; the
\* memory is updated whatever the command returned.
SetCoupler(c, lines) ==
    IF cached[c] # lines
    THEN /\ SetSwitch1F(c, lines)
         /\ cached' = [cached EXCEPT ![c] = lines]
    ELSE UNCHANGED bus

-----------------------------------------------------------------------------
\* Process start: the couplers are as somebody left them, w1_all_couplers_off
\* is about to run.
Init ==
    /\ config \in Configs
    /\ hw \in [Couplers -> Lines]
    /\ cached = [c \in Couplers |-> COUPLER_UNDEFINED]
    /\ pc = "alloff"
    /\ dev = None
    /\ todo = config.table
    /\ rest = {}
    /\ attempt = 0
    /\ faults = 0
    /\ missed = {}
    /\ driven = {}

\* w1_read_all_sensors is entered; which devices are due depends on the time.
StartPass(due) ==
    /\ pc = "idle"
    /\ pc' = "next"
    /\ rest' = due
    /\ UNCHANGED <<config, dev, todo, attempt, bus>>

\* The next due device: its reader calls w1_select_device.
NextDevice(d) ==
    /\ pc = "next"
    /\ d \in rest
    /\ rest' = rest \ {d}
    /\ dev' = d
    /\ attempt' = 0
    /\ todo' = OthersOf(d)
    /\ pc' = "off"
    /\ UNCHANGED <<config, bus>>

\* One step of the loop that disconnects the other couplers.
DisconnectOther(c) ==
    /\ pc = "off"
    /\ c \in todo
    /\ SetCoupler(c, COUPLER_ALL_OFF)
    /\ todo' = todo \ {c}
    /\ UNCHANGED <<config, pc, dev, rest, attempt>>

ConnectOwn_SlipFirst ==
    /\ pc = "off"
    /\ IF Own(dev) = None
       THEN UNCHANGED bus
       ELSE SetCoupler(Own(dev).coupler, Own(dev).branch)
    /\ pc' = "search"
    /\ todo' = {}
    /\ UNCHANGED <<config, dev, rest, attempt>>

\* The others are off: our branch, if there is one, is turned on.
ConnectOwn ==
    /\ pc = "off"
    /\ todo = {}
    /\ IF Own(dev) = None
       THEN UNCHANGED bus
       ELSE SetCoupler(Own(dev).coupler, Own(dev).branch)
    /\ pc' = "search"
    /\ UNCHANGED <<config, dev, todo, rest, attempt>>

\* A device answers the search only over a connected path.
Reachable(d) == Own(d) # None => hw[Own(d).coupler] = Own(d).branch

\* The search of w1_select_device finds the device: the reader samples it.
Found ==
    /\ pc = "search"
    /\ Reachable(dev)
    /\ pc' = "read"
    /\ UNCHANGED <<config, dev, todo, rest, attempt, bus>>

\* The reader returned 0: try again from w1_select_device, or give up.
Failed ==
    IF attempt + 1 < MaxRetry
    THEN /\ attempt' = attempt + 1
         /\ todo' = OthersOf(dev)
         /\ pc' = "off"
         /\ UNCHANGED dev
    ELSE /\ attempt' = 0
         /\ dev' = None
         /\ pc' = "next"
         /\ UNCHANGED todo

NotFound ==
    /\ pc = "search"
    /\ Failed
    /\ UNCHANGED <<config, rest, bus>>

ReadFails ==
    /\ pc = "read"
    /\ Failed
    /\ UNCHANGED <<config, rest, bus>>

ReadSucceeds ==
    /\ pc = "read"
    /\ attempt' = 0
    /\ dev' = None
    /\ pc' = "next"
    /\ UNCHANGED <<config, todo, rest, bus>>

EndPass_SlipLeaveOn ==
    /\ pc = "next"
    /\ rest = {}
    /\ pc' = "idle"
    /\ UNCHANGED <<config, dev, todo, rest, attempt, bus>>

\* All due devices are done: "put the bus back in a known state".
EndPass ==
    /\ pc = "next"
    /\ rest = {}
    /\ pc' = "alloff"
    /\ todo' = config.table
    /\ UNCHANGED <<config, dev, rest, attempt, bus>>

\* One step of w1_all_couplers_off, and its return to the main loop.
AllOff(c) ==
    /\ pc = "alloff"
    /\ c \in todo
    /\ SetCoupler(c, COUPLER_ALL_OFF)
    /\ todo' = todo \ {c}
    /\ UNCHANGED <<config, pc, dev, rest, attempt>>

AllOffDone ==
    /\ pc = "alloff"
    /\ todo = {}
    /\ pc' = "idle"
    /\ UNCHANGED <<config, dev, todo, rest, attempt, bus>>

Reload_SlipCalloc(cf) ==
    /\ pc = "idle"
    /\ config' = cf
    /\ cached' = [c \in Couplers |-> COUPLER_ALL_OFF]
    /\ UNCHANGED <<hw, pc, dev, todo, rest, attempt, faults, missed, driven>>

\* SIGHUP, served by the main loop between passes: cleanup frees every device
\* and w1_initialize_couplers builds fresh records; no command is sent.
Reload(cf) ==
    /\ pc = "idle"
    /\ config' = cf
    /\ cached' = [c \in Couplers |-> COUPLER_UNDEFINED]
    /\ UNCHANGED <<hw, pc, dev, todo, rest, attempt, faults, missed, driven>>

-----------------------------------------------------------------------------
PassStep ==
    \/ \E d \in Devices : NextDevice(d)
    \/ \E c \in Couplers : DisconnectOther(c) \/ AllOff(c)
    \/ ConnectOwn
    \/ Found
    \/ NotFound
    \/ ReadFails
    \/ ReadSucceeds
    \/ EndPass
    \/ AllOffDone

Next ==
    \/ PassStep
    \/ \E due \in SUBSET Devices : StartPass(due)
    \/ \E cf \in Configs : Reload(cf)

Spec == Init /\ [][Next]_vars

\* The program runs on, and every device is due again and again: its interval
\* divides infinitely many wake-up times.
Fairness ==
    /\ WF_vars(PassStep)
    /\ \A d \in Devices :
           SF_vars(\E due \in SUBSET Devices : d \in due /\ StartPass(due))

FairSpec == Spec /\ Fairness

-----------------------------------------------------------------------------
TypeOK ==
    /\ config \in Configs
    /\ hw \in [Couplers -> Lines]
    /\ cached \in [Couplers -> Lines \union {COUPLER_UNDEFINED}]
    /\ pc \in {"idle", "next", "off", "search", "read", "alloff"}
    /\ dev \in Devices \union {None}
    /\ pc \in {"off", "search", "read"} <=> dev # None
    /\ todo \subseteq config.table
    /\ rest \subseteq Devices
    /\ attempt \in 0 .. MaxRetry - 1
    /\ faults \in 0 .. MaxFaults
    /\ missed \subseteq driven
    /\ driven \subseteq Couplers

\* The couplers of the table this process has set since the last (re)load and
\* that really connect a branch.
Live == {c \in config.table : cached[c] # COUPLER_UNDEFINED
                              /\ hw[c] # COUPLER_ALL_OFF}

\* "only one branch is ever active at any one time" (comment in
\* w1_select_device): it holds of the couplers that obeyed their last command,
\* at every step of every pass, across retries, passes and reloads.
OneBranchUnlessMissed ==
    \A c1, c2 \in Live \ missed : c1 = c2

\* The same comment without the allowance for lost commands.
OneBranchEver == \A c1, c2 \in Live : c1 = c2

\* While a device is being sampled, no coupler that obeyed connects a branch
\* the device is not on, and the device's own branch is really connected.
SampledAlone ==
    pc = "read" =>
        /\ Reachable(dev)
        /\ \A c \in config.table \ missed :
              \/ hw[c] = COUPLER_ALL_OFF
              \/ Own(dev) # None /\ c = Own(dev).coupler

\* Between passes ("put the bus back in a known state") every coupler the
\* program has set is off, and so is every coupler a reload dropped from the
\* table: a reload never strands a powered branch that nobody will switch off.
QuietBetweenPasses ==
    pc = "idle" =>
        \A c \in driven \ missed : hw[c] = COUPLER_ALL_OFF

\* A remembered state the hardware is not in can only come from a command that
\* was lost: skipping the command when active_lines is equal is then sound.
MemoryIsTrue ==
    \A c \in config.table \ missed :
        cached[c] \in {hw[c], COUPLER_UNDEFINED}

\* A retry of the same device never repairs the path: w1_select_device finds
\* all its wanted lines remembered and sends no command, so within one device's
\* attempts the connected lines are those of the first attempt.
RetrySendsNothing ==
    [][attempt > 0 /\ pc = "off" => UNCHANGED bus]_vars

\* Once commands are no longer lost, the memory of every coupler some device
\* hangs on becomes true again and stays so: each pass that reads the device
\* sends a real "on" and a real "off".
Resync ==
    <>[](\A d \in Devices : Own(d) # None =>
            cached[Own(d).coupler] \in {hw[Own(d).coupler], COUPLER_UNDEFINED})

\* The promise of the component, up to the first lost command: each step of the
\* loops above is a step of BranchBus or leaves it alone.  After a lost command the
\* bus counts as quiet for good.
LiveLines == {[coupler |-> c, branch |-> hw[c]] : c \in Live}
Powered   == IF faults = 0 THEN LiveLines ELSE {}
Sampled   == IF faults = 0 /\ pc = "read" THEN dev ELSE None

BB == INSTANCE BranchBus WITH
    Routes   <- {cf.route : cf \in Configs},
    route    <- config.route,
    live     <- Powered,
    sampling <- Sampled

KeepsPromise == BB!Spec
=============================================================================
