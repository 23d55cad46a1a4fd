------------------------------ MODULE MainLoop ------------------------------
(***************************************************************************)
(* The main loop of w1retap: passes over the sensors at the wake-ups, the  *)
(* loggers and the log file in /tmp after them, the 1-wire interface, the  *)
(* sleep to the next multiple of the delay, and what the signals ask for   *)
(* before each sleep.  Reading, logging and reloading take time; the clock *)
(* itself is not set.  The update of a flag is one step here: SignalFlags  *)
(* opens it.                                                               *)
(* A definition named X_Slip... is a plausible mistake in X.               *)
(***************************************************************************)
EXTENDS PollPlan

CONSTANTS
    Configs,   \* what the configuration can say
    Tick,      \* grain of the clock, in seconds
    MaxTime,   \* bound on the clock
    MaxBusy    \* ticks the program may be busy between two sleeps

ConfigType == [delay : Delays, table : Tables, logtmp : BOOLEAN, release : BOOLEAN]

ASSUME LoopAssumption ==
    /\ Configs \subseteq ConfigType
    /\ Tick \in Nat \ {0} /\ MaxTime \in Nat /\ MaxBusy \in Nat

W1_READALL == "READALL"
W1_RECONF  == "RECONF"
W1_SHOWCF  == "SHOWCF"
Flags == {W1_READALL, W1_RECONF, W1_SHOWCF}

VARIABLES
    clock,    \* the system clock
    pc,       \* where main is
    logtmp,   \* w1->logtmp
    release,  \* w1->release_me
    immed,    \* a pass follows
    once,     \* -1
    now,      \* now.tv_sec at the last wake-up, 0 before
    logtime,  \* w1->logtime
    target,   \* the end of the sleep
    sigme,    \* the flags
    port,     \* the interface is acquired (portnum # -1)
    due,      \* the devices of the pass under way
    tmp,      \* the devices read in the pass behind the log file in /tmp
    seen,     \* per device, when a pass for the loggers last read it (history)
    missed,   \* per device, due times since then when main was busy (history)
    busy      \* ticks since the last sleep (history)

time    == <<clock, seen, missed, busy>>
setting == <<planVars, logtmp, release, once>>
vars == <<planVars, clock, pc, logtmp, release, immed, once, now, logtime, target,
          sigme, port, due, tmp, seen, missed, busy>>

-----------------------------------------------------------------------------
\* read_config, do_init, init_interfaces, the first log time.
Init ==
    /\ StartPlan
    /\ \E c \in Configs :
          file = c.delay /\ table = c.table /\ logtmp = c.logtmp /\ release = c.release
    /\ clock \in {plan.delay, plan.delay + Tick}
    /\ logtime = clock
    /\ immed \in BOOLEAN /\ once \in BOOLEAN
    /\ pc = "top"
    /\ now = 0 /\ target = 0
    /\ sigme = {}
    /\ port = TRUE
    /\ due = {}
    /\ tmp = {}
    /\ seen = [d \in Devs |-> clock]
    /\ missed = [d \in Devs |-> 0]
    /\ busy = 0

-----------------------------------------------------------------------------
\* Time goes by.  A due time of a device that the clock reaches while main is
\* busy is counted as missed.
Busy == {"log", "reconf", "show", "arm", "woken"}

DueTimes(d, from, to) == (to \div plan.intvl[d]) - (from \div plan.intvl[d])

Work ==
    /\ pc \in Busy
    /\ busy < MaxBusy
    /\ clock + Tick <= MaxTime
    /\ clock' = clock + Tick
    /\ busy' = busy + 1
    /\ missed' = [d \in Devs |-> missed[d] + DueTimes(d, clock, clock')]
    /\ UNCHANGED <<pc, setting, immed, now, logtime, target, sigme, port, due, tmp, seen>>

Doze ==
    /\ pc = "sleep"
    /\ clock < target
    /\ clock + Tick <= MaxTime
    /\ clock' = IF clock + Tick > target THEN target ELSE clock + Tick
    /\ UNCHANGED <<pc, setting, immed, now, logtime, target, sigme, port, due, tmp,
                   seen, missed, busy>>

\* A signal sets its flag and ends a sleep that is not over; the do loop goes round
\* again.
Signal(f) ==
    /\ pc # "exit"
    /\ sigme' = sigme \cup {f}
    /\ IF pc = "sleep" /\ clock < target
       THEN pc' = "readall" /\ busy' = 0
       ELSE UNCHANGED <<pc, busy>>
    /\ UNCHANGED <<clock, setting, immed, now, logtime, target, port, due, tmp,
                   seen, missed>>

-----------------------------------------------------------------------------
\* owAcquireEx; a failure ends the program.
Acquired(next) ==
    \/ pc' = next /\ port' = TRUE
    \/ ~port /\ pc' = "exit" /\ port' = FALSE

\* secs == 0 || secs % intvl == 0
IsDue(d) == now = 0 \/ now % plan.intvl[d] = 0

\* w1_read_all_sensors(w1, now.tv_sec)
ReadDue ==
    /\ pc = "top" /\ immed
    /\ Acquired("log")
    /\ due' = {d \in Devs : IsDue(d)}
    /\ seen' = [d \in Devs |-> IF d \in due' THEN clock ELSE seen[d]]
    /\ missed' = [d \in Devs |-> IF d \in due' THEN 0 ELSE missed[d]]
    /\ UNCHANGED <<clock, setting, immed, now, logtime, target, sigme, tmp, busy>>

\* --wait: no pass at start.
NoRead ==
    /\ pc = "top" /\ ~immed
    /\ pc' = IF once THEN "exit" ELSE "readall"
    /\ immed' = TRUE
    /\ UNCHANGED <<time, setting, now, logtime, target, sigme, port, due, tmp>>

AtCycle_SlipAlways == TRUE

\* now.tv_sec % cycle == 0, whatever the sign of the cycle: every number is a
\* multiple of -1.
AtCycle == now % (IF plan.cycle < 0 THEN -plan.cycle ELSE plan.cycle) = 0

\* The loggers and the log file in /tmp, when the pass read anything (nv), and
\* the release of the interface.
Log(nv) ==
    /\ pc = "log"
    /\ nv => due # {}
    /\ tmp' = IF nv /\ logtmp /\ AtCycle THEN due ELSE tmp
    /\ port' = (port /\ ~release)
    /\ pc' = IF once THEN "exit" ELSE "readall"
    /\ UNCHANGED <<time, setting, immed, now, logtime, target, sigme, due>>

-----------------------------------------------------------------------------
\* SIGUSR1: a pass over all the devices, and the log file.
ReadAll(nv) ==
    /\ pc = "readall"
    /\ IF W1_READALL \in sigme
       THEN /\ sigme' = sigme \ {W1_READALL}
            /\ Acquired("reconf")
            /\ tmp' = IF nv /\ pc' = "reconf" THEN Devs ELSE tmp
            /\ due' = Devs
       ELSE pc' = "reconf" /\ UNCHANGED <<sigme, port, tmp, due>>
    /\ UNCHANGED <<time, setting, immed, now, logtime, target>>

\* SIGHUP: cleanup, read_config, do_init, init_interfaces.
Reconf(c) ==
    /\ pc = "reconf"
    /\ IF W1_RECONF \in sigme
       THEN /\ sigme' = sigme \ {W1_RECONF}
            /\ Reload(c.delay, c.table)
            /\ logtmp' = c.logtmp /\ release' = c.release
            /\ Acquired("show")
            /\ seen' = [d \in Devs |-> clock]
            /\ missed' = [d \in Devs |-> 0]
       ELSE pc' = "show" /\ UNCHANGED <<planVars, logtmp, release, sigme, port, seen,
                                       missed>>
    /\ UNCHANGED <<clock, immed, once, now, logtime, target, due, tmp, busy>>

\* SIGUSR2: the configuration is listed.
Show ==
    /\ pc = "show"
    /\ sigme' = sigme \ {W1_SHOWCF}
    /\ pc' = "arm"
    /\ UNCHANGED <<time, setting, immed, now, logtime, target, port, due, tmp>>

NextWake_SlipRelative == clock + plan.delay

NextWake_SlipThis == (clock \div plan.delay) * plan.delay

\* The next multiple of the delay after the clock.
NextWake == (clock \div plan.delay) * plan.delay + plan.delay

\* The sleep begins.
Arm ==
    /\ pc = "arm"
    /\ target' = NextWake
    /\ pc' = "sleep"
    /\ UNCHANGED <<time, setting, immed, now, logtime, sigme, port, due, tmp>>

\* The sleep is over, but main may not run at once.
Wake ==
    /\ pc = "sleep"
    /\ clock = target
    /\ pc' = "woken"
    /\ busy' = 0
    /\ UNCHANGED <<clock, seen, missed, setting, immed, now, logtime, target, sigme, port,
                   due, tmp>>

\* gettimeofday; a wake-up that comes late misses the due time it was for.
TakeTime ==
    /\ pc = "woken"
    /\ now' = clock
    /\ logtime' = clock
    /\ missed' = [d \in Devs |-> IF clock # target /\ target % plan.intvl[d] = 0
                                 THEN missed[d] + 1 ELSE missed[d]]
    /\ pc' = "top"
    /\ UNCHANGED <<clock, seen, busy, setting, immed, target, sigme, port, due, tmp>>

Main ==
    \/ ReadDue \/ NoRead \/ Show \/ Arm \/ Wake \/ TakeTime
    \/ \E nv \in BOOLEAN : Log(nv) \/ ReadAll(nv)
    \/ \E c \in Configs : Reconf(c)

Next == Main \/ Work \/ Doze \/ \E f \in Flags : Signal(f)

Spec == Init /\ [][Next]_vars
-----------------------------------------------------------------------------
TypeOK ==
    /\ clock \in Nat /\ now \in Nat /\ logtime \in Nat /\ busy \in Nat
    /\ pc \in {"top", "readall", "sleep", "exit"} \cup Busy
    /\ PlanTypeOK
    /\ logtmp \in BOOLEAN /\ release \in BOOLEAN
    /\ immed \in BOOLEAN /\ once \in BOOLEAN /\ port \in BOOLEAN
    /\ target \in Nat /\ (pc = "sleep" => clock <= target)
    /\ sigme \subseteq Flags
    /\ due \subseteq Devs /\ tmp \subseteq Devs
    /\ seen \in [Devs -> Nat] /\ missed \in [Devs -> Nat]

\* A device is read for the loggers once per interval, to the second: while main
\* sleeps, nothing is older than its interval but for the due times that passed
\* while main was busy with a pass, a logger, a reload or a late wake-up.
AgeBounded ==
    pc = "sleep" => \A d \in Devs : clock - seen[d] <= (1 + missed[d]) * plan.intvl[d]

\* The log file in /tmp "is only written when all sensors are read" (w1retap.odt,
\* Per-sensor polling frequency), at the cycle, at start and on SIGUSR1.
TmpComplete == tmp \in {{}, Devs}

\* Every pass for the loggers has a log time of its own, later than any before: what
\* the loggers file under a log time (and the sensors remember as ltime) is never
\* filed again under the same one, whatever ended the sleep and however late it is.
LogTimesGrow ==
    [][/\ logtime' >= logtime
       /\ pc # "top" /\ pc' = "top" => logtime' > logtime]_vars
=============================================================================
