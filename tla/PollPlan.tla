------------------------------ MODULE PollPlan ------------------------------
(***************************************************************************)
(* The polling plan over starts and reloads.  At start the delay is that of *)
(* the command line, else of the configuration file, else the default; a   *)
(* reload (SIGHUP) reads the file and the device table again over the      *)
(* delay the last w1_verify_intervals has left in w1->delay.               *)
(* A definition named X_Slip... is a plausible mistake in X.               *)
(***************************************************************************)
EXTENDS Intervals

CONSTANTS
    Devs,     \* the devices
    Tables,   \* what the device table can say: [Devs -> interval]
    Delays    \* what "delay =" in the file, or -t, can say; 0 when absent

ASSUME PlanAssumption ==
    /\ Devs # {} /\ IsFiniteSet(Devs)
    /\ Tables \subseteq [Devs -> Nat]
    /\ Delays \subseteq Nat

VARIABLES
    option,  \* -t, 0 when not given (history)
    file,    \* "delay =" of the file last read, 0 when absent (history)
    table,   \* the device table last read (history)
    plan     \* delay, intvl and cycle

planVars == <<option, file, table, plan>>

-----------------------------------------------------------------------------
\* The delay an absent or present setting leaves.
Set(setting, delay) == IF setting # 0 THEN setting ELSE delay

\* read_config, the command line over it, do_init.
StartPlan ==
    /\ option \in Delays
    /\ file \in Delays
    /\ table \in Tables
    /\ plan \in Plans(Set(option, Set(file, W1_DEFAULT_INTVL)), table)

Reload_SlipOldDelay(f, t) ==
    /\ file' = f
    /\ table' = t
    /\ plan' \in Plans(plan.delay, t)
    /\ UNCHANGED option

\* cleanup, read_config, do_init: the command line is not looked at again.
Reload(f, t) ==
    /\ file' = f
    /\ table' = t
    /\ plan' \in Plans(Set(f, plan.delay), t)
    /\ UNCHANGED option

NextPlan == \E f \in Delays, t \in Tables : Reload(f, t)

PlanSpec == StartPlan /\ [][NextPlan]_planVars
-----------------------------------------------------------------------------
PlanType == [delay : Nat \ {0}, intvl : [Devs -> Nat \ {0}], cycle : Int]

PlanTypeOK ==
    /\ option \in Delays /\ file \in Delays /\ table \in Tables
    /\ plan \in PlanType

Common(n, a) == \A d \in DOMAIN a : Divides(a[d], n)

WakeIsHighestFactor ==
    LET factors == {n \in 1 .. plan.delay * 2 : \A d \in Devs : Divides(n, plan.intvl[d])}
    IN  plan.delay \in factors /\ \A n \in factors : n <= plan.delay

TrueProduct(a) == FoldFunctionOnSet(LAMBDA x, y : x * y, 1, a, DOMAIN a)

CycleRight ==
    LET lowest(n) == Common(n, plan.intvl) /\ \A k \in 1 .. n - 1 : ~Common(k, plan.intvl)
    IN  \/ plan.cycle > 0 /\ lowest(plan.cycle)
        \/ /\ TrueProduct(plan.intvl) > IntMax
           /\ plan.cycle = -1 \/ \A n \in 1 .. IntMax : ~Common(n, plan.intvl)

\* The wake-up value is "the highest common factor ... of the individual polling
\* intervals" (w1retap.odt, Per-sensor polling frequency; w1_gcd): no due time of a
\* device falls between two wake-ups, and no wake-up is more frequent than the
\* intervals need.  The cycle (w1_lcm) is their lowest common multiple when their
\* product fits; when the product has wrapped it may be -1, but never another number,
\* unless the loop counter itself overflowed.
WakeAndCycleRight == WakeIsHighestFactor /\ CycleRight

\* A device is polled no less often than its table row asks for (but not below
\* ten seconds), no less often than the delay, and less than one wake-up more
\* often: rounding to a multiple of the smallest interval costs no more.
IntervalsNearWanted ==
    [][\A d \in Devs :
          LET limit  == IF file' # 0 THEN file' ELSE plan.delay
              wanted == IF table'[d] = 0 THEN limit
                        ELSE Smallest({limit, Largest({table'[d], W1_MIN_INTVL})})
          IN  /\ plan'.intvl[d] <= wanted
              /\ plan'.intvl[d] + plan'.delay > wanted]_planVars

\* A reload of an unchanged file that names the delay changes no interval.
SameFileSamePlan ==
    [][file' # 0 /\ file' = file /\ table' = table /\ option = 0
         => plan'.intvl = plan.intvl /\ plan'.delay = plan.delay]_planVars

\* "If the column is omitted, or the value is NULL or zero, then the default
\* delay value is used" (w1retap.odt): -t, the file, or 120 seconds, to the
\* nearest multiple of the wake-up value.  It fails after a reload when the file
\* does not name the delay.
DefaultDelayUsed ==
    LET default == IF option # 0 /\ file = 0 THEN option
                   ELSE IF file # 0 THEN file ELSE W1_DEFAULT_INTVL
    IN  option = 0 \/ file = 0 =>
            \A d \in Devs : table[d] = 0 => plan.intvl[d] + plan.delay > default

\* The log file in /tmp "is only written when all sensors are read (the 'cycle'
\* value)" (w1retap.odt): at a multiple of the cycle every device is due.
CycleReadsAll == plan.cycle > 0 /\ Common(plan.cycle, plan.intvl)
=============================================================================
