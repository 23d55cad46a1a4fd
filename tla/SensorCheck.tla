----------------------------- MODULE SensorCheck -----------------------------
(***************************************************************************)
(* The life of one sensor between w1_validate, the wake-ups of the main    *)
(* loop and the passes a user asks for (SIGUSR1).  A pass at a wake-up has *)
(* logtime = now; a pass asked for by a signal runs in the middle of the   *)
(* sleep and keeps the logtime of the last wake-up.  In one pass a device  *)
(* is read again while its reader returns 0, at most MaxRetry times.       *)
(* The clock can be set by somebody else while the program sleeps.         *)
(* A pass takes no time here: MainLoop has the ones that outlast an        *)
(* interval.                                                               *)
(* A definition named X_Slip... is a plausible mistake in X.               *)
(***************************************************************************)
EXTENDS Validate

CONSTANTS
    Spread,      \* no two readings are further apart
    Readings,    \* what the hardware can return
    Limits,      \* the ratelimit rows a configuration may hold
    Delay,       \* seconds between wake-ups
    Tick,        \* grain of the clock, in seconds
    MaxTime,     \* bound on the clock
    MaxRetry,    \* W1_RETRY
    MaxStreak,   \* where the count of refused wake-ups saturates
    Modes        \* of what may happen: SIGUSR1, the clock being set

LimitType == [flags : SUBSET {W1_ROC, W1_RMIN, W1_RMAX}, counter : BOOLEAN,
              rmin : Int, rmax : Int, roc : Nat]

ASSUME SensorAssumption ==
    /\ Readings \subseteq Int
    /\ Spread \in Nat
    /\ \A v, w \in Readings : Abs(v - w) <= Spread
    /\ Limits \subseteq LimitType
    /\ Delay \in Nat \ {0}
    /\ Tick \in Nat \ {0}
    /\ MaxTime \in Nat
    /\ MaxRetry \in Nat \ {0}
    /\ MaxStreak \in Nat
    /\ Modes \subseteq [user : BOOLEAN, steps : BOOLEAN]

VARIABLES
    mode,     \* whether SIGUSR1 is ever sent, and the clock ever set
    clock,    \* the system clock
    logtime,  \* w1->logtime
    lim,      \* the limits of the sensor
    s,        \* the sensor record
    pc,       \* "sleep", or "wake" / "user" while a pass is at this sensor
    attempt,  \* rtry
    at,       \* the clock when lval was accepted (history)
    streak    \* wake-ups in a row whose in-range reading was refused (history)

vars == <<mode, clock, logtime, lim, s, pc, attempt, at, streak>>

-----------------------------------------------------------------------------
\* The program starts with a pass, unless it was given --wait.
Init ==
    /\ mode \in Modes
    /\ clock \in {Delay, Delay + Tick}
    /\ logtime = clock
    /\ lim \in Limits
    /\ s = FreshSensor
    /\ pc \in {"wake", "sleep"}
    /\ attempt = 0
    /\ at = 0
    /\ streak = 0

\* Time passes, or is set, while the program sleeps short of the next wake-up.
NextWake == (clock \div Delay) * Delay + Delay

Sleep ==
    /\ pc = "sleep"
    /\ clock + Tick < NextWake
    /\ clock' = clock + Tick
    /\ UNCHANGED <<mode, logtime, lim, s, pc, attempt, at, streak>>

SetClock(t) ==
    /\ mode.steps
    /\ pc = "sleep"
    /\ clock' = t
    /\ UNCHANGED <<mode, logtime, lim, s, pc, attempt, at, streak>>

Wake_SlipClearIfDue(due) ==
    /\ pc = "sleep"
    /\ NextWake <= MaxTime
    /\ clock' = NextWake
    /\ logtime' = NextWake
    /\ IF due THEN pc' = "wake" /\ s' = [s EXCEPT !.valid = FALSE]
              ELSE UNCHANGED <<pc, s>>
    /\ UNCHANGED <<mode, lim, attempt, at, streak>>

Wake_SlipOldLogtime(due) ==
    /\ pc = "sleep"
    /\ NextWake <= MaxTime
    /\ clock' = NextWake
    /\ pc' = IF due THEN "wake" ELSE "sleep"
    /\ s' = [s EXCEPT !.valid = FALSE]
    /\ UNCHANGED <<mode, logtime, lim, attempt, at, streak>>

\* The sleep ends at the next multiple of the delay: logtime is set and a pass
\* begins; it clears the valid flag whether or not the device is due.
Wake(due) ==
    /\ pc = "sleep"
    /\ NextWake <= MaxTime
    /\ clock' = NextWake
    /\ logtime' = NextWake
    /\ pc' = IF due THEN "wake" ELSE "sleep"
    /\ s' = [s EXCEPT !.valid = FALSE]
    /\ UNCHANGED <<mode, lim, attempt, at, streak>>

\* SIGUSR1 during the sleep: a pass with the old logtime.
UserPass ==
    /\ mode.user
    /\ pc = "sleep"
    /\ pc' = "user"
    /\ s' = [s EXCEPT !.valid = FALSE]
    /\ UNCHANGED <<mode, clock, logtime, lim, attempt, at, streak>>

\* A reader that returns 0 (nothing valid) is called again up to MaxRetry times.
Settle(valid) ==
    IF valid \/ attempt + 1 = MaxRetry
    THEN pc' = "sleep" /\ attempt' = 0
    ELSE pc' = pc /\ attempt' = attempt + 1

InRange(v) == ~BelowMin(lim, v) /\ ~AboveMax(lim, v)

Streak(v, valid) ==
    IF valid \/ ~InRange(v) THEN 0
    ELSE IF pc = "wake" /\ attempt + 1 = MaxRetry /\ streak < MaxStreak
    THEN streak + 1
    ELSE streak

\* The reader got v from the device and w1_validate judged it.
Attempt(v) ==
    /\ pc # "sleep"
    /\ s' = Validated(s, lim, v, logtime)
    /\ Settle(s'.valid)
    /\ at' = IF s'.valid THEN clock ELSE at
    /\ streak' = Streak(v, s'.valid)
    /\ UNCHANGED <<mode, clock, logtime, lim>>

\* The device did not answer.
NoAnswer ==
    /\ pc # "sleep"
    /\ Settle(FALSE)
    /\ streak' = 0
    /\ UNCHANGED <<mode, clock, logtime, lim, s, at>>

\* SIGHUP: the devices are freed and read from the configuration anew.
Reload(l) ==
    /\ pc = "sleep"
    /\ lim' = l
    /\ s' = FreshSensor
    /\ at' = 0
    /\ streak' = 0
    /\ UNCHANGED <<mode, clock, logtime, pc, attempt>>

Next ==
    \/ Sleep
    \/ \E t \in 1 .. MaxTime : t % Tick = 0 /\ SetClock(t)
    \/ \E due \in BOOLEAN : Wake(due)
    \/ UserPass
    \/ \E v \in Readings : Attempt(v)
    \/ NoAnswer
    \/ \E l \in Limits : Reload(l)

Spec == Init /\ [][Next]_vars

-----------------------------------------------------------------------------
SensorType == [value : Int, valid : BOOLEAN, lval : Int, ltime : Nat,
               reason : Reasons \ {W1_SEQ}]

TypeOK ==
    /\ mode \in Modes
    /\ clock \in Nat /\ logtime \in Nat \ {0} /\ at \in Nat
    /\ lim \in Limits
    /\ s \in SensorType
    /\ pc \in {"sleep", "wake", "user"}
    /\ attempt \in 0 .. MaxRetry - 1
    /\ streak \in Nat

\* A reading remembered as the last good one lies within the limits in force,
\* whatever was refused, replaced, retried or reloaded before: the replacement
\* of a refused reading never enters the memory the next rate is taken from.
MemoryInRange == s.ltime # 0 => InRange(s.lval)

\* What the loggers take from the sensor (valid) was accepted at the log time
\* they write it under, never a leftover of an earlier pass.
ValidIsCurrent == s.valid => s.ltime = logtime /\ s.value = s.lval

\* Between two loads of the configuration a rain gauge never counts down in what
\* is accepted, by whatever path the readings come.
CounterNeverDown ==
    [][lim.counter /\ s'.ltime # 0 => s'.lval >= s.lval]_vars

\* "the maximum acceptable rate in 'units/minute'" (docs/manual.html, Rate
\* Limiting): two readings accepted one after the other, at the times at and clock,
\* differ by at most what the rate allows in the time between them and in slack
\* seconds more.
Limited(slack) ==
    s' # s /\ s'.valid /\ s.ltime # 0 /\ W1_ROC \in lim.flags
        => Abs(s'.lval - s.lval) * 60 <= lim.roc * (clock - at + slack)

\* The code divides by the difference of log times, not of times: a SIGUSR1 pass
\* has the log time of the wake-up before it, and what it accepts is the base of the
\* next rate.  While the clock is not set and no pass outlasts its interval, that
\* stretches the rate between readings of two wake-up intervals by at most one
\* interval, however many SIGUSR1 passes, refusals and retries lie between them.
RateWithinDelay ==
    [][~mode.steps /\ clock \div Delay # at \div Delay => Limited(Delay)]_vars

\* The rate is respected between any two readings.  It fails: the readings of one
\* interval have one log time and no rate, and one taken late in an interval counts
\* as taken at its start.
RateAlways == [][~mode.steps => Limited(0)]_vars

\* A sensor that steps to another value within range is not refused for good:
\* the limit is on the rate, so every wake-up widens what is acceptable, and the
\* number of refused wake-ups in a row is bounded by the size of the step.  A
\* clock that is set back can refuse it for as long as it was set back by.
LockoutBounded ==
    streak > 0 /\ ~lim.counter /\ ~mode.steps
        => (streak - 1) * Delay * lim.roc <= 60 * Spread

\* Through all of it the sensor keeps the promise of LastGood: the memory changes
\* only to a reading that is good against it, or is forgotten at a reload.
L == INSTANCE LastGood WITH sensor <- s

KeepsLastGood == L!Spec
=============================================================================
