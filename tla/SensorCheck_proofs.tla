------------------------- MODULE SensorCheck_proofs -------------------------
(***************************************************************************)
(* Proofs about SensorCheck, for all readings, limits, delays and retries: *)
(* first what w1_validate does with one reading, then the invariants.      *)
(***************************************************************************)
EXTENDS SensorCheck, TLAPS

Accepts(r, l, v, t) == Check(r, l, v, t) = OK

\* What w1_validate accepts passed every check, and becomes the memory; what it
\* refuses leaves the memory alone (w1sensors.c:210-225).
LEMMA Judged ==
    ASSUME NEW r \in SensorType, NEW l \in LimitType, NEW v \in Int, NEW t \in Nat
    PROVE  LET n == Validated(r, l, v, t) IN
           /\ n \in SensorType
           /\ n.valid <=> Accepts(r, l, v, t)
           /\ n.valid => n.value = v /\ n.lval = v /\ n.ltime = t
           /\ ~n.valid => n.lval = r.lval /\ n.ltime = r.ltime
<1> DEFINE n == Validated(r, l, v, t)
<1>t. r.lval \in Int /\ r.ltime \in Nat
  BY DEF SensorType
<1>l. l.rmin \in Int /\ l.rmax \in Int
  BY DEF LimitType
<1>1. CASE Accepts(r, l, v, t)
  <2>1. n = [value |-> v, valid |-> TRUE, lval |-> v, ltime |-> t, reason |-> OK]
    BY <1>1 DEF Validated, Accepts
  <2>2. n \in SensorType
    BY <2>1 DEF SensorType, Reasons, OK, W1_SEQ, W1_RMAX
  <2> QED
    BY <1>1, <2>1, <2>2
<1>2. CASE ~Accepts(r, l, v, t)
  <2> DEFINE c == Check(r, l, v, t)
             w == IF c \in {W1_ROC, W1_SEQ} THEN r.lval ELSE RangedValue(r, l, v)
  <2>1. n = [value |-> w, valid |-> FALSE, lval |-> r.lval, ltime |-> r.ltime,
             reason |-> IF c = W1_SEQ THEN OK ELSE c]
    BY <1>2 DEF Validated, Accepts
  <2>2. w \in Int
    BY <1>t, <1>l DEF RangedValue, Ranged, InsteadOf
  <2>3. c \in Reasons
    BY DEF Check, RangeCheck, Reasons
  <2>4. (IF c = W1_SEQ THEN OK ELSE c) \in Reasons \ {W1_SEQ}
    BY <2>3 DEF Reasons, OK, W1_SEQ, W1_RMAX
  <2>5. n \in SensorType
    <3> HIDE DEF c, w
    <3> QED BY <1>t, <2>1, <2>2, <2>4 DEF SensorType
  <2> QED
    BY <1>2, <2>1, <2>5
<1> QED
  BY <1>1, <1>2

\* A reading that is accepted is within the limits, not too fast, and on a rain
\* gauge not below the last one (w1sensors.c:164-208).
LEMMA AcceptedIsFine ==
    ASSUME NEW r, NEW l, NEW v, NEW t, Accepts(r, l, v, t)
    PROVE  /\ ~BelowMin(l, v) /\ ~AboveMax(l, v)
           /\ ~TooFast(r, l, v, t)
           /\ ~CountsDown(r, l, v)
<1>1. RangeCheck(r, l, v) = OK
  BY DEF Accepts, Check
<1>2. ~BelowMin(l, v) /\ ~AboveMax(l, Ranged(r, l, v))
  BY <1>1 DEF RangeCheck, OK, W1_RMIN, W1_RMAX
<1> QED
  BY <1>1, <1>2 DEF Ranged, Accepts, Check, OK, W1_ROC, W1_SEQ, W1_RMAX

\* Within the limits, only the rate check and the rain gauge check can refuse.
LEMMA RefusedInRange ==
    ASSUME NEW r, NEW l, NEW v, NEW t, ~Accepts(r, l, v, t),
           ~BelowMin(l, v), ~AboveMax(l, v), ~l.counter
    PROVE  TooFast(r, l, v, t)
BY DEF Accepts, Check, RangeCheck, Ranged, CountsDown

-----------------------------------------------------------------------------
\* The sleep ends at a multiple of the delay, after the clock, and at least one
\* delay after every multiple the clock has reached (w1retap.c:635-638).
Multiple(t) == t = (t \div Delay) * Delay

LEMMA NextMultiple ==
    ASSUME SensorAssumption, clock \in Nat
    PROVE  /\ NextWake \in Nat \ {0}
           /\ clock < NextWake
           /\ Multiple(NextWake)
           /\ \A t \in Nat : Multiple(t) /\ t <= clock => t + Delay <= NextWake
<1>d. Delay \in Nat \ {0}
  BY DEF SensorAssumption
<1> DEFINE q == clock \div Delay
<1>1. q \in Nat /\ q * Delay <= clock /\ clock < q * Delay + Delay
  BY <1>d
<1>2. NextWake = q * Delay + Delay /\ NextWake = (q + 1) * Delay
  BY <1>d, <1>1 DEF NextWake
<1>3. NextWake \in Nat \ {0} /\ clock < NextWake
  BY <1>d, <1>1, <1>2
<1> HIDE DEF q
<1>4. ASSUME NEW k \in Nat PROVE (k * Delay) \div Delay = k
  BY <1>d, <1>4
<1>5. Multiple(NextWake)
  BY <1>1, <1>2, <1>4 DEF Multiple
<1>6. ASSUME NEW t \in Nat, Multiple(t), t <= clock
      PROVE  t + Delay <= NextWake
  <2> DEFINE k == t \div Delay
  <2>1. k \in Nat /\ t = k * Delay
    BY <1>d, <1>6 DEF Multiple
  <2> HIDE DEF k
  <2>2. k * Delay < (q + 1) * Delay
    BY <1>d, <1>1, <1>2, <1>3, <1>6, <2>1
  <2>3. k < q + 1
    BY <1>d, <1>1, <2>1, <2>2
  <2>4. (k + 1) * Delay <= (q + 1) * Delay
    BY <1>d, <1>1, <2>1, <2>3
  <2> QED
    BY <1>d, <1>1, <1>2, <2>1, <2>4
<1> QED
  BY <1>3, <1>5, <1>6

-----------------------------------------------------------------------------
\* Times of one interval between two multiples of the delay are less than a delay
\* apart.
LEMMA Intervals ==
    ASSUME SensorAssumption
    PROVE  /\ \A a, b \in Nat : a \div Delay = b \div Delay => a < b + Delay
           /\ \A c \in Nat : clock \in Nat /\ clock <= c /\ c < NextWake
                                => c \div Delay = clock \div Delay
<1>d. Delay \in Nat \ {0}
  BY DEF SensorAssumption
<1>q. ASSUME NEW a \in Nat
      PROVE  /\ a \div Delay \in Nat
             /\ (a \div Delay) * Delay <= a /\ a < (a \div Delay) * Delay + Delay
  BY <1>d
<1>1. ASSUME NEW a \in Nat, NEW b \in Nat, a \div Delay = b \div Delay PROVE a < b + Delay
  <2> DEFINE x == (b \div Delay) * Delay
  <2>1. x \in Nat /\ x <= b /\ a < x + Delay
    BY <1>d, <1>q, <1>1
  <2> HIDE DEF x
  <2> QED
    BY <1>d, <2>1
<1>2. ASSUME NEW c \in Nat, clock \in Nat, clock <= c, c < NextWake
      PROVE  c \div Delay = clock \div Delay
  <2> DEFINE k == clock \div Delay
  <2>1. k \in Nat /\ k * Delay <= c /\ c < k * Delay + Delay
    BY <1>d, <1>q, <1>2 DEF NextWake
  <2> HIDE DEF k
  <2>2. c \div Delay = k
    BY <1>d, <2>1
  <2> QED
    BY <2>2 DEF k
<1> QED
  BY <1>1, <1>2

-----------------------------------------------------------------------------
\* What the rate and the refusals rest on.  While the clock is not set, the log time
\* belongs to the interval the clock is in, so the memory is stamped with a time of
\* the interval it was accepted in; log times only grow, and a sensor that has been
\* refused n times in a row has a memory at least n - 1 delays old.
SameInterval ==
    ~mode.steps => /\ logtime \div Delay = clock \div Delay
                   /\ s.ltime # 0 => s.ltime \div Delay = at \div Delay

TimeRuns == ~mode.steps => logtime <= clock /\ s.ltime <= logtime

MemoryIsRead == s.ltime # 0 => s.lval \in Readings

Refusals ==
    ~mode.steps /\ ~lim.counter =>
        /\ pc = "wake" /\ s.ltime # 0 => Multiple(logtime)
        /\ streak > 0 =>
              /\ s.ltime # 0
              /\ Multiple(logtime)
              /\ (streak - 1) * Delay <= logtime - s.ltime
              /\ pc = "wake" => streak * Delay <= logtime - s.ltime
              /\ (streak - 1) * Delay * lim.roc <= 60 * Spread

IInv ==
    /\ TypeOK
    /\ MemoryInRange
    /\ ValidIsCurrent
    /\ SameInterval
    /\ TimeRuns
    /\ MemoryIsRead
    /\ Refusals
-----------------------------------------------------------------------------
LEMMA FreshTyped == FreshSensor \in SensorType
BY DEF FreshSensor, SensorType, Reasons, OK, W1_SEQ, W1_RMAX

\* Clearing the valid flag keeps everything else of the record.
LEMMA Cleared ==
    ASSUME s \in SensorType, s' = [s EXCEPT !.valid = FALSE]
    PROVE  /\ s' \in SensorType
           /\ ~s'.valid
           /\ s'.ltime = s.ltime /\ s'.lval = s.lval
BY DEF SensorType

LEMMA InitInductive == Init => IInv
<1> SUFFICES ASSUME Init PROVE IInv
  OBVIOUS
<1> USE SensorAssumption DEF Init
<1>1. s.ltime = 0 /\ s.lval = 0 /\ s.valid = FALSE
  BY DEF FreshSensor
<1>2. TypeOK
  BY FreshTyped DEF TypeOK
<1> QED
  BY <1>1, <1>2 DEF IInv, MemoryInRange, ValidIsCurrent, SameInterval, TimeRuns,
     MemoryIsRead, Refusals, TypeOK

-----------------------------------------------------------------------------
\* One reading: what it leaves in the sensor and in the histories.
LEMMA AttemptEffect ==
    ASSUME IInv, NEW v \in Readings, Attempt(v)
    PROVE  /\ v \in Int /\ lim \in LimitType /\ s' \in SensorType
           /\ s'.valid <=> Accepts(s, lim, v, logtime)
           /\ s'.valid => s'.value = v /\ s'.lval = v /\ s'.ltime = logtime
           /\ ~s'.valid => s'.lval = s.lval /\ s'.ltime = s.ltime
<1> v \in Int /\ lim \in LimitType /\ s \in SensorType /\ logtime \in Nat
  BY SensorAssumption DEF IInv, TypeOK
<1> QED
  BY Judged DEF Attempt

LEMMA AttemptInductive ==
    ASSUME IInv, NEW v \in Readings, Attempt(v)
    PROVE  IInv'
<1> USE SensorAssumption
<1>e. /\ v \in Int /\ lim \in LimitType /\ s' \in SensorType
      /\ s'.valid <=> Accepts(s, lim, v, logtime)
      /\ s'.valid => s'.value = v /\ s'.lval = v /\ s'.ltime = logtime
      /\ ~s'.valid => s'.lval = s.lval /\ s'.ltime = s.ltime
  BY AttemptEffect
<1>s. pc' \in {pc, "sleep"} /\ (s'.valid => pc' = "sleep")
  BY DEF Attempt, Settle
<1>t. /\ clock \in Nat /\ logtime \in Nat \ {0} /\ s \in SensorType /\ streak \in Nat
      /\ attempt \in 0 .. MaxRetry - 1 /\ pc \in {"wake", "user"} /\ lim \in Limits
      /\ mode \in Modes /\ at \in Nat
  BY DEF IInv, TypeOK, Attempt
<1>a. UNCHANGED <<mode, clock, logtime, lim>> /\ at' = (IF s'.valid THEN clock ELSE at)
  BY DEF Attempt
<1>1. TypeOK'
  <2>1. attempt' \in 0 .. MaxRetry - 1
    BY <1>t DEF Attempt, Settle
  <2>2. streak' \in Nat
    BY <1>t DEF Attempt, Streak
  <2> QED
    BY <1>e, <1>s, <1>t, <1>a, <2>1, <2>2 DEF TypeOK
<1>2. MemoryInRange'
  <2>1. CASE s'.valid
    BY <1>e, <1>a, <2>1, AcceptedIsFine DEF MemoryInRange, InRange, BelowMin, AboveMax
  <2>2. CASE ~s'.valid
    BY <1>e, <1>a, <2>2 DEF IInv, MemoryInRange, InRange, BelowMin, AboveMax
  <2> QED
    BY <2>1, <2>2
<1>3. ValidIsCurrent'
  BY <1>e, <1>a DEF ValidIsCurrent
<1>4. SameInterval'
  <2>1. CASE s'.valid
    BY <1>e, <1>a, <2>1 DEF IInv, SameInterval
  <2>2. CASE ~s'.valid
    BY <1>e, <1>a, <2>2 DEF IInv, SameInterval
  <2> QED
    BY <2>1, <2>2
<1>5. TimeRuns'
  BY <1>e, <1>a, <1>t DEF IInv, TimeRuns
<1>6. MemoryIsRead'
  BY <1>e DEF IInv, MemoryIsRead
<1>7. Refusals'
  <2> SUFFICES ASSUME ~mode.steps, ~lim.counter PROVE Refusals'
    BY <1>a DEF Refusals
  <2>1. CASE s'.valid
    <3>1. streak' = 0 /\ pc' = "sleep"
      BY <1>s, <2>1 DEF Attempt, Streak
    <3> QED
      BY <3>1 DEF Refusals
  <2>2. CASE ~s'.valid /\ ~InRange(v)
    <3>1. streak' = 0
      BY <2>2 DEF Attempt, Streak
    <3> QED
      BY <1>e, <1>s, <1>a, <2>2, <3>1 DEF IInv, Refusals, Multiple
  <2>3. CASE ~s'.valid /\ InRange(v)
    <3>1. TooFast(s, lim, v, logtime)
      BY <1>e, <2>3, RefusedInRange DEF InRange
    <3>2. CASE streak' = streak
      <4> USE <1>t
      <4>1. pc' = "wake" => pc = "wake"
        BY <1>s
      <4>2. /\ pc = "wake" /\ s.ltime # 0 => Multiple(logtime)
            /\ streak > 0 =>
                  /\ s.ltime # 0 /\ Multiple(logtime)
                  /\ (streak - 1) * Delay <= logtime - s.ltime
                  /\ pc = "wake" => streak * Delay <= logtime - s.ltime
                  /\ (streak - 1) * Delay * lim.roc <= 60 * Spread
        BY DEF IInv, Refusals
      <4>3. /\ s'.ltime = s.ltime /\ logtime' = logtime /\ streak' = streak
            /\ lim' = lim
        BY <1>e, <1>a, <2>3, <3>2
      <4>4. Multiple(logtime)' <=> Multiple(logtime)
        BY <4>3 DEF Multiple
      <4> QED
        BY <4>1, <4>2, <4>3, <4>4 DEF Refusals
    <3>3. CASE streak' # streak
      <4>1. pc = "wake" /\ pc' = "sleep" /\ streak' = streak + 1
        BY <2>3, <3>3 DEF Attempt, Streak, Settle
      <4>2. s.ltime # 0 /\ s.lval \in Readings
        BY <3>1 DEF TooFast, IInv, MemoryIsRead
      <4>3. Multiple(logtime)
        BY <4>1, <4>2 DEF IInv, Refusals
      <4>4. streak * Delay <= logtime - s.ltime
        <5>1. CASE streak = 0
          <6>1. s.ltime <= logtime /\ s.ltime \in Nat
            BY <1>t DEF IInv, TimeRuns, SensorType
          <6> QED
            BY <1>t, <5>1, <6>1
        <5>2. CASE streak > 0
          BY <4>1, <5>2 DEF IInv, Refusals
        <5> QED
          BY <1>t, <5>1, <5>2
      <4>5. streak * Delay * lim.roc <= 60 * Spread
        <5> DEFINE old == logtime - s.ltime
                   step == Abs(v - s.lval)
        <5>1. old \in Nat /\ lim.roc \in Nat /\ streak * Delay \in Nat
          BY <1>t, <1>e, <3>1 DEF TooFast, SensorType, LimitType
        <5>2. step <= Spread /\ step \in Nat
          <6>1. step <= Spread
            BY <4>2
          <6>2. v \in Int /\ s.lval \in Int
            BY <4>2
          <6>3. step \in Nat
            BY <6>2 DEF Abs
          <6> QED
            BY <6>1, <6>3
        <5>3. lim.roc * old < step * 60
          BY <1>t, <1>e, <3>1, <4>2, <5>1, <5>2 DEF TooFast
        <5>4. streak * Delay * lim.roc <= old * lim.roc
          <6> DEFINE a == streak * Delay
          <6>1. a \in Nat /\ a <= old
            BY <4>4, <5>1
          <6> HIDE DEF a, old
          <6>2. a * lim.roc <= old * lim.roc
            BY <5>1, <6>1
          <6> QED
            BY <6>2 DEF a
        <5> HIDE DEF old, step
        <5> QED
          BY <1>t, <5>1, <5>2, <5>3, <5>4
      <4>6. Multiple(logtime)'
        BY <1>a, <4>3 DEF Multiple
      <4>7. streak' - 1 = streak /\ s'.ltime = s.ltime /\ logtime' = logtime /\ lim' = lim
        BY <1>t, <1>e, <1>a, <2>3, <4>1
      <4> QED
        BY <4>1, <4>2, <4>4, <4>5, <4>6, <4>7 DEF Refusals
    <3> QED
      BY <3>2, <3>3
  <2> QED
    BY <2>1, <2>2, <2>3
<1> QED
  BY <1>1, <1>2, <1>3, <1>4, <1>5, <1>6, <1>7 DEF IInv

-----------------------------------------------------------------------------
\* A wake-up is at least a delay after the last multiple that was a log time.
LEMMA WakeInductive ==
    ASSUME IInv, NEW due \in BOOLEAN, Wake(due)
    PROVE  IInv'
<1> USE SensorAssumption DEF Wake
<1>t. /\ clock \in Nat /\ logtime \in Nat /\ streak \in Nat /\ s \in SensorType
      /\ s.ltime \in Nat
  BY DEF IInv, TypeOK, SensorType
<1>c. /\ s' \in SensorType /\ ~s'.valid
      /\ s'.ltime = s.ltime /\ s'.lval = s.lval
  BY <1>t, Cleared
<1>n. /\ NextWake \in Nat \ {0} /\ clock < NextWake /\ Multiple(NextWake)
      /\ \A t \in Nat : Multiple(t) /\ t <= clock => t + Delay <= NextWake
  BY <1>t, NextMultiple
<1>1. TypeOK'
  BY <1>c, <1>n DEF IInv, TypeOK
<1>2. MemoryInRange' /\ ValidIsCurrent' /\ MemoryIsRead'
  BY <1>c DEF IInv, MemoryInRange, ValidIsCurrent, MemoryIsRead, InRange, BelowMin,
     AboveMax
<1>3. SameInterval'
  BY <1>c DEF IInv, SameInterval
<1>4. TimeRuns'
  BY <1>c, <1>n, <1>t DEF IInv, TimeRuns
<1>5. Refusals'
  <2> SUFFICES ASSUME ~mode.steps, ~lim.counter PROVE Refusals'
    BY DEF Refusals
  <2>1. Multiple(logtime)'
    BY <1>n DEF Multiple
  <2>2. CASE streak = 0
    BY <2>1, <2>2 DEF Refusals
  <2>3. CASE streak > 0
    <3>1. /\ s.ltime # 0 /\ Multiple(logtime)
          /\ (streak - 1) * Delay <= logtime - s.ltime
          /\ (streak - 1) * Delay * lim.roc <= 60 * Spread
      BY <2>3 DEF IInv, Refusals
    <3>2. logtime + Delay <= logtime'
      BY <1>n, <1>t, <3>1 DEF IInv, TimeRuns
    <3>3. streak * Delay = (streak - 1) * Delay + Delay
      BY <1>t
    <3>4. streak * Delay <= logtime' - s.ltime
      <4> DEFINE a == (streak - 1) * Delay
      <4>1. a \in Int /\ logtime' \in Nat /\ Delay \in Nat
        BY <1>n, <1>t
      <4> HIDE DEF a
      <4>2. a + Delay <= logtime' - s.ltime
        BY <1>t, <3>1, <3>2, <4>1 DEF a
      <4> QED
        BY <3>3, <4>2 DEF a
    <3>5. (streak - 1) * Delay <= logtime' - s.ltime
      <4> DEFINE a == (streak - 1) * Delay
      <4>1. a \in Int /\ logtime' \in Nat /\ Delay \in Nat
        BY <1>n, <1>t
      <4> HIDE DEF a
      <4> QED
        BY <1>t, <3>1, <3>2, <4>1 DEF a
    <3> QED
      BY <1>c, <2>1, <3>1, <3>4, <3>5 DEF Refusals
  <2> QED
    BY <1>t, <2>2, <2>3
<1> QED
  BY <1>1, <1>2, <1>3, <1>4, <1>5 DEF IInv

\* Every step keeps the invariant.
LEMMA StepInductive == IInv /\ [Next]_vars => IInv'
<1> SUFFICES ASSUME IInv, [Next]_vars PROVE IInv'
  OBVIOUS
<1> USE SensorAssumption
<1>1. CASE Sleep
  <2>1. clock' \in Nat /\ clock <= clock'
    BY <1>1 DEF Sleep, IInv, TypeOK
  <2>2. TypeOK' /\ TimeRuns'
    <3>1. logtime \in Nat /\ clock \in Nat
      BY DEF IInv, TypeOK
    <3> QED
      BY <1>1, <2>1, <3>1 DEF Sleep, IInv, TypeOK, TimeRuns
  <2>3. clock' \div Delay = clock \div Delay
    <3>1. clock \in Nat /\ clock' < NextWake
      BY <1>1 DEF Sleep, IInv, TypeOK
    <3> QED
      BY <2>1, <3>1, Intervals
  <2>4. SameInterval'
    BY <1>1, <2>3 DEF Sleep, IInv, SameInterval
  <2> QED
    BY <1>1, <2>2, <2>4 DEF Sleep, IInv, MemoryInRange, ValidIsCurrent,
       MemoryIsRead, Refusals, Multiple, InRange, BelowMin, AboveMax
<1>2. ASSUME NEW t \in 1 .. MaxTime, SetClock(t) PROVE IInv'
  BY <1>2 DEF SetClock, IInv, TypeOK, TimeRuns, MemoryInRange, ValidIsCurrent,
     SameInterval, MemoryIsRead, Refusals, Multiple, InRange, BelowMin, AboveMax
<1>3. ASSUME NEW due \in BOOLEAN, Wake(due) PROVE IInv'
  BY <1>3, WakeInductive
<1>4. CASE UserPass
  <2>1. /\ s' \in SensorType /\ ~s'.valid
        /\ s'.ltime = s.ltime /\ s'.lval = s.lval
    BY <1>4, Cleared DEF UserPass, IInv, TypeOK
  <2>2. Refusals'
    <3>1. pc' = "user" /\ UNCHANGED <<mode, lim, streak, logtime>>
      BY <1>4 DEF UserPass
    <3> QED
      BY <2>1, <3>1 DEF IInv, Refusals, Multiple
  <2> QED
    BY <1>4, <2>1, <2>2 DEF UserPass, IInv, TypeOK, TimeRuns, MemoryInRange,
       ValidIsCurrent, SameInterval, MemoryIsRead, InRange, BelowMin, AboveMax
<1>5. ASSUME NEW v \in Readings, Attempt(v) PROVE IInv'
  BY <1>5, AttemptInductive
<1>6. CASE NoAnswer
  <2>1. pc' \in {pc, "sleep"} /\ attempt' \in 0 .. MaxRetry - 1
    BY <1>6 DEF NoAnswer, Settle, IInv, TypeOK
  <2>2. streak' = 0
    BY <1>6 DEF NoAnswer
  <2>3. Refusals'
    BY <1>6, <2>1, <2>2 DEF NoAnswer, IInv, Refusals, Multiple
  <2> QED
    BY <1>6, <2>1, <2>2, <2>3 DEF NoAnswer, IInv, TypeOK, TimeRuns, MemoryInRange,
       ValidIsCurrent, SameInterval, MemoryIsRead, InRange, BelowMin, AboveMax
<1>7. ASSUME NEW l \in Limits, Reload(l) PROVE IInv'
  <2>1. s'.ltime = 0 /\ s'.valid = FALSE /\ s' \in SensorType
    BY <1>7, FreshTyped DEF Reload, FreshSensor
  <2> QED
    BY <1>7, <2>1 DEF Reload, IInv, TypeOK, TimeRuns, MemoryInRange, ValidIsCurrent,
       SameInterval, MemoryIsRead, Refusals
<1>8. CASE UNCHANGED vars
  BY <1>8 DEF vars, IInv, TypeOK, TimeRuns, MemoryInRange, ValidIsCurrent,
     SameInterval, MemoryIsRead, Refusals, Multiple, InRange, BelowMin, AboveMax
<1> QED
  BY <1>1, <1>2, <1>3, <1>4, <1>5, <1>6, <1>7, <1>8 DEF Next

LEMMA Inductive == Spec => []IInv
BY InitInductive, StepInductive, PTL DEF Spec

-----------------------------------------------------------------------------
\* Every variable keeps its type (w1_sensor_t, w1_devlist_t).
THEOREM TypeCorrect == Spec => []TypeOK
<1>1. IInv => TypeOK
  BY DEF IInv
<1> QED
  BY <1>1, Inductive, PTL

\* Whatever w1_validate refused, replaced or retried, the last good reading of a
\* sensor is within the limits in force (w1sensors.c:164-173, 210-214).
THEOREM MemoryStaysInRange == Spec => []MemoryInRange
<1>1. IInv => MemoryInRange
  BY DEF IInv
<1> QED
  BY <1>1, Inductive, PTL

\* A reading the loggers take was accepted at the log time they write it under
\* (w1sensors.c:1346, 212-214).
THEOREM ValidReadingsAreCurrent == Spec => []ValidIsCurrent
<1>1. IInv => ValidIsCurrent
  BY DEF IInv
<1> QED
  BY <1>1, Inductive, PTL

\* While the clock is not set, the number of wake-ups in a row that refuse an
\* in-range reading is bounded by the size of the step (w1sensors.c:180-189).
THEOREM LockoutIsBounded == Spec => []LockoutBounded
<1>1. IInv => LockoutBounded
  BY DEF IInv, Refusals, LockoutBounded
<1> QED
  BY <1>1, Inductive, PTL

-----------------------------------------------------------------------------
\* The steps other than a reading leave the memory alone, or forget it; none of
\* them makes a reading valid.
LEMMA MemoryStep ==
    ASSUME IInv, [Next]_vars, ~\E v \in Readings : Attempt(v)
    PROVE  /\ s' = s \/ ~s'.valid
           /\ s'.ltime = s.ltime \/ s'.ltime = 0
           /\ s'.ltime # 0 => s'.lval = s.lval
<1>t. s \in SensorType
  BY DEF IInv, TypeOK
<1>1. CASE s' = [s EXCEPT !.valid = FALSE]
  BY <1>1, <1>t, Cleared
<1>2. CASE s' = FreshSensor
  BY <1>2 DEF FreshSensor
<1>3. CASE UNCHANGED s
  BY <1>3
<1> QED
  BY <1>1, <1>2, <1>3 DEF Next, vars, Sleep, SetClock, Wake, UserPass, NoAnswer, Reload

LEMMA CounterStep ==
    IInv /\ [Next]_vars => (lim.counter /\ s'.ltime # 0 => s'.lval >= s.lval)
<1> SUFFICES ASSUME IInv, [Next]_vars, lim.counter, s'.ltime # 0
             PROVE  s'.lval >= s.lval
  OBVIOUS
<1>t. s.lval \in Int
  BY DEF IInv, TypeOK, SensorType
<1>1. ASSUME NEW v \in Readings, Attempt(v) PROVE s'.lval >= s.lval
  <2>1. /\ v \in Int
        /\ s'.valid <=> Accepts(s, lim, v, logtime)
        /\ s'.valid => s'.lval = v
        /\ ~s'.valid => s'.lval = s.lval
    BY <1>1, AttemptEffect
  <2>2. s'.valid => v >= s.lval
    BY <1>t, <2>1, AcceptedIsFine DEF CountsDown
  <2> QED
    BY <1>t, <2>1, <2>2
<1>2. CASE ~\E v \in Readings : Attempt(v)
  BY <1>t, <1>2, MemoryStep
<1> QED
  BY <1>1, <1>2

\* The log times of two readings accepted in different intervals differ, and by less
\* than a delay more than the times of the readings.
LEMMA RateStep ==
    IInv /\ [Next]_vars
        => (~mode.steps /\ clock \div Delay # at \div Delay => Limited(Delay))
<1> SUFFICES ASSUME IInv, [Next]_vars, ~mode.steps, clock \div Delay # at \div Delay,
                    s' # s, s'.valid, s.ltime # 0, W1_ROC \in lim.flags
             PROVE  Abs(s'.lval - s.lval) * 60 <= lim.roc * (clock - at + Delay)
  BY DEF Limited
<1>1. PICK v \in Readings : Attempt(v)
  BY MemoryStep
<1>2. /\ v \in Int /\ lim \in LimitType
      /\ s'.valid <=> Accepts(s, lim, v, logtime)
      /\ s'.valid => s'.lval = v
  BY <1>1, AttemptEffect
<1>3. /\ s.ltime > 0 /\ s.ltime \in Nat /\ s.lval \in Int
      /\ clock \in Nat /\ at \in Nat /\ logtime \in Nat
  BY DEF IInv, TypeOK, SensorType
<1>4. s.ltime <= logtime /\ logtime <= clock
  BY DEF IInv, TimeRuns
<1>5. logtime > s.ltime
  <2>1. logtime # s.ltime
    BY DEF IInv, SameInterval
  <2> QED
    BY <1>3, <1>4, <2>1
<1>6. at < s.ltime + Delay
  <2>1. at \div Delay = s.ltime \div Delay
    BY DEF IInv, SameInterval
  <2> QED
    BY <1>3, <2>1, Intervals, SensorAssumption
<1>7. Abs(v - s.lval) \in Int /\ lim.roc \in Nat /\ Delay \in Nat
  BY <1>2, <1>3, SensorAssumption DEF Abs, LimitType, SensorAssumption
<1> DEFINE old == logtime - s.ltime
           gap == clock - at + Delay
           step == Abs(v - s.lval)
<1>8. old \in Nat /\ gap \in Nat /\ old <= gap
  BY <1>3, <1>4, <1>5, <1>6, <1>7
<1>9. ~(step * 60 > lim.roc * old)
  BY <1>2, <1>3, <1>5, AcceptedIsFine DEF TooFast
<1>10. step * 60 <= lim.roc * gap
  <2> HIDE DEF old, gap, step
  <2>1. lim.roc * old <= lim.roc * gap
    BY <1>7, <1>8
  <2>2. step \in Int
    BY <1>7 DEF step
  <2>3. lim.roc * old \in Int /\ lim.roc * gap \in Int /\ step * 60 \in Int
    BY <1>7, <1>8, <2>2
  <2> QED
    BY <1>9, <2>1, <2>3
<1> QED
  BY <1>2, <1>10

\* Between two loads of the configuration a rain gauge never counts down
\* (w1sensors.c:195-208).
THEOREM GaugesNeverCountDown == Spec => CounterNeverDown
BY CounterStep, Inductive, PTL DEF Spec, CounterNeverDown

\* While the clock is not set and passes take no time, SIGUSR1 passes with the old log
\* time stretch the rate limit between readings of two wake-up intervals by at most one
\* delay of real time (w1sensors.c:180-189, w1retap.c:611-616, 649-652).
THEOREM RateIsWithinDelay == Spec => RateWithinDelay
BY RateStep, Inductive, PTL DEF Spec, RateWithinDelay

-----------------------------------------------------------------------------
\* A reading w1_validate accepts is good in the sense of LastGood.
LEMMA AcceptedIsGood ==
    ASSUME s \in SensorType, lim \in LimitType, logtime \in Nat, NEW v \in Int,
           Accepts(s, lim, v, logtime)
    PROVE  /\ L!InRange(v)
           /\ ~L!TooFast(s, lim, v, logtime)
           /\ ~L!CountsDown(s, lim, v)
<1>1. /\ ~BelowMin(lim, v) /\ ~AboveMax(lim, v)
      /\ ~TooFast(s, lim, v, logtime) /\ ~CountsDown(s, lim, v)
  BY AcceptedIsFine
<1>2. L!InRange(v)
  BY <1>1 DEF L!InRange, L!BelowMin, L!AboveMax, BelowMin, AboveMax,
     L!W1_RMIN, L!W1_RMAX, W1_RMIN, W1_RMAX
<1>3. ~L!TooFast(s, lim, v, logtime)
  BY <1>1 DEF L!TooFast, TooFast, L!Abs, Abs, L!W1_ROC, W1_ROC
<1>4. ~L!CountsDown(s, lim, v)
  BY <1>1 DEF L!CountsDown, CountsDown
<1> QED
  BY <1>2, <1>3, <1>4

\* A reading is accepted or refused, a wake-up and SIGUSR1 begin a pass, a reload
\* makes a new sensor; the other steps do not touch it.
LEMMA LastGoodStep == IInv /\ [Next]_vars => [L!Next]_(L!vars)
<1> SUFFICES ASSUME IInv, [Next]_vars PROVE [L!Next]_(L!vars)
  OBVIOUS
<1> USE DEF L!Next
<1>t. s \in SensorType /\ lim \in LimitType /\ logtime \in Nat
  BY SensorAssumption DEF IInv, TypeOK
<1>1. ASSUME NEW v \in Readings, Attempt(v) PROVE L!Accept \/ L!Refuse
  <2>1. /\ v \in Int
        /\ s'.valid <=> Accepts(s, lim, v, logtime)
        /\ s'.valid => s'.value = v /\ s'.lval = v /\ s'.ltime = logtime
        /\ ~s'.valid => s'.lval = s.lval /\ s'.ltime = s.ltime
    BY <1>1, AttemptEffect
  <2>2. UNCHANGED <<lim, logtime>>
    BY <1>1 DEF Attempt
  <2>3. CASE s'.valid
    <3>1. /\ L!InRange(v)
          /\ ~L!TooFast(s, lim, v, logtime)
          /\ ~L!CountsDown(s, lim, v)
      BY <1>t, <2>1, <2>3, AcceptedIsGood
    <3> QED
      BY <2>1, <2>2, <2>3, <3>1 DEF L!Accept
  <2>4. CASE ~s'.valid
    BY <2>1, <2>2, <2>4 DEF L!Refuse, L!Remembered
  <2> QED
    BY <2>3, <2>4
<1>2. ASSUME NEW due \in BOOLEAN, Wake(due) PROVE L!BeginPass
  <2>1. s' = [s EXCEPT !.valid = FALSE] /\ UNCHANGED lim
    BY <1>2 DEF Wake
  <2> QED
    BY <1>t, <2>1, Cleared DEF L!BeginPass, L!Remembered
<1>3. CASE UserPass
  <2>1. s' = [s EXCEPT !.valid = FALSE] /\ UNCHANGED <<lim, logtime>>
    BY <1>3 DEF UserPass
  <2>2. L!Refuse
    BY <1>t, <2>1, Cleared DEF L!Refuse, L!Remembered
  <2> QED
    BY <2>2
<1>4. ASSUME NEW l \in Limits, Reload(l) PROVE L!Load
  BY <1>4 DEF Reload, L!Load, FreshSensor, L!FreshSensor, OK, L!OK
<1>5. CASE UNCHANGED <<lim, logtime, s>>
  BY <1>5 DEF L!vars
<1>6. Sleep \/ NoAnswer \/ (\E t \in 1 .. MaxTime : SetClock(t)) \/ UNCHANGED vars
        => UNCHANGED <<lim, logtime, s>>
  BY DEF Sleep, NoAnswer, SetClock, vars
<1> QED
  BY <1>1, <1>2, <1>3, <1>4, <1>5, <1>6 DEF Next

\* A sensor of any configuration keeps the promise of LastGood: between two loads
\* its memory only ever changes to a reading that is good by every check against the
\* one before, and what is valid is the good reading of the log time (w1_validate,
\* the retries, the wake-ups and SIGUSR1).
THEOREM ImplementsLastGood == Spec => KeepsLastGood
<1>1. Init => L!Init
  BY DEF Init, L!Init, FreshSensor, L!FreshSensor, OK, L!OK
<1> QED
  BY <1>1, LastGoodStep, Inductive, PTL DEF Spec, KeepsLastGood, L!Spec
=============================================================================
