------------------------------ MODULE Validate ------------------------------
(***************************************************************************)
(* w1_validate: the plausibility check every reading goes through.  A      *)
(* sensor remembers the last reading it accepted (lval) and the log time of *)
(* that reading (ltime, 0 when there is none); a limit record says which   *)
(* checks apply.  Readings and bounds are integers, so a rate in units per *)
(* minute is compared without a division.                                  *)
(* A definition named X_Slip... is a plausible mistake in X.               *)
(***************************************************************************)
EXTENDS Integers

OK      == 0
W1_ROC  == 1
W1_RMIN == 2
W1_RMAX == 4
W1_SEQ  == W1_RMAX + 1

Reasons == {OK, W1_ROC, W1_RMIN, W1_RMAX, W1_SEQ}

\* The record of a sensor that has just been allocated (calloc).
FreshSensor == [value |-> 0, valid |-> FALSE, lval |-> 0, ltime |-> 0,
                reason |-> OK]

Abs(x) == IF x < 0 THEN -x ELSE x

\* The replacement of a reading out of range: the last accepted one, or the
\* bound it crossed when there is none.
InsteadOf(s, bound) == IF s.ltime # 0 THEN s.lval ELSE bound

BelowMin(lim, v) == W1_RMIN \in lim.flags /\ v < lim.rmin
AboveMax(lim, v) == W1_RMAX \in lim.flags /\ v > lim.rmax

\* The range checks come one after the other, the second on the result of the
\* first: the value they leave, and the reason of the last one that fired.
Ranged(s, lim, v) == IF BelowMin(lim, v) THEN InsteadOf(s, lim.rmin) ELSE v

RangeCheck(s, lim, v) ==
    IF AboveMax(lim, Ranged(s, lim, v)) THEN W1_RMAX
    ELSE IF BelowMin(lim, v) THEN W1_RMIN ELSE OK

RangedValue(s, lim, v) ==
    IF AboveMax(lim, Ranged(s, lim, v)) THEN InsteadOf(s, lim.rmax)
    ELSE Ranged(s, lim, v)

TooFast_SlipNoTime(s, lim, v, t) ==
    W1_ROC \in lim.flags /\ s.ltime > 0 /\ t > s.ltime /\ Abs(v - s.lval) > lim.roc

\* |v - lval| * 60 / (t - ltime) > roc; a rate over a time that runs backwards
\* is not positive and never exceeds a limit.  The first reading and a reading
\* at the log time of the last one have no rate.
TooFast(s, lim, v, t) ==
    /\ W1_ROC \in lim.flags
    /\ s.ltime > 0
    /\ t > s.ltime
    /\ Abs(v - s.lval) * 60 > lim.roc * (t - s.ltime)

\* A rain gauge counter ("RGC...") only counts up.
CountsDown(s, lim, v) == lim.counter /\ v < s.lval

\* The check that refuses reading v at log time t, OK when none does.
Check(s, lim, v, t) ==
    IF RangeCheck(s, lim, v) # OK THEN RangeCheck(s, lim, v)
    ELSE IF TooFast(s, lim, v, t) THEN W1_ROC
    ELSE IF CountsDown(s, lim, v) THEN W1_SEQ
    ELSE OK

Validated_SlipRemember(s, lim, v, t) ==
    [value  |-> v,
     valid  |-> Check(s, lim, v, t) = OK,
     lval   |-> v,
     ltime  |-> t,
     reason |-> Check(s, lim, v, t)]

\* What w1_validate leaves in the sensor: an accepted reading is remembered, a
\* refused one is replaced and marked invalid.  s->reason is assigned before the
\* counter check and keeps OK when only that check refuses.
Validated(s, lim, v, t) ==
    LET c == Check(s, lim, v, t) IN
    IF c = OK
    THEN [value |-> v, valid |-> TRUE, lval |-> v, ltime |-> t, reason |-> OK]
    ELSE [value  |-> IF c \in {W1_ROC, W1_SEQ} THEN s.lval
                     ELSE RangedValue(s, lim, v),
          valid  |-> FALSE,
          lval   |-> s.lval,
          ltime  |-> s.ltime,
          reason |-> IF c = W1_SEQ THEN OK ELSE c]
=============================================================================
