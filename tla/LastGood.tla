------------------------------ MODULE LastGood ------------------------------
(***************************************************************************)
(* What the checks of readings promise of one sensor, whatever its reader  *)
(* does with the answers of the hardware: the record remembers the last    *)
(* good reading, a new one is good only within the limits and against the  *)
(* remembered one, and what is valid is the good reading of this log time. *)
(* SensorCheck and, for every sensor of a device, Readers implement it.    *)
(***************************************************************************)
EXTENDS Validate

VARIABLES
    lim,      \* the limits in force
    logtime,  \* w1->logtime
    sensor    \* the sensor record

vars == <<lim, logtime, sensor>>

-----------------------------------------------------------------------------
InRange(v) == ~BelowMin(lim, v) /\ ~AboveMax(lim, v)

\* The memory of the sensor stays.
Remembered == sensor'.lval = sensor.lval /\ sensor'.ltime = sensor.ltime

Init == sensor = FreshSensor

\* A reading is good, by every check and against the last good one.  It is remembered
\* also when the reader withdraws it for the sake of another sensor.
Accept ==
    /\ sensor'.ltime = logtime
    /\ LET v == sensor'.lval IN
       /\ InRange(v)
       /\ ~TooFast(sensor, lim, v, logtime)
       /\ ~CountsDown(sensor, lim, v)
       /\ sensor'.valid => sensor'.value = v
    /\ UNCHANGED <<lim, logtime>>

\* Nothing was read, or nothing good: the memory stays, and nothing is logged.
Refuse ==
    /\ Remembered
    /\ ~sensor'.valid
    /\ UNCHANGED <<lim, logtime>>

\* A pass at another log time begins with nothing valid.
BeginPass ==
    /\ Remembered
    /\ ~sensor'.valid
    /\ UNCHANGED lim

\* The configuration is read anew: other limits, a new record.
Load == sensor' = FreshSensor /\ UNCHANGED logtime

Next == Accept \/ Refuse \/ BeginPass \/ Load

Spec == Init /\ [][Next]_vars
=============================================================================
