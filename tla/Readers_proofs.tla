--------------------------- MODULE Readers_proofs ---------------------------
(***************************************************************************)
(* What the readers of w1sensors.c report, for any device and sensors, any *)
(* limits and any numbers the hardware gives.  First what one judgement    *)
(* and a row of them leave, then each reader, then the retries.            *)
(***************************************************************************)
EXTENDS Readers, FiniteSetTheorems, TLAPS

\* The limits of a sensor, as ReadersAssumption has them.
LimitType == [flags : SUBSET {W1_ROC, W1_RMIN, W1_RMAX}, counter : BOOLEAN,
              rmin : Int, rmax : Int, roc : Int]

\* What w1_validate leaves is a sensor; an accepted one holds the reading, a refused
\* one keeps its memory.
LEMMA OneJudged ==
    ASSUME NEW e \in SensorType, NEW l \in LimitType, NEW v \in Int, NEW t \in Nat
    PROVE  LET n == Validated(e, l, v, t) IN
           /\ n \in SensorType
           /\ n.valid <=> Check(e, l, v, t) = OK
           /\ n.valid => n.value = v /\ n.lval = v /\ n.ltime = t
           /\ ~n.valid => n.lval = e.lval /\ n.ltime = e.ltime
<1> DEFINE n == Validated(e, l, v, t)
<1>t. e.lval \in Int /\ e.ltime \in Nat
  BY DEF SensorType
<1>l. l.rmin \in Int /\ l.rmax \in Int
  BY DEF LimitType
<1>1. CASE Check(e, l, v, t) = OK
  <2>1. n = [value |-> v, valid |-> TRUE, lval |-> v, ltime |-> t, reason |-> OK]
    BY <1>1 DEF Validated
  <2>2. n \in SensorType
    BY <2>1 DEF SensorType, Reasons
  <2> QED
    BY <1>1, <2>1, <2>2
<1>2. CASE Check(e, l, v, t) # OK
  <2> DEFINE c == Check(e, l, v, t)
             w == IF c \in {W1_ROC, W1_SEQ} THEN e.lval ELSE RangedValue(e, l, v)
             k == IF c = W1_SEQ THEN OK ELSE c
  <2>1. n = [value |-> w, valid |-> FALSE, lval |-> e.lval, ltime |-> e.ltime,
             reason |-> k]
    BY <1>2 DEF Validated
  <2>2. w \in Int
    BY <1>t, <1>l DEF RangedValue, Ranged, InsteadOf
  <2>3. k \in Reasons
    BY DEF Check, RangeCheck, Reasons
  <2>4. n \in SensorType
    <3> HIDE DEF w, k
    <3> QED BY <1>t, <2>1, <2>2, <2>3 DEF SensorType
  <2> QED
    BY <1>2, <2>1, <2>4
<1> QED
  BY <1>1, <1>2

\* An accepted reading is accepted again at the same log time.
LEMMA JudgedAgain ==
    ASSUME NEW e \in SensorType, NEW l \in LimitType, NEW v \in Int, NEW t \in Nat,
           Validated(e, l, v, t).valid
    PROVE  Validated(Validated(e, l, v, t), l, v, t).valid
<1> DEFINE n == Validated(e, l, v, t)
<1>1. n \in SensorType /\ Check(e, l, v, t) = OK /\ n.lval = v /\ n.ltime = t
  BY OneJudged
<1> HIDE DEF n
<1>2. ~BelowMin(l, v) /\ ~AboveMax(l, v)
  BY <1>1 DEF Check, RangeCheck, Ranged, OK, W1_RMIN, W1_RMAX
<1>3. RangeCheck(n, l, v) = OK
  BY <1>2 DEF RangeCheck, Ranged
<1>4. ~TooFast(n, l, v, t) /\ ~CountsDown(n, l, v)
  BY <1>1 DEF TooFast, CountsDown
<1>5. Check(n, l, v, t) = OK
  BY <1>3, <1>4 DEF Check
<1> QED
  BY <1>1, <1>5, OneJudged DEF n

-----------------------------------------------------------------------------
\* A device, its limits and a log time: what a reader starts from.
Given == dev \in Devices /\ lim \in Limits /\ logtime \in Nat

\* The sensor records of a device (w1_sensor_t), by role.
Sensors == [Roles -> SensorType]

\* A device has finitely many sensors.
LEMMA RolesFinite == Given => IsFiniteSet(Roles)
<1> SUFFICES ASSUME Given PROVE IsFiniteSet(Roles)
  OBVIOUS
<1>1. Len(dev.roles) \in Nat /\ DOMAIN dev.roles = 1 .. Len(dev.roles)
      /\ dev.roles \in [1 .. Len(dev.roles) -> STRING]
  BY ReadersAssumption DEF Given
<1>2. IsFiniteSet(1 .. Len(dev.roles))
  BY <1>1, FS_Interval
<1>3. dev.roles \in Surjection(1 .. Len(dev.roles), Roles)
  BY <1>1 DEF Surjection, Roles
<1> QED
  BY <1>2, <1>3, FS_Surjection

\* w1_set_invalid leaves nothing valid.
LEMMA ClearedIs ==
    ASSUME NEW ss \in Sensors
    PROVE  Cleared(ss) \in Sensors /\ Valid(Cleared(ss)) = {}
<1>1. ASSUME NEW x \in Roles
      PROVE  [ss[x] EXCEPT !.valid = FALSE] \in SensorType
  BY DEF Sensors, SensorType
<1> QED
  BY <1>1 DEF Sensors, Cleared, Valid

\* Sensors judged one after the other: the count is 0 exactly when none of them is
\* valid, the others are left alone.
LEMMA CountedIs ==
    ASSUME Given, NEW ss \in Sensors, NEW X, NEW vals \in [X -> Int]
    PROVE  LET n == Counted(ss, vals) IN
           /\ n.s \in Sensors
           /\ n.nv \in Nat
           /\ n.nv # 0 <=> Valid(n.s) \cap X # {}
           /\ Valid(n.s) \ X = Valid(ss) \ X
           /\ \A x \in Roles \ X : n.s[x] = ss[x]
           /\ \A x \in Roles \cap X : n.s[x] = Validated(ss[x], lim, vals[x], logtime)
           /\ \A x \in Valid(n.s) \cap X : n.s[x].value = vals[x]
<1> DEFINE j == Judged(ss, vals)
           V == Valid(j) \cap X
<1>1. lim \in LimitType /\ logtime \in Nat
  BY ReadersAssumption DEF Given, LimitType
<1>2. ASSUME NEW x \in Roles \cap X
      PROVE  /\ j[x] = Validated(ss[x], lim, vals[x], logtime)
             /\ j[x] \in SensorType /\ (j[x].valid => j[x].value = vals[x])
  <2>1. ss[x] \in SensorType /\ vals[x] \in Int
    BY DEF Sensors
  <2>2. j[x] = Validated(ss[x], lim, vals[x], logtime)
    BY DEF Judged
  <2> QED
    BY <1>1, <2>1, <2>2, OneJudged
<1>3. \A x \in Roles \ X : j[x] = ss[x]
  BY DEF Judged
<1>4. j \in Sensors
  <2>1. j = [x \in Roles |-> j[x]]
    BY DEF Judged
  <2>2. \A x \in Roles : j[x] \in SensorType
    BY <1>2, <1>3 DEF Sensors
  <2> HIDE DEF j
  <2> QED
    BY <2>1, <2>2 DEF Sensors
<1>5. Counted(ss, vals) = [s |-> j, nv |-> Cardinality(V)]
  BY DEF Counted, Result
<1>6. IsFiniteSet(V)
  BY RolesFinite, FS_Subset DEF Valid
<1>7. Cardinality(V) \in Nat /\ (Cardinality(V) = 0 <=> V = {})
  BY <1>6, FS_CardinalityType, FS_EmptySet
<1>8. Valid(j) \ X = Valid(ss) \ X
  BY <1>3 DEF Valid
<1>9. \A x \in Valid(j) \cap X : j[x].value = vals[x]
  BY <1>2 DEF Valid
<1> HIDE DEF j
<1> QED
  BY <1>2, <1>3, <1>4, <1>5, <1>7, <1>8, <1>9

-----------------------------------------------------------------------------
\* What every reader but that of the HIH reports: 0 exactly when it left nothing valid.
Told(res) == /\ res.s \in Sensors /\ res.nv \in Nat
             /\ res.nv # 0 <=> Valid(res.s) # {}

\* A reader that got no answer leaves nothing valid and says so.
LEMMA NothingIs ==
    ASSUME s \in Sensors
    PROVE  Told(Nothing) /\ Valid(Nothing.s) = {}
  BY ClearedIs DEF Nothing, Result, Told

\* Judging sensors of which none was valid.
LEMMA CountedAfresh ==
    ASSUME Given, NEW ss \in Sensors, Valid(ss) = {}, NEW X, NEW vals \in [X -> Int]
    PROVE  /\ Told(Counted(ss, vals))
           /\ Valid(Counted(ss, vals).s) \subseteq X
<1> DEFINE n == Counted(ss, vals)
<1>1. /\ n.s \in Sensors /\ n.nv \in Nat
      /\ n.nv # 0 <=> Valid(n.s) \cap X # {}
      /\ Valid(n.s) \ X = {}
  BY CountedIs
<1> HIDE DEF n
<1>2. Valid(n.s) \subseteq X
  BY <1>1
<1>3. Valid(n.s) \cap X = Valid(n.s)
  BY <1>2
<1> QED
  BY <1>1, <1>2, <1>3 DEF Told, n

\* A device read in one transaction.
LEMMA AtOnceIs ==
    ASSUME Given, s \in Sensors, NEW roles, NEW a, a.val \in Int
    PROVE  /\ Told(AtOnce(roles, a))
           /\ ~a.ok => Valid(AtOnce(roles, a).s) = {}
<1>1. CASE a.ok
  <2>1. [x \in roles |-> a.val] \in [roles -> Int]
    OBVIOUS
  <2>2. Cleared(s) \in Sensors /\ Valid(Cleared(s)) = {}
    BY ClearedIs
  <2>3. Told(Counted(Cleared(s), [x \in roles |-> a.val]))
    BY <2>1, <2>2, CountedAfresh
  <2> QED
    BY <1>1, <2>3 DEF AtOnce
<1>2. CASE ~a.ok
  BY <1>2, NothingIs DEF AtOnce
<1> QED
  BY <1>1, <1>2

\* The DS18x20: nothing was valid before, and without an answer nothing is.
LEMMA TempIs ==
    ASSUME Given, s \in Sensors, Valid(s) = {}, NEW a, a.val \in Int
    PROVE  /\ Told(w1_read_temp(a))
           /\ ~a.ok => Valid(w1_read_temp(a).s) = {}
<1>1. CASE a.ok
  <2>1. [x \in {dev.roles[1]} |-> a.val] \in [{dev.roles[1]} -> Int]
    OBVIOUS
  <2>2. Told(Counted(s, [x \in {dev.roles[1]} |-> a.val]))
    BY <2>1, CountedAfresh
  <2> QED
    BY <1>1, <2>2 DEF w1_read_temp
<1>2. CASE ~a.ok
  <2>1. Cardinality({}) = 0 /\ Valid(s) \cap {dev.roles[1]} = {}
    BY FS_EmptySet
  <2>2. w1_read_temp(a) = [s |-> s, nv |-> 0]
    BY <1>2, <2>1 DEF w1_read_temp, Result
  <2> QED
    BY <2>2 DEF Told
<1> QED
  BY <1>1, <1>2

\* The counters: a valid one answered.
LEMMA CounterIs ==
    ASSUME Given, s \in Sensors, NEW a \in Counters
    PROVE  /\ Told(w1_read_counter(a))
           /\ Valid(w1_read_counter(a).s) \subseteq {x \in DOMAIN a.ok : a.ok[x]}
<1> DEFINE X == {x \in {"counterA", "counterB"} : a.ok[x]}
<1>1. a.val \in Int /\ DOMAIN a.ok = {"counterA", "counterB"}
  BY ReadersAssumption DEF Counters
<1>2. [x \in X |-> a.val] \in [X -> Int]
  BY <1>1
<1>3. Cleared(s) \in Sensors /\ Valid(Cleared(s)) = {}
  BY ClearedIs
<1>4. w1_read_counter(a) = Counted(Cleared(s), [x \in X |-> a.val])
  BY DEF w1_read_counter
<1>5. X = {x \in DOMAIN a.ok : a.ok[x]}
  BY <1>1
<1> HIDE DEF X
<1>6. Told(w1_read_counter(a)) /\ Valid(w1_read_counter(a).s) \subseteq X
  BY <1>2, <1>3, <1>4, CountedAfresh
<1> QED
  BY <1>5, <1>6

-----------------------------------------------------------------------------
\* The channels of a DS2438.
LEMMA ChannelsGive ==
    ASSUME NEW a \in DS2438
    PROVE  /\ a.val \in [Channels -> Int] /\ a.derived \in Int
           /\ DOMAIN a.ok = Channels
           /\ \A c \in Got(a) : a.ok[c] \/ (c = "temp" /\ a.val[c] = 0)
<1>1. /\ a.ok \in [Channels -> BOOLEAN]
      /\ a.val \in [Channels -> Readings \cup {Failed, 0}]
      /\ a.derived \in Readings
      /\ \A c \in Channels : a.val[c] \in OneChannel(c, a.ok[c])
  BY DEF DS2438
<1>2. Readings \cup {Failed, 0} \subseteq Int
  BY ReadersAssumption DEF Failed
<1>3. ASSUME NEW c \in Channels, a.val[c] # Failed, ~a.ok[c]
      PROVE  c = "temp" /\ a.val[c] = 0
  <2>1. OneChannel(c, a.ok[c]) = IF c = "temp" THEN {Failed, 0} ELSE {Failed}
    BY <1>3 DEF OneChannel
  <2>2. a.val[c] \in OneChannel(c, a.ok[c])
    BY <1>1
  <2> QED
    BY <1>3, <2>1, <2>2
<1> QED
  BY <1>1, <1>2, <1>3 DEF Got

\* w1_read_voltages: a valid sensor is a channel that gave a number, and a valid
\* temperature is that number.
LEMMA VoltagesAre ==
    ASSUME Given, s \in Sensors, NEW a \in DS2438
    PROVE  LET volts == w1_read_voltages(a) IN
           /\ Told(volts)
           /\ Valid(volts.s) \subseteq Got(a)
           /\ "temp" \in Valid(volts.s) =>
                 /\ volts.s["temp"].value = a.val["temp"]
                 /\ volts.s["temp"] =
                       Validated(Cleared(s)["temp"], lim, a.val["temp"], logtime)
<1> DEFINE X == Got(a)
           vals == [c \in X |-> a.val[c]]
           n == Counted(Cleared(s), vals)
<1>1. vals \in [X -> Int]
  BY ChannelsGive DEF Got
<1>2. Cleared(s) \in Sensors /\ Valid(Cleared(s)) = {}
  BY ClearedIs
<1>3. w1_read_voltages(a) = n
  BY DEF w1_read_voltages
<1>4. \A c \in X : vals[c] = a.val[c]
  OBVIOUS
<1> HIDE DEF X, vals
<1>5. Told(n) /\ Valid(n.s) \subseteq X
  BY <1>1, <1>2, CountedAfresh
<1>6. /\ \A x \in Roles \cap X : n.s[x] = Validated(Cleared(s)[x], lim, vals[x], logtime)
      /\ \A x \in Valid(n.s) \cap X : n.s[x].value = vals[x]
  BY <1>1, <1>2, CountedIs
<1>7. Valid(n.s) \subseteq Roles
  BY DEF Valid
<1> HIDE DEF n
<1> QED
  BY <1>3, <1>4, <1>5, <1>6, <1>7 DEF X

\* A sensor that is no channel, computed on top of them.
LEMMA PlusIs ==
    ASSUME Given, NEW volts, Told(volts), NEW x, x \notin Valid(volts.s),
           NEW vals \in [{x} -> Int]
    PROVE  LET n == Plus(volts, vals) IN
           /\ Told(n)
           /\ Valid(n.s) \ {x} = Valid(volts.s)
           /\ \A y \in Roles \ {x} : n.s[y] = volts.s[y]
<1> DEFINE c == Counted(volts.s, vals)
           n == Plus(volts, vals)
<1>1. volts.s \in Sensors
  BY DEF Told
<1>2. /\ c.s \in Sensors /\ c.nv \in Nat
      /\ c.nv # 0 <=> Valid(c.s) \cap {x} # {}
      /\ Valid(c.s) \ {x} = Valid(volts.s) \ {x}
      /\ \A y \in Roles \ {x} : c.s[y] = volts.s[y]
  BY <1>1, CountedIs
<1>3. n = [s |-> c.s, nv |-> volts.nv + c.nv]
  BY DEF Plus, Result
<1> HIDE DEF c, n
<1>4. Valid(volts.s) \ {x} = Valid(volts.s)
  OBVIOUS
<1>5. volts.nv \in Nat /\ (volts.nv # 0 <=> Valid(volts.s) # {})
  BY DEF Told
<1>6. n.nv # 0 <=> volts.nv # 0 \/ c.nv # 0
  BY <1>2, <1>3, <1>5
<1>7. Valid(c.s) # {} <=> Valid(volts.s) # {} \/ Valid(c.s) \cap {x} # {}
  BY <1>2, <1>4
<1> QED
  BY <1>2, <1>3, <1>4, <1>5, <1>6, <1>7 DEF Told, n

-----------------------------------------------------------------------------
\* Every valid sensor rests on answers, as ValidWasRead asks for.
Founded(a, res) ==
    \A x \in Valid(res.s) : Needs(x) \subseteq Answered(a)
                              \/ (dev.type \in OnDS2438 /\ res.s["temp"].value = 0
                                  /\ Needs(x) = {"temp"})

\* A channel that gave a number answered, but for a temperature of 0.
LEMMA ChannelAnswered ==
    ASSUME dev.type \in OnDS2438, NEW a \in DS2438, NEW c \in Got(a)
    PROVE  {c} \subseteq Answered(a) \/ (c = "temp" /\ a.val[c] = 0)
<1>1. Answered(a) = {x \in Channels : a.ok[x]}
  BY ChannelsGive DEF Answered
<1> QED
  BY <1>1, ChannelsGive DEF Got

\* What w1_read_voltages leaves valid rests on its own channel.
LEMMA VoltagesFounded ==
    ASSUME Given, s \in Sensors, dev.type \in OnDS2438, NEW a \in DS2438
    PROVE  Founded(a, w1_read_voltages(a))
<1> DEFINE volts == w1_read_voltages(a)
<1>1. /\ Valid(volts.s) \subseteq Got(a)
      /\ "temp" \in Valid(volts.s) => volts.s["temp"].value = a.val["temp"]
  BY VoltagesAre
<1> HIDE DEF volts
<1>2. ASSUME NEW x \in Valid(volts.s)
      PROVE  Needs(x) \in {{}, {x}}
  <2>1. x \in Channels
    BY <1>1 DEF Got
  <2> QED
    BY <2>1 DEF Needs, Channels
<1>3. ASSUME NEW x \in Valid(volts.s)
      PROVE  {x} \subseteq Answered(a) \/ (x = "temp" /\ volts.s["temp"].value = 0)
  BY <1>1, ChannelAnswered
<1> QED
  BY <1>2, <1>3 DEF Founded, volts

\* A pressure or a current computed from Vad.
LEMMA DerivedIs ==
    ASSUME Given, s \in Sensors, dev.type \in OnDS2438, NEW a \in DS2438,
           NEW x \in {"pres", "current"}, a.val["vad"] # Failed,
           NEW vals \in [{x} -> Int]
    PROVE  LET n == Plus(w1_read_voltages(a), vals) IN
           Told(n) /\ Founded(a, n)
<1> DEFINE volts == w1_read_voltages(a)
           n == Plus(volts, vals)
<1>1. /\ Told(volts) /\ Valid(volts.s) \subseteq Got(a)
      /\ Founded(a, volts)
  BY VoltagesAre, VoltagesFounded
<1> HIDE DEF volts
<1>2. x \notin Valid(volts.s)
  BY <1>1 DEF Got, Channels
<1>3. /\ Told(n)
      /\ Valid(n.s) \ {x} = Valid(volts.s)
      /\ \A y \in Roles \ {x} : n.s[y] = volts.s[y]
  BY <1>1, <1>2, PlusIs
<1> HIDE DEF n
<1>4. Needs(x) \subseteq Answered(a)
  <2>1. "vad" \in Got(a)
    BY DEF Got, Channels
  <2>2. {"vad"} \subseteq Answered(a)
    BY <2>1, ChannelAnswered
  <2>3. Needs(x) \in {{}, {"vad"}}
    BY DEF Needs
  <2> QED
    BY <2>2, <2>3
<1>5. ASSUME NEW y \in Valid(n.s), y # x
      PROVE  Needs(y) \subseteq Answered(a) \/ (n.s["temp"].value = 0 /\ Needs(y) = {"temp"})
  <2>1. y \in Valid(volts.s) /\ y \in Got(a)
    BY <1>1, <1>3, <1>5
  <2>2. Needs(y) \subseteq Answered(a)
          \/ (volts.s["temp"].value = 0 /\ Needs(y) = {"temp"})
    BY <1>1, <2>1 DEF Founded
  <2>3. Needs(y) = {"temp"} => y = "temp" /\ y \in Roles
    <3>1. y \in Channels /\ y \in Roles
      BY <2>1 DEF Got, Valid
    <3>2. Needs(y) \in {{}, {y}}
      BY <3>1 DEF Needs, Channels
    <3> QED
      BY <3>1, <3>2
  <2>4. Needs(y) = {"temp"} => n.s["temp"] = volts.s["temp"]
    BY <1>3, <1>5, <2>3
  <2> QED
    BY <2>2, <2>4
<1>6. Founded(a, n)
  BY <1>4, <1>5 DEF Founded
<1> QED
  BY <1>3, <1>6 DEF n, volts

\* The DS2438 humidity sensor: its temperature is judged twice, and accepted twice
\* or refused twice, so that what was counted the first time is still valid.
LEMMA HumidityIs ==
    ASSUME Given, s \in Sensors, dev.type = "HUMID", NEW a \in DS2438
    PROVE  Told(w1_read_humidity(a)) /\ Founded(a, w1_read_humidity(a))
<1> DEFINE volts == w1_read_voltages(a)
           X == {"temp", "humidity"}
           vals == [x \in X |-> IF x = "temp" THEN TempOf(a, volts) ELSE a.derived]
           c == Counted(volts.s, vals)
           n == w1_read_humidity(a)
<1>1. /\ Told(volts) /\ Valid(volts.s) \subseteq Got(a)
      /\ "temp" \in Valid(volts.s) =>
            volts.s["temp"] = Validated(Cleared(s)["temp"], lim, a.val["temp"], logtime)
  BY VoltagesAre
<1>2. a.val["temp"] \in Int /\ a.derived \in Int
  BY ChannelsGive DEF Channels
<1>3. vals \in [X -> Int]
  BY <1>2 DEF TempOf
<1>4. "temp" \in Valid(volts.s) => vals["temp"] = a.val["temp"]
  BY DEF TempOf
<1>5. n = [s |-> c.s, nv |-> volts.nv + c.nv]
  BY DEF w1_read_humidity, Plus, Result
<1> HIDE DEF vals, volts, n
<1>6. volts.s \in Sensors /\ volts.nv \in Nat /\ (volts.nv # 0 <=> Valid(volts.s) # {})
  BY <1>1 DEF Told
<1>7. /\ c.s \in Sensors /\ c.nv \in Nat
      /\ c.nv # 0 <=> Valid(c.s) \cap X # {}
      /\ Valid(c.s) \ X = Valid(volts.s) \ X
      /\ \A x \in Roles \cap X : c.s[x] = Validated(volts.s[x], lim, vals[x], logtime)
  BY <1>3, <1>6, CountedIs
<1> HIDE DEF c
<1>8. ASSUME NEW y \in Valid(volts.s) PROVE Valid(c.s) # {}
  <2>1. CASE y \notin X
    BY <1>7, <2>1
  <2>2. CASE y \in X
    <3>1. y = "temp" /\ "temp" \in Roles
      BY <1>1, <2>2 DEF Got, Channels, Valid
    <3>2. c.s["temp"] = Validated(volts.s["temp"], lim, a.val["temp"], logtime)
      BY <1>4, <1>7, <3>1
    <3>3. volts.s["temp"].valid
      BY <3>1 DEF Valid
    <3>4. Cleared(s)["temp"] \in SensorType /\ lim \in LimitType /\ logtime \in Nat
      BY <3>1, ClearedIs, ReadersAssumption DEF Sensors, Given, LimitType
    <3>5. volts.s["temp"] = Validated(Cleared(s)["temp"], lim, a.val["temp"], logtime)
      BY <1>1, <3>1
    <3>6. c.s["temp"].valid
      BY <1>2, <3>2, <3>3, <3>4, <3>5, JudgedAgain
    <3> QED
      BY <3>1, <3>6 DEF Valid
  <2> QED
    BY <2>1, <2>2
<1>9. Valid(c.s) # {} <=> c.nv # 0 \/ volts.nv # 0
  BY <1>6, <1>7, <1>8
<1>10. Told(n)
  BY <1>5, <1>6, <1>7, <1>9 DEF Told
<1>11. Founded(a, n)
  BY DEF Founded, Needs
<1> QED
  BY <1>10, <1>11 DEF n

\* The two sensors of an HIH are valid together or not at all, and not when the
\* reader reports a failure.
Paired(res) ==
    LET pair == Valid(res.s) \cap {"temp", "humidity"} IN
    /\ pair \in {{}, {"temp", "humidity"}}
    /\ res.nv = 0 => pair = {}

\* The HIH reader: what is counted is the humidity, which is only judged when a
\* channel was valid and is withdrawn when the temperature is not.
LEMMA HihIs ==
    ASSUME Given, s \in Sensors, dev.type = "HIH", NEW a \in DS2438
    PROVE  LET n == w1_read_hih(a) IN
           n.s \in Sensors /\ n.nv \in Nat /\ Paired(n) /\ Founded(a, n)
<1> DEFINE volts == w1_read_voltages(a)
           vals == [x \in {"humidity"} |-> a.derived]
           c == IF volts.nv = 0 THEN Result(volts.s, 0) ELSE Counted(volts.s, vals)
           pair == {"temp", "humidity"}
           off == [x \in Roles |-> IF x \in pair THEN [c.s[x] EXCEPT !.valid = FALSE]
                                   ELSE c.s[x]]
           n == w1_read_hih(a)
<1>1. /\ Told(volts) /\ Valid(volts.s) \subseteq Got(a)
      /\ "temp" \in Valid(volts.s) => volts.s["temp"].value = a.val["temp"]
      /\ Founded(a, volts)
  BY VoltagesAre, VoltagesFounded DEF OnDS2438
<1>2. vals \in [{"humidity"} -> Int]
  BY ChannelsGive
<1>3. /\ Len(dev.roles) > 1
      /\ {dev.roles[i] : i \in {1, 2} \cap 1 .. Len(dev.roles)} = pair
  <2>1. /\ Len(dev.roles) \in Nat /\ Len(dev.roles) > 1
        /\ {dev.roles[1], dev.roles[2]} = pair
    <3> HIDE DEF c, off, n, volts, vals, pair
    <3>1. dev.roles \in Seq(STRING)
      BY ReadersAssumption DEF Given
    <3>2. Len(dev.roles) \in Nat
      BY <3>1
    <3>3. Len(dev.roles) > 1 /\ {dev.roles[1], dev.roles[2]} = {"temp", "humidity"}
      BY ReadersAssumption, Zenon DEF Given
    <3> QED
      BY <3>2, <3>3, Zenon DEF pair
  <2>2. PICK k \in Nat : k = Len(dev.roles)
    BY <2>1
  <2>3. {1, 2} \cap (1 .. k) = {1, 2}
    BY <2>1, <2>2
  <2> QED
    BY <2>1, <2>2, <2>3
<1>4. n = IF pair \subseteq Valid(c.s) THEN c ELSE [s |-> off, nv |-> c.nv]
  BY <1>3 DEF w1_read_hih, Result
<1> HIDE DEF volts, vals, n
<1>5. volts.s \in Sensors /\ "humidity" \notin Valid(volts.s)
  BY <1>1 DEF Told, Got, Channels
<1>6. /\ c.s \in Sensors /\ c.nv \in Nat
      /\ Valid(c.s) \ {"humidity"} = Valid(volts.s)
      /\ \A x \in Roles \ {"humidity"} : c.s[x] = volts.s[x]
      /\ "humidity" \in Valid(c.s) => c.nv # 0
  <2>1. CASE volts.nv = 0
    <3>1. c = [s |-> volts.s, nv |-> 0]
      BY <2>1 DEF Result
    <3> HIDE DEF c
    <3> QED
      BY <1>5, <3>1
  <2>2. CASE volts.nv # 0
    <3>1. c = Counted(volts.s, vals)
      BY <2>2
    <3> HIDE DEF c
    <3>2. /\ c.s \in Sensors /\ c.nv \in Nat
          /\ c.nv # 0 <=> Valid(c.s) \cap {"humidity"} # {}
          /\ Valid(c.s) \ {"humidity"} = Valid(volts.s) \ {"humidity"}
          /\ \A x \in Roles \ {"humidity"} : c.s[x] = volts.s[x]
      BY <1>2, <1>5, <3>1, CountedIs
    <3> QED
      BY <1>5, <3>2
  <2> QED
    BY <2>1, <2>2
<1> HIDE DEF c
<1>7. ASSUME NEW y \in Valid(c.s), y # "humidity"
      PROVE  Needs(y) \subseteq Answered(a) \/ (c.s["temp"].value = 0 /\ Needs(y) = {"temp"})
  <2>1. y \in Valid(volts.s) /\ y \in Channels /\ y \in Roles
    BY <1>1, <1>6, <1>7 DEF Got, Valid
  <2>2. Needs(y) = {y}
    BY <2>1 DEF Needs, Channels
  <2>3. Needs(y) \subseteq Answered(a)
          \/ (volts.s["temp"].value = 0 /\ Needs(y) = {"temp"})
    BY <1>1, <2>1 DEF Founded
  <2>4. y = "temp" => c.s["temp"] = volts.s["temp"]
    BY <1>6, <2>1
  <2> QED
    BY <2>2, <2>3, <2>4
<1>8. CASE pair \subseteq Valid(c.s)
  <2>1. n = c /\ Paired(n)
    BY <1>4, <1>6, <1>8 DEF Paired
  <2>2. ASSUME NEW y \in Valid(c.s)
        PROVE  Needs(y) \subseteq Answered(a)
                 \/ (c.s["temp"].value = 0 /\ Needs(y) = {"temp"})
    <3>1. CASE y # "humidity"
      BY <1>7, <3>1
    <3>2. CASE y = "humidity"
      <4>1. Needs("humidity") = {"temp"} /\ Needs("temp") = {"temp"}
        BY DEF Needs, OnDS2438
      <4> QED
        BY <1>7, <1>8, <3>2, <4>1
    <3> QED
      BY <3>1, <3>2
  <2>3. Founded(a, n)
    BY <2>1, <2>2 DEF Founded, OnDS2438
  <2> QED
    BY <1>6, <2>1, <2>3 DEF n
<1>9. CASE ~(pair \subseteq Valid(c.s))
  <2>1. n.s = off /\ n.nv = c.nv
    BY <1>4, <1>9
  <2>2. off \in Sensors
    <3>1. ASSUME NEW x \in Roles
          PROVE  [c.s[x] EXCEPT !.valid = FALSE] \in SensorType /\ c.s[x] \in SensorType
      <4>1. PICK e \in SensorType : e = c.s[x]
        BY <1>6, Zenon DEF Sensors
      <4>2. [e EXCEPT !.valid = FALSE] \in SensorType
        BY DEF SensorType
      <4> QED
        BY <4>1, <4>2, Zenon
    <3> QED
      BY <3>1 DEF Sensors
  <2>3. Valid(off) = Valid(c.s) \ pair
    <3>1. ASSUME NEW x \in Roles PROVE off[x].valid <=> c.s[x].valid /\ x \notin pair
      <4>1. c.s[x] \in SensorType
        BY <1>6 DEF Sensors
      <4>2. CASE x \in pair
        BY <4>1, <4>2 DEF SensorType
      <4>3. CASE x \notin pair
        BY <4>3
      <4> QED
        BY <4>2, <4>3
    <3> HIDE DEF off, pair
    <3> QED
      BY <3>1 DEF Valid
  <2>4. Paired(n)
    BY <2>1, <2>3 DEF Paired
  <2>5. ASSUME NEW y \in Valid(off) PROVE Needs(y) \subseteq Answered(a)
    <3>1. y \in Valid(volts.s) /\ y \in Channels /\ y # "temp"
      BY <1>1, <1>6, <2>3 DEF Got
    <3>2. Needs(y) = {y}
      BY <3>1 DEF Needs, Channels
    <3> QED
      BY <1>1, <3>1, <3>2 DEF Founded
  <2>6. Founded(a, n)
    BY <2>1, <2>5 DEF Founded
  <2> HIDE DEF off
  <2> QED
    BY <1>6, <2>1, <2>2, <2>4, <2>6 DEF n
<1> QED
  BY <1>8, <1>9

-----------------------------------------------------------------------------
\* What any reader leaves.
Outcome(a, res) ==
    /\ res.s \in Sensors /\ res.nv \in Nat
    /\ dev.type # "HIH" => (res.nv # 0 <=> Valid(res.s) # {})
    /\ dev.type = "HIH" => Paired(res)
    /\ Founded(a, res)
    /\ dev.type = "PRES" /\ Valid(res.s) # {} => SetUp(a) = 2

\* The types read in one transaction.
OnWhole == {"TEMP", "DS2450", "SHT11", "DS2760", "DS1923", "DS1921", "HBUV", "HBHT"}

\* A device whose sensors all rest on one transaction that succeeded.
LEMMA WholeOutcome ==
    ASSUME dev.type \in OnWhole \cup {"WINDVANE"}, NEW a, NEW res, Told(res),
           ~a.ok => Valid(res.s) = {}
    PROVE  Outcome(a, res)
<1>1. ASSUME NEW x \in Valid(res.s) PROVE Needs(x) \subseteq Answered(a)
  <2>1. a.ok /\ x \in Roles
    BY <1>1 DEF Valid
  <2>2. Answered(a) = Roles
    BY <2>1 DEF Answered, OnDS2438, OnWhole
  <2>3. Needs(x) = {x}
    BY DEF Needs, OnDS2438, OnWhole
  <2> QED
    BY <2>1, <2>2, <2>3
<1>2. Founded(a, res)
  BY <1>1 DEF Founded
<1> QED
  BY <1>2 DEF Outcome, Told, OnWhole

\* The readers of the devices read in one transaction, of which a DS18x20 keeps its
\* sensor when the conversion fails.
LEMMA WholeRead ==
    ASSUME Given, s \in Sensors, Valid(s) = {}, dev.type \in OnWhole, NEW a \in Whole
    PROVE  Outcome(a, Read(a))
<1>1. a.val \in Int
  BY ReadersAssumption DEF Whole
<1>2. CASE dev.type = "TEMP"
  <2>1. Read(a) = w1_read_temp(a)
    BY <1>2 DEF Read
  <2> QED
    BY <1>1, <2>1, TempIs, WholeOutcome
<1>3. CASE dev.type # "TEMP"
  <2>1. Read(a) \in {w1_read_ds2450(a), w1_read_sht11(a), w1_read_ds2760(a),
                     w1_read_ds1923(a), w1_read_ds1921(a), w1_read_hbuv(a),
                     w1_read_hbht(a)}
    BY <1>3 DEF Read, OnWhole
  <2>2. PICK roles : Read(a) = AtOnce(roles, a)
    BY <2>1 DEF w1_read_ds2450, w1_read_sht11, w1_read_ds2760, w1_read_ds1923,
                w1_read_ds1921, w1_read_hbuv, w1_read_hbht
  <2> QED
    BY <1>1, <2>2, AtOnceIs, WholeOutcome
<1> QED
  BY <1>2, <1>3

\* The reader of the two counters (w1_read_counter).
LEMMA CounterRead ==
    ASSUME Given, s \in Sensors, dev.type = "COUNTER", NEW a \in Counters
    PROVE  Outcome(a, Read(a))
<1>1. Read(a) = w1_read_counter(a)
  BY DEF Read
<1>2. Answered(a) = {x \in DOMAIN a.ok : a.ok[x]}
  BY DEF Answered
<1>3. \A x : Needs(x) = {x}
  BY DEF Needs, OnDS2438
<1>4. Told(Read(a)) /\ Valid(Read(a).s) \subseteq Answered(a)
  BY <1>1, <1>2, CounterIs
<1>5. Founded(a, Read(a))
  BY <1>3, <1>4 DEF Founded
<1> QED
  BY <1>4, <1>5 DEF Outcome, Told

\* A reader of Vad that computes x when Vad is what it should be.
LEMMA DerivedOutcome ==
    ASSUME Given, s \in Sensors, dev.type \in OnDS2438 \ {"HIH"}, NEW a \in DS2438,
           NEW x \in {"pres", "current"}, NEW vals \in [{x} -> Int], NEW res,
           \/ res = w1_read_voltages(a)
           \/ a.val["vad"] # Failed /\ res = Plus(w1_read_voltages(a), vals)
    PROVE  Outcome(a, res)
<1>1. Told(res) /\ Founded(a, res)
  BY VoltagesAre, VoltagesFounded, DerivedIs
<1> QED
  BY <1>1 DEF Outcome, Told, OnDS2438

\* The six readers of a DS2438, whichever of its channels answered.
LEMMA DS2438Read ==
    ASSUME Given, s \in Sensors, dev.type \in OnDS2438, NEW a \in DS2438
    PROVE  Outcome(a, Read(a))
<1> DEFINE pres == [x \in {"pres"} |-> a.derived]
           current == [x \in {"current"} |-> a.derived]
<1>v. /\ a.val["vad"] \in Int
      /\ pres \in [{"pres"} -> Int] /\ current \in [{"current"} -> Int]
  BY ChannelsGive DEF Channels
<1>1. CASE dev.type = "DS2438V"
  <2>1. Read(a) = w1_read_voltages(a)
    BY <1>1 DEF Read
  <2> QED
    BY <1>v, <1>1, <2>1, DerivedOutcome DEF OnDS2438
<1>2. CASE dev.type = "BRAY"
  <2>1. Read(a) = IF a.val["vad"] > 0 THEN Plus(w1_read_voltages(a), pres)
                  ELSE w1_read_voltages(a)
    BY <1>2 DEF Read, w1_read_bray
  <2> HIDE DEF pres
  <2> QED
    BY <1>v, <1>2, <2>1, DerivedOutcome DEF Failed, OnDS2438
<1>3. CASE dev.type = "HBBARO"
  <2>1. Read(a) = IF a.val["vad"] > 0 THEN Plus(w1_read_voltages(a), pres)
                  ELSE w1_read_voltages(a)
    BY <1>3 DEF Read, w1_read_hb_pressure
  <2> HIDE DEF pres
  <2> QED
    BY <1>v, <1>3, <2>1, DerivedOutcome DEF Failed, OnDS2438
<1>4. CASE dev.type = "MS_TC"
  <2>1. Read(a) = IF a.val["vad"] > Failed THEN Plus(w1_read_voltages(a), current)
                  ELSE w1_read_voltages(a)
    BY <1>4 DEF Read, w1_read_current
  <2> HIDE DEF current
  <2> QED
    BY <1>v, <1>4, <2>1, DerivedOutcome DEF Failed, OnDS2438
<1>5. CASE dev.type = "HUMID"
  <2>1. Read(a) = w1_read_humidity(a)
    BY <1>5 DEF Read
  <2> QED
    BY <1>5, <2>1, HumidityIs DEF Outcome, Told
<1>6. CASE dev.type = "HIH"
  <2>1. Read(a) = w1_read_hih(a)
    BY <1>6 DEF Read
  <2> QED
    BY <1>6, <2>1, HihIs DEF Outcome
<1> QED
  BY <1>1, <1>2, <1>3, <1>4, <1>5, <1>6 DEF OnDS2438

\* The TAI8570 and the wind vane are only read when they are set up.
LEMMA SetUpRead ==
    ASSUME Given, s \in Sensors, Valid(s) = {}, dev.type \in {"PRES", "WINDVANE"},
           NEW a \in SetUpFirst
    PROVE  Outcome(a, Read(a))
<1>1. a.val \in Int
  BY ReadersAssumption DEF SetUpFirst
<1>2. CASE dev.type = "PRES"
  <2> DEFINE vals == [x \in {"temp", "pres"} |-> a.val]
  <2>1. Read(a) = IF SetUp(a) = 2 THEN Counted(s, vals) ELSE [s |-> s, nv |-> 0]
    BY <1>2 DEF Read, w1_read_pressure, Result
  <2>2. vals \in [{"temp", "pres"} -> Int]
    BY <1>1
  <2> HIDE DEF vals
  <2>3. Told(Read(a)) /\ (Valid(Read(a).s) # {} => SetUp(a) = 2)
    <3>1. CASE SetUp(a) = 2
      BY <2>1, <2>2, <3>1, CountedAfresh
    <3>2. CASE SetUp(a) # 2
      BY <2>1, <3>2 DEF Told
    <3> QED
      BY <3>1, <3>2
  <2>4. Founded(a, Read(a))
    BY <1>2 DEF Founded, Needs
  <2> QED
    BY <1>2, <2>3, <2>4 DEF Outcome, Told
<1>3. CASE dev.type = "WINDVANE"
  <2> DEFINE vals == [x \in {"vane"} |-> a.val]
  <2>1. Read(a) = IF SetUp(a) = 2 /\ a.ok /\ a.match THEN Counted(Cleared(s), vals)
                  ELSE Nothing
    BY <1>3 DEF Read, w1_read_windvane
  <2>2. vals \in [{"vane"} -> Int]
    BY <1>1
  <2> HIDE DEF vals
  <2>3. Told(Read(a)) /\ (~a.ok => Valid(Read(a).s) = {})
    <3>1. CASE SetUp(a) = 2 /\ a.ok /\ a.match
      BY <2>1, <2>2, <3>1, ClearedIs, CountedAfresh
    <3>2. CASE ~(SetUp(a) = 2 /\ a.ok /\ a.match)
      BY <2>1, <3>2, NothingIs
    <3> QED
      BY <3>1, <3>2
  <2> QED
    BY <1>3, <2>3, WholeOutcome
<1> QED
  BY <1>2, <1>3

\* Every reader, called when nothing is valid or when it withdraws what was.
LEMMA ReadIs ==
    ASSUME Given, s \in Sensors, dev.type # "HIH" => Valid(s) = {}, NEW a \in Answers
    PROVE  Outcome(a, Read(a))
<1>1. dev.type \in Kinds
  BY ReadersAssumption DEF Given
<1>2. CASE dev.type \in OnWhole
  <2>1. a \in Whole
    BY <1>2 DEF Answers, OnWhole, OnDS2438
  <2> QED
    BY <1>2, <2>1, WholeRead DEF OnWhole
<1>3. CASE dev.type = "COUNTER"
  <2>1. a \in Counters
    BY <1>3 DEF Answers, OnDS2438
  <2> QED
    BY <1>3, <2>1, CounterRead
<1>4. CASE dev.type \in OnDS2438
  <2>1. a \in DS2438
    BY <1>4 DEF Answers, OnDS2438
  <2> QED
    BY <1>4, <2>1, DS2438Read
<1>5. CASE dev.type \in {"PRES", "WINDVANE"}
  <2>1. a \in SetUpFirst
    BY <1>5 DEF Answers, OnDS2438
  <2> QED
    BY <1>5, <2>1, SetUpRead
<1> QED
  BY <1>1, <1>2, <1>3, <1>4, <1>5 DEF Kinds, OnWhole, OnDS2438

-----------------------------------------------------------------------------
\* A reader is only called again when it left nothing valid, the HIH's aside.
Retried ==
    pc = "read" => attempt < MaxRetry /\ (dev.type # "HIH" => Valid(s) = {})

\* A TAI8570 that is set up was set up since it was last missing.
SetUpReady == dev.type = "PRES" /\ init = 2 => ready

\* The inductive invariant.
IInv == /\ TypeOK /\ ReportMatchesValid /\ ValidWasRead /\ PressureSetUp
        /\ Retried /\ SetUpReady

\* The invariants speak of the sensors: these are what they need of a step that keeps
\* the device and leaves ss in them, nothing of it valid.
LEMMA NothingValid ==
    ASSUME NEW ss \in Sensors, Valid(ss) = {}, s' = ss, dev' = dev,
           r' = 0
    PROVE  /\ ReportMatchesValid' /\ ValidWasRead' /\ PressureSetUp'
           /\ Valid(s)' = {} /\ (s \in [Roles -> SensorType])'
<1>1. Roles' = Roles
  BY DEF Roles
<1>2. Valid(s)' = {}
  BY <1>1 DEF Valid
<1>3. (s \in [Roles -> SensorType])'
  BY <1>1 DEF Sensors
<1>4. ReportMatchesValid'
  BY <1>2 DEF ReportMatchesValid, CountTrue, HihPair
<1> QED
  BY <1>2, <1>3, <1>4 DEF ValidWasRead, PressureSetUp

\* At the start no sensor is valid and no reader was called.
LEMMA ReadersStart == Init => IInv
<1> SUFFICES ASSUME Init PROVE IInv
  OBVIOUS
<1>1. FreshSensor \in SensorType /\ ~FreshSensor.valid
  BY DEF FreshSensor, SensorType, Reasons
<1>2. s \in [Roles -> SensorType] /\ \A x \in Roles : ~s[x].valid
  BY <1>1 DEF Init
<1>3. Valid(s) = {}
  BY <1>2 DEF Valid
<1>4. TypeOK
  <2>1. MaxRetry \in Nat \ {0} /\ MaxPass \in Nat
    BY ReadersAssumption
  <2>2. logtime \in 1 .. MaxPass + 1 /\ attempt \in 0 .. MaxRetry
    BY <2>1 DEF Init
  <2>3. init \in 0 .. 2 /\ r \in Nat
    BY DEF Init
  <2>4. dev \in Devices /\ lim \in Limits /\ pc \in {"idle", "read"} /\ ready \in BOOLEAN
    BY Zenon DEF Init
  <2> QED
    BY <1>2, <2>2, <2>3, <2>4, Zenon DEF TypeOK
<1>5. ReportMatchesValid
  BY <1>3 DEF Init, ReportMatchesValid, CountTrue, HihPair
<1> QED
  BY <1>3, <1>4, <1>5 DEF Init, IInv, ValidWasRead, PressureSetUp, Retried, SetUpReady

\* One step per action: a reader answers, the device is not found, a pass begins.
LEMMA ReadersStep == IInv /\ [Next]_vars => IInv'
<1> SUFFICES ASSUME IInv, [Next]_vars PROVE IInv'
  OBVIOUS
<1>0. /\ Given /\ s \in Sensors /\ TypeOK
      /\ MaxRetry \in Nat \ {0} /\ MaxPass \in Nat
      /\ pc = "read" => attempt < MaxRetry /\ (dev.type # "HIH" => Valid(s) = {})
  BY ReadersAssumption DEF IInv, TypeOK, Given, Sensors, Retried
<1>1. CASE StartPass
  <2>1. /\ s' = Cleared(s) /\ r' = 0 /\ attempt' = 0 /\ logtime' = logtime + 1
        /\ logtime < MaxPass /\ pc' = "read"
        /\ UNCHANGED <<dev, lim, init, ready>>
    BY <1>1 DEF StartPass
  <2>2. Cleared(s) \in Sensors /\ Valid(Cleared(s)) = {}
    BY <1>0, ClearedIs
  <2>3. /\ ReportMatchesValid' /\ ValidWasRead' /\ PressureSetUp'
        /\ Valid(s)' = {} /\ (s \in [Roles -> SensorType])'
    BY <2>1, <2>2, NothingValid
  <2>4. TypeOK'
    <3>1. dev \in Devices /\ lim \in Limits /\ init \in 0 .. 2
          /\ logtime \in 1 .. MaxPass + 1 /\ ready \in BOOLEAN
      BY <1>0, Zenon DEF TypeOK
    <3>2. logtime' \in 1 .. MaxPass + 1 /\ attempt' \in 0 .. MaxRetry
      BY <1>0, <2>1, <3>1
    <3>3. r' \in Nat /\ pc' \in {"idle", "read"}
      BY <2>1
    <3> QED
      BY <2>1, <2>3, <3>1, <3>2, <3>3, Zenon DEF TypeOK
  <2>5. Retried' /\ SetUpReady'
    BY <1>0, <2>1, <2>3 DEF IInv, Retried, SetUpReady
  <2> QED
    BY <2>3, <2>4, <2>5 DEF IInv
<1>2. CASE NotFound
  <2>1. /\ s' = IF dev.type = "PRES" THEN s ELSE Cleared(s)
        /\ r' = 0 /\ attempt' = attempt + 1 /\ pc = "read"
        /\ pc' = IF attempt + 1 = MaxRetry THEN "idle" ELSE "read"
        /\ init' = IF dev.type = "WINDVANE" /\ init = 2 THEN 2 ELSE 1
        /\ ready' = FALSE
        /\ UNCHANGED <<dev, lim, logtime>>
    BY <1>2 DEF NotFound, Settle
  <2>2. s' \in Sensors /\ Valid(s') = {}
    <3>1. Cleared(s) \in Sensors /\ Valid(Cleared(s)) = {}
      BY <1>0, ClearedIs
    <3>2. dev.type = "PRES" => s \in Sensors /\ Valid(s) = {}
      BY <1>0, <2>1 DEF IInv, Retried, TypeOK, Sensors
    <3> QED
      BY <2>1, <3>1, <3>2
  <2>3. /\ ReportMatchesValid' /\ ValidWasRead' /\ PressureSetUp'
        /\ Valid(s)' = {} /\ (s \in [Roles -> SensorType])'
    <3> DEFINE ss == s'
    <3>1. ss \in Sensors /\ Valid(ss) = {} /\ s' = ss
      BY <2>2
    <3> HIDE DEF ss
    <3> QED
      BY <2>1, <3>1, NothingValid
  <2>4. TypeOK'
    <3>1. dev \in Devices /\ lim \in Limits /\ logtime \in 1 .. MaxPass + 1
      BY <1>0, Zenon DEF TypeOK
    <3>2. attempt' \in 0 .. MaxRetry
      BY <1>0, <2>1 DEF TypeOK
    <3>3. r' \in Nat /\ init' \in 0 .. 2
      BY <2>1
    <3>4. pc' \in {"idle", "read"} /\ ready' \in BOOLEAN
      BY <2>1, Zenon
    <3> QED
      BY <2>1, <2>3, <3>1, <3>2, <3>3, <3>4, Zenon DEF TypeOK
  <2>5. Retried' /\ SetUpReady'
    BY <1>0, <2>1, <2>3 DEF Retried, SetUpReady, TypeOK
  <2> QED
    BY <2>3, <2>4, <2>5 DEF IInv
<1>3. ASSUME NEW a \in Answers, Attempt(a) PROVE IInv'
  <2> DEFINE res == Read(a)
  <2>1. /\ pc = "read" /\ s' = res.s /\ r' = res.nv /\ attempt' = attempt + 1
        /\ pc' = IF res.nv # 0 \/ attempt + 1 = MaxRetry THEN "idle" ELSE "read"
        /\ init' = IF dev.type \in {"PRES", "WINDVANE"} THEN SetUp(a) ELSE 1
        /\ answered' = Answered(a)
        /\ UNCHANGED <<dev, lim, logtime>>
    BY <1>3 DEF Attempt, Settle
  <2>2. /\ ready' \in BOOLEAN
        /\ dev.type = "PRES" /\ SetUp(a) = 2 => ready'
    <3>1. ready' = IF dev.type \in {"PRES", "WINDVANE"}
                   THEN ready \/ (init # 2 /\ a.setup) ELSE ready
      BY <1>3 DEF Attempt
    <3>2. SetUp(a) = 2 => init = 2 \/ a.setup
      BY DEF SetUp
    <3>3. dev.type = "PRES" /\ init = 2 => ready
      BY DEF IInv, SetUpReady
    <3>4. ready \in BOOLEAN
      BY <1>0 DEF TypeOK
    <3> QED
      BY <3>1, <3>2, <3>3, <3>4
  <2>3. Outcome(a, res)
    BY <1>0, <2>1, ReadIs
  <2> HIDE DEF res
  <2>4. Roles' = Roles /\ Valid(s)' = Valid(res.s) /\ \A x : Needs(x)' = Needs(x)
    BY <2>1 DEF Roles, Valid, Needs
  <2>5. TypeOK'
    <3>1. (s \in [Roles -> SensorType])'
      BY <2>1, <2>3, <2>4 DEF Outcome, Sensors
    <3>2. init' \in 0 .. 2
      BY <2>1 DEF SetUp
    <3>3. attempt' \in 0 .. MaxRetry /\ r' \in Nat /\ pc' \in {"idle", "read"}
      BY <1>0, <2>1, <2>3 DEF Outcome, TypeOK
    <3> QED
      BY <1>0, <2>1, <2>2, <3>1, <3>2, <3>3 DEF TypeOK
  <2>6. ReportMatchesValid'
    <3>1. CountTrue'
      BY <2>1, <2>3, <2>4 DEF CountTrue, Outcome
    <3>2. HihPair'
      BY <2>1, <2>3, <2>4 DEF HihPair, Outcome, Paired
    <3> QED
      BY <3>1, <3>2 DEF ReportMatchesValid
  <2>7. ValidWasRead'
    BY <2>1, <2>3, <2>4 DEF ValidWasRead, Outcome, Founded
  <2>8. PressureSetUp' /\ SetUpReady'
    <3>1. dev.type = "PRES" => init' = SetUp(a)
      BY <2>1
    <3> QED
      BY <2>1, <2>2, <2>3, <2>4, <3>1 DEF PressureSetUp, SetUpReady, Outcome
  <2>9. Retried'
    BY <1>0, <2>1, <2>3, <2>4 DEF Retried, Outcome, TypeOK
  <2> QED
    BY <2>5, <2>6, <2>7, <2>8, <2>9 DEF IInv
<1>4. CASE UNCHANGED vars
  <2>1. /\ UNCHANGED <<dev, lim, s, init, logtime, pc, attempt, r, answered, ready>>
        /\ Roles' = Roles /\ Valid(s)' = Valid(s) /\ \A x : Needs(x)' = Needs(x)
    BY <1>4 DEF vars, Roles, Valid, Needs
  <2> QED
    BY <2>1 DEF IInv, TypeOK, ReportMatchesValid, CountTrue, HihPair, ValidWasRead,
                PressureSetUp, Retried, SetUpReady
<1> QED
  BY <1>1, <1>2, <1>3, <1>4 DEF Next

\* The inductive invariant holds in every reachable state.
LEMMA ReadersInvariant == Spec => []IInv
  BY ReadersStart, ReadersStep, PTL DEF Spec

\* Every variable keeps its type: no reader counts below zero or leaves a sensor
\* half written, and a device is called at most W1_RETRY times in a pass.
THEOREM ReaderTypes == Spec => []TypeOK
<1>1. IInv => TypeOK
  BY DEF IInv
<1> QED
  BY <1>1, ReadersInvariant, PTL

\* Every reader returns 0 exactly when it left nothing valid (the count that
\* w1_read_all_sensors retries and reports on), and the two sensors of the HIH are
\* logged together or not at all.
THEOREM ReportsTrue == Spec => []ReportMatchesValid
<1>1. IInv => ReportMatchesValid
  BY DEF IInv
<1> QED
  BY <1>1, ReadersInvariant, PTL

\* A valid sensor rests on an answer of its hardware in this very attempt, where the
\* reader checks it, but for a temperature of 0 on a DS2438.
THEOREM ReadingsRead == Spec => []ValidWasRead
<1>1. IInv => ValidWasRead
  BY DEF IInv
<1> QED
  BY <1>1, ReadersInvariant, PTL

\* A TAI8570 that was missing is set up again before its readings are valid
\* (w1_read_pressure, w->init).
THEOREM BarometerSetUp == Spec => []PressureSetUp
<1>1. IInv => PressureSetUp
  BY DEF IInv
<1> QED
  BY <1>1, ReadersInvariant, PTL


-----------------------------------------------------------------------------
\* What an attempt may make of the record b of a sensor: it is left, or nothing of it
\* is valid, or a reading that is good against b is remembered.
MayBe(b, n) ==
    \/ n = b
    \/ ~n.valid /\ n.lval = b.lval /\ n.ltime = b.ltime
    \/ /\ n.ltime = logtime
       /\ Check(b, lim, n.lval, logtime) = OK
       /\ n.valid => n.value = n.lval

SameMemory(e, b) == e.lval = b.lval /\ e.ltime = b.ltime

\* Every sensor is what the attempt may make of it.
Kept(ss) == \A x \in Roles : MayBe(s[x], ss[x])

\* The checks read nothing of a sensor but its memory.
LEMMA ChecksReadMemory ==
    ASSUME NEW e, NEW b, SameMemory(e, b), NEW l, NEW v, NEW t
    PROVE  Check(e, l, v, t) = Check(b, l, v, t)
  BY DEF SameMemory, Check, RangeCheck, Ranged, InsteadOf, TooFast, CountsDown

\* One judgement of a sensor whose memory is still that of before.
LEMMA JudgedMayBe ==
    ASSUME Given, NEW b \in SensorType, NEW e \in SensorType, SameMemory(e, b),
           NEW v \in Int
    PROVE  MayBe(b, Validated(e, lim, v, logtime))
<1> DEFINE n == Validated(e, lim, v, logtime)
<1>1. lim \in LimitType /\ logtime \in Nat
  BY ReadersAssumption DEF Given, LimitType
<1>2. /\ n.valid <=> Check(e, lim, v, logtime) = OK
      /\ n.valid => n.value = v /\ n.lval = v /\ n.ltime = logtime
      /\ ~n.valid => n.lval = e.lval /\ n.ltime = e.ltime
  BY <1>1, OneJudged
<1>3. Check(e, lim, v, logtime) = Check(b, lim, v, logtime)
  BY ChecksReadMemory
<1> HIDE DEF n
<1>4. MayBe(b, n)
  BY <1>2, <1>3 DEF MayBe, SameMemory
<1> QED
  BY <1>4 DEF n

\* The same reading judged again on top of a judgement that accepted it.
LEMMA JudgedAgainMayBe ==
    ASSUME Given, NEW b \in SensorType, NEW e \in SensorType, SameMemory(e, b),
           NEW v \in Int, Validated(e, lim, v, logtime).valid
    PROVE  MayBe(b, Validated(Validated(e, lim, v, logtime), lim, v, logtime))
<1> DEFINE n == Validated(e, lim, v, logtime)
           m == Validated(n, lim, v, logtime)
<1>1. lim \in LimitType /\ logtime \in Nat
  BY ReadersAssumption DEF Given, LimitType
<1>2. n \in SensorType /\ Check(e, lim, v, logtime) = OK
  BY <1>1, OneJudged
<1>3. m.valid
  BY <1>1, JudgedAgain
<1> HIDE DEF n
<1>4. m.value = v /\ m.lval = v /\ m.ltime = logtime
  BY <1>1, <1>2, <1>3, OneJudged
<1>5. Check(b, lim, v, logtime) = OK
  BY <1>2, ChecksReadMemory
<1> HIDE DEF m
<1>6. MayBe(b, m)
  BY <1>4, <1>5 DEF MayBe
<1> QED
  BY <1>6 DEF m, n

\* Taking the validity of a sensor away, before or after it was judged.
LEMMA WithdrawnMayBe ==
    ASSUME NEW b \in SensorType, NEW n \in SensorType, MayBe(b, n)
    PROVE  MayBe(b, [n EXCEPT !.valid = FALSE])
<1> DEFINE m == [n EXCEPT !.valid = FALSE]
<1>1. ~m.valid /\ m.lval = n.lval /\ m.ltime = n.ltime
  BY DEF SensorType
<1> HIDE DEF m
<1>2. MayBe(b, m)
  BY <1>1 DEF MayBe
<1> QED
  BY <1>2 DEF m

-----------------------------------------------------------------------------
\* w1_set_invalid and a reader that got no answer.
LEMMA ClearedKept ==
    ASSUME s \in Sensors
    PROVE  /\ Kept(s) /\ Kept(Cleared(s)) /\ Kept(Nothing.s)
           /\ \A x \in Roles : SameMemory(Cleared(s)[x], s[x])
<1>1. Kept(s)
  BY DEF Kept, MayBe
<1>2. ASSUME NEW x \in Roles
      PROVE  SameMemory(Cleared(s)[x], s[x]) /\ MayBe(s[x], Cleared(s)[x])
  <2>1. PICK e \in SensorType : e = s[x]
    BY Zenon DEF Sensors
  <2>2. Cleared(s)[x] = [e EXCEPT !.valid = FALSE]
    BY <2>1 DEF Cleared
  <2>3. MayBe(e, e)
    BY DEF MayBe
  <2>4. MayBe(e, [e EXCEPT !.valid = FALSE])
    BY <2>3, WithdrawnMayBe
  <2>5. SameMemory([e EXCEPT !.valid = FALSE], e)
    BY DEF SensorType, SameMemory
  <2> QED
    BY <2>1, <2>2, <2>4, <2>5
<1>3. Nothing.s = Cleared(s)
  BY DEF Nothing, Result
<1>4. Kept(Cleared(s))
  BY <1>2, Zenon DEF Kept
<1> QED
  BY <1>1, <1>2, <1>3, <1>4

\* A row of judgements keeps what the single ones keep.
LEMMA CountedKept ==
    ASSUME Given, NEW ss \in Sensors, NEW X, NEW vals \in [X -> Int],
           \A x \in Roles \ X : MayBe(s[x], ss[x]),
           \A x \in Roles \cap X : MayBe(s[x], Validated(ss[x], lim, vals[x], logtime))
    PROVE  Kept(Counted(ss, vals).s)
<1> DEFINE n == Counted(ss, vals)
<1>1. /\ \A x \in Roles \ X : n.s[x] = ss[x]
      /\ \A x \in Roles \cap X : n.s[x] = Validated(ss[x], lim, vals[x], logtime)
  BY CountedIs
<1> HIDE DEF n
<1>2. ASSUME NEW x \in Roles PROVE MayBe(s[x], n.s[x])
  <2>1. CASE x \in X
    BY <1>1, <2>1
  <2>2. CASE x \notin X
    BY <1>1, <2>2
  <2> QED
    BY <2>1, <2>2
<1> QED
  BY <1>2 DEF Kept, n

\* Judgements of sensors none of which was judged before.
LEMMA CountedOnceKept ==
    ASSUME Given, s \in Sensors, NEW ss \in Sensors, NEW X, NEW vals \in [X -> Int],
           Kept(ss), \A x \in Roles \cap X : SameMemory(ss[x], s[x])
    PROVE  Kept(Counted(ss, vals).s)
<1>1. ASSUME NEW x \in Roles \cap X
      PROVE  MayBe(s[x], Validated(ss[x], lim, vals[x], logtime))
  <2>1. s[x] \in SensorType /\ ss[x] \in SensorType /\ vals[x] \in Int
    BY DEF Sensors
  <2> QED
    BY <2>1, JudgedMayBe
<1>2. \A x \in Roles \ X : MayBe(s[x], ss[x])
  BY DEF Kept
<1> QED
  BY <1>1, <1>2, CountedKept


-----------------------------------------------------------------------------
\* A device read in one transaction.
LEMMA AtOnceKept ==
    ASSUME Given, s \in Sensors, NEW roles, NEW a, a.val \in Int
    PROVE  Kept(AtOnce(roles, a).s)
<1>1. CASE a.ok
  <2> DEFINE vals == [x \in roles |-> a.val]
  <2>1. vals \in [roles -> Int]
    OBVIOUS
  <2>2. AtOnce(roles, a) = Counted(Cleared(s), vals)
    BY <1>1 DEF AtOnce
  <2> HIDE DEF vals
  <2> QED
    BY <2>1, <2>2, ClearedIs, ClearedKept, CountedOnceKept
<1>2. CASE ~a.ok
  BY <1>2, ClearedKept DEF AtOnce
<1> QED
  BY <1>1, <1>2

\* The channels of a DS2438: what is valid was judged once, on the record of before;
\* the memory of the others is that of before.
LEMMA VoltagesKept ==
    ASSUME Given, s \in Sensors, NEW a \in DS2438
    PROVE  LET volts == w1_read_voltages(a) IN
           /\ volts.s \in Sensors /\ Kept(volts.s)
           /\ \A x \in Roles :
                 \/ SameMemory(volts.s[x], s[x])
                 \/ /\ x \in Valid(volts.s) /\ x \in Got(a)
                    /\ volts.s[x] = Validated(Cleared(s)[x], lim, a.val[x], logtime)
<1> DEFINE X == Got(a)
           vals == [c \in X |-> a.val[c]]
           n == Counted(Cleared(s), vals)
<1>1. vals \in [X -> Int]
  BY ChannelsGive DEF Got
<1>2. Cleared(s) \in Sensors /\ Kept(Cleared(s))
      /\ \A x \in Roles : SameMemory(Cleared(s)[x], s[x])
  BY ClearedIs, ClearedKept
<1>3. w1_read_voltages(a) = n
  BY DEF w1_read_voltages
<1>4. \A c \in X : vals[c] = a.val[c]
  OBVIOUS
<1> HIDE DEF X, vals
<1>5. /\ n.s \in Sensors
      /\ \A x \in Roles \ X : n.s[x] = Cleared(s)[x]
      /\ \A x \in Roles \cap X : n.s[x] = Validated(Cleared(s)[x], lim, vals[x], logtime)
  BY <1>1, <1>2, CountedIs
<1>6. Kept(n.s)
  BY <1>1, <1>2, CountedOnceKept
<1> HIDE DEF n
<1>7. ASSUME NEW x \in Roles
      PROVE  \/ SameMemory(n.s[x], s[x])
             \/ /\ x \in Valid(n.s) /\ x \in X
                /\ n.s[x] = Validated(Cleared(s)[x], lim, a.val[x], logtime)
  <2>1. CASE x \notin X
    BY <1>2, <1>5, <2>1
  <2>2. CASE x \in X
    <3>1. n.s[x] = Validated(Cleared(s)[x], lim, a.val[x], logtime)
      BY <1>4, <1>5, <2>2
    <3>2. /\ Cleared(s)[x] \in SensorType /\ a.val[x] \in Int
          /\ lim \in LimitType /\ logtime \in Nat
      BY <1>1, <1>2, <1>4, <2>2, ReadersAssumption DEF Given, LimitType, Sensors
    <3>3. ~n.s[x].valid => SameMemory(n.s[x], Cleared(s)[x])
      BY <3>1, <3>2, OneJudged DEF SameMemory
    <3>4. ~n.s[x].valid => SameMemory(n.s[x], s[x])
      BY <1>2, <3>3 DEF SameMemory
    <3> QED
      BY <2>2, <3>1, <3>4 DEF Valid
  <2> QED
    BY <2>1, <2>2
<1> QED
  BY <1>3, <1>5, <1>6, <1>7 DEF X

\* A number computed on top of the channels, for a sensor that is none of them.
LEMMA PlusKept ==
    ASSUME Given, s \in Sensors, NEW a \in DS2438, NEW x, x \notin Channels,
           NEW vals \in [{x} -> Int]
    PROVE  Kept(Plus(w1_read_voltages(a), vals).s)
           /\ Kept(Counted(w1_read_voltages(a).s, vals).s)
<1> DEFINE volts == w1_read_voltages(a)
           n == Counted(volts.s, vals)
<1>1. /\ volts.s \in Sensors /\ Kept(volts.s)
      /\ \A y \in Roles : SameMemory(volts.s[y], s[y]) \/ y \in Got(a)
  BY VoltagesKept
<1>2. \A y \in Roles \cap {x} : SameMemory(volts.s[y], s[y])
  BY <1>1 DEF Got
<1> HIDE DEF volts
<1>3. Kept(n.s)
  BY <1>1, <1>2, CountedOnceKept
<1>4. Plus(volts, vals).s = n.s
  BY DEF Plus, Result
<1> QED
  BY <1>3, <1>4 DEF volts

\* The humidity sensor: a temperature that was accepted is judged again as it is, a
\* refused one is judged as 0.
LEMMA HumidityKept ==
    ASSUME Given, s \in Sensors, NEW a \in DS2438
    PROVE  Kept(w1_read_humidity(a).s)
<1> DEFINE volts == w1_read_voltages(a)
           X == {"temp", "humidity"}
           vals == [x \in X |-> IF x = "temp" THEN TempOf(a, volts) ELSE a.derived]
           n == Counted(volts.s, vals)
<1>1. /\ volts.s \in Sensors /\ Kept(volts.s)
      /\ \A x \in Roles :
            \/ SameMemory(volts.s[x], s[x])
            \/ /\ x \in Valid(volts.s) /\ x \in Got(a)
               /\ volts.s[x] = Validated(Cleared(s)[x], lim, a.val[x], logtime)
  BY VoltagesKept
<1>2. a.val["temp"] \in Int /\ a.derived \in Int
  BY ChannelsGive DEF Channels
<1>3. vals \in [X -> Int]
  BY <1>2 DEF TempOf
<1>4. "temp" \in Valid(volts.s) => vals["temp"] = a.val["temp"]
  BY DEF TempOf
<1>5. w1_read_humidity(a).s = n.s
  BY DEF w1_read_humidity, Plus, Result
<1> HIDE DEF vals, volts
<1>6. ASSUME NEW x \in Roles \cap X
      PROVE  MayBe(s[x], Validated(volts.s[x], lim, vals[x], logtime))
  <2>1. s[x] \in SensorType /\ volts.s[x] \in SensorType /\ vals[x] \in Int
    BY <1>1, <1>3 DEF Sensors
  <2>2. CASE SameMemory(volts.s[x], s[x])
    BY <2>1, <2>2, JudgedMayBe
  <2>3. CASE ~SameMemory(volts.s[x], s[x])
    <3>1. /\ x \in Valid(volts.s) /\ x \in Got(a)
          /\ volts.s[x] = Validated(Cleared(s)[x], lim, a.val[x], logtime)
      BY <1>1, <2>3
    <3>2. x = "temp"
      BY <3>1 DEF Got, Channels
    <3>3. vals[x] = a.val[x] /\ volts.s[x].valid
      BY <1>4, <3>1, <3>2 DEF Valid
    <3>4. Cleared(s)[x] \in SensorType /\ SameMemory(Cleared(s)[x], s[x])
      BY ClearedIs, ClearedKept DEF Sensors
    <3> QED
      BY <2>1, <3>1, <3>3, <3>4, JudgedAgainMayBe
  <2> QED
    BY <2>2, <2>3
<1>7. \A x \in Roles \ X : MayBe(s[x], volts.s[x])
  BY <1>1 DEF Kept
<1> HIDE DEF X
<1>8. Kept(n.s)
  BY <1>1, <1>3, <1>6, <1>7, CountedKept
<1> QED
  BY <1>5, <1>8

\* The HIH: a reading that is withdrawn for the sake of the other stays remembered.
LEMMA HihKept ==
    ASSUME Given, s \in Sensors, dev.type = "HIH", NEW a \in DS2438
    PROVE  Kept(w1_read_hih(a).s)
<1> DEFINE volts == w1_read_voltages(a)
           vals == [x \in {"humidity"} |-> a.derived]
           c == IF volts.nv = 0 THEN Result(volts.s, 0) ELSE Counted(volts.s, vals)
           pair == {dev.roles[i] : i \in {1, 2} \cap 1 .. Len(dev.roles)}
           off == [x \in Roles |-> IF x \in pair THEN [c.s[x] EXCEPT !.valid = FALSE]
                                   ELSE c.s[x]]
<1>1. volts.s \in Sensors /\ Kept(volts.s)
  BY VoltagesKept
<1>2. vals \in [{"humidity"} -> Int]
  BY ChannelsGive
<1>3. w1_read_hih(a).s \in {c.s, off}
  BY DEF w1_read_hih, Result
<1> HIDE DEF volts, vals, pair
<1>4. c.s \in Sensors /\ Kept(c.s)
  <2>1. CASE volts.nv = 0
    BY <1>1, <2>1 DEF Result
  <2>2. CASE volts.nv # 0
    <3>1. Counted(volts.s, vals).s \in Sensors
      BY <1>1, <1>2, CountedIs
    <3>2. "humidity" \notin Channels
      BY DEF Channels
    <3>3. Kept(Counted(volts.s, vals).s)
      BY <1>2, <3>2, PlusKept DEF volts
    <3> QED
      BY <2>2, <3>1, <3>3
  <2> QED
    BY <2>1, <2>2
<1> HIDE DEF c
<1>5. ASSUME NEW x \in Roles PROVE MayBe(s[x], off[x])
  <2>1. s[x] \in SensorType /\ c.s[x] \in SensorType /\ MayBe(s[x], c.s[x])
    BY <1>4 DEF Sensors, Kept
  <2>2. off[x] = IF x \in pair THEN [c.s[x] EXCEPT !.valid = FALSE] ELSE c.s[x]
    OBVIOUS
  <2> HIDE DEF off
  <2> QED
    BY <2>1, <2>2, WithdrawnMayBe
<1>6. Kept(off)
  <2> HIDE DEF off
  <2> QED
    BY <1>5 DEF Kept
<1> QED
  BY <1>3, <1>4, <1>6


\* Every reader keeps every sensor of its device.
LEMMA ReadKept ==
    ASSUME Given, s \in Sensors, NEW a \in Answers
    PROVE  Kept(Read(a).s)
<1>0. dev.type \in Kinds
  BY ReadersAssumption DEF Given
<1>1. CASE dev.type \in OnWhole
  <2>1. a.val \in Int
    BY <1>1, ReadersAssumption DEF Answers, OnWhole, OnDS2438, Whole
  <2>2. CASE dev.type = "TEMP"
    <3>1. Read(a) = w1_read_temp(a)
      BY <2>2 DEF Read
    <3>2. CASE a.ok
      <4> DEFINE vals == [x \in {dev.roles[1]} |-> a.val]
      <4>1. vals \in [{dev.roles[1]} -> Int]
        BY <2>1
      <4>2. Read(a) = Counted(s, vals)
        BY <3>1, <3>2 DEF w1_read_temp
      <4>3. \A x \in Roles : SameMemory(s[x], s[x])
        BY DEF SameMemory
      <4> HIDE DEF vals
      <4> QED
        BY <4>1, <4>2, <4>3, ClearedKept, CountedOnceKept
    <3>3. CASE ~a.ok
      BY <3>1, <3>3, ClearedKept DEF w1_read_temp, Result
    <3> QED
      BY <3>2, <3>3
  <2>3. CASE dev.type # "TEMP"
    <3>1. Read(a) \in {w1_read_ds2450(a), w1_read_sht11(a), w1_read_ds2760(a),
                       w1_read_ds1923(a), w1_read_ds1921(a), w1_read_hbuv(a),
                       w1_read_hbht(a)}
      BY <1>1, <2>3 DEF Read, OnWhole
    <3>2. PICK roles : Read(a) = AtOnce(roles, a)
      BY <3>1 DEF w1_read_ds2450, w1_read_sht11, w1_read_ds2760, w1_read_ds1923,
                  w1_read_ds1921, w1_read_hbuv, w1_read_hbht
    <3> QED
      BY <2>1, <3>2, AtOnceKept
  <2> QED
    BY <2>2, <2>3
<1>2. CASE dev.type = "COUNTER"
  <2> DEFINE X == {y \in {"counterA", "counterB"} : a.ok[y]}
             vals == [x \in X |-> a.val]
  <2>1. a \in Counters
    BY <1>2 DEF Answers, OnDS2438
  <2>2. vals \in [X -> Int]
    BY <2>1, ReadersAssumption DEF Counters
  <2>3. Read(a) = Counted(Cleared(s), vals)
    BY <1>2 DEF Read, w1_read_counter
  <2> HIDE DEF X, vals
  <2> QED
    BY <2>2, <2>3, ClearedIs, ClearedKept, CountedOnceKept
<1>3. CASE dev.type \in OnDS2438
  <2> DEFINE pres == [x \in {"pres"} |-> a.derived]
             current == [x \in {"current"} |-> a.derived]
             volts == w1_read_voltages(a)
  <2>1. a \in DS2438
    BY <1>3 DEF Answers, OnDS2438
  <2>2. pres \in [{"pres"} -> Int] /\ current \in [{"current"} -> Int]
    BY <2>1, ChannelsGive
  <2>3. Read(a) = w1_read_hih(a) \/ dev.type # "HIH"
    BY DEF Read
  <2>4. Kept(volts.s) /\ Kept(w1_read_humidity(a).s)
    BY <2>1, VoltagesKept, HumidityKept
  <2>5. "pres" \notin Channels /\ "current" \notin Channels
    BY DEF Channels
  <2> HIDE DEF pres, current
  <2>6. Kept(Plus(volts, pres).s) /\ Kept(Plus(volts, current).s)
    BY <2>1, <2>2, <2>5, PlusKept
  <2>7. CASE dev.type = "HIH"
    BY <2>1, <2>3, <2>7, HihKept
  <2>8. CASE dev.type # "HIH"
    <3>1. Read(a) \in {volts, Plus(volts, pres), Plus(volts, current),
                       w1_read_humidity(a)}
      BY <1>3, <2>8 DEF Read, OnDS2438, w1_read_bray, w1_read_hb_pressure,
         w1_read_current, pres, current
    <3> HIDE DEF volts
    <3> QED
      BY <2>4, <2>6, <3>1
  <2> QED
    BY <2>7, <2>8
<1>4. CASE dev.type = "PRES"
  <2> DEFINE vals == [x \in {"temp", "pres"} |-> a.val]
  <2>1. a.val \in Int
    BY <1>4, ReadersAssumption DEF Answers, OnDS2438, SetUpFirst
  <2>2. vals \in [{"temp", "pres"} -> Int]
    BY <2>1
  <2>3. Read(a) \in {Counted(s, vals), [s |-> s, nv |-> 0]}
    BY <1>4 DEF Read, w1_read_pressure, Result
  <2>4. \A x \in Roles : SameMemory(s[x], s[x])
    BY DEF SameMemory
  <2> HIDE DEF vals
  <2>5. Kept(Counted(s, vals).s) /\ Kept(s)
    BY <2>2, <2>4, ClearedKept, CountedOnceKept
  <2> QED
    BY <2>3, <2>5
<1>5. CASE dev.type = "WINDVANE"
  <2> DEFINE vals == [x \in {"vane"} |-> a.val]
  <2>1. a.val \in Int
    BY <1>5, ReadersAssumption DEF Answers, OnDS2438, SetUpFirst
  <2>2. vals \in [{"vane"} -> Int]
    BY <2>1
  <2>3. Read(a) \in {Counted(Cleared(s), vals), Nothing}
    BY <1>5 DEF Read, w1_read_windvane
  <2> HIDE DEF vals
  <2>4. Kept(Counted(Cleared(s), vals).s) /\ Kept(Nothing.s)
    BY <2>2, ClearedIs, ClearedKept, CountedOnceKept
  <2> QED
    BY <2>3, <2>4
<1> QED
  BY <1>0, <1>1, <1>2, <1>3, <1>4, <1>5 DEF Kinds, OnWhole, OnDS2438

-----------------------------------------------------------------------------
\* What LastGood asks of a reading is that every check lets it pass.
LEMMA CheckedIsGood ==
    ASSUME NEW x, NEW v, Check(Sensor(x), lim, v, logtime) = OK
    PROVE  /\ R(x)!InRange(v)
           /\ ~R(x)!TooFast(Sensor(x), lim, v, logtime)
           /\ ~R(x)!CountsDown(Sensor(x), lim, v)
<1> DEFINE e == Sensor(x)
<1>1. RangeCheck(e, lim, v) = OK
  BY DEF Check
<1>2. ~BelowMin(lim, v) /\ ~AboveMax(lim, v)
  BY <1>1 DEF RangeCheck, Ranged, OK, W1_RMIN, W1_RMAX
<1>3. ~TooFast(e, lim, v, logtime) /\ ~CountsDown(e, lim, v)
  BY <1>1 DEF Check, OK, W1_ROC, W1_SEQ, W1_RMAX
<1> HIDE DEF e
<1>4. R(x)!InRange(v)
  BY <1>2 DEF R!InRange, R!BelowMin, R!AboveMax, BelowMin, AboveMax,
     R!W1_RMIN, R!W1_RMAX, W1_RMIN, W1_RMAX
<1>5. ~R(x)!TooFast(e, lim, v, logtime) /\ ~R(x)!CountsDown(e, lim, v)
  BY <1>3 DEF R!TooFast, TooFast, R!Abs, Abs, R!W1_ROC, W1_ROC,
     R!CountsDown, CountsDown
<1> QED
  BY <1>4, <1>5 DEF e

\* One step of the program is a step or a stutter of LastGood for every sensor.
LEMMA LastGoodStep ==
    ASSUME IInv, [Next]_vars, NEW x \in RoleNames
    PROVE  [R(x)!Next]_(R(x)!vars)
<1> USE DEF R!Next
<1>0. Given /\ s \in Sensors
  BY ReadersAssumption DEF IInv, TypeOK, Given, Sensors
<1>1. UNCHANGED <<dev, lim>>
  BY DEF Next, vars, StartPass, NotFound, Attempt
<1>2. Roles' = Roles
  BY <1>1 DEF Roles
<1>3. CASE x \notin Roles
  <2>1. Sensor(x) = FreshSensor /\ Sensor(x)' = FreshSensor
    BY <1>2, <1>3 DEF Sensor
  <2>2. R(x)!BeginPass
    BY <1>1, <2>1 DEF R!BeginPass, R!Remembered, FreshSensor
  <2> QED
    BY <2>2
<1>4. CASE x \in Roles
  <2>1. Sensor(x) = s[x] /\ Sensor(x)' = s'[x]
    BY <1>2, <1>4 DEF Sensor
  <2>2. ASSUME MayBe(s[x], s'[x]), UNCHANGED logtime
        PROVE  [R(x)!Next]_(R(x)!vars)
    <3>1. CASE s'[x] = s[x]
      BY <1>1, <2>1, <2>2, <3>1 DEF R!vars
    <3>2. CASE ~s'[x].valid /\ s'[x].lval = s[x].lval /\ s'[x].ltime = s[x].ltime
      <4>1. R(x)!Refuse
        BY <1>1, <2>1, <2>2, <3>2 DEF R!Refuse, R!Remembered
      <4> QED
        BY <4>1
    <3>3. CASE /\ s'[x].ltime = logtime
               /\ Check(s[x], lim, s'[x].lval, logtime) = OK
               /\ s'[x].valid => s'[x].value = s'[x].lval
      <4> DEFINE v == s'[x].lval
      <4>1. /\ R(x)!InRange(v)
            /\ ~R(x)!TooFast(Sensor(x), lim, v, logtime)
            /\ ~R(x)!CountsDown(Sensor(x), lim, v)
        BY <2>1, <3>3, CheckedIsGood
      <4>2. R(x)!Accept
        BY <1>1, <2>1, <2>2, <3>3, <4>1 DEF R!Accept
      <4> QED
        BY <4>2
    <3> QED
      BY <2>2, <3>1, <3>2, <3>3 DEF MayBe
  <2>3. ASSUME NEW a \in Answers, Attempt(a) PROVE [R(x)!Next]_(R(x)!vars)
    <3>1. s' = Read(a).s /\ UNCHANGED logtime
      BY <2>3 DEF Attempt
    <3>2. MayBe(s[x], s'[x])
      BY <1>0, <1>4, <3>1, ReadKept DEF Kept
    <3> QED
      BY <2>2, <3>1, <3>2
  <2>4. CASE NotFound
    <3>1. s' \in {s, Cleared(s)} /\ UNCHANGED logtime
      BY <2>4 DEF NotFound
    <3>2. MayBe(s[x], s'[x])
      BY <1>0, <1>4, <3>1, ClearedKept DEF Kept
    <3> QED
      BY <2>2, <3>1, <3>2
  <2>5. CASE StartPass
    <3>1. s' = Cleared(s)
      BY <2>5 DEF StartPass
    <3>2. ~s'[x].valid
      BY <1>0, <1>4, <3>1, ClearedIs DEF Valid
    <3>3. s'[x].lval = s[x].lval /\ s'[x].ltime = s[x].ltime
      BY <1>0, <1>4, <3>1, ClearedKept DEF SameMemory
    <3>4. R(x)!BeginPass
      BY <1>1, <2>1, <3>2, <3>3 DEF R!BeginPass, R!Remembered
    <3> QED
      BY <3>4
  <2>6. CASE UNCHANGED vars
    BY <2>1, <2>6 DEF vars, R!vars
  <2> QED
    BY <2>3, <2>4, <2>5, <2>6 DEF Next
<1> QED
  BY <1>3, <1>4

\* A sensor that was just allocated.
LEMMA LastGoodStart ==
    ASSUME Init, NEW x \in RoleNames
    PROVE  R(x)!Init
<1>1. Sensor(x) = FreshSensor
  BY DEF Init, Sensor
<1> QED
  BY <1>1 DEF R!Init, FreshSensor, R!FreshSensor, OK, R!OK

\* Whatever a reader clears, computes, judges twice or withdraws, every sensor of the
\* device keeps the promise of LastGood: its memory only changes to a reading that is
\* good against the last good one (w1_validate and the readers that call it).
THEOREM ReadersImplementLastGood == Spec => KeepsLastGood
<1>1. Init => \A x \in RoleNames : R(x)!Init
  BY LastGoodStart
<1>2. IInv /\ [Next]_vars => \A x \in RoleNames : [R(x)!Next]_(R(x)!vars)
  BY LastGoodStep
<1> QED
  BY <1>1, <1>2, ReadersInvariant, PTL DEF Spec, KeepsLastGood

\* The same, said of one sensor: it is a LastGood.
THEOREM EachSensorIsLastGood ==
    ASSUME NEW x \in RoleNames PROVE Spec => R(x)!Spec
<1>1. Init => R(x)!Init
  BY LastGoodStart
<1>2. IInv /\ [Next]_vars => [R(x)!Next]_(R(x)!vars)
  BY LastGoodStep
<1> QED
  BY <1>1, <1>2, ReadersInvariant, PTL DEF Spec, R!Spec


-----------------------------------------------------------------------------
\* A valid reading was judged at this log time, and the last good one is within the
\* limits.
Good(x) == LET e == Sensor(x) IN
    /\ e.valid => e.ltime = logtime /\ e.value = e.lval
    /\ e.ltime # 0 => ~BelowMin(lim, e.lval) /\ ~AboveMax(lim, e.lval)

\* What the loggers take from any reader (w1sensors.c, valid and value): a reading
\* within the limits, of the log time it is filed under.
GoodReadings == \A x \in RoleNames : Good(x)

\* LastGood keeps a sensor good.
LEMMA LastGoodKeepsGood ==
    ASSUME NEW x, Good(x), [R(x)!Next]_(R(x)!vars)
    PROVE  Good(x)'
<1> USE DEF Good
<1>1. CASE R(x)!Accept
  <2>1. R(x)!InRange(Sensor(x)'.lval) /\ UNCHANGED <<lim, logtime>>
    BY <1>1 DEF R!Accept
  <2>2. ~BelowMin(lim, Sensor(x)'.lval) /\ ~AboveMax(lim, Sensor(x)'.lval)
    BY <2>1 DEF R!InRange, R!BelowMin, R!AboveMax, BelowMin, AboveMax,
       R!W1_RMIN, R!W1_RMAX, W1_RMIN, W1_RMAX
  <2>3. Sensor(x)'.ltime = logtime
        /\ (Sensor(x)'.valid => Sensor(x)'.value = Sensor(x)'.lval)
    BY <1>1 DEF R!Accept
  <2> QED
    BY <2>1, <2>2, <2>3 DEF BelowMin, AboveMax
<1>2. CASE R(x)!Refuse \/ R(x)!BeginPass
  BY <1>2 DEF R!Refuse, R!BeginPass, R!Remembered, BelowMin, AboveMax
<1>3. CASE R(x)!Load
  BY <1>3 DEF R!Load, R!FreshSensor
<1>4. CASE UNCHANGED R(x)!vars
  BY <1>4 DEF R!vars, BelowMin, AboveMax
<1> QED
  BY <1>1, <1>2, <1>3, <1>4 DEF R!Next

\* Because every sensor is a LastGood, what any reader leaves valid is within the
\* limits in force and of this log time, and so is every memory a rate is taken from.
THEOREM ReadingsAreGood == Spec => []GoodReadings
<1>1. (\A x \in RoleNames : R(x)!Init) => GoodReadings
  BY DEF R!Init, R!FreshSensor, Good, GoodReadings
<1>2. GoodReadings /\ [\A x \in RoleNames : [R(x)!Next]_(R(x)!vars)]_vars => GoodReadings'
  <2>1. GoodReadings /\ UNCHANGED vars => GoodReadings'
    BY DEF GoodReadings, Good, vars, Sensor, Roles, BelowMin, AboveMax
  <2>2. RoleNames' = RoleNames
    BY DEF RoleNames
  <2>3. GoodReadings /\ (\A x \in RoleNames : [R(x)!Next]_(R(x)!vars)) => GoodReadings'
    BY <2>2, LastGoodKeepsGood DEF GoodReadings
  <2> QED
    BY <2>1, <2>3
<1> QED
  BY <1>1, <1>2, ReadersImplementLastGood, PTL DEF KeepsLastGood
=============================================================================
