------------------------------ MODULE Readers ------------------------------
(***************************************************************************)
(* The readers of w1sensors.c: what one attempt at a device makes of the   *)
(* answers of its hardware, for every type of device, and the retries of a *)
(* pass.  A sensor is named by its role, what w1_match_sensor finds it by. *)
(* The numbers computed from several answers (humidity, pressure, current) *)
(* are arbitrary readings; what is kept is which answers they rest on.     *)
(* A definition named X_Slip... is a plausible mistake in X.               *)
(***************************************************************************)
EXTENDS Validate, Sequences, FiniteSets

CONSTANTS
    Devices,    \* the devices a configuration may hold: type and roles
    Limits,     \* the limits of their sensors
    Readings,   \* numbers the hardware can give
    MaxRetry,   \* W1_RETRY
    MaxPass     \* bound on the log time

\* The channels of a DS2438, and the number its driver returns for a failure.
Channels == {"vdd", "vad", "vsens", "temp"}
Failed   == -1

Kinds == {"TEMP", "COUNTER", "DS2450", "SHT11", "DS2760", "DS1923", "DS1921", "HBUV",
          "HBHT", "DS2438V", "BRAY", "HBBARO", "MS_TC", "HUMID", "HIH", "PRES",
          "WINDVANE"}

\* The reader of the HIH withdraws its first two sensors by position: they are the
\* two it is about.
ASSUME ReadersAssumption ==
    /\ Readings \subseteq Int
    /\ MaxRetry \in Nat \ {0} /\ MaxPass \in Nat
    /\ Devices \subseteq [type : Kinds, roles : Seq(STRING)]
    /\ \A d \in Devices : d.type = "HIH" =>
           Len(d.roles) > 1 /\ {d.roles[1], d.roles[2]} = {"temp", "humidity"}
    /\ Limits \subseteq [flags : SUBSET {W1_ROC, W1_RMIN, W1_RMAX}, counter : BOOLEAN,
                         rmin : Int, rmax : Int, roc : Int]

VARIABLES
    dev,       \* the device: its type and roles
    lim,       \* the limits of its sensors
    s,         \* the sensor records, by role
    init,      \* w->init
    logtime,   \* w1->logtime
    pc,        \* "idle", or "read" while a pass is at this device
    attempt,   \* rtry
    r,         \* what the last attempt returned
    answered,  \* the parts of the device that answered in it (history)
    ready      \* the hardware was set up since it was last missing (history)

vars == <<dev, lim, s, init, logtime, pc, attempt, r, answered, ready>>

-----------------------------------------------------------------------------
Roles == {dev.roles[i] : i \in 1 .. Len(dev.roles)}

Valid(ss) == {x \in Roles : ss[x].valid}

\* valid = 0 for the sensors of a device
Cleared(ss) == [x \in Roles |-> [ss[x] EXCEPT !.valid = FALSE]]

\* w1_match_sensor and w1_validate for each sensor that got a value.
Judged(ss, vals) ==
    [x \in Roles |-> IF x \in DOMAIN vals THEN Validated(ss[x], lim, vals[x], logtime)
                     ELSE ss[x]]

\* A reader's result: the sensors, and the number of validations that passed.
Result(ss, nv) == [s |-> ss, nv |-> nv]

Counted(ss, vals) ==
    LET n == Judged(ss, vals) IN Result(n, Cardinality(Valid(n) \cap DOMAIN vals))

Nothing == Result(Cleared(s), 0)

\* Devices read in one transaction: every sensor of theirs gets a value, or none.
AtOnce(roles, a) ==
    IF a.ok THEN Counted(Cleared(s), [x \in roles |-> a.val]) ELSE Nothing

w1_read_ds2450(a) == AtOnce({"ADA", "ADB", "ADC", "ADD"}, a)
w1_read_sht11(a)  == AtOnce({"temp", "humidity"}, a)
w1_read_ds2760(a) == AtOnce({"temp", "current", "volt", "accumulator"}, a)
w1_read_ds1923(a) == AtOnce({"temp", "humidity"}, a)
w1_read_ds1921(a) == AtOnce({"temp"}, a)
w1_read_hbuv(a)   == AtOnce({"temp", "uv"}, a)
w1_read_hbht(a)   == AtOnce({"temp", "humidity"}, a)

\* A DS18x20 has one sensor, its first, and leaves it as it was when the conversion
\* fails.
w1_read_temp(a) ==
    IF a.ok THEN Counted(s, [x \in {dev.roles[1]} |-> a.val])
    ELSE Result(s, Cardinality(Valid(s) \cap {dev.roles[1]}))

\* Two counters, each in a transaction of its own.
w1_read_counter(a) ==
    Counted(Cleared(s), [x \in {y \in {"counterA", "counterB"} : a.ok[y]} |-> a.val])

-----------------------------------------------------------------------------
\* The DS2438: each channel that is asked for is read on its own.  A failure is
\* told from a number by the value alone.
Got(a) == {c \in Channels : a.val[c] # Failed}

w1_read_voltages_SlipNoCheck(a) == Counted(Cleared(s), [c \in Channels |-> a.val[c]])

w1_read_voltages(a) == Counted(Cleared(s), [c \in Got(a) |-> a.val[c]])

\* v.temp is stored only when a configured sensor passed the checks; else it is 0.
TempOf(a, volts) == IF "temp" \in Valid(volts.s) THEN a.val["temp"] ELSE 0

Plus_SlipOverwrite(volts, vals) == Counted(volts.s, vals)

\* A sensor computed from the channels, on top of what w1_read_voltages counted.
Plus(volts, vals) ==
    LET n == Counted(volts.s, vals) IN Result(n.s, volts.nv + n.nv)

\* AAG and Hobby Boards barometers: a pressure if Vad is positive.
w1_read_bray(a) ==
    LET volts == w1_read_voltages(a) IN
    IF a.val["vad"] > 0 THEN Plus(volts, [x \in {"pres"} |-> a.derived]) ELSE volts

w1_read_hb_pressure(a) ==
    LET volts == w1_read_voltages(a) IN
    IF a.val["vad"] > 0 THEN Plus(volts, [x \in {"pres"} |-> a.derived]) ELSE volts

w1_read_current(a) ==
    LET volts == w1_read_voltages(a) IN
    IF a.val["vad"] > Failed THEN Plus(volts, [x \in {"current"} |-> a.derived])
    ELSE volts

\* The DS2438 humidity sensor judges temperature and humidity whatever the
\* channels gave.
w1_read_humidity(a) ==
    LET volts == w1_read_voltages(a) IN
    Plus(volts, [x \in {"temp", "humidity"} |->
                     IF x = "temp" THEN TempOf(a, volts) ELSE a.derived])

\* The first two sensors are valid together or not at all; what was counted for
\* the humidity stays counted.
w1_read_hih(a) ==
    LET volts == w1_read_voltages(a)
        n     == IF volts.nv = 0 THEN Result(volts.s, 0)
                 ELSE Counted(volts.s, [x \in {"humidity"} |-> a.derived])
        pair  == {dev.roles[i] : i \in {1, 2} \cap 1 .. Len(dev.roles)}
    IN IF Len(dev.roles) > 1 /\ pair \subseteq Valid(n.s) THEN n
       ELSE Result([x \in Roles |-> IF x \in pair THEN [n.s[x] EXCEPT !.valid = FALSE]
                                    ELSE n.s[x]], n.nv)

-----------------------------------------------------------------------------
\* Readers that set their device up first: w->init is 1 before, 2 after.
SetUp(a) == IF init = 2 \/ a.setup THEN 2 ELSE 1

\* The TAI8570: ReadPressureValues returns true whatever its transactions did.
w1_read_pressure(a) ==
    IF SetUp(a) = 2 THEN Counted(s, [x \in {"temp", "pres"} |-> a.val])
    ELSE Result(s, 0)

\* The wind vane: four A/D channels that match a position of the table or none.
w1_read_windvane(a) ==
    IF SetUp(a) = 2 /\ a.ok /\ a.match
    THEN Counted(Cleared(s), [x \in {"vane"} |-> a.val])
    ELSE Nothing

-----------------------------------------------------------------------------
\* What a device can answer.  A channel that fails gives Failed; the temperature
\* of a DS2438 is Failed or FALSE, and a real temperature may be either number.
Whole    == [ok : BOOLEAN, val : Readings]
Counters == [ok : [{"counterA", "counterB"} -> BOOLEAN], val : Readings]
OneChannel(c, ok) ==
    IF c = "temp" THEN IF ok THEN Readings ELSE {Failed, 0}
    ELSE IF ok THEN Readings \ {Failed} ELSE {Failed}
DS2438 ==
    {a \in [ok : [Channels -> BOOLEAN], val : [Channels -> Readings \cup {Failed, 0}],
            derived : Readings] : \A c \in Channels : a.val[c] \in OneChannel(c, a.ok[c])}
SetUpFirst == [setup : BOOLEAN, ok : BOOLEAN, match : BOOLEAN, val : Readings]

OnDS2438 == {"DS2438V", "BRAY", "HBBARO", "MS_TC", "HUMID", "HIH"}

Answers ==
    CASE dev.type = "COUNTER" -> Counters
      [] dev.type \in OnDS2438 -> DS2438
      [] dev.type \in {"PRES", "WINDVANE"} -> SetUpFirst
      [] OTHER -> Whole

\* The switch of w1_read_all_sensors.
Read(a) ==
    CASE dev.type = "TEMP"     -> w1_read_temp(a)
      [] dev.type = "COUNTER"  -> w1_read_counter(a)
      [] dev.type = "DS2450"   -> w1_read_ds2450(a)
      [] dev.type = "SHT11"    -> w1_read_sht11(a)
      [] dev.type = "DS2760"   -> w1_read_ds2760(a)
      [] dev.type = "DS1923"   -> w1_read_ds1923(a)
      [] dev.type = "DS1921"   -> w1_read_ds1921(a)
      [] dev.type = "HBUV"     -> w1_read_hbuv(a)
      [] dev.type = "HBHT"     -> w1_read_hbht(a)
      [] dev.type = "DS2438V"  -> w1_read_voltages(a)
      [] dev.type = "BRAY"     -> w1_read_bray(a)
      [] dev.type = "HBBARO"   -> w1_read_hb_pressure(a)
      [] dev.type = "MS_TC"    -> w1_read_current(a)
      [] dev.type = "HUMID"    -> w1_read_humidity(a)
      [] dev.type = "HIH"      -> w1_read_hih(a)
      [] dev.type = "PRES"     -> w1_read_pressure(a)
      [] dev.type = "WINDVANE" -> w1_read_windvane(a)

\* The parts that answered.
Answered(a) ==
    CASE dev.type \in {"COUNTER"} \cup OnDS2438 -> {x \in DOMAIN a.ok : a.ok[x]}
      [] OTHER -> IF a.ok THEN Roles ELSE {}

-----------------------------------------------------------------------------
Init ==
    /\ dev \in Devices
    /\ lim \in Limits
    /\ s = [x \in Roles |-> FreshSensor]
    /\ init = 0
    /\ logtime = 1
    /\ pc = "idle"
    /\ attempt = 0
    /\ r = 0
    /\ answered = {}
    /\ ready = FALSE

\* The device is due in the pass at the next log time.
StartPass ==
    /\ pc = "idle"
    /\ logtime < MaxPass
    /\ logtime' = logtime + 1
    /\ s' = Cleared(s)
    /\ pc' = "read"
    /\ attempt' = 0
    /\ r' = 0
    /\ answered' = {}
    /\ UNCHANGED <<dev, lim, init, ready>>

\* A reader that returns 0 is called again.
Settle(nv) ==
    /\ r' = nv
    /\ attempt' = attempt + 1
    /\ pc' = IF nv # 0 \/ attempt + 1 = MaxRetry THEN "idle" ELSE "read"

Attempt(a) ==
    /\ pc = "read"
    /\ s' = Read(a).s
    /\ Settle(Read(a).nv)
    /\ init' = IF dev.type \in {"PRES", "WINDVANE"} THEN SetUp(a) ELSE 1
    /\ answered' = Answered(a)
    /\ ready' = IF dev.type \in {"PRES", "WINDVANE"}
                THEN ready \/ (init # 2 /\ a.setup) ELSE ready
    /\ UNCHANGED <<dev, lim, logtime>>

NotFound_SlipKeepInit ==
    /\ pc = "read"
    /\ s' = IF dev.type = "PRES" THEN s ELSE Cleared(s)
    /\ Settle(0)
    /\ init' = IF init = 2 THEN 2 ELSE 1
    /\ answered' = {}
    /\ ready' = FALSE
    /\ UNCHANGED <<dev, lim, logtime>>

\* w1_select_device does not find the device.  The TAI8570 must be set up anew, and is the
\* one whose sensors only the pass marks as not valid.
NotFound ==
    /\ pc = "read"
    /\ s' = IF dev.type = "PRES" THEN s ELSE Cleared(s)
    /\ Settle(0)
    /\ init' = IF dev.type = "WINDVANE" /\ init = 2 THEN 2 ELSE 1
    /\ answered' = {}
    /\ ready' = FALSE
    /\ UNCHANGED <<dev, lim, logtime>>

Next == StartPass \/ NotFound \/ \E a \in Answers : Attempt(a)

Spec == Init /\ [][Next]_vars

-----------------------------------------------------------------------------
SensorType == [value : Int, valid : BOOLEAN, lval : Int, ltime : Nat, reason : Reasons]

TypeOK ==
    /\ dev \in Devices /\ lim \in Limits
    /\ s \in [Roles -> SensorType]
    /\ init \in 0 .. 2
    /\ logtime \in 1 .. MaxPass + 1
    /\ pc \in {"idle", "read"}
    /\ attempt \in 0 .. MaxRetry
    /\ r \in Nat
    /\ ready \in BOOLEAN

CountTrue ==
    attempt > 0 /\ dev.type # "HIH" => (r # 0 <=> Valid(s) # {})

HihPair ==
    dev.type = "HIH" => LET pair == Valid(s) \cap {"temp", "humidity"} IN
                        /\ pair \in {{}, {"temp", "humidity"}}
                        /\ r = 0 => pair = {}

\* A reader returns 0, and is called again or reported as failed, exactly when it
\* left nothing valid: what a pass has read is never read over by a retry, and
\* the loggers are called when there is something to log.  The HIH reader
\* (w1_read_hih) counts the humidity alone, also when it then withdraws it: its two
\* sensors are logged together or not at all, and never when it reports a failure.
ReportMatchesValid == CountTrue /\ HihPair

\* What the sensor of a role must have been computed from.  The readers of the
\* humidity sensors and of the TAI8570 check nothing of it.
Needs(x) ==
    IF dev.type \in {"HUMID", "PRES"} THEN {}
    ELSE IF dev.type \in OnDS2438 /\ x \in {"pres", "current"} THEN {"vad"}
    ELSE IF dev.type = "HIH" /\ x = "humidity" THEN {"temp"}
    ELSE {x}

\* A valid sensor was read in this very attempt, but for a temperature of 0.
ValidWasRead ==
    \A x \in Valid(s) : Needs(x) \subseteq answered
                          \/ (dev.type \in OnDS2438 /\ s["temp"].value = 0
                              /\ Needs(x) = {"temp"})

\* A TAI8570 that was missing is not read again with the calibration of before.
PressureSetUp == dev.type = "PRES" /\ Valid(s) # {} => ready

\* "Reads the temperature from the DS2438 ... return the temperature" (the comment
\* of Get_Temperature, libusblinux300/atod26.c): a valid temperature is one.  The
\* humidity sensor is left out, whose reader puts a 0 of its own in its place.
TemperatureWasRead ==
    dev.type \in OnDS2438 \ {"HUMID"} /\ "temp" \in Valid(s) => "temp" \in answered

-----------------------------------------------------------------------------
\* Every sensor of the device keeps the promise of LastGood: whatever the reader
\* clears, computes, judges twice or withdraws, the memory changes only to a reading
\* that is good against the last one.
RoleNames == UNION {{d.roles[i] : i \in 1 .. Len(d.roles)} : d \in Devices}
Sensor(x) == IF x \in Roles THEN s[x] ELSE FreshSensor
R(x)      == INSTANCE LastGood WITH sensor <- Sensor(x)

KeepsLastGood ==
    /\ \A x \in RoleNames : R(x)!Init
    /\ [][\A x \in RoleNames : [R(x)!Next]_(R(x)!vars)]_vars
=============================================================================
