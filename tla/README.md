# w1retap: a TLA+ verification project

`w1retap` is a weather-station logger: one process that wakes at regular times,
reads the sensors on a 1-wire bus (through couplers that switch branches of the
bus on and off), checks the readings for plausibility, and hands them to logger
plugins (files, CSV, XML, PostgreSQL, MySQL, SQLite, MongoDB, ODBC) and to a file in
`/tmp`. Signals ask it for an extra pass, a reload or a listing while it runs. The
modules here model its core logic; they are model-checked with TLC, and every safety and action property
that a passing run checks is also proved with TLAPS, for every value of the constants (one under a condition, named in section 4).

All paths are relative to the repository; `w1sensors.c`, `w1retap.c` and so on are in
`src/`.

## 1. Inventory

### Components

| component | state it keeps | operations |
|---|---|---|
| 1-wire couplers (`w1sensors.c` 108-154, 1118-1224; `libusblinux300/swt1f.c`) | `active_lines` of each coupler: the lines it last asked for; the lines that are really connected, in the hardware | `w1_initialize_couplers`, `w1_set_coupler`, `w1_select_device`, `w1_all_couplers_off` |
| plausibility checks (`w1sensors.c` 156-225) | per sensor `value`, `valid`, `lval`, `ltime`, `reason`; limits of the `ratelimit` table | `w1_validate`, called by every reader |
| sensor readers (`w1sensors.c` 227-1116, 1325-1452) | `valid` flags, `init` of devices that need setting up | one `w1_read_*` per device type; `w1_read_all_sensors` with its ten retries |
| polling intervals (`w1sensors.c` 1226-1322) | `delay`, `intvl` of each device, `cycle` | `w1_verify_intervals`, `w1_gcd`, `w1_lcm` |
| signal flags (`w1retap.c` 40-79, 605-634) | `sigme` | three handlers; the clearing of the flags in the main loop |
| main loop (`w1retap.c` 410-664) | `now`, `logtime`, the flag `immed`, the interface `portnum` | wake-up, pass, loggers, `/tmp` file, sleep, SIGUSR1 pass, reload, listing |
| device and coupler table (`w1util.c` 78-340, `w1sensors.c` 1118-1213) | arrays of devices and sensors | `w1_set_device_data`, `w1_enumdevs`, `w1_find_sensor`, `w1_match_sensor`, `freeup` |
| configuration file (`w1conf.c`) | the settings in `w1_devlist_t` | `read_config` |
| plugin loading (`w1retap.c` 133-269, `w1util.c` 302-318) | `dlls`: handles and their types | `dll_parse`, `do_init`, `cleanup`, `w1_freeup`; the loops over the log and rep lines |
| database loggers (`pgsql/`, `mysql/`, `sqlite/`, `mongo/`, `odbc/`) | in static variables: a connection, prepared statements; in the database: a transaction | `w1_init`, `w1_logger`, `w1_report`, `w1_cleanup` |
| file loggers (`w1file.c`, `w1csv.c`, `w1xml.c`) | an open file, its date | `w1_init`, `w1_logger`, `w1_cleanup` |
| log file in `/tmp` (`w1util.c` 349-391) | one file | `w1_tmpfilelog` |
| network and drivers (`libusblinux300/`) | the search state (`SerialNum`, `LastDiscrepancy`, `LastFamilyDiscrepancy`, `LastDevice`), port, calibration of the barometer | ROM search, `owAcquireEx`, one driver per chip |
| configuration listing, search tools, contributed clients | none that lasts | print |

### How they interact

Everything runs in one thread. `main` reads the configuration, loads the plugins
named by it, calls those that provide the device and limit tables (`do_init`), builds
the couplers, verifies the intervals, acquires the interface, and then repeats: a pass
over the due devices (`w1_read_all_sensors`), the loggers and the `/tmp` file when the
pass read anything, the flags, the sleep to the next multiple of the delay. A pass
calls one reader per device; each reader selects the device (couplers), asks the
driver, and judges each number with `w1_validate`; the loggers take the sensors whose
`valid` is set, under the log time `w1->logtime`. The only concurrency inside the
process is that of the signal handlers, which interrupt the thread anywhere. The hardware,
the clock, the databases and the user's signals are the outside world.

### What is hard here

* *Beliefs about hardware.* A coupler's lines are remembered and a command is sent only
  if the memory says so; the answer of the command is dropped. Whatever makes the memory
  wrong (a lost command, a reload, a process that died) decides what the following passes do.
* *Memory across readings.* A reading is judged against the last accepted one and its log
  time, through retries, refused readings that are replaced in place, missed passes,
  signal passes with an old log time, clocks that are set, and reloads.
* *Time.* Sleeps are absolute and aim at multiples of the delay; a pass, a logger or a
  reload can outlast a due time; a wake-up is late or interrupted.
* *Handlers* on top of each other and of the main thread's updates of the same variable.
* *Machine arithmetic*: a product of all intervals in an `unsigned long`, compared with
  an `int` counter.
* *Partial failure*: a chip is read channel by channel, `-1`, `0` or `FALSE` standing for failure.
* *Connections* that go away between two requests, tables that are dropped, files that others lock: the loggers look
  at their connection once per call or never, and drop the answers of their requests.
* *Static variables of libraries*: every logger keeps its connection in them, whichever line of the configuration it is called
  for; a library named by several lines is loaded once, and is unloaded when the last of its handles is closed. The ROM search
  keeps its place in them between two commands, while devices come and go.
* *Reloads and restarts* close and open all this again, over whatever the last configuration left.

### What makes each component correct

* couplers: never two branches at once; a device is sampled alone and connected; the bus
  is quiet between passes, also after a reload; the memory is true unless a command was lost,
  and a lost one is made up for;
* checks: the remembered reading is always an acceptable one; nothing valid is stale; gauges do not
  count down; between readings of two wake-up intervals the rate limit is stretched by one interval at most; nothing is refused for ever;
* readers: failure is reported exactly when nothing is valid; a valid sensor rests on channels that answered;
* intervals: wake-up value and cycle are the highest common factor and lowest common
  multiple, the intervals stay close to those asked for, a reload of the same file is harmless;
* flags: no request is lost or invented, each is served soon;
* ROM search: a device that stays on the bus is found, by whatever search came before; a list is complete and names nothing twice; a search ends;
* plugins: the calls of a pass go to the libraries, databases and statements of the configuration in force; a reload leaves nothing behind;
* database loggers: a pass is stored whole but for the rows the database itself refused, or not at all; with PostgreSQL it is
  all or nothing, no transaction outlives its call, and a lost connection costs one pass and is made up for;
* main loop: each device is read once per interval, each log time is used once, the `/tmp`
  file is complete, only `-R` gives the interface away.

`PROJECT.json` lists every component, and under `hazards` every place in the code where
one of these could go wrong unnoticed, with the properties that watch it.

## 2. The modules and the code

| module | models | kind |
|---|---|---|
| `BranchBus` | what the coupler handling promises: one powered branch, a device sampled only on its own | abstract specification |
| `CouplerBus` | the couplers over passes, retries, lost commands and reloads | implements `BranchBus` |
| `Validate` | `w1_validate` as an operator on a sensor record | pure operators |
| `LastGood` | what the checks promise of a sensor: the memory changes only to a reading that is good against it, and what is valid is the good reading of this log time | abstract specification |
| `SensorCheck` | one sensor between wake-ups, retries, SIGUSR1 passes, clock changes, reloads | extends `Validate`, implements `LastGood` |
| `Readers` | the reader of every device type and the retry loop around it | extends `Validate`, implements `LastGood` for each sensor of the device |
| `Intervals` | `w1_verify_intervals`, `w1_gcd`, `w1_lcm` with machine words | pure operators |
| `PollPlan` | the polling plan over starts and reloads | extends `Intervals` |
| `Selection` | what the search promises to the readers: a device is found only on the bus, and missed only if something disturbed the attempt | abstract specification |
| `RomSearch` | the search of both adapters, used by w1retap and by w1find, over a bus that changes | implements `Selection` |
| `SignalFlags` | the handlers and the flags, at the grain of loads and stores | state machine |
| `MainLoop` | passes, loggers, `/tmp` file, sleeps, signals, reloads on a clock | extends and implements `PollPlan` |
| `PgLogger` | the PostgreSQL logger over a server and tables that come and go | state machine |
| `Loggers` | the calls of the MySQL, SQLite, ODBC, MongoDB and file loggers, request by request | actions and state |
| `Plugins` | loading, initialising, calling and unloading the libraries; reloads, kills, restarts | extends `Loggers` |
| `CouplerBus_proofs`, `SensorCheck_proofs`, `SignalFlags_proofs`, `RomSearch_proofs`, `Plugins_proofs`, `PgLogger_proofs`, `MainLoop_proofs` (also of `Intervals` and `PollPlan`), `Readers_proofs` | theorems | TLAPS |
| `MCCouplerBus`, `MCSensorCheck`, `MCReaders`, `MCPollPlan`, `MCMainLoop`, `MCRomSearch`, `MCPlugins`, `MCPgLogger` | instances for TLC | constants only |

A definition named `X_Slip...` stands just before `X` and is a plausible mistake in `X`
(a dropped guard, a missing reset, an off-by-one). No specification uses it. Every
property has one: with the slip in place of `X`, TLC finds the property violated, so
the property does depend on what the code does there.

### CouplerBus

`cached[c]` is `priv->active_lines` of a coupler; `hw[c]` what the hardware connects.
`SetCoupler` is `w1_set_coupler` with `SetSwitch1F` inside: no command if the memory
equals the wanted lines, otherwise a command that arrives or is lost, and the memory
updated either way. `DisconnectOther` and `ConnectOwn` are the loop and the last step of
`w1_select_device`; `Found` / `NotFound` its search (a device answers only over a connected
path); `Failed` is the retry of `w1_read_all_sensors`; `AllOff` the loop of
`w1_all_couplers_off`, run at start and at the end of each pass; `Reload` frees the
records and builds new ones (`COUPLER_UNDEFINED`) and sends nothing. The order in
which couplers and devices are visited is left open: it is the order of the rows of a
database. What a process that died left in the hardware is an arbitrary initial `hw`.
`missed` (couplers whose last command was lost) and `driven` are history.

### Validate, SensorCheck, Readers

`Validated(s, lim, v, t)` is the record `w1_validate` leaves. Numbers are integers, and the
rate comparison is multiplied out; a time that runs backwards gives a negative rate, which
never exceeds a limit. `SensorCheck` puts it on a clock: `Wake` sets
`logtime` and clears `valid` (also of a device that is not due), `UserPass` is SIGUSR1 and
keeps the old `logtime`, `Attempt` / `NoAnswer` are one round of the retry loop, `SetClock` is
somebody else setting the clock, `Reload` frees the sensor.

`Readers` has a device of any type, answers chosen freely by its hardware, and per type the
operator named after the reader. Devices read in one transaction share a shape (`AtOnce`);
a DS2438 answers channel by channel, the driver's `-1` (or, for the temperature,
`FALSE` = 0) standing for failure. The numbers computed from several channels are arbitrary: which channels
they rest on is what the properties ask. `init` (0, 1, 2) is kept for the barometer and the wind vane.
`NotFound` clears what the loop clears when a device does not answer; the barometer's reader clears `init` only (`w1sensors.c` 843), the pass has cleared the rest.

### Intervals, PollPlan

`Plans(delay, intvl)` is the set of plans `w1_verify_intervals` can leave: a set, because
the overflow of the loop counter in `w1_lcm` is undefined behaviour and a build either wraps it or
widens it. The product is taken modulo `Word`, the counter and the result are bounded by
`IntMax`. `PollPlan` calls it at start (default, then file, then `-t`) and at
each reload (the file over the delay that the last verification left, `-t` forgotten).

### SignalFlags, MainLoop

`SignalFlags` has the main thread at one of its three tests, between the last of them and `clock_nanosleep` (`Arming`, `w1retap.c` 633-638), asleep
or in a pass, and a stack of handlers on top of it (`frames`); the handler of a signal does not interrupt
itself. `atomic` says whether the build updates `sigme` with one instruction; without it,
`Load` and `Store` (main) and `Interrupt` and `Return` (handlers) are apart. A signal ends the sleep only at `Asleep`; one that is delivered after main has looked at its
flag and before the sleep has begun (`tardy`, a history) interrupts nothing and waits for the wake-up. `MainLoop` takes the update of a flag
as one step and adds the clock: `Work` is time spent by passes, loggers, reloads, listings or
a late wake-up, `Doze` is sleep, `Signal` ends a sleep that is not over, `Arm` is the
absolute sleep, `TakeTime` sets `now` and `logtime`. `port` is whether the interface is held.
`seen`, `missed`, `logged` and `busy` are history.

### PgLogger

The server's side (`session`, `prepared`, `tx`, `pending`, `rows`) stands next to the library's
(`db`) and the logger's (`stmts`: the static pointers `stmt` and `stml`; `pc`). `w1_logger` and
`w1_report` have the same steps: `db_status`, `Prepare` (if the pointer is null; the answer is dropped), `Begin`,
one `Insert` per valid sensor (by the prepared statement, or into a table of its own for a name that begins with `>`),
`Commit`. The server may stop (`Outage`), return, or have its tables altered between any two of them. What libpq
and the server answer is external: a request without a session fails and shows the connection as bad (`Noticed`),
a failed insert aborts the transaction, a commit of an aborted transaction rolls back. Inserts come in any order.
A `json` column (one document per pass) is the case of one item; the lock file in `/tmp`, with which
`w1_logger` returns at once, is the absence of a call. `steady`, `spoilt` and `lost` are history.

### Selection, RomSearch

A ROM is a function from bit positions to 0 and 1. The walk of `owNext` through the bits is not repeated bit by bit: `Reached(r)`
says that it ends at `r`, because each bit of `r` is the one the master wants there (`Path`) or the only one among the devices
still in the walk (`Rivals`); `ZeroTaken(r)` are the places where that walk took a 0 and could have taken a 1, and
`LastDiscrepancy` becomes the last of them. The two drivers share the operators and differ where the code does: the serial one
(`ownetu.c`) notes the last zero within the family code, resets on errors and refuses to branch at bit 63; the USB one
(`libusbnet.c`) recovers without a reset, asks for a walk along zeros after a wrong check sum (`RestartUsb`), and after the last device
reads a part of its buffer that was not written (an arbitrary `LastDiscrepancy` in `Hit`). `Select` ... `Leave` are the selection of a device
and the retries of `w1_read_all_sensors`; `FindDevices` ... `ListEnd` are `w1find`: couplers (by family), trunk (`owSkipFamily`,
then `owFirst`), branches. Which devices a coupler brings within reach is left open. `Join`, `Depart` and `Noise` come between any two commands.
`calm`, `stayed`, `listed` and `twice` are history.

### Loggers, Plugins

`static[l]` holds the static variables of library `l` together with the transaction of its connection (`begun`, `rows`); it is `Fresh` when the
library has just been loaded. `call` is the call under way: `Open(ok)` connects if no call has before and prepares the statement, which may fail unnoticed
(the pointer then stays null in SQLite; MySQL and ODBC keep a handle that no request succeeds with); `Insert` sends one row or one line of a file, which is taken;
`Refused` is one that is not: the answer is logged or dropped, the loop goes on and `Commit` stores the others (`w1mysql.c` 376-386, `w1sqlite.c` 358); `Undone` is a database that rolls the
transaction back because a request failed (a deadlock in MySQL, whose tables are taken to be transactional, a full disk in SQLite): what follows is stored, by MySQL in a new transaction, by SQLite in none.
`InsertAll` sends the one document of MongoDB. `NoFile` is a file that cannot be opened, `LockedOut` the lock file in `/tmp`. `world[d]` says whether database `d` answers: a server may be
`down` (its sessions are then gone for good, none of these libraries connects twice), a SQLite file may be read or written by another
program; a commit then fails (`Blocked`) or a row is dropped after five seconds. `Plugins` holds the lines of the configuration file as
it was read last (`rc`), those that were loaded (`dlls`), and where the loop over them stands (`turn`). `read_config` reads any of the files (somebody edits
them meanwhile); `do_init` takes the first init line and demands `w1_report` of the report libraries; `Call` is one turn of the loop, in the
order of the lines; `Reload` is `cleanup` with `w1_freeup`: `w1_cleanup` of the libraries of log lines, then every handle closed, with which the static variables go.
`Kill` ends the process at any step (`SIGKILL`, or an exit of a library), and the service manager starts it again (`Restart=always` in `src/docs/systemd`).
`stored`, `round` and `refused` look at the passes since the last load only; `quiet`, `refused` (rows that a database did not take over a live session, or undid) and `leaked` are history.

### How they compose

`CouplerBus` implements `BranchBus` (property `KeepsPromise`, theorem `Implements`) through
the mapping `live <- Powered`, `sampling <- Sampled`, up to the first lost command: after one the
promise does not hold (run `coupler_lost`), so `Powered` and `Sampled` then stand still.
`RomSearch` implements `Selection` (property `SelectsAsAsked`, theorem `SelectionIsKept`) with the mapping `state <- pc`, `asked <- wanted`; this is
what `CouplerBus` relies on when a device that is connected may be `Found`, and `Readers` when an attempt fails. `Plugins` extends `Loggers`
with the program around the calls; `PgLogger` is the same for the one library that looks at its connection and opens it again.
`SensorCheck` and `Readers` share `Validate` and implement `LastGood`, the one with its sensor `s` (theorem `ImplementsLastGood`), the other with
every sensor of whatever device it reads (property `KeepsLastGood`, theorem `ReadersImplementLastGood`). `LastGood` is what the two views have in common, the
one through time and the other through the readers: `SensorCheck` needs no more of a reader than one judgement per attempt, and no
reader, however often it clears, judges or withdraws, does more to the memory of a sensor. `MainLoop` extends `PollPlan`: its start and its `Reconf` are those of the plan
with the loop around them, so that it implements `PollPlan` under the same names (theorem `LoopPlans`). `MainLoop` takes from `SignalFlags` that a request not raced with is taken up
before the next wake-up or at the one after; `SensorCheck` takes from `MainLoop` that
`logtime` is the wake-up time and grows (`LogTimesGrow`) unless the clock is set, which it allows for itself.

## 3. The runs

| run | properties | shows |
|---|---|---|
| `coupler_safety` | `OneBranchUnlessMissed`, `SampledAlone`, `QuietBetweenPasses`, `MemoryIsTrue`, `RetrySendsNothing`, `KeepsPromise`, `Resync` | with two commands lost anywhere, reloads between passes and any initial hardware, the couplers that obeyed never power two branches, and the memory becomes true again |
| `coupler_lost` | `OneBranchEver` (violated) | one lost "off" is enough for two branches |
| `sensor_checks` | `MemoryInRange`, `ValidIsCurrent`, `LockoutBounded`, `CounterNeverDown`, `RateWithinDelay` | the checks over ten minutes of wake-ups, with either signal passes or a clock that is set |
| `readers` | `ReportMatchesValid`, `ValidWasRead`, `PressureSetUp`, `KeepsLastGood` | every device type, every answer, two attempts in each of two passes |
| `readers_zero` | `TemperatureWasRead` (violated) | a failed conversion of a DS2438 is logged as 0 degrees |
| `poll_plan` | `WakeAndCycleRight`, `IntervalsNearWanted`, `SameFileSamePlan` | all tables of three devices over four intervals, start and reloads |
| `signal_flags` | `OnlyRequests`, `LostOnlyInRace`, `ServedSoon`, `OnlyTardyWait`, `EveryRequestServed` | all nestings of the three handlers with main, wherever it is between two sleeps, both ways of updating the flags |
| `loop_safety` | `TypeOK`, `AgeBounded`, `TmpComplete`, `LogTimesGrow` | two devices, three configurations, a minute of clock in which work outlasts due times |
| `rom_search` | `ListExact`, `SelectsAsAsked`, `SearchEnds` | both adapters and both programs over five devices that come and go, and noise |
| `plugins` | `OnlyRefusedAreMissing`, `OwnDatabase`, `OnlyTheseLeak`, `StatementsAreLive`, `QuietCallStoresAll` | every library over seven configuration files, reloads, kills, outages, locks, and rows refused or undone, at any request |
| `plugins_two` | `AllLinesLogged` (violated) | two log lines of one library both write to the database of the first |
| `pg_logger` | `AllOrNothing`, `NoOpenTransaction`, `LossBounded`, `Recovers` | passes and messages over a server and tables that change between any two requests, and reloads |

The type invariant of a module is checked in the runs that name it, and proved in all of them (section 4). What the violated
properties quote from the documentation and the comments, and where the code differs, is under `findings` in
`PROJECT.json`.

### Bounds, and why they are enough

* `coupler_safety`: two couplers, three devices (two on the branches of one coupler, one
  on the other, which a reload can move to the trunk): every relation of "own", "other branch
  of my coupler", "other coupler", "trunk" occurs. `MaxFaults = 2` lets a command and the command that
  would repair it both be lost; `MaxRetry = 3` (ten in the code) has a first, a middle
  and a last attempt. No property mentions the number; the proofs hold for all.
* `sensor_checks`: readings -1 to 4 over a range 0 to 3, so both limits can be crossed and a step can take several wake-ups;
  clock in half minutes (`Tick`), wake-ups each minute, so there is a time between wake-ups; `MaxTime` of ten
  minutes is more wake-ups than a step can be refused for at the lowest rate; a pass takes no time, so that `RateWithinDelay`
  says nothing of one that outlasts its wake-up interval; `MaxStreak` only saturates a history counter above that bound.
* `readers`: readings -1, 0, 1: the driver's two failure values, and one that is a number.
* `poll_plan`: intervals 0 (default), 5 (below the minimum of 10), 20 and 45 (neither
  divides the other); `Word = 4096`, `IntMax = 2047` so that the products of three fit, pass `IntMax`, or wrap.
* `loop_safety`: `Tick` of 5 seconds against intervals of 10 to 30; `MaxBusy = 3` ticks lets work run past one due time of every interval and two of the shortest; `MaxTime` of 60 seconds is two of the longest intervals.
* `signal_flags` has no bound: `late` saturates at 2 and the property allows 1.
* `rom_search` has no bound on time: ROMs of two family bits, two serial bits and two check bits; three couplers against a list that
  holds two (`MaxDevices = 3`), so that it may be full, and one device of each of two other families; every set of them may be on the bus. The proofs hold for ROMs of any length.
* `plugins`: one library of each kind and one that cannot be opened; files with SQLite for everything, files beside MySQL, ODBC beside a report-only SQLite,
  MongoDB for everything, devices in MongoDB and the log elsewhere, a report library without `w1_report`, and four lines against `MAXDLL = 4`, one too many.
  `MaxRounds = 2` passes and messages between two loads are enough for a transaction that stays open to meet the next pass, and for a statement or connection that failed in
  the first to be met again. `MaxRefused = 2` rows that a database refuses of itself make every part of a pass of two readings; what other programs and lost sessions keep out is not bounded by it.
  Only the databases of the configuration in force are disturbed: no other is written to (`OwnDatabase`, for any disturbance, is proved). What was stored is forgotten when a
  pass begins, which the properties allow: they speak of what one pass adds, and of transactions, which are kept. `plugins_two` has the one file of its question.
* `pg_logger` has no bound either: two sensors share the table `readings`, one has a table of its own, messages go to a third;
  `lost` saturates at 2 and the property allows 1.

Deadlock is checked in `coupler_*`, `poll_plan`, `signal_flags`, `rom_search`, `plugins*` and `pg_logger`. `sensor_checks`, `readers*`
and `loop_safety` end at the bound of their clock, and the program itself ends with
`--once` or when the interface cannot be acquired.

### Fairness

* `CouplerBus`: weak fairness of the steps of a pass (the program runs on); strong fairness, per device, of starting a
  pass in which it is due: its interval divides infinitely many wake-up times. Reloads and losses are not fair; losses are bounded, which is what "once commands are no longer lost" in `Resync` means.
* `SignalFlags`: weak fairness of the main thread (`Main`) and of the end of a sleep that nothing interrupts (`Wake`). Handlers need none:
  no property is about them returning, and `EveryRequestServed` is stated for builds with one-instruction updates.
* `RomSearch`: weak fairness of the program's steps (`Program`): it is never kept from the next command. Nothing is asked of the bus; `SearchEnds` has the
  premise that devices do not go on leaving for ever, without which it fails: a device that leaves and comes back at the right moments leads the search round and round.
* `PgLogger`: weak fairness of the steps of a call (the program runs on, and libpq's requests return) and of calls
  with readings (passes recur, see `MainLoop`). Nothing is asked of the server: that it stays is the premise of `Recovers`.

## 4. What is proved

TLAPS checks the proof modules for every value of the constants that satisfies the
assumptions named in the component's module.

`CouplerBus_proofs` (any couplers, devices, configurations, retries and losses; from
`CouplerAssumption`). The invariant `IInv` is `TypeOK`, `MemoryIsTrue` and three conjuncts:
*`AtMostOneRemembered`*: at most one coupler is remembered as connecting a branch;
*`Progress`*: by position in the pass, a coupler the switch-off loop has left is remembered off, the
own branch is remembered connected from the search on, and from the second attempt on nothing is left to send; *`ForgottenOff`*: a coupler this process has driven whose state is not remembered (reloaded or dropped) is off. None of the
properties is inductive alone: that two branches are never powered follows from what is *remembered*
plus the memory being true, and that a reload may forget from the bus being quiet where it happens.
Theorems: `TypeCorrect`, `OneBranch`, `ReadsAreAlone`, `BusIsQuiet`, `MemoryTrue`,
`RetriesAreSilent`, `Implements`. For `RetriesAreSilent`, `Progress` says that from the second attempt on all
wanted lines are remembered. `Implements` maps each step to a step of `BranchBus` or a stutter.

`SensorCheck_proofs` (any readings, limits, delay, retries; from `SensorAssumption`). `IInv` is `TypeOK`,
`MemoryInRange`, `ValidIsCurrent` and: *`SameInterval`*: while the clock is not set it is in the wake-up interval of the log
time, and a remembered reading was taken in that of its own log time; *`TimeRuns`*: the memory is not newer than the log time nor the log time than the clock, when the clock is not set; *`MemoryIsRead`*: what is remembered was read by
the hardware; *`Refusals`*: `n` refused wake-ups mean `n - 1` delays since the last accepted reading, or fewer. The last is what bounds the lockout: a
reading that is still refused after that time is further away than two readings can be. For `RateWithinDelay` the code bounds the change by the time between two log times; `SameInterval` says that
each reading was taken less than a delay after its own. Theorems: `TypeCorrect`,
`MemoryStaysInRange`, `ValidReadingsAreCurrent`, `LockoutIsBounded`, `GaugesNeverCountDown`, `RateIsWithinDelay`, and `ImplementsLastGood`: a
judgement that accepts is a step `Accept` of `LastGood`, one that refuses and the start of a SIGUSR1 pass are `Refuse`, a wake-up is `BeginPass`, a reload
`Load`; an attempt without an answer is a stutter. It is stated by no run of the list (`KeepsLastGood` of `SensorCheck` can be added to the properties of `SensorCheck_checks.cfg`, and holds there).

`SignalFlags_proofs` (any number of signals, both kinds of build, no assumption). `IInv` adds to the
properties what the values in flight are worth. *`LoadsAreOwed`*: what main or a handler has loaded was asked
for, so storing it invents nothing. *`LoadsAreComplete`*: a request nobody raced with is in every loaded value, or
its handler is at or below that one on the stack; this is why the stores, in whatever order they come, keep it.
*`HeldAhead`* and *`LateAhead`* say where main is when such a request is still open: before its flag, unless it is tardy or has just interrupted the sleep.
Theorems: `TypeCorrect`, `NothingUnasked`, `NothingLost`, `Prompt`, `OnlyTardyRequestsWait`, and `AtomicLosesNothing`, which no run
states: a build with one-instruction updates never loses a signal.

`PgLogger_proofs` (any sensors, any tables; from `LoggerAssumption`). `IInv` adds: *`Known`*: a live session is never taken for a
bad one, so within one session every request of a call arrives; *`Transaction`*: as long as inserts are sent over a session there is a
transaction, which holds what was sent or nothing; *`Made`*: what the logger takes for prepared is prepared, except for want of a table;
*`AfterLoss`*: after a steady call that stored nothing the connection is known to be bad (or closed), and the next steady call has a
session from `db_status` on; with *`Unsent`*, *`NothingYet`*, *`Steady`* on the positions in a call. `AllOrNothing` is not inductive alone: that an insert never
goes through outside a transaction rests on `begin` having failed only with the session. Theorems: `TypeCorrect`, `WholePasses`, `TransactionsEnd`, `LossIsBounded`.

`RomSearch_proofs` (any set of ROMs of any length with two check bits, any family, any number of retries and couplers; from `RomAssumption`). The invariant says that a device
which was on the bus all the time and has not been reported is `Ahead` of the search: the next walk starts from the first ROM, or from the first of the device's family, or
branches off from a device that is still there, at a place no earlier than where the wanted device takes a 1 and it a 0. A walk cannot pass such a device by: where the ROM it
reaches first differs from it, the device has the 1, so the place is noted. Conversely (`Forward`) every device reported is the one found last or comes before it in
the order of the search (`Before`), and the next walk goes on from there, which is why none is reported twice. The check bits are needed at one place: the serial driver refuses to branch at the last bit but one, which two devices that
agree before it would require. Theorems: `TypeCorrect`, `ListsAreExact`, `SelectionIsKept` (each step of `RomSearch` is a step of `Selection` or a stutter).

`Plugins_proofs` (any configuration files, libraries, databases, sensors; from `LoggersAssumption` and `PluginsAssumption`). The invariant `Held` is types and: *`StaticsHeld`*: static
variables that are not `Fresh` belong to a library that a line in force names, lead to a database such a line names and hold rows of such lines; *`Unloaded`*: before a load and after the end all are `Fresh`;
*`CallHeld`*: a call is one of a line in force, and past its opening it is in a transaction if its library has them, or the database undid it (`Undoing`). From it a reload, which unloads the libraries in force, unloads everything:
`RowsAreAtHome`, `ReloadLeaksOnlyThese`, `NoStatementAfterCleanup`. `QuietSoFar` adds where the rows of a call that nothing disturbs are, `Wholes` that every pass is whole but for refused rows (`Settled`) in each
database and in each transaction but the one being written, which has all that is neither refused nor still to be inserted, or nothing once its session is gone: `QuietCallsStore`, `OnlyRefusedRowsAreMissing`. The
last says that neither a kill nor an outage nor another program's lock leaves a part of a pass in MySQL or SQLite; it excepts ODBC and the files, which take row by row.

`MainLoop_proofs` (any finite set of devices, any delays and tables in the configuration files, any word size; from `WordAssumption`,
`PlanAssumption`, `LoopAssumption`) is in three parts.

*`Intervals`.* `w1_gcd` folds Euclid's algorithm, a recursive function, over the array; the products are folds too. The library's induction
theorems cannot be used, so each induction is by the least counterexample: a set of naturals that is not empty has a least element
(`LeastNumber`), and the least one that breaks the claim leads to a smaller one. A recursive function is only its defining `CHOOSE`;
that a function with that recursion exists is proved first, by building its values up to each bound (`FoldExists` and the lemmas on `Euclid`).
From it `EuclidIsGcd` (the result divides both numbers, and whatever divides both divides it), `HighestFactor` (the same of `w1_gcd` over the
array) and `CycleOf`: the product is a common multiple, so the search of `w1_lcm` finds the lowest one when the product fits.

*`PollPlan`.* `PlanInv` says that `plan` came out of `Plans` for the table in force and some positive delay, that of the file if it names one and `-t` was not
given. Positive is what a reload needs that starts from the delay of the last plan; the second half is what makes a reload of the same file harmless, although the verification
has overwritten the delay in between. Theorems: `PlanInvariant`, `PlanTypes`, `PlanRight`, `PlanNearWanted`, `PlanKept`.

*`MainLoop`.* `LoopPlans` maps each step to a start, a reload or a stutter of `PollPlan`, which carries the theorems over. `LoopInv` is `TypeOK`,
`PlanInv`, *`SleepInv`* (a sleep aims at the first multiple of the delay after the clock when it was armed) and *`CountInv`*: no device is more due times behind than main was busy at, but for
one that is `Owed`, because the sleep has just reached it or the pass at it is about to begin. That every due time is a wake-up time (`PlanRight`) is what this rests on. `AgeBounded` follows by
division, and is not inductive alone: it says nothing while main is awake. `LogTimeInv` says that
the log time is past and that a sleep ends after it: a sleep is armed after `logtime` was taken, to end after the clock of then, and time is taken only when it has ended, so that
no wake-up files its readings under a log time that was used (`LogTimesAreNew`), although a SIGUSR1 pass and a reload come in between and take none.
Theorems: `LoopTypes`, `LoopAges`, `LogTimesAreNew`, `LoopLogs`. `LoopLogs` is `TmpComplete` under a
condition, that the product of the intervals never passes `IntMax` (`ProductFits`): beyond it the cycle may be -1, of which every time is a multiple, and the file is written from partial
passes (section 5). That is what the code does, so no theorem without it can hold; in `loop_safety` the products fit. `CycleIsOfAll`
says the same of `PollPlan`: under the condition, `CycleReadsAll` (section 5) holds for every table.

`Readers_proofs` (any devices, sensors, limits, any numbers of the hardware, any number of retries; from `ReadersAssumption`). For a judgement and a row of them: `OneJudged`,
`CountedIs` (the count is 0 exactly when none of the judged sensors is valid). For each reader what it leaves (`Outcome`): types, a count that tells
the truth, and what its valid sensors rest on; `ReadIs` joins them over the switch of `w1_read_all_sensors`. The hard case is the DS2438 humidity sensor: `w1_read_humidity` judges the
temperature a second time, and the count stays true only because a reading accepted once is accepted again at the same log time (`JudgedAgain`).
The invariant adds to the properties *`Retried`* (the HIH's aside, a reader is called again only when nothing is valid: a DS18x20 and the barometer do not clear their sensors first, and would else
return old readings as new) and *`SetUpReady`* (`init = 2` means set up since the barometer was last missing). Theorems: `ReaderTypes`, `ReportsTrue`, `ReadingsRead`, `BarometerSetUp`.
That the readers implement `LastGood` needs more of each reader (`MayBe`, `Kept`): an attempt leaves the record of a sensor as it was,
or with nothing valid and the same memory, or with a reading remembered that is good against the *old* record. A temperature that the humidity reader judges again
after it was accepted is the hard case again: it is good against the record between the two judgements, and must be so against the one before both. From the refinement
alone follows `ReadingsAreGood`: what any reader leaves valid is within the limits and of this log time. `ReadersImplementLastGood` speaks of
all sensors of the device at once, `EachSensorIsLastGood` of one.
`ReadersAssumption` has one thing the code takes for granted and does not test: the first two sensors of an HIH, which `w1_read_hih` withdraws by position
(`w->s[0]`, `w->s[1]`, 730-734), are its temperature and its humidity. With one sensor the code would read past the array.

Only model-checked: `Resync`, `SearchEnds`, `EveryRequestServed` and `Recovers` (liveness under fairness is out of
the prover's reach).

## 5. Where code and documents differ

Three findings have a run and are in `PROJECT.json`. Three more can be reproduced with definitions of the modules, by adding them to the cfg named:

* `RateAlways` (`SensorCheck`, in `SensorCheck_checks.cfg`): the rate is taken over log times, so the readings of one interval (SIGUSR1) are not limited against each other at all, and one taken late in an
  interval counts as taken at its start (`w1sensors.c` 181-188, `w1retap.c` 611); `RateWithinDelay` is what is left of the limit;
* `DefaultDelayUsed` (`PollPlan`, in `PollPlan_plan.cfg`): after a reload of a file without `delay =` the old wake-up value is taken for the default delay;
* `CycleReadsAll` (`PollPlan`, with `Word = 512`, so that three equal intervals wrap to 0 as eleven of 120 seconds do with 32 bits): the cycle becomes -1, and the `/tmp` file is written at passes that read only some sensors.

Noticed while modelling, without a run:

* with `-R` the interface is released after passes at wake-ups only: after a reload, a SIGUSR1 pass, or under `--wait` it stays acquired until the next (`w1retap.c` 591, 613, 624);
* SIGUSR1 writes the `/tmp` file also when `logtmp` is off (`w1retap.c` 614); its readings never go to the loggers, but are remembered for the rate check;
* the option `-T` sets the value `logtmp` already has (`w1retap.c` 429, 465);
* intervals of 15 and 20 seconds are rounded to 15 and 15, while the manual explains a common factor of the intervals as given;
* the humidity reader validates the temperature and humidity it made of failed channels (`w1sensors.c` 667, 673); the HIH reader counts a humidity it then withdraws (730-734);
* a real temperature of -1 degrees on a DS2438 is taken for a failure (`w1sensors.c` 433);
* the calibration of the AAG barometer reads `values[2]` when two values are given (`w1sensors.c`, `w1_read_bray`);
* PostgreSQL: a statement prepared while its table was missing counts as prepared until the connection is lost or closed (`w1pgsql.c` 316), and every pass until then is lost; `LossBounded` and `Recovers` say so (`spoilt`);
* PostgreSQL: when the table of one `>` sensor is missing all readings of every pass are lost (`w1pgsql.c` 382-420); `ChangeLog` describes such sensors as independent of the table `readings`;
* `w1_report` writes in spite of `/tmp/.w1retap.lock`, which stops `w1_logger` (`w1pgsql.c` 306, 425);
* a configuration file named by `W1RCFILE` is forgotten at the first SIGHUP (`w1retap.c` 267), while the manual offers the variable without that restriction; from then on the default file is read;
* MySQL: the connection is opened once and never again; after a failed open the null connection is used, which ends the program (`w1mysql.c` 80, 260);
* SQLite: a commit that fails because another program reads the file leaves the transaction open with its lock, and the next `begin` fails (`w1sqlite.c` 388): that pass is stored with a later one;
* MySQL and SQLite do not look at the result of an insert beyond logging it, and commit the rest (`w1mysql.c` 376, `w1sqlite.c` 358); when the database rolled the transaction back the rows before are lost and those after stored;
* ODBC commits each reading for itself, and the file loggers write line by line (`w1file.c` 114-160), so that a kill leaves a part of a pass; ODBC's cleanup frees the handle of a connection it did not disconnect, and each SIGHUP leaves a session behind (`w1odbc.c` 222);
* a library that only `rep=` lines name is not cleaned up at a reload (`w1util.c` 308), and its session stays;
* after the last device the USB driver takes the next place to branch off from a part of its buffer that the adapter did not send (`libusbnet.c` 255); only `LastDevice` keeps it from being used;
* two TAI8570 barometers share static calibration (`pressure.c` 58-68), and `ReadPressureValues` never reports failure.

## 6. Not modelled, and why

* Device table and configuration file: parsing of strings, run once per load. What they
  produce is a constant of the modules. `PollPlan` has the one setting that survives a reload, `Plugins` the lines for libraries.
* Of the loggers: `w1_init` beyond whether it connects (one query per table at load), the text of the statements, the parsing of the connection parameters, `json` columns of the libraries
  in `Loggers` (one document per pass, which cannot be halved), MongoDB with replica sets or automatic reconnection, and the locks that a leaked SQLite connection may hold.
  A reader of a SQLite file blocks every commit of a transaction with rows, and a writer every insert, which is more than SQLite's locks forbid; properties that hold here hold with fewer failures.
* File loggers: formatting, pipes, names made from the date. A call appends its readings line by line to the file its line names; a buffer that is flushed later leaves, at a kill, a shorter part of the same lines.
* `/tmp` file contents, listing: formatting. When the `/tmp` file is written, and of which devices, is in `MainLoop`.
* Drivers, USB and CRC code: third-party; modelled by what the callers see, except for the search. The busy-waiting and the wrong-channel
  repetition of `atod26.c` and the shared state of `pressure.c` are listed as hazards. Most of `libusblinux300/` (thermochrons, memory banks, file system, cryptographic chips, sample programs) is a library kit that w1retap never calls.
* `daemon()`, the pid file, `--version`, `-N`: start-up paths that keep no state.
* Applets and other programs under `contrib/`: separate programs that read the database or the `/tmp` file.
* A `delay` of 0 and an empty device table: `w1_verify_intervals` divides by zero on the one and reads
  an empty array on the other; both are one step from the input, listed as hazards, and kept out by the assumptions. `Plugins` ends the program when no devices were found.

## 7. Plan

Done, in this order: `CouplerBus` with `BranchBus` and proofs; `Validate`, `SensorCheck`
and proofs; `Intervals`, `PollPlan`; `SignalFlags` and proofs; `MainLoop`; `Readers`; `PgLogger` and proofs;
`RomSearch` with `Selection` and proofs; `Loggers`, `Plugins` and proofs; the proofs about `Intervals`, `PollPlan`, `MainLoop` and about `Readers`; `LastGood` with the proofs that `SensorCheck` and
`Readers` implement it.

Of the properties the passing runs check, only the four about liveness are not proved. What could be added to the model next:

1. `Readers` with two barometers (shared static state).
2. `DeviceTable`: pairing of `ratelimit` rows with sensors, and the coupler rows.
