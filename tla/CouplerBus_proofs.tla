-------------------------- MODULE CouplerBus_proofs --------------------------
(***************************************************************************)
(* Proofs about CouplerBus for every number of couplers and devices, every *)
(* set of configurations, every number of retries and of lost commands.    *)
(***************************************************************************)
EXTENDS CouplerBus, TLAPS

\* What holds at every control point of a pass: the memory is true of the
\* couplers that obeyed; at most one coupler is remembered as connecting a
\* branch; and the switch-off loops have done their part of the table.
MemoryOff(S) == \A c \in S : cached[c] = COUPLER_ALL_OFF

OwnConnected ==
    Own(dev) # None => cached[Own(dev).coupler] = Own(dev).branch

Selected == MemoryOff(OthersOf(dev)) /\ OwnConnected

AtMostOneRemembered ==
    \A c1, c2 \in config.table :
        cached[c1] \in Branches /\ cached[c2] \in Branches => c1 = c2

Progress ==
    /\ pc \notin {"off", "alloff"} => todo = {}
    /\ pc = "idle" => \A c \in config.table :
                         cached[c] \in {COUPLER_ALL_OFF, COUPLER_UNDEFINED}
    /\ pc = "alloff" => MemoryOff(config.table \ todo)
    /\ pc = "off" => MemoryOff(OthersOf(dev) \ todo) /\ todo \subseteq OthersOf(dev)
    /\ pc \in {"search", "read"} => Selected
    /\ pc = "read" => Reachable(dev)
    /\ attempt > 0 => pc \in {"off", "search", "read"} /\ Selected

\* A coupler without a remembered state (new, reloaded or dropped) that this
\* process has driven was left off.
ForgottenOff ==
    \A c \in driven \ missed :
        c \notin config.table \/ cached[c] = COUPLER_UNDEFINED
            => hw[c] = COUPLER_ALL_OFF

IInv ==
    /\ TypeOK
    /\ MemoryIsTrue
    /\ AtMostOneRemembered
    /\ Progress
    /\ ForgottenOff
-----------------------------------------------------------------------------
\* The wiring of a device is None or a branch of a coupler of the table
\* (w1_initialize_couplers takes coupler_device from the table itself).
LEMMA OwnInTable ==
    ASSUME TypeOK, NEW d \in Devices
    PROVE  /\ config.table \subseteq Couplers
           /\ Own(d) # None => /\ Own(d).coupler \in config.table
                              /\ Own(d).branch \in Branches
           /\ OthersOf(d) \subseteq config.table
<1>1. config \in Config /\ config \in Configs
  BY CouplerAssumption DEF TypeOK
<1>2. Own(d) \in [coupler : Couplers, branch : Branches] \union {None}
  BY <1>1 DEF Own, Config
<1>3. Own(d) # None => Own(d).coupler \in config.table
  BY <1>1, CouplerAssumption DEF Own
<1>4. QED
  BY <1>1, <1>2, <1>3 DEF Config, OthersOf

\* What w1_set_coupler does to the memory, the lines and the histories, sent
\* or skipped, obeyed or lost.
LEMMA SetCouplerEffect ==
    ASSUME TypeOK, MemoryIsTrue,
           NEW c \in config.table, NEW lines \in Lines,
           config.table \subseteq Couplers,
           SetCoupler(c, lines)
    PROVE  /\ hw' \in [Couplers -> Lines]
           /\ cached' = [cached EXCEPT ![c] = lines]
           /\ faults' \in 0 .. MaxFaults
           /\ missed' \subseteq driven'
           /\ driven' \subseteq Couplers
           /\ c \notin missed' => hw'[c] = lines
           /\ \A x \in Couplers \ {c} :
                 /\ hw'[x] = hw[x]
                 /\ x \in missed' <=> x \in missed
                 /\ x \in driven' <=> x \in driven
<1> USE CouplerAssumption
<1>1. CASE cached[c] # lines
  <2>1. SetSwitch1F(c, lines) /\ cached' = [cached EXCEPT ![c] = lines]
    BY <1>1 DEF SetCoupler
  <2>2. CASE /\ hw' = [hw EXCEPT ![c] = lines]
             /\ missed' = missed \ {c}
             /\ UNCHANGED faults
    BY <2>1, <2>2 DEF SetSwitch1F, TypeOK
  <2>3. CASE /\ faults < MaxFaults
             /\ faults' = faults + 1
             /\ missed' = missed \union {c}
             /\ UNCHANGED hw
    BY <2>1, <2>3 DEF SetSwitch1F, TypeOK
  <2>4. QED
    BY <2>1, <2>2, <2>3 DEF SetSwitch1F
<1>2. CASE cached[c] = lines
  <2>1. UNCHANGED bus
    BY <1>2 DEF SetCoupler
  <2>2. cached = [cached EXCEPT ![c] = lines]
    BY <1>2 DEF TypeOK
  <2>3. lines # COUPLER_UNDEFINED
    BY DEF Lines, Branches, COUPLER_ALL_OFF, COUPLER_AUX_ON, COUPLER_MAIN_ON,
           COUPLER_UNDEFINED
  <2>4. c \notin missed => hw[c] = lines
    BY <1>2, <2>3 DEF MemoryIsTrue
  <2>5. QED
    BY <2>1, <2>2, <2>4 DEF bus, TypeOK
<1>3. QED
  BY <1>1, <1>2

-----------------------------------------------------------------------------
LEMMA InitInductive == Init => IInv
<1> SUFFICES ASSUME Init PROVE IInv
  OBVIOUS
<1> USE CouplerAssumption DEF Init
<1>1. TypeOK
  BY DEF TypeOK, Config, Lines
<1>2. MemoryIsTrue
  BY DEF MemoryIsTrue, Config
<1>3. AtMostOneRemembered
  BY DEF AtMostOneRemembered, Config, Branches, COUPLER_AUX_ON,
         COUPLER_MAIN_ON, COUPLER_UNDEFINED
<1>4. Progress
  BY DEF Progress, MemoryOff
<1>5. ForgottenOff
  BY DEF ForgottenOff
<1>6. QED
  BY <1>1, <1>2, <1>3, <1>4, <1>5 DEF IInv
-----------------------------------------------------------------------------
\* Steps that send no command leave the three facts about memory and lines.
LEMMA BusUnchanged ==
    ASSUME IInv, UNCHANGED <<config, bus>>
    PROVE  MemoryIsTrue' /\ AtMostOneRemembered' /\ ForgottenOff'
  BY DEF IInv, bus, MemoryIsTrue, AtMostOneRemembered, ForgottenOff

LEMMA StartPassInductive ==
    ASSUME IInv, NEW due \in SUBSET Devices, StartPass(due) PROVE IInv'
<1> USE CouplerAssumption DEF StartPass
<1>1. TypeOK'
  BY DEF IInv, TypeOK, bus
<1>2. Progress'
  BY DEF IInv, Progress, Selected, MemoryOff, OwnConnected, OthersOf, Own, bus
<1>3. QED
  BY <1>1, <1>2, BusUnchanged DEF IInv

LEMMA NextDeviceInductive ==
    ASSUME IInv, NEW d \in Devices, NextDevice(d) PROVE IInv'
<1> USE CouplerAssumption DEF NextDevice
<1>1. OthersOf(d) \subseteq config.table /\ dev' = d /\ dev' # None
  BY OwnInTable DEF IInv
<1>2. TypeOK'
  BY <1>1 DEF IInv, TypeOK, bus
<1>3. OthersOf(dev)' = OthersOf(d)
  BY DEF OthersOf, Own
<1>4. Progress'
  BY <1>3 DEF Progress, MemoryOff
<1>5. QED
  BY <1>2, <1>4, BusUnchanged DEF IInv

LEMMA FoundInductive ==
    ASSUME IInv, Found PROVE IInv'
<1> USE CouplerAssumption DEF Found
<1>1. TypeOK'
  BY DEF IInv, TypeOK, bus
<1>2. Progress'
  BY DEF IInv, Progress, Selected, MemoryOff, OwnConnected, OthersOf, Own,
         Reachable, bus
<1>3. QED
  BY <1>1, <1>2, BusUnchanged DEF IInv

\* The reader returned 0, whether the search or the sampling failed.
LEMMA FailedInductive ==
    ASSUME IInv, pc \in {"search", "read"}, Failed, UNCHANGED <<config, rest, bus>>
    PROVE  IInv'
<1> USE CouplerAssumption
<1>1. dev \in Devices /\ Selected /\ todo = {}
  BY DEF IInv, TypeOK, Progress
<1>2. OthersOf(dev) \subseteq config.table
  BY <1>1, OwnInTable DEF IInv
<1>3. CASE attempt + 1 < MaxRetry
  <2>1. attempt' = attempt + 1 /\ todo' = OthersOf(dev) /\ pc' = "off" /\ dev' = dev
    BY <1>3 DEF Failed
  <2>2. TypeOK'
    BY <1>1, <1>2, <1>3, <2>1 DEF IInv, TypeOK, bus
  <2>3. OthersOf(dev)' = OthersOf(dev) /\ Selected'
    BY <1>1, <2>1 DEF Selected, MemoryOff, OwnConnected, OthersOf, Own, bus
  <2>4. Progress'
    BY <2>1, <2>3 DEF Progress, MemoryOff, Selected
  <2>5. QED
    BY <2>2, <2>4, BusUnchanged DEF IInv
<1>4. CASE ~(attempt + 1 < MaxRetry)
  <2>1. attempt' = 0 /\ todo' = {} /\ pc' = "next" /\ dev' = None
    BY <1>1, <1>4 DEF Failed
  <2>2. TypeOK'
    BY <2>1 DEF IInv, TypeOK, bus
  <2>3. Progress'
    BY <2>1 DEF Progress
  <2>4. QED
    BY <2>2, <2>3, BusUnchanged DEF IInv
<1>5. QED
  BY <1>3, <1>4

LEMMA ReadSucceedsInductive ==
    ASSUME IInv, ReadSucceeds PROVE IInv'
<1> USE CouplerAssumption DEF ReadSucceeds
<1>1. TypeOK'
  BY DEF IInv, TypeOK, bus
<1>2. Progress'
  BY DEF IInv, Progress
<1>3. QED
  BY <1>1, <1>2, BusUnchanged DEF IInv

LEMMA EndPassInductive ==
    ASSUME IInv, EndPass PROVE IInv'
<1> USE CouplerAssumption DEF EndPass
<1>1. TypeOK'
  BY DEF IInv, TypeOK, bus
<1>2. Progress'
  BY DEF IInv, Progress, MemoryOff
<1>3. QED
  BY <1>1, <1>2, BusUnchanged DEF IInv

LEMMA AllOffDoneInductive ==
    ASSUME IInv, AllOffDone PROVE IInv'
<1> USE CouplerAssumption DEF AllOffDone
<1>1. TypeOK'
  BY DEF IInv, TypeOK, bus
<1>2. Progress'
  BY DEF IInv, Progress, MemoryOff, bus
<1>3. QED
  BY <1>1, <1>2, BusUnchanged DEF IInv
-----------------------------------------------------------------------------
\* A switch-off of a coupler of the table keeps the three facts.
LEMMA SwitchOffKeeps ==
    ASSUME IInv, NEW c \in config.table, UNCHANGED config,
           SetCoupler(c, COUPLER_ALL_OFF)
    PROVE  MemoryIsTrue' /\ AtMostOneRemembered' /\ ForgottenOff'
<1>1. config.table \subseteq Couplers /\ COUPLER_ALL_OFF \in Lines
      /\ cached \in [Couplers -> Lines \union {COUPLER_UNDEFINED}]
  BY CouplerAssumption DEF IInv, TypeOK, Config, Lines
<1>2. /\ cached' = [cached EXCEPT ![c] = COUPLER_ALL_OFF]
      /\ driven' \subseteq Couplers
      /\ c \notin missed' => hw'[c] = COUPLER_ALL_OFF
      /\ \A x \in Couplers \ {c} : /\ hw'[x] = hw[x]
                                   /\ x \in missed' <=> x \in missed
                                   /\ x \in driven' <=> x \in driven
  BY <1>1, SetCouplerEffect DEF IInv
<1>3. COUPLER_ALL_OFF \notin Branches /\ COUPLER_ALL_OFF # COUPLER_UNDEFINED
  BY DEF Branches, COUPLER_ALL_OFF, COUPLER_AUX_ON, COUPLER_MAIN_ON,
         COUPLER_UNDEFINED
<1>4. MemoryIsTrue'
  BY <1>1, <1>2 DEF IInv, MemoryIsTrue
<1>5. AtMostOneRemembered'
  BY <1>1, <1>2, <1>3 DEF IInv, AtMostOneRemembered
<1>6. ForgottenOff'
  BY <1>1, <1>2, <1>3 DEF IInv, ForgottenOff
<1>7. QED
  BY <1>4, <1>5, <1>6

LEMMA DisconnectOtherInductive ==
    ASSUME IInv, NEW c \in Couplers, DisconnectOther(c) PROVE IInv'
<1> USE CouplerAssumption DEF DisconnectOther
<1>1. /\ c \in config.table
      /\ c \in OthersOf(dev)
      /\ config.table \subseteq Couplers
      /\ OthersOf(dev) \subseteq config.table
      /\ COUPLER_ALL_OFF \in Lines
      /\ cached \in [Couplers -> Lines \union {COUPLER_UNDEFINED}]
  BY OwnInTable DEF IInv, TypeOK, Progress, Lines
<1>2. /\ hw' \in [Couplers -> Lines]
      /\ cached' = [cached EXCEPT ![c] = COUPLER_ALL_OFF]
      /\ faults' \in 0 .. MaxFaults
      /\ missed' \subseteq driven'
      /\ driven' \subseteq Couplers
  BY <1>1, SetCouplerEffect DEF IInv
<1>3. TypeOK'
  BY <1>1, <1>2 DEF IInv, TypeOK
<1>4. OthersOf(dev)' = OthersOf(dev)
  BY DEF OthersOf, Own
<1>5. attempt > 0 => Selected'
  <2>1. Own(dev) # None => cached'[Own(dev).coupler] = cached[Own(dev).coupler]
    BY <1>1, <1>2, OwnInTable DEF OthersOf, IInv, TypeOK
  <2>2. QED
    BY <1>1, <1>2, <1>4, <2>1 DEF IInv, Progress, Selected, MemoryOff,
                                  OwnConnected, Own
<1>6. Progress'
  BY <1>1, <1>2, <1>4, <1>5 DEF IInv, Progress, MemoryOff
<1>7. QED
  BY <1>1, <1>3, <1>6, SwitchOffKeeps DEF IInv

LEMMA AllOffInductive ==
    ASSUME IInv, NEW c \in Couplers, AllOff(c) PROVE IInv'
<1> USE CouplerAssumption DEF AllOff
<1>1. /\ c \in config.table
      /\ config.table \subseteq Couplers
      /\ COUPLER_ALL_OFF \in Lines
      /\ cached \in [Couplers -> Lines \union {COUPLER_UNDEFINED}]
  BY DEF IInv, TypeOK, Config, Lines
<1>2. /\ hw' \in [Couplers -> Lines]
      /\ cached' = [cached EXCEPT ![c] = COUPLER_ALL_OFF]
      /\ faults' \in 0 .. MaxFaults
      /\ missed' \subseteq driven'
      /\ driven' \subseteq Couplers
  BY <1>1, SetCouplerEffect DEF IInv
<1>3. TypeOK'
  BY <1>1, <1>2 DEF IInv, TypeOK
<1>4. Progress'
  BY <1>1, <1>2 DEF IInv, Progress, MemoryOff
<1>5. QED
  BY <1>1, <1>3, <1>4, SwitchOffKeeps DEF IInv

LEMMA ReloadInductive ==
    ASSUME IInv, NEW cf \in Configs, Reload(cf) PROVE IInv'
<1> USE CouplerAssumption DEF Reload
<1>1. cf.table \subseteq Couplers
  BY DEF Config
<1>2. TypeOK'
  BY <1>1 DEF IInv, TypeOK, Progress, Lines
<1>3. MemoryIsTrue'
  BY <1>1 DEF MemoryIsTrue
<1>4. AtMostOneRemembered'
  BY <1>1 DEF AtMostOneRemembered, Branches, COUPLER_AUX_ON, COUPLER_MAIN_ON,
              COUPLER_UNDEFINED
<1>5. Progress'
  BY <1>1 DEF IInv, Progress
<1>6. ForgottenOff'
  <2> SUFFICES ASSUME NEW c \in driven \ missed PROVE hw[c] = COUPLER_ALL_OFF
    BY DEF ForgottenOff
  <2>1. CASE c \in config.table /\ cached[c] # COUPLER_UNDEFINED
    BY <2>1 DEF IInv, Progress, MemoryIsTrue
  <2>2. CASE ~(c \in config.table /\ cached[c] # COUPLER_UNDEFINED)
    BY <2>2 DEF IInv, ForgottenOff
  <2>3. QED
    BY <2>1, <2>2
<1>7. QED
  BY <1>2, <1>3, <1>4, <1>5, <1>6 DEF IInv

\* The own branch is connected last: every other coupler of the table is then
\* remembered as off, so the memory still holds at most one connected branch.
LEMMA ConnectOwnInductive ==
    ASSUME IInv, ConnectOwn PROVE IInv'
<1> USE CouplerAssumption DEF ConnectOwn
<1>1. /\ dev \in Devices
      /\ MemoryOff(OthersOf(dev))
      /\ config.table \subseteq Couplers
      /\ cached \in [Couplers -> Lines \union {COUPLER_UNDEFINED}]
      /\ pc' = "search" /\ dev' = dev /\ config' = config
      /\ OthersOf(dev)' = OthersOf(dev)
      /\ Own(dev)' = Own(dev)
  BY DEF IInv, TypeOK, Progress, MemoryOff, Config, OthersOf, Own
<1>2. CASE Own(dev) = None
  <2>1. UNCHANGED bus
    BY <1>2
  <2>2. TypeOK'
    BY <1>1, <2>1 DEF IInv, TypeOK, bus
  <2>3. Progress'
    BY <1>1, <1>2, <2>1 DEF IInv, Progress, Selected, MemoryOff, OwnConnected, bus
  <2>4. QED
    BY <1>1, <2>1, <2>2, <2>3, BusUnchanged DEF IInv
<1>3. CASE Own(dev) # None
  <2> DEFINE o == Own(dev).coupler
             b == Own(dev).branch
  <2>1. o \in config.table /\ b \in Branches /\ b \in Lines
    BY <1>1, <1>3, OwnInTable DEF IInv, Lines
  <2>2. SetCoupler(o, b)
    BY <1>3
  <2> HIDE DEF o, b
  <2>3. /\ hw' \in [Couplers -> Lines]
        /\ cached' = [cached EXCEPT ![o] = b]
        /\ faults' \in 0 .. MaxFaults
        /\ missed' \subseteq driven'
        /\ driven' \subseteq Couplers
        /\ o \notin missed' => hw'[o] = b
        /\ \A x \in Couplers \ {o} : /\ hw'[x] = hw[x]
                                     /\ x \in missed' <=> x \in missed
                                     /\ x \in driven' <=> x \in driven
    BY <1>1, <2>1, <2>2, SetCouplerEffect DEF IInv
  <2>4. /\ COUPLER_ALL_OFF \notin Branches
        /\ COUPLER_UNDEFINED \notin Branches
    BY DEF Branches, COUPLER_ALL_OFF, COUPLER_AUX_ON, COUPLER_MAIN_ON,
           COUPLER_UNDEFINED
  <2>5. \A c \in config.table \ {o} : cached[c] = COUPLER_ALL_OFF
    BY <1>1, <1>3 DEF MemoryOff, OthersOf, o
  <2>6. TypeOK'
    BY <1>1, <2>1, <2>3 DEF IInv, TypeOK
  <2>7. MemoryIsTrue'
    BY <1>1, <2>1, <2>3 DEF IInv, MemoryIsTrue
  <2>8. AtMostOneRemembered'
    BY <1>1, <2>1, <2>3, <2>4, <2>5 DEF AtMostOneRemembered
  <2>9. Progress'
    <3>1. MemoryOff(OthersOf(dev))'
      <4>1. OthersOf(dev) = config.table \ {o}
        BY <1>3 DEF OthersOf, o
      <4>2. \A c \in config.table \ {o} : cached'[c] = cached[c]
        BY <1>1, <2>3
      <4>3. QED
        BY <1>1, <2>5, <4>1, <4>2 DEF MemoryOff
    <3>2. OwnConnected'
      BY <1>1, <2>1, <2>3 DEF OwnConnected, o, b
    <3>3. QED
      BY <1>1, <3>1, <3>2 DEF IInv, Progress, Selected
  <2>10. ForgottenOff'
    BY <1>1, <2>1, <2>3, <2>4 DEF IInv, ForgottenOff
  <2>11. QED
    BY <2>6, <2>7, <2>8, <2>9, <2>10 DEF IInv
<1>4. QED
  BY <1>2, <1>3

LEMMA StutterInductive ==
    ASSUME IInv, UNCHANGED vars PROVE IInv'
  BY DEF vars, IInv, TypeOK, MemoryIsTrue, AtMostOneRemembered, Progress,
         ForgottenOff, MemoryOff, Selected, OwnConnected, OthersOf, Own, Reachable

LEMMA NextInductive == IInv /\ [Next]_vars => IInv'
<1> SUFFICES ASSUME IInv, [Next]_vars PROVE IInv'
  OBVIOUS
<1>1. CASE PassStep
  <2>1. CASE \E d \in Devices : NextDevice(d)
    BY <2>1, NextDeviceInductive
  <2>2. CASE \E c \in Couplers : DisconnectOther(c) \/ AllOff(c)
    BY <2>2, DisconnectOtherInductive, AllOffInductive
  <2>3. CASE ConnectOwn
    BY <2>3, ConnectOwnInductive
  <2>4. CASE Found
    BY <2>4, FoundInductive
  <2>5. CASE NotFound \/ ReadFails
    BY <2>5, FailedInductive DEF NotFound, ReadFails
  <2>6. CASE ReadSucceeds
    BY <2>6, ReadSucceedsInductive
  <2>7. CASE EndPass
    BY <2>7, EndPassInductive
  <2>8. CASE AllOffDone
    BY <2>8, AllOffDoneInductive
  <2>9. QED
    BY <1>1, <2>1, <2>2, <2>3, <2>4, <2>5, <2>6, <2>7, <2>8 DEF PassStep
<1>2. CASE \E due \in SUBSET Devices : StartPass(due)
  BY <1>2, StartPassInductive
<1>3. CASE \E cf \in Configs : Reload(cf)
  BY <1>3, ReloadInductive
<1>4. CASE UNCHANGED vars
  BY <1>4, StutterInductive
<1>5. QED
  BY <1>1, <1>2, <1>3, <1>4 DEF Next

\* The strengthened invariant holds of every execution.
THEOREM Inductive == Spec => []IInv
  BY InitInductive, NextInductive, PTL DEF Spec

-----------------------------------------------------------------------------
\* Every variable keeps its type, for every table, route, retry and fault count.
THEOREM TypeCorrect == Spec => []TypeOK
<1>1. IInv => TypeOK
  BY DEF IInv
<1>2. QED
  BY <1>1, Inductive, PTL

LEMMA RememberedIfLive ==
    ASSUME IInv, NEW c \in Live \ missed
    PROVE  c \in config.table /\ cached[c] \in Branches
<1>1. c \in config.table /\ cached[c] = hw[c] /\ hw[c] # COUPLER_ALL_OFF
  BY DEF IInv, Live, MemoryIsTrue
<1>2. config.table \subseteq Couplers
  BY CouplerAssumption DEF IInv, TypeOK, Config
<1>3. QED
  BY <1>1, <1>2 DEF IInv, TypeOK, Lines

LEMMA OneBranchFromInv == IInv => OneBranchUnlessMissed
<1> SUFFICES ASSUME IInv, NEW c1 \in Live \ missed, NEW c2 \in Live \ missed
             PROVE  c1 = c2
  BY DEF OneBranchUnlessMissed
<1>1. QED
  BY RememberedIfLive DEF IInv, AtMostOneRemembered

\* w1_select_device: at most one branch is active at any one time, among the
\* couplers that obeyed their last command.
THEOREM OneBranch == Spec => []OneBranchUnlessMissed
  BY OneBranchFromInv, Inductive, PTL

LEMMA SampledAloneFromInv == IInv => SampledAlone
<1> SUFFICES ASSUME IInv, pc = "read" PROVE SampledAlone
  BY DEF SampledAlone
<1>1. Reachable(dev) /\ MemoryOff(OthersOf(dev)) /\ dev \in Devices
  BY DEF IInv, TypeOK, Progress, Selected
<1>2. OthersOf(dev) \subseteq config.table
  BY <1>1, OwnInTable DEF IInv
<1>3. COUPLER_ALL_OFF # COUPLER_UNDEFINED
  BY DEF COUPLER_ALL_OFF, COUPLER_UNDEFINED
<1>4. QED
  BY <1>1, <1>2, <1>3 DEF IInv, MemoryOff, MemoryIsTrue, SampledAlone, OthersOf

\* A reader samples its device with its own branch connected and, lost commands
\* apart, no other coupler's.
THEOREM ReadsAreAlone == Spec => []SampledAlone
  BY SampledAloneFromInv, Inductive, PTL

LEMMA QuietFromInv == IInv => QuietBetweenPasses
<1> SUFFICES ASSUME IInv, pc = "idle", NEW c \in driven \ missed
             PROVE  hw[c] = COUPLER_ALL_OFF
  BY DEF QuietBetweenPasses
<1>1. CASE c \in config.table /\ cached[c] # COUPLER_UNDEFINED
  BY <1>1 DEF IInv, Progress, MemoryIsTrue
<1>2. CASE ~(c \in config.table /\ cached[c] # COUPLER_UNDEFINED)
  BY <1>2 DEF IInv, ForgottenOff
<1>3. QED
  BY <1>1, <1>2

\* w1_all_couplers_off at the end of a pass leaves the bus in a known state, and
\* no reload of the configuration strands a powered branch.
THEOREM BusIsQuiet == Spec => []QuietBetweenPasses
  BY QuietFromInv, Inductive, PTL

\* Only a lost command makes the remembered lines of a coupler wrong.
THEOREM MemoryTrue == Spec => []MemoryIsTrue
<1>1. IInv => MemoryIsTrue
  BY DEF IInv
<1>2. QED
  BY <1>1, Inductive, PTL

-----------------------------------------------------------------------------
LEMMA RetryStep ==
    IInv /\ [Next]_vars => [attempt > 0 /\ pc = "off" => UNCHANGED bus]_vars
<1> SUFFICES ASSUME IInv, Next, attempt > 0, pc = "off" PROVE UNCHANGED bus
  OBVIOUS
<1>1. Selected /\ dev \in Devices
  BY DEF IInv, Progress, TypeOK
<1>2. (\E c \in Couplers : DisconnectOther(c)) \/ ConnectOwn
  BY DEF Next, PassStep, NextDevice, AllOff, Found, NotFound, ReadFails,
         ReadSucceeds, EndPass, AllOffDone, StartPass, Reload
<1>3. ASSUME NEW c \in Couplers, DisconnectOther(c) PROVE UNCHANGED bus
  <2>1. c \in OthersOf(dev) /\ SetCoupler(c, COUPLER_ALL_OFF)
    BY <1>3 DEF DisconnectOther, IInv, Progress
  <2>2. cached[c] = COUPLER_ALL_OFF
    BY <1>1, <2>1 DEF Selected, MemoryOff
  <2>3. QED
    BY <2>1, <2>2 DEF SetCoupler
<1>4. ASSUME ConnectOwn PROVE UNCHANGED bus
  BY <1>1, <1>4 DEF ConnectOwn, Selected, OwnConnected, SetCoupler
<1>5. QED
  BY <1>2, <1>3, <1>4

\* The retries of a device cannot repair its path: they send no command.
THEOREM RetriesAreSilent == Spec => RetrySendsNothing
  BY RetryStep, Inductive, PTL DEF Spec, RetrySendsNothing

-----------------------------------------------------------------------------
\* A coupler is in "missed" only after a command was lost.
NoFault == faults = 0 => missed = {}

LEMMA NoFaultStep == TypeOK /\ NoFault /\ [Next]_vars => NoFault'
<1> SUFFICES ASSUME TypeOK, NoFault, [Next]_vars PROVE NoFault'
  OBVIOUS
<1>1. ASSUME NEW c, NEW lines, SetCoupler(c, lines) PROVE NoFault'
  BY <1>1 DEF SetCoupler, SetSwitch1F, NoFault, TypeOK, bus
<1>2. UNCHANGED bus => NoFault'
  BY DEF bus, NoFault
<1>3. CASE \E c \in Couplers : DisconnectOther(c) \/ AllOff(c)
  BY <1>1, <1>3 DEF DisconnectOther, AllOff
<1>4. CASE ConnectOwn
  BY <1>1, <1>2, <1>4 DEF ConnectOwn
<1>5. CASE UNCHANGED <<faults, missed>>
  BY <1>5 DEF NoFault
<1>6. QED
  BY <1>3, <1>4, <1>5 DEF Next, PassStep, NextDevice, Found, NotFound, ReadFails,
     ReadSucceeds, EndPass, AllOffDone, StartPass, Reload, bus, vars

\* With no lost command the lines the memory calls connected are the connected
\* lines, so the abstract state can be read off the memory.
Remembered == {[coupler |-> c, branch |-> cached[c]] :
                   c \in {x \in config.table : cached[x] \in Branches}}

LEMMA LiveIsRemembered ==
    ASSUME IInv, missed = {} PROVE LiveLines = Remembered
<1>1. \A c \in config.table : /\ cached[c] \in {hw[c], COUPLER_UNDEFINED}
                              /\ hw[c] \in {COUPLER_ALL_OFF} \union Branches
                              /\ cached[c] \in Branches <=>
                                   /\ cached[c] # COUPLER_UNDEFINED
                                   /\ hw[c] # COUPLER_ALL_OFF
                              /\ cached[c] \in Branches => cached[c] = hw[c]
  <2>1. config.table \subseteq Couplers
    BY CouplerAssumption DEF IInv, TypeOK, Config
  <2>2. QED
    BY <2>1 DEF IInv, TypeOK, MemoryIsTrue, Lines, Branches, COUPLER_ALL_OFF,
                COUPLER_AUX_ON, COUPLER_MAIN_ON, COUPLER_UNDEFINED
<1>2. Live = {x \in config.table : cached[x] \in Branches}
  BY <1>1 DEF Live
<1>3. \A c \in Live : hw[c] = cached[c]
  BY <1>1, <1>2
<1>4. QED
  BY <1>2, <1>3 DEF LiveLines, Remembered

\* A switch-off is a Disconnect of the abstract bus, or nothing.
LEMMA SwitchOffImplements ==
    ASSUME IInv, NEW c \in config.table, UNCHANGED config,
           cached' = [cached EXCEPT ![c] = COUPLER_ALL_OFF]
    PROVE  Remembered' \in {Remembered, {}}
<1>1. /\ config.table \subseteq Couplers
      /\ cached \in [Couplers -> Lines \union {COUPLER_UNDEFINED}]
      /\ COUPLER_ALL_OFF \notin Branches
  BY CouplerAssumption DEF IInv, TypeOK, Config, Branches, COUPLER_ALL_OFF,
     COUPLER_AUX_ON, COUPLER_MAIN_ON
<1>2. /\ \A x \in config.table \ {c} : cached'[x] = cached[x]
      /\ cached'[c] \notin Branches
  BY <1>1
<1>3. CASE cached[c] \in Branches
  BY <1>2, <1>3 DEF IInv, AtMostOneRemembered, Remembered
<1>4. CASE cached[c] \notin Branches
  BY <1>2, <1>4 DEF Remembered
<1>5. QED
  BY <1>3, <1>4

\* At the end of the selection the abstract bus is where the device needs it.
LEMMA SelectedIsNeeded ==
    ASSUME IInv, dev \in Devices, MemoryOff(OthersOf(dev)), OwnConnected
    PROVE  Remembered = BB!Needs(dev)
<1>1. /\ Own(dev) # None => /\ Own(dev).coupler \in config.table
                            /\ Own(dev).branch \in Branches
                            /\ Own(dev) = [coupler |-> Own(dev).coupler,
                                           branch |-> Own(dev).branch]
  <2>1. config \in Config
    BY CouplerAssumption DEF IInv, TypeOK
  <2>2. Own(dev) \in [coupler : Couplers, branch : Branches] \union {None}
    BY <2>1 DEF Own, Config
  <2>3. QED
    BY <2>2, OwnInTable DEF IInv
<1>2. COUPLER_ALL_OFF \notin Branches
  BY DEF Branches, COUPLER_ALL_OFF, COUPLER_AUX_ON, COUPLER_MAIN_ON
<1>3. CASE Own(dev) = None
  <2>1. \A c \in config.table : cached[c] \notin Branches
    BY <1>2, <1>3 DEF MemoryOff, OthersOf
  <2>2. QED
    BY <1>3, <2>1 DEF Remembered, BB!Needs, Own
<1>4. CASE Own(dev) # None
  <2>1. {x \in config.table : cached[x] \in Branches} = {Own(dev).coupler}
    BY <1>1, <1>2, <1>4 DEF MemoryOff, OthersOf, OwnConnected
  <2>2. Remembered = {Own(dev)}
    BY <1>1, <1>4, <2>1 DEF Remembered, OwnConnected
  <2>3. QED
    BY <1>4, <2>2 DEF BB!Needs, Own
<1>5. QED
  BY <1>3, <1>4

LEMMA InitImplements == Init => BB!Init
<1> SUFFICES ASSUME Init PROVE BB!Init
  OBVIOUS
<1>1. config \in Configs /\ config.table \subseteq Couplers
  BY CouplerAssumption DEF Init, Config
<1>2. Live = {}
  BY <1>1 DEF Init, Live
<1>3. LiveLines = {}
  BY <1>2 DEF LiveLines
<1>4. QED
  BY <1>1, <1>3 DEF Init, BB!Init, Powered, Sampled

\* The step simulation: couplers that obey make every step of the pass a step of
\* the abstract bus or a stutter.
LEMMA StepImplements ==
    ASSUME IInv, Powered = Remembered, Powered' = Remembered',
           Sampled = (IF pc = "read" THEN dev ELSE None),
           Sampled' = (IF pc' = "read" THEN dev' ELSE None), Next
    PROVE  [BB!Next]_(BB!vars)
<1> USE CouplerAssumption
<1> DEFINE Sampling == IF pc = "read" THEN dev ELSE None
           Stay == /\ config.route' = config.route
                   /\ Remembered' = Remembered
                   /\ Sampling' = Sampling
<1>1. Stay => UNCHANGED BB!vars
  BY DEF BB!vars
<1>2. UNCHANGED <<config, cached>> => Remembered' = Remembered
  BY DEF Remembered
<1>3. ASSUME NEW c \in config.table, UNCHANGED <<config, pc, dev>>, pc # "read",
             cached' = [cached EXCEPT ![c] = COUPLER_ALL_OFF]
      PROVE  [BB!Next]_(BB!vars)
  <2>1. Remembered' \in {Remembered, {}}
    BY <1>3, SwitchOffImplements
  <2>2. CASE Remembered' = Remembered
    BY <1>1, <1>3, <2>2
  <2>3. CASE Remembered' = {}
    <3>1. BB!Disconnect
      BY <1>3, <2>3 DEF BB!Disconnect
    <3>2. QED
      BY <3>1 DEF BB!Next
  <2>4. QED
    BY <2>1, <2>2, <2>3
<1>4. ASSUME NEW c \in config.table, UNCHANGED <<config, pc, dev>>, pc # "read",
             SetCoupler(c, COUPLER_ALL_OFF)
      PROVE  [BB!Next]_(BB!vars)
  <2>1. cached' = [cached EXCEPT ![c] = COUPLER_ALL_OFF]
    BY <1>4, SetCouplerEffect DEF IInv, TypeOK, Config, Lines
  <2>2. QED
    BY <1>3, <1>4, <2>1
<1>5. CASE \E c \in Couplers : DisconnectOther(c) \/ AllOff(c)
  <2>1. PICK c \in Couplers : DisconnectOther(c) \/ AllOff(c)
    BY <1>5
  <2>2. c \in config.table /\ pc # "read" /\ UNCHANGED <<config, pc, dev>>
        /\ SetCoupler(c, COUPLER_ALL_OFF)
    BY <2>1 DEF DisconnectOther, AllOff, IInv, TypeOK
  <2>3. QED
    BY <1>4, <2>2
<1>6. CASE ConnectOwn
  <2>1. dev \in Devices /\ pc = "off" /\ pc' = "search" /\ dev' = dev
        /\ config' = config /\ MemoryOff(OthersOf(dev))
    BY <1>6 DEF ConnectOwn, IInv, TypeOK, Progress
  <2>2. CASE Own(dev) = None
    <3>1. UNCHANGED cached
      BY <1>6, <2>2 DEF ConnectOwn, bus
    <3>2. QED
      BY <1>1, <1>2, <2>1, <3>1
  <2>3. CASE Own(dev) # None
    <3> DEFINE o == Own(dev).coupler
               b == Own(dev).branch
    <3>1. o \in config.table /\ b \in Branches /\ b \in Lines
      BY <2>1, <2>3, OwnInTable DEF IInv, Lines
    <3>2. config.table \subseteq Couplers
      BY DEF IInv, TypeOK, Config
    <3>3. config.route[dev] = [coupler |-> o, branch |-> b]
          /\ config.route[dev] # None
      BY <2>1, <2>3 DEF Own, IInv, TypeOK, Config
    <3>4. SetCoupler(o, b)
      BY <1>6, <2>3 DEF ConnectOwn
    <3> HIDE DEF o, b
    <3>5. cached' = [cached EXCEPT ![o] = b]
      BY <3>1, <3>2, <3>4, SetCouplerEffect DEF IInv
    <3>6. \A c \in config.table \ {o} : cached[c] \notin Branches
      BY <2>1, <2>3 DEF MemoryOff, OthersOf, Branches, COUPLER_ALL_OFF,
                        COUPLER_AUX_ON, COUPLER_MAIN_ON, o
    <3>7. {x \in config.table : cached[x] \in Branches} \subseteq {o}
      BY <3>6
    <3>8. \A l \in Remembered : l.coupler = o
      BY <3>7 DEF Remembered
    <3>9. {x \in config.table : cached'[x] \in Branches} = {o} /\ cached'[o] = b
      BY <3>1, <3>2, <3>5, <3>6 DEF IInv, TypeOK
    <3>10. Remembered' = {[coupler |-> o, branch |-> b]}
      BY <2>1, <3>9 DEF Remembered
    <3>11. BB!Connect(config.route[dev])
      BY <2>1, <3>3, <3>8, <3>10 DEF BB!Connect
    <3>12. QED
      BY <2>1, <3>3, <3>11 DEF BB!Next
  <2>4. QED
    BY <2>2, <2>3
<1>7. CASE Found
  <2>1. dev \in Devices /\ MemoryOff(OthersOf(dev)) /\ OwnConnected
        /\ pc = "search" /\ pc' = "read" /\ UNCHANGED <<config, cached, dev>>
    BY <1>7 DEF Found, IInv, TypeOK, Progress, Selected, bus
  <2>2. BB!Sample(dev)
    BY <1>2, <2>1, SelectedIsNeeded DEF BB!Sample
  <2>3. QED
    BY <2>1, <2>2 DEF BB!Next
<1>8. CASE ReadFails \/ ReadSucceeds
  <2>1. pc = "read" /\ pc' # "read" /\ dev # None /\ UNCHANGED <<config, cached>>
    BY <1>8 DEF ReadFails, ReadSucceeds, Failed, bus, IInv, TypeOK
  <2>2. BB!Done
    BY <1>2, <2>1 DEF BB!Done
  <2>3. QED
    BY <2>2 DEF BB!Next
<1>9. CASE NotFound \/ EndPass \/ AllOffDone
           \/ (\E due \in SUBSET Devices : StartPass(due))
           \/ (\E d \in Devices : NextDevice(d))
  <2>1. pc # "read" /\ pc' # "read" /\ UNCHANGED <<config, cached>>
    BY <1>9 DEF NotFound, Failed, EndPass, AllOffDone, StartPass, NextDevice, bus
  <2>2. QED
    BY <1>1, <1>2, <2>1
<1>10. CASE \E cf \in Configs : Reload(cf)
  <2>1. pc = "idle" /\ pc' = "idle" /\ config' \in Configs
        /\ cached' = [c \in Couplers |-> COUPLER_UNDEFINED]
    BY <1>10 DEF Reload
  <2>2. COUPLER_ALL_OFF \notin Branches /\ COUPLER_UNDEFINED \notin Branches
    BY DEF Branches, COUPLER_ALL_OFF, COUPLER_UNDEFINED, COUPLER_AUX_ON,
           COUPLER_MAIN_ON
  <2>3. Remembered = {}
    BY <2>1, <2>2 DEF IInv, Progress, Remembered
  <2>4. Remembered' = {}
    BY <2>1, <2>2 DEF Remembered, Config
  <2>5. BB!Rewire
    BY <2>1, <2>3, <2>4 DEF BB!Rewire
  <2>6. QED
    BY <2>5 DEF BB!Next
<1>11. QED
  BY <1>5, <1>6, <1>7, <1>8, <1>9, <1>10 DEF Next, PassStep

\* A command is lost: the abstract bus is taken to be quiet from then on.
LEMMA LossImplements ==
    ASSUME IInv, faults = 0, faults' # 0, Next
    PROVE  BB!Next
<1>1. pc # "read" /\ pc \in {"off", "alloff"} /\ UNCHANGED config
  BY DEF Next, PassStep, NextDevice, DisconnectOther, AllOff, ConnectOwn, Found, NotFound,
     ReadFails, ReadSucceeds, EndPass, AllOffDone, StartPass, Reload, bus
<1>2. Sampled = None /\ Sampled' = None /\ Powered' = {}
  BY <1>1 DEF Sampled, Powered
<1>3. BB!Disconnect
  BY <1>1, <1>2 DEF BB!Disconnect
<1>4. QED
  BY <1>3 DEF BB!Next

\* After a lost command only a reload shows: it rewires the quiet bus.
LEMMA AfterLossImplements ==
    ASSUME IInv, faults # 0, Next
    PROVE  [BB!Next]_(BB!vars)
<1>1. faults' # 0
  BY DEF Next, PassStep, NextDevice, DisconnectOther, AllOff, ConnectOwn, Found, NotFound,
     ReadFails, ReadSucceeds, EndPass, AllOffDone, StartPass, Reload, bus, SetCoupler,
     SetSwitch1F, IInv, TypeOK
<1>2. /\ Sampled = None /\ Sampled' = None
      /\ Powered = {} /\ Powered' = {}
  BY <1>1 DEF Sampled, Powered
<1>3. CASE UNCHANGED config
  BY <1>2, <1>3 DEF BB!vars
<1>4. CASE \E cf \in Configs : Reload(cf)
  <2>1. BB!Rewire
    BY <1>2, <1>4 DEF BB!Rewire, Reload
  <2>2. QED
    BY <2>1 DEF BB!Next
<1>5. QED
  BY <1>3, <1>4 DEF Next, PassStep, NextDevice, DisconnectOther, AllOff, ConnectOwn, Found,
     NotFound, ReadFails, ReadSucceeds, EndPass, AllOffDone, StartPass

\* Up to the first lost command the coupler handling keeps the promise of BranchBus:
\* at most one branch powered at any time, each device sampled on its own branch
\* only, the wiring redefined on a quiet bus only.
THEOREM Implements == Spec => KeepsPromise
<1>1. IInv /\ NoFault /\ faults = 0 =>
        /\ Powered = Remembered
        /\ Sampled = (IF pc = "read" THEN dev ELSE None)
  BY LiveIsRemembered DEF NoFault, Powered, Sampled
<1>2. IInv => TypeOK
  BY DEF IInv
<1>3. Init => NoFault
  BY DEF Init, NoFault
<1>4. Spec => [](IInv /\ NoFault)
  BY <1>2, <1>3, NoFaultStep, Inductive, PTL DEF Spec
<1>5. Spec => [](IInv /\ (faults = 0 => /\ Powered = Remembered
                                       /\ Sampled = (IF pc = "read" THEN dev ELSE None)))
  BY <1>1, <1>4, PTL
<1>6. /\ IInv /\ (faults = 0 => /\ Powered = Remembered
                               /\ Sampled = (IF pc = "read" THEN dev ELSE None))
      /\ (IInv /\ (faults = 0 => /\ Powered = Remembered
                                /\ Sampled = (IF pc = "read" THEN dev ELSE None)))'
      /\ [Next]_vars
      => [BB!Next]_(BB!vars)
  <2>1. UNCHANGED vars => UNCHANGED BB!vars
    BY DEF vars, BB!vars, Powered, Sampled, LiveLines, Live
  <2>2. QED
    BY <2>1, StepImplements, LossImplements, AfterLossImplements
<1>7. QED
  BY <1>5, <1>6, InitImplements, PTL DEF Spec, KeepsPromise, BB!Spec
=============================================================================
