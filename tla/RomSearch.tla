----------------------------- MODULE RomSearch ------------------------------
(***************************************************************************)
(* The search of the 1-wire bus.  Every device has a ROM of N bits, and    *)
(* one search command walks through them: where the devices still in the   *)
(* walk disagree, the bit the master wants is taken and those with the     *)
(* other one drop out.  The library keeps where to branch off next in      *)
(* static variables, which survive from one search to the next:            *)
(*                                                                         *)
(*   SerialNum               the ROM found last                            *)
(*   LastDiscrepancy         where the last walk could have taken a 1      *)
(*   LastFamilyDiscrepancy   the same, within the family code              *)
(*   LastDevice              there was no such place                       *)
(*                                                                         *)
(* Two drivers implement owNext_, for the serial adapter (ownetu.c) and    *)
(* for the USB adapter (libusbnet.c).  w1retap runs a search before every  *)
(* read of a device, up to MaxRetry times; w1find lists the couplers, then *)
(* the trunk, then each branch.  Devices join and leave the bus, and noise *)
(* spoils searches, at any moment between two commands.                    *)
(*                                                                         *)
(* A definition named X_Slip... is a plausible mistake in X; the runs are  *)
(* shown to notice it when X is replaced by it.                            *)
(***************************************************************************)
EXTENDS Integers, FiniteSets

CONSTANTS
    N,           \* bits of a ROM: 64
    F,           \* bits of its family code, the first ones: 8
    Roms,        \* the ROMs of the devices there are
    Switch,      \* SWITCH_FAMILY: the family of the couplers
    None,        \* "no device"
    MaxRetry,    \* W1_RETRY
    MaxDevices   \* room in the caller's list of couplers

Bit    == {0, 1}
Rom    == [1..N -> Bit]
Family == [1..F -> Bit]

FamilyOf(r) == [i \in 1..F |-> r[i]]

\* The last two bits are check bits: they are a function of the others.  (Of
\* the eight check bits of a real ROM the search relies on two.)
ASSUME RomAssumption ==
    /\ N \in Nat /\ F \in Nat
    /\ F + 2 <= N
    /\ Roms \subseteq Rom
    /\ \A r \in Roms : \E i \in 1..F : r[i] = 1
    /\ \A p, q \in Roms : (\A i \in 1..(N - 2) : p[i] = q[i]) => p = q
    /\ Switch \in Family
    /\ None \notin Roms
    /\ MaxRetry \in Nat \ {0}
    /\ MaxDevices \in Nat /\ MaxDevices >= 2

VARIABLES
    driver,      \* "serial" or "usb"
    prog,        \* "w1retap" or "w1find"
    bus,         \* the ROMs a search reaches
    noise,       \* TRUE while the bus spoils commands
    SerialNum, LastDiscrepancy, LastFamilyDiscrepancy, LastDevice,
    pc,          \* where the program is
    wanted,      \* w1retap: the device to select
    attempt,     \* w1retap: rtry
    NumDevices,  \* w1find: entries in the list of couplers
    branches,    \* w1find: branches still to be searched
    calm,        \* nothing disturbed this search so far (history)
    stayed,      \* while calm: ROMs on the bus since it began (history)
    listed,      \* while calm: ROMs this search has reported (history)
    twice        \* while calm: some ROM was reported twice (history)

search  == <<SerialNum, LastDiscrepancy, LastFamilyDiscrepancy, LastDevice>>
world   == <<driver, prog, bus, noise>>
history == <<calm, stayed, listed, twice>>
lists   == <<NumDevices, branches>>
vars    == <<world, search, pc, wanted, attempt, lists, history>>

Searching == {"select", "family", "all", "branch"}

-----------------------------------------------------------------------------
(* The state of the search *)

Zeros == [i \in 1..N |-> 0]

\* LastDiscrepancy 0xFF of the USB driver: the next walk wants SerialNum.
RestartUsb == N + 1

\* The bit the master wants at position i.
Path(i) ==
    IF i < LastDiscrepancy THEN SerialNum[i]
    ELSE IF i = LastDiscrepancy THEN 1 ELSE 0

\* The devices that are still in the walk that found r when it comes to bit i.
Rivals(r, i) == {q \in bus : \A j \in 1..(i - 1) : q[j] = r[j]}

\* The walk ends at r: each of its bits was wanted, or the only one on offer.
Reached(r) ==
    \A i \in 1..N : r[i] = Path(i) \/ \A q \in Rivals(r, i) : q[i] = r[i]

\* Where that walk took a 0 and could have taken a 1.
ZeroTaken(r) ==
    {i \in 1..N : r[i] = 0 /\ \E q \in Rivals(r, i) : q[i] = 1}

IsLastZero_SlipFirst(z, r) ==
    /\ z \in ZeroTaken(r) \/ (z = 0 /\ ZeroTaken(r) = {})
    /\ \A i \in ZeroTaken(r) : z <= i

IsLastZero(z, r) ==
    /\ z \in ZeroTaken(r) \union {0}
    /\ \A i \in ZeroTaken(r) : i <= z

\* The serial driver notes the last zero within the family code, and never
\* takes the note back while it finds devices; the USB driver notes nothing.
FamilyZero(z, r) ==
    IF driver = "serial" /\ \E i \in ZeroTaken(r) : i <= F
    THEN z \in ZeroTaken(r) /\ z <= F /\ \A i \in ZeroTaken(r) : i <= F => i <= z
    ELSE z = LastFamilyDiscrepancy

-----------------------------------------------------------------------------
(* owNext *)

\* The search is over; the next one starts from the first device.
ResetSearch ==
    /\ LastDiscrepancy' = 0
    /\ LastFamilyDiscrepancy' = 0
    /\ LastDevice' = FALSE
    /\ UNCHANGED SerialNum

\* The last call reported the last device.
Exhausted == LastDevice /\ ResetSearch

\* Nobody answers the reset pulse.
NoPresence == ~LastDevice /\ (bus = {} \/ noise) /\ ResetSearch

\* The command fails, or its answer does.  The USB driver recovers the adapter
\* and leaves the state alone when the command fails; after a wrong check sum
\* it asks for a walk along zeros.
Spoiled ==
    /\ ~LastDevice
    /\ \/ driver = "serial" /\ ResetSearch
       \/ driver = "usb" /\ UNCHANGED search
       \/ /\ driver = "usb"
          /\ SerialNum' = Zeros
          /\ LastDiscrepancy' = RestartUsb
          /\ LastDevice' = FALSE
          /\ UNCHANGED LastFamilyDiscrepancy

\* The serial driver takes a walk that was to branch at the last bit but one
\* for an error: the check sum leaves no two devices that differ there only.
Refused == driver = "serial" /\ LastDiscrepancy = N - 1

Hit_SlipNoLast(r) ==
    /\ ~LastDevice
    /\ ~Refused
    /\ r \in bus
    /\ Reached(r)
    /\ SerialNum' = r
    /\ \E z \in 0..N :
           /\ IsLastZero(z, r)
           /\ LastDiscrepancy' = IF z = 0 THEN LastDiscrepancy ELSE z
    /\ UNCHANGED <<LastDevice, LastFamilyDiscrepancy>>

\* A device is found.  Without a place to branch off, the USB adapter sends
\* the ROM only, and the driver goes on to read the half of its buffer that
\* was never written.
Hit(r) ==
    /\ ~LastDevice
    /\ ~Refused
    /\ r \in bus
    /\ Reached(r)
    /\ SerialNum' = r
    /\ \E z \in 0..N :
           /\ IsLastZero(z, r)
           /\ LastDevice' = (z = 0)
           /\ \/ LastDiscrepancy' = z
              \/ /\ driver = "usb"
                 /\ z = 0
                 /\ \/ UNCHANGED LastDiscrepancy
                    \/ \E i \in 1..N : r[i] = 0 /\ LastDiscrepancy' = i
    /\ \E z \in 0..F :
           FamilyZero(z, r) /\ LastFamilyDiscrepancy' = z

\* owNext returns FALSE.  A search without a reset pulse meets an empty branch
\* as a walk that nobody answers.
NoMore(reset) ==
    \/ Exhausted
    \/ reset /\ NoPresence
    \/ (noise \/ (~reset /\ bus = {})) /\ Spoiled
    \/ bus # {} /\ Refused /\ ~LastDevice /\ ResetSearch

owFamilySearchSetup_SlipKeepLast(f) ==
    /\ SerialNum' = [i \in 1..N |-> IF i <= F THEN f[i] ELSE 0]
    /\ LastDiscrepancy' = N
    /\ UNCHANGED <<LastFamilyDiscrepancy, LastDevice>>

\* owFamilySearchSetup: the next walk wants the family code, then zeros.
owFamilySearchSetup(f) ==
    /\ SerialNum' = [i \in 1..N |-> IF i <= F THEN f[i] ELSE 0]
    /\ LastDiscrepancy' = N
    /\ LastFamilyDiscrepancy' = 0
    /\ LastDevice' = FALSE

owSkipFamily ==
    /\ LastDiscrepancy' = LastFamilyDiscrepancy
    /\ LastFamilyDiscrepancy' = 0
    /\ LastDevice' = (LastDevice \/ LastFamilyDiscrepancy = 0)
    /\ UNCHANGED SerialNum

-----------------------------------------------------------------------------
(* The bus *)

\* What an undisturbed search is remembered by, as long as it is one.
Remember(undisturbed) ==
    /\ calm' = (calm /\ undisturbed)
    /\ stayed' = IF calm' THEN stayed ELSE {}
    /\ listed' = IF calm' THEN listed ELSE {}
    /\ twice' = (calm' /\ twice)
    /\ UNCHANGED <<driver, prog, search, pc, wanted, attempt, lists>>

Join(r) ==
    /\ r \notin bus
    /\ bus' = bus \union {r}
    /\ Remember(TRUE)
    /\ UNCHANGED noise

Depart(r) ==
    /\ r \in bus
    /\ bus' = bus \ {r}
    /\ Remember(FALSE)
    /\ UNCHANGED noise

\* Noise begins or ends.
Noise ==
    /\ noise' = ~noise
    /\ Remember(noise)
    /\ UNCHANGED bus

-----------------------------------------------------------------------------
(* w1retap: the selection of a device that is about to be read *)

Init ==
    /\ driver \in {"serial", "usb"}
    /\ prog \in {"w1retap", "w1find"}
    /\ bus \in SUBSET Roms
    /\ noise = FALSE
    /\ SerialNum = Zeros
    /\ LastDiscrepancy = 0
    /\ LastFamilyDiscrepancy = 0
    /\ LastDevice = FALSE
    /\ pc = "idle"
    /\ wanted = None
    /\ attempt = 0
    /\ NumDevices = 0
    /\ branches = 0
    /\ calm = FALSE
    /\ stayed = {}
    /\ listed = {}
    /\ twice = FALSE

\* w1_select_device up to its loop.
SetUp(w, n) ==
    /\ wanted' = w
    /\ attempt' = n
    /\ owFamilySearchSetup(FamilyOf(w))
    /\ pc' = "select"
    /\ calm' = (w \in bus /\ ~noise)
    /\ UNCHANGED <<world, lists, stayed, listed, twice>>

Select(w) == prog = "w1retap" /\ pc = "idle" /\ SetUp(w, 1)

Retry == pc = "failed" /\ attempt < MaxRetry /\ SetUp(wanted, attempt + 1)

\* owNext reports a device: the wanted one, or one to go on from.
Compare(r) ==
    /\ pc = "select"
    /\ Hit(r)
    /\ pc' = IF r = wanted THEN "found" ELSE "select"
    /\ UNCHANGED <<world, wanted, attempt, lists, history>>

NotFound ==
    /\ pc = "select"
    /\ NoMore(TRUE)
    /\ pc' = "failed"
    /\ UNCHANGED <<world, wanted, attempt, lists, history>>

\* The reader returns 0, and the pass tries again from the start.
ReadFails ==
    /\ pc = "found"
    /\ pc' = "failed"
    /\ UNCHANGED <<world, search, wanted, attempt, lists, history>>

\* The device was read, or W1_RETRY attempts were made.
Leave ==
    /\ pc = "found" \/ (pc = "failed" /\ attempt = MaxRetry)
    /\ pc' = "idle"
    /\ wanted' = None
    /\ attempt' = 0
    /\ calm' = FALSE
    /\ UNCHANGED <<world, search, lists, stayed, listed, twice>>

-----------------------------------------------------------------------------
(* w1find: lists of devices *)

\* A list begins with the devices b within reach.
BeginList(b) ==
    /\ calm' = ~noise
    /\ stayed' = IF noise THEN {} ELSE b
    /\ listed' = {}
    /\ twice' = FALSE
    /\ UNCHANGED <<driver, prog, noise, wanted, attempt>>

\* FindDevices for the couplers.
FindDevices ==
    /\ prog = "w1find" /\ pc = "idle"
    /\ owFamilySearchSetup(Switch)
    /\ NumDevices' = 0
    /\ pc' = "family"
    /\ BeginList(bus)
    /\ UNCHANGED <<bus, branches>>

Report(r) ==
    /\ listed' = IF calm THEN listed \union {r} ELSE {}
    /\ twice' = (calm /\ (twice \/ r \in listed))

\* FindDevices keeps what is of the family, and stops when its list is full.
FamilyHit(r) ==
    /\ pc = "family"
    /\ Hit(r)
    /\ IF FamilyOf(r) = Switch
       THEN /\ NumDevices' = NumDevices + 1
            /\ Report(r)
            /\ pc' = IF NumDevices + 1 < MaxDevices - 1 THEN "family"
                     ELSE "couplers"
       ELSE UNCHANGED <<NumDevices, listed, twice, pc>>
    /\ UNCHANGED <<world, wanted, attempt, branches, calm, stayed>>

FamilyEnd ==
    /\ pc = "family"
    /\ NoMore(TRUE)
    /\ pc' = "couplers"
    /\ UNCHANGED <<world, wanted, attempt, lists, history>>

\* w1find goes on to the trunk: owSkipFamily, then the couplers are told to
\* switch their branches off.
SkipFamily ==
    /\ pc = "couplers"
    /\ owSkipFamily
    /\ pc' = "trunk"
    /\ \E b \in SUBSET Roms : bus' = b
    /\ calm' = FALSE
    /\ stayed' = {}
    /\ listed' = {}
    /\ twice' = FALSE
    /\ UNCHANGED <<driver, prog, noise, wanted, attempt, lists>>

\* owFirst for the trunk.
FirstOnTrunk ==
    /\ pc = "trunk"
    /\ ResetSearch
    /\ pc' = "all"
    /\ branches' = 2 * NumDevices
    /\ BeginList(bus)
    /\ UNCHANGED <<bus, NumDevices>>

\* search_coupler: one branch is switched on and searched without a reset.
FirstOnBranch ==
    /\ pc = "listed"
    /\ branches > 0
    /\ branches' = branches - 1
    /\ ResetSearch
    /\ pc' = "branch"
    /\ \E b \in SUBSET Roms : bus' = b /\ BeginList(b)
    /\ UNCHANGED NumDevices

ListHit(r) ==
    /\ pc \in {"all", "branch"}
    /\ Hit(r)
    /\ Report(r)
    /\ UNCHANGED <<world, pc, wanted, attempt, lists, calm, stayed>>

ListEnd ==
    /\ \/ pc = "all" /\ NoMore(TRUE)
       \/ pc = "branch" /\ NoMore(FALSE)
    /\ pc' = "listed"
    /\ UNCHANGED <<world, wanted, attempt, lists, history>>

-----------------------------------------------------------------------------
Program ==
    \/ \E w \in Roms : Select(w)
    \/ Retry
    \/ \E r \in Roms : Compare(r) \/ FamilyHit(r) \/ ListHit(r)
    \/ NotFound \/ ReadFails \/ Leave
    \/ FindDevices \/ FamilyEnd \/ SkipFamily
    \/ FirstOnTrunk \/ FirstOnBranch \/ ListEnd

Next ==
    \/ Program
    \/ \E r \in Roms : Join(r) \/ Depart(r)
    \/ Noise

Spec == Init /\ [][Next]_vars

\* The program is never kept from its next step.
FairSpec == Spec /\ WF_vars(Program)

-----------------------------------------------------------------------------
(* Properties *)

TypeOK ==
    /\ driver \in {"serial", "usb"}
    /\ prog \in {"w1retap", "w1find"}
    /\ bus \subseteq Roms
    /\ noise \in BOOLEAN
    /\ SerialNum \in Rom
    /\ LastDiscrepancy \in 0..RestartUsb
    /\ LastFamilyDiscrepancy \in 0..F
    /\ LastDevice \in BOOLEAN
    /\ pc \in {"idle", "found", "failed", "couplers", "trunk", "listed"}
             \union Searching
    /\ wanted \in Roms \union {None}
    /\ attempt \in 0..MaxRetry
    /\ NumDevices \in 0..(MaxDevices - 1)
    /\ branches \in 0..(2 * (MaxDevices - 1))
    /\ calm \in BOOLEAN
    /\ stayed \subseteq bus
    /\ listed \subseteq Roms
    /\ twice \in BOOLEAN

\* Whatever state earlier searches left behind, a device is found only when it
\* is on the bus, and an attempt fails only when the device was away, a device
\* left or there was noise while it ran (w1_select_device).
Selects == INSTANCE Selection WITH
    Devices <- Roms,
    state <- CASE pc = "select" -> "asking"
               [] pc \in {"found", "failed"} -> pc
               [] OTHER -> "idle",
    asked <- wanted,
    calm <- prog = "w1retap" /\ calm

SelectsAsAsked == Selects!Spec

Couplers(S) == {r \in S : FamilyOf(r) = Switch}

\* A list w1find makes of a bus that no device leaves and no noise disturbs
\* holds every device that was there all the time, and none twice; the list of
\* couplers holds them all unless it is full.
ListExact ==
    calm => /\ pc \in {"family", "all", "branch", "couplers", "listed"} => ~twice
            /\ pc = "listed" => stayed \subseteq listed
            /\ pc = "couplers" /\ NumDevices < MaxDevices - 1 =>
                   Couplers(stayed) \subseteq listed

\* Unless devices go on leaving the bus for ever, every search comes to its
\* end: owNext does not report the same devices round and round.
SearchEnds ==
    <>[][bus \subseteq bus']_bus => []<>(pc \notin Searching)
=============================================================================
