-------------------------- MODULE RomSearch_proofs --------------------------
(***************************************************************************)
(* The search of the bus, for any ROMs and any number of bits.             *)
(*                                                                         *)
(* The argument: a device w that has not been reported and has not left is *)
(* ahead of the search.  Either the walk that is to come starts from the   *)
(* first ROM, or from the first ROM of w's family, or the device found     *)
(* last is still there, took a 0 where w has a 1, and did so no later than *)
(* at the place the next walk branches off.  Such a walk cannot pass w by: *)
(* where the ROM it reaches first differs from w, w has the 1, so that the *)
(* place is noted and w is ahead again.  As long as some device is ahead,  *)
(* owNext neither ends the search nor goes back.                           *)
(***************************************************************************)
EXTENDS RomSearch, WellFoundedInduction, TLAPS

Agree(p, q, k) == \A j \in 1..(k - 1) : p[j] = q[j]

\* q comes later in the search than p.
Before(p, q) == \E d \in 1..N : Agree(p, q, d) /\ p[d] = 0 /\ q[d] = 1

\* The next walk starts from the first ROM; from the first one of w's family;
\* from a device that is still there and a place another one branches off at.
FromTop   == LastDiscrepancy = 0
Fresh(w)  == /\ LastDiscrepancy = N
             /\ \A i \in 1..N : SerialNum[i] = IF i <= F THEN w[i] ELSE 0
Branching == SerialNum \in bus /\ LastDiscrepancy \in ZeroTaken(SerialNum)

\* The search has still to come to w.
Ahead(w) ==
    /\ ~LastDevice
    /\ \/ FromTop
       \/ Fresh(w)
       \/ /\ Branching
          /\ \E d \in 1..LastDiscrepancy :
                 Agree(SerialNum, w, d) /\ SerialNum[d] = 0 /\ w[d] = 1

USE RomAssumption
-----------------------------------------------------------------------------
(* Positions and ROMs *)

\* The order of the natural numbers as a set of pairs.
Smaller == {ss \in Nat \X Nat : ss[1] < ss[2]}

\* A set of natural numbers that is not empty has a least one.
LEMMA Least ==
    ASSUME NEW T, T \subseteq Nat, T # {}
    PROVE  \E x \in T : \A y \in T : x <= y
<1>1. IsWellFoundedOn(Smaller, Nat)
    BY NatLessThanWellFounded DEF OpToRel, Smaller
<1>2. \E x \in T : \A y \in T : ~(<<y, x>> \in Smaller)
    BY <1>1, WFMin
<1>3. \A x, y \in Nat : ~(<<y, x>> \in Smaller) => x <= y
    <2> SUFFICES ASSUME NEW x \in Nat, NEW y \in Nat, y < x
                 PROVE  <<y, x>> \in Smaller
        OBVIOUS
    <2> QED
        BY DEF Smaller
<1> QED
    BY <1>2, <1>3

\* Two ROMs that are not the same differ somewhere for the first time.
LEMMA FirstDifference ==
    ASSUME NEW p \in Rom, NEW q \in Rom, p # q
    PROVE  \E d \in 1..N : Agree(p, q, d) /\ p[d] # q[d]
<1> DEFINE T == {i \in 1..N : p[i] # q[i]}
<1>1. T # {}
    BY DEF Rom
<1>2. T \subseteq Nat
    OBVIOUS
<1>3. PICK d \in T : \A y \in T : d <= y
    BY <1>1, <1>2, Least
<1>4. \A j \in 1..(d - 1) : p[j] = q[j]
    BY <1>3
<1> QED
    BY <1>3, <1>4 DEF Agree

\* No walk branches off at the last two bits: no two devices differ only there.
LEMMA BranchesBeforeCheck ==
    ASSUME TypeOK, NEW r \in Roms, NEW i \in ZeroTaken(r)
    PROVE  i \in 1..(N - 2) /\ r[i] = 0
<1>1. PICK q \in Rivals(r, i) : q[i] = 1 /\ r[i] = 0 /\ i \in 1..N
    BY DEF ZeroTaken
<1>2. q \in Roms /\ \A j \in 1..(i - 1) : q[j] = r[j]
    BY <1>1 DEF Rivals, TypeOK
<1>3. CASE i > N - 2
    <2>1. \A j \in 1..(N - 2) : q[j] = r[j]
        BY <1>1, <1>2, <1>3
    <2>2. q = r
        BY <1>2, <2>1
    <2> QED
        BY <1>1, <2>2
<1> QED
    BY <1>1, <1>3

\* A walk that reaches another device r than w, which is ahead of it, takes a 0
\* where w has the 1 that first tells them apart.
LEMMA PassedWithZero ==
    ASSUME TypeOK, NEW r \in bus, Reached(r), NEW w \in bus, w # r, Ahead(w)
    PROVE  \E d \in ZeroTaken(r) : Agree(r, w, d) /\ r[d] = 0 /\ w[d] = 1
<1>1. r \in Rom /\ w \in Rom /\ r \in Roms /\ w \in Roms
    BY DEF TypeOK
<1>2. PICK d \in 1..N : Agree(r, w, d) /\ r[d] # w[d]
    BY <1>1, FirstDifference
<1>3. w \in Rivals(r, d)
    BY <1>2 DEF Rivals, Agree
<1>4. CASE r[d] = 0
    <2>1. w[d] = 1
        BY <1>1, <1>2, <1>4 DEF Rom, Bit
    <2>2. d \in ZeroTaken(r)
        BY <1>3, <1>4, <2>1 DEF ZeroTaken
    <2> QED
        BY <1>2, <1>4, <2>1, <2>2
<1>5. CASE r[d] = 1
    <2>1. w[d] = 0
        BY <1>1, <1>2, <1>5 DEF Rom, Bit
    <2>2. Path(d) = 1
        BY <1>3, <1>5, <2>1 DEF Reached
    <2>3. CASE FromTop
        BY <2>2, <2>3 DEF FromTop, Path
    <2>4. CASE Fresh(w)
        <3>1. CASE d < N
            BY <2>1, <2>2, <2>4, <3>1 DEF Fresh, Path
        <3>2. CASE d = N
            <4>1. \A j \in 1..(N - 2) : r[j] = w[j]
                BY <1>2, <3>2 DEF Agree
            <4> QED
                BY <1>1, <4>1
        <3> QED
            BY <3>1, <3>2
    <2>5. ASSUME Branching,
                 NEW e \in 1..LastDiscrepancy,
                 Agree(SerialNum, w, e), SerialNum[e] = 0, w[e] = 1
          PROVE  FALSE
        <3>1. LastDiscrepancy \in 1..N
            BY <2>5 DEF Branching, ZeroTaken
        <3>2. CASE d < e
            <4>1. SerialNum[d] = 0 /\ d < LastDiscrepancy
                BY <2>1, <2>5, <3>1, <3>2 DEF Agree
            <4> QED
                BY <2>2, <4>1 DEF Path
        <3>3. CASE d = e
            BY <2>1, <2>5, <3>3
        <3>4. CASE e < d
            <4>1. r[e] = 1 /\ \A j \in 1..(e - 1) : SerialNum[j] = r[j]
                BY <1>2, <2>5, <3>1, <3>4 DEF Agree
            <4>2. e < LastDiscrepancy
                BY <2>2, <2>5, <3>1, <3>4 DEF Path
            <4>3. Path(e) = 0
                BY <2>5, <4>2 DEF Path
            <4>4. SerialNum \in Rivals(r, e)
                BY <2>5, <4>1 DEF Rivals, Branching
            <4>5. e \in 1..N
                BY <3>1
            <4> QED
                BY <2>5, <4>1, <4>3, <4>4, <4>5 DEF Reached
        <3> QED
            BY <3>1, <3>2, <3>3, <3>4
    <2> QED
        BY <2>3, <2>4, <2>5 DEF Ahead
<1> QED
    BY <1>1, <1>2, <1>4, <1>5 DEF Rom, Bit

-----------------------------------------------------------------------------
(* What one call of owNext does to the devices ahead *)

\* After a hit on another device, w is still ahead.
LEMMA HitKeepsAhead ==
    ASSUME TypeOK, NEW r \in Roms, Hit(r), bus' = bus,
           NEW w \in bus, w # r, Ahead(w)
    PROVE  Ahead(w)'
<1>1. PICK z \in 0..N :
          /\ IsLastZero(z, r)
          /\ LastDevice' = (z = 0)
          /\ LastDiscrepancy' = z \/ z = 0
    BY DEF Hit
<1>2. r \in bus /\ Reached(r) /\ SerialNum' = r
    BY DEF Hit
<1>3. PICK d \in ZeroTaken(r) : Agree(r, w, d) /\ r[d] = 0 /\ w[d] = 1
    BY <1>2, PassedWithZero
<1>4. d \in 1..z /\ z \in ZeroTaken(r)
    BY <1>1, <1>3 DEF IsLastZero, ZeroTaken
<1>5. ~LastDevice' /\ LastDiscrepancy' = z
    <2>1. z # 0
        BY <1>4
    <2> QED
        BY <1>1, <2>1
<1>6. Branching'
    BY <1>2, <1>4, <1>5 DEF Branching, ZeroTaken, Rivals
<1> QED
    BY <1>2, <1>3, <1>4, <1>5, <1>6 DEF Ahead, Agree

\* owNext has more to report as long as a device is ahead and there is no noise.
LEMMA GoesOn ==
    ASSUME TypeOK, NEW w \in bus, Ahead(w), ~noise, NEW reset \in BOOLEAN
    PROVE  ~NoMore(reset)
<1>1. ~LastDevice /\ bus # {}
    BY DEF Ahead
<1>2. LastDiscrepancy # N - 1
    <2>1. CASE FromTop
        BY <2>1 DEF FromTop
    <2>2. CASE Fresh(w)
        BY <2>2 DEF Fresh
    <2>3. CASE Branching
        <3>1. SerialNum \in Roms
            BY <2>3 DEF Branching, TypeOK
        <3> QED
            BY <2>3, <3>1, BranchesBeforeCheck DEF Branching
    <2> QED
        BY <2>1, <2>2, <2>3 DEF Ahead
<1> QED
    BY <1>1, <1>2 DEF NoMore, Exhausted, NoPresence, Refused

\* Devices that join are no trouble to a search that is under way.
LEMMA JoinKeepsAhead ==
    ASSUME NEW w, Ahead(w), bus \subseteq bus', UNCHANGED search
    PROVE  Ahead(w)'
<1>1. Branching => Branching'
    BY DEF Branching, ZeroTaken, Rivals, search
<1> QED
    BY <1>1 DEF Ahead, FromTop, Fresh, Agree, search

\* A search set up for the family of w has w ahead of it.
LEMMA SetUpIsAhead ==
    ASSUME NEW w \in Roms, NEW f, f = FamilyOf(w), owFamilySearchSetup(f)
    PROVE  Ahead(w)'
BY DEF owFamilySearchSetup, FamilyOf, Ahead, Fresh

-----------------------------------------------------------------------------
(* Types *)

SearchType ==
    /\ SerialNum \in Rom
    /\ LastDiscrepancy \in 0..RestartUsb
    /\ LastFamilyDiscrepancy \in 0..F
    /\ LastDevice \in BOOLEAN

\* A step calls one of the search functions, or leaves their variables alone.
SearchCall ==
    \/ UNCHANGED search
    \/ ResetSearch
    \/ Spoiled
    \/ owSkipFamily
    \/ \E r \in Roms : Hit(r)
    \/ \E f \in Family : owFamilySearchSetup(f)

\* Each of the functions leaves variables of their types behind.
LEMMA SearchTypes ==
    ASSUME SearchType, bus \subseteq Roms, SearchCall
    PROVE  SearchType'
<1>1. N \in 0..RestartUsb /\ 0 \in 0..RestartUsb /\ RestartUsb \in 0..RestartUsb
      /\ 0 \in 0..F /\ 0..N \subseteq 0..RestartUsb /\ 0..F \subseteq 0..N
    BY DEF RestartUsb
<1>2. CASE UNCHANGED search
    BY <1>2 DEF search, SearchType, RestartUsb
<1>3. CASE ResetSearch
    BY <1>1, <1>3 DEF ResetSearch, SearchType
<1>4. CASE Spoiled
    <2>1. Zeros \in Rom
        BY DEF Zeros, Rom, Bit
    <2>2. CASE SerialNum' = Zeros /\ LastDiscrepancy' = RestartUsb /\ LastDevice' = FALSE
               /\ UNCHANGED LastFamilyDiscrepancy
        BY <1>1, <2>1, <2>2 DEF SearchType
    <2> QED
        BY <1>2, <1>3, <1>4, <2>2 DEF Spoiled
<1>5. CASE owSkipFamily
    BY <1>1, <1>5 DEF owSkipFamily, SearchType
<1>6. ASSUME NEW r \in Roms, Hit(r)
      PROVE  SearchType'
    <2>1. SerialNum' \in Rom
        BY <1>6 DEF Hit
    <2>2. LastDiscrepancy' \in 0..RestartUsb /\ LastDevice' \in BOOLEAN
        BY <1>6 DEF Hit, SearchType, RestartUsb
    <2>3. LastFamilyDiscrepancy' \in 0..F
        BY <1>6 DEF Hit
    <2> QED
        BY <2>1, <2>2, <2>3 DEF SearchType
<1>7. ASSUME NEW f \in Family, owFamilySearchSetup(f)
      PROVE  SearchType'
    <2>1. SerialNum' \in Rom
        BY <1>7 DEF owFamilySearchSetup, Family, Rom, Bit
    <2>2. LastDiscrepancy' = N /\ LastFamilyDiscrepancy' = 0 /\ LastDevice' = FALSE
        BY <1>7 DEF owFamilySearchSetup
    <2> QED
        BY <1>1, <2>1, <2>2 DEF SearchType
<1> QED
    BY <1>2, <1>3, <1>4, <1>5, <1>6, <1>7 DEF SearchCall

\* Every step is such a call.
LEMMA StepsAreCalls ==
    ASSUME [Next]_vars, wanted \in Roms \union {None}, pc = "failed" => wanted \in Roms
    PROVE  SearchCall
<1> USE DEF SearchCall
<1>1. \A w \in Roms : FamilyOf(w) \in Family
    BY DEF FamilyOf, Family, Rom
<1>2. CASE UNCHANGED vars
    BY <1>2 DEF vars, search
<1>3. ASSUME NEW w \in Roms, Select(w)
      PROVE  SearchCall
    BY <1>1, <1>3 DEF Select, SetUp
<1>4. CASE Retry
    BY <1>1, <1>4 DEF Retry, SetUp
<1>5. ASSUME NEW r \in Roms, Compare(r) \/ FamilyHit(r) \/ ListHit(r)
      PROVE  SearchCall
    BY <1>5 DEF Compare, FamilyHit, ListHit
<1>6. CASE NotFound \/ FamilyEnd \/ ListEnd
    <2>1. NoMore(TRUE) \/ NoMore(FALSE)
        BY <1>6 DEF NotFound, FamilyEnd, ListEnd
    <2> QED
        BY <2>1 DEF NoMore, Exhausted, NoPresence
<1>7. CASE ReadFails \/ Leave
    BY <1>7 DEF ReadFails, Leave
<1>8. CASE FindDevices \/ SkipFamily \/ FirstOnTrunk \/ FirstOnBranch
    BY <1>8 DEF FindDevices, SkipFamily, FirstOnTrunk, FirstOnBranch
<1>9. ASSUME NEW r \in Roms, Join(r) \/ Depart(r)
      PROVE  SearchCall
    BY <1>9 DEF Join, Depart, Remember
<1>10. CASE Noise
    BY <1>10 DEF Noise, Remember
<1> QED
    BY <1>2, <1>3, <1>4, <1>5, <1>6, <1>7, <1>8, <1>9, <1>10 DEF Next, Program

\* Which program is where, and with what.
Where ==
    /\ pc \in {"select", "found", "failed"} =>
           prog = "w1retap" /\ wanted \in Roms /\ attempt \in 1..MaxRetry
    /\ pc \in {"family", "couplers", "trunk", "all", "listed", "branch"} =>
           prog = "w1find"
    /\ pc = "family" => NumDevices < MaxDevices - 1
    /\ calm => ~noise

\* What TypeOK says of everything but the search.
PlaceType ==
    /\ driver \in {"serial", "usb"}
    /\ prog \in {"w1retap", "w1find"}
    /\ bus \subseteq Roms
    /\ noise \in BOOLEAN
    /\ pc \in {"idle", "found", "failed", "couplers", "trunk", "listed",
               "select", "family", "all", "branch"}
    /\ wanted \in Roms \union {None}
    /\ attempt \in 0..MaxRetry
    /\ NumDevices \in 0..(MaxDevices - 1)
    /\ branches \in 0..(2 * (MaxDevices - 1))

HistoryType ==
    /\ calm \in BOOLEAN
    /\ stayed \subseteq bus
    /\ listed \subseteq Roms
    /\ twice \in BOOLEAN

LEMMA TypeParts == TypeOK <=> SearchType /\ PlaceType /\ HistoryType
BY DEF TypeOK, SearchType, PlaceType, HistoryType, Searching

\* Every step keeps the program in its place.
LEMMA PlaceStep ==
    ASSUME PlaceType, HistoryType, Where, [Next]_vars
    PROVE  PlaceType' /\ HistoryType' /\ Where'
<1>0. MaxRetry \in Nat \ {0} /\ MaxDevices \in Nat /\ MaxDevices >= 2
    OBVIOUS
<1> HIDE RomAssumption
<1> DEFINE Kept == PlaceType' /\ HistoryType' /\ Where'
<1>1. CASE UNCHANGED vars
    BY <1>1 DEF vars, world, lists, history, PlaceType, HistoryType, Where
<1>2. ASSUME NEW w \in Roms, NEW n \in 1..MaxRetry, SetUp(w, n), prog = "w1retap"
      PROVE  Kept
    <2>1. PlaceType'
        BY <1>0, <1>2 DEF SetUp, world, lists, PlaceType
    <2>2. HistoryType' /\ Where'
        BY <1>0, <1>2 DEF SetUp, world, lists, PlaceType, HistoryType, Where
    <2> QED
        BY <2>1, <2>2
<1>3. ASSUME NEW w \in Roms, Select(w)
      PROVE  Kept
    <2>1. 1 \in 1..MaxRetry
        BY <1>0
    <2> QED
        BY <1>2, <1>3, <2>1 DEF Select
<1>4. CASE Retry
    <2>1. attempt + 1 \in 1..MaxRetry
        BY <1>0, <1>4 DEF Retry, PlaceType
    <2> QED
        BY <1>2, <1>4, <2>1 DEF Retry, Where
<1>5. ASSUME NEW r \in Roms, Compare(r)
      PROVE  Kept
    BY <1>5 DEF Compare, world, lists, history, PlaceType, HistoryType, Where
<1>6. ASSUME NEW r \in Roms, FamilyHit(r)
      PROVE  Kept
    <2>1. NumDevices' \in 0..(MaxDevices - 1)
          /\ (pc' = "family" => NumDevices' < MaxDevices - 1)
          /\ pc' \in {"family", "couplers"}
        BY <1>0, <1>6 DEF FamilyHit, PlaceType, Where
    <2>2. PlaceType'
        BY <1>6, <2>1 DEF FamilyHit, world, PlaceType
    <2>3. HistoryType'
        BY <1>6 DEF FamilyHit, Report, world, HistoryType
    <2> QED
        BY <1>6, <2>1, <2>2, <2>3 DEF FamilyHit, world, Where
<1>7. ASSUME NEW r \in Roms, ListHit(r)
      PROVE  Kept
    <2>1. PlaceType' /\ Where'
        BY <1>7 DEF ListHit, world, lists, PlaceType, Where
    <2>2. HistoryType'
        BY <1>7 DEF ListHit, Report, world, HistoryType
    <2> QED
        BY <2>1, <2>2
<1>8. CASE NotFound \/ FamilyEnd \/ ListEnd \/ ReadFails
    <2>1. /\ UNCHANGED <<world, wanted, attempt, lists, history>>
          /\ \/ pc = "select" /\ pc' = "failed"
             \/ pc = "family" /\ pc' = "couplers"
             \/ pc \in {"all", "branch"} /\ pc' = "listed"
             \/ pc = "found" /\ pc' = "failed"
        BY <1>8 DEF NotFound, FamilyEnd, ListEnd, ReadFails
    <2>2. PlaceType'
        BY <2>1 DEF world, lists, PlaceType
    <2> QED
        BY <2>1, <2>2 DEF world, lists, history, HistoryType, Where
<1>9. CASE Leave
    <2>1. PlaceType'
        BY <1>0, <1>9 DEF Leave, world, lists, PlaceType
    <2> QED
        BY <1>9, <2>1 DEF Leave, world, lists, HistoryType, Where
<1>10. ASSUME NEW b \in SUBSET Roms, BeginList(b), bus' = b
       PROVE  HistoryType' /\ (calm' => ~noise')
    BY <1>10 DEF BeginList, HistoryType, PlaceType
<1>11. CASE FindDevices
    <2>1. HistoryType' /\ (calm' => ~noise')
        BY <1>10, <1>11 DEF FindDevices, PlaceType
    <2>2. PlaceType' /\ Where'
        BY <1>0, <1>11, <2>1 DEF FindDevices, BeginList, PlaceType, Where
    <2> QED
        BY <2>1, <2>2
<1>12. CASE SkipFamily
    <2>1. PlaceType'
        BY <1>12 DEF SkipFamily, lists, PlaceType
    <2>2. HistoryType' /\ Where'
        BY <1>12 DEF SkipFamily, lists, HistoryType, Where, PlaceType
    <2> QED
        BY <2>1, <2>2
<1>13. CASE FirstOnTrunk
    <2>1. HistoryType' /\ (calm' => ~noise')
        BY <1>10, <1>13 DEF FirstOnTrunk, PlaceType
    <2>2. branches' \in 0..(2 * (MaxDevices - 1))
        BY <1>0, <1>13 DEF FirstOnTrunk, PlaceType
    <2>3. PlaceType'
        BY <1>13, <2>2 DEF FirstOnTrunk, BeginList, PlaceType
    <2>4. Where'
        BY <1>13, <2>1 DEF FirstOnTrunk, BeginList, Where
    <2> QED
        BY <2>1, <2>3, <2>4
<1>14. CASE FirstOnBranch
    <2>1. PICK b \in SUBSET Roms : bus' = b /\ BeginList(b)
        BY <1>14 DEF FirstOnBranch
    <2>2. HistoryType' /\ (calm' => ~noise')
        BY <1>10, <2>1
    <2>3. branches' \in 0..(2 * (MaxDevices - 1))
        BY <1>0, <1>14 DEF FirstOnBranch, PlaceType
    <2>4. PlaceType'
        BY <1>14, <2>1, <2>3 DEF FirstOnBranch, BeginList, PlaceType
    <2>5. Where'
        BY <1>14, <2>1, <2>2 DEF FirstOnBranch, BeginList, Where
    <2> QED
        BY <2>2, <2>4, <2>5
<1>15. ASSUME NEW r \in Roms, Join(r) \/ Depart(r)
       PROVE  Kept
    <2>0. /\ UNCHANGED <<driver, prog, noise, pc, wanted, attempt, lists>>
          /\ bus' \subseteq Roms
          /\ calm' => calm
        BY <1>15 DEF Join, Depart, Remember, PlaceType
    <2>1. PlaceType' /\ Where'
        BY <2>0 DEF lists, PlaceType, Where
    <2>2. HistoryType'
        BY <1>15 DEF Join, Depart, Remember, HistoryType
    <2> QED
        BY <2>1, <2>2
<1>16. CASE Noise
    <2>1. PlaceType' /\ Where'
        BY <1>16 DEF Noise, Remember, lists, PlaceType, Where
    <2>2. HistoryType'
        BY <1>16 DEF Noise, Remember, HistoryType
    <2> QED
        BY <2>1, <2>2
<1> QED
    BY <1>1, <1>3, <1>4, <1>5, <1>6, <1>7, <1>8, <1>9, <1>11, <1>12, <1>13, <1>14,
       <1>15, <1>16 DEF Next, Program

\* Every variable of RomSearch keeps its type, whatever the bus does.
THEOREM TypeCorrect == Spec => []TypeOK
<1> DEFINE T == SearchType /\ PlaceType /\ HistoryType /\ Where
<1>1. Init => T
    <2>1. Zeros \in Rom
        BY DEF Zeros, Rom, Bit
    <2>2. /\ 0 \in 0..(N + 1) /\ 0 \in 0..F /\ 0 \in 0..MaxRetry
          /\ 0 \in 0..(MaxDevices - 1) /\ 0 \in 0..(2 * (MaxDevices - 1))
        OBVIOUS
    <2>3. Init => SearchType /\ PlaceType
        BY <2>1, <2>2 DEF Init, SearchType, RestartUsb, PlaceType
    <2>4. Init => HistoryType /\ Where
        BY DEF Init, HistoryType, Where
    <2> QED
        BY <2>3, <2>4
<1>2. T /\ [Next]_vars => T'
    <2> SUFFICES ASSUME T, [Next]_vars PROVE T'
        OBVIOUS
    <2>1. SearchCall
        BY StepsAreCalls DEF PlaceType, Where
    <2> QED
        BY <2>1, SearchTypes, PlaceStep DEF PlaceType
<1> QED
    BY <1>1, <1>2, TypeParts, PTL DEF Spec

-----------------------------------------------------------------------------
(* The selection of a device *)

\* In an undisturbed attempt the wanted device is there, and ahead.
WantedAhead == pc = "select" /\ calm => wanted \in bus /\ Ahead(wanted)

LEMMA WantedStep ==
    ASSUME TypeOK, Where, WantedAhead, [Next]_vars
    PROVE  WantedAhead'
<1> SUFFICES ASSUME (pc = "select" /\ calm)'
             PROVE  wanted' \in bus' /\ Ahead(wanted)'
    BY DEF WantedAhead
<1>1. ASSUME NEW w \in Roms, wanted' = w, owFamilySearchSetup(FamilyOf(w)), w \in bus'
      PROVE  wanted' \in bus' /\ Ahead(wanted)'
    <2>1. Ahead(w)'
        BY <1>1, SetUpIsAhead
    <2> QED
        BY <1>1, <2>1 DEF Ahead, Fresh
<1>2. CASE (\E w \in Roms : Select(w)) \/ Retry
    BY <1>1, <1>2 DEF Select, Retry, SetUp, world, Where
<1>3. ASSUME UNCHANGED <<search, wanted>>, bus \subseteq bus', pc = "select", calm
      PROVE  wanted' \in bus' /\ Ahead(wanted)'
    <2>1. wanted \in bus /\ Ahead(wanted)
        BY <1>3 DEF WantedAhead
    <2>2. Ahead(wanted)'
        BY <1>3, <2>1, JoinKeepsAhead DEF Ahead, Fresh
    <2> QED
        BY <1>3, <2>1, <2>2
<1>4. CASE \E r \in Roms : Join(r)
    BY <1>3, <1>4 DEF Join, Remember
<1>5. CASE UNCHANGED vars
    BY <1>3, <1>5 DEF vars, world, history
<1>6. ASSUME NEW r \in Roms, Compare(r)
      PROVE  wanted' \in bus' /\ Ahead(wanted)'
    <2>1. /\ pc = "select" /\ calm /\ Hit(r) /\ r # wanted
          /\ bus' = bus /\ wanted' = wanted
        BY <1>6 DEF Compare, world, history
    <2>2. wanted \in bus /\ Ahead(wanted)
        BY <2>1 DEF WantedAhead
    <2>3. Ahead(wanted)'
        BY <2>1, <2>2, HitKeepsAhead
    <2> QED
        BY <2>1, <2>2, <2>3
<1>7. CASE Noise \/ \E r \in Roms : Depart(r)
    BY <1>7 DEF Noise, Depart, Remember, Where
<1>8. CASE NotFound \/ FamilyEnd \/ ListEnd \/ ReadFails \/ Leave \/ FindDevices
           \/ SkipFamily \/ FirstOnTrunk \/ FirstOnBranch
    BY <1>8 DEF NotFound, FamilyEnd, ListEnd, ReadFails, Leave, FindDevices,
        SkipFamily, FirstOnTrunk, FirstOnBranch
<1>9. ASSUME NEW r \in Roms, FamilyHit(r) \/ ListHit(r)
      PROVE  FALSE
    BY <1>9 DEF FamilyHit, ListHit
<1> QED
    BY <1>2, <1>4, <1>5, <1>6, <1>7, <1>8, <1>9 DEF Next, Program

-----------------------------------------------------------------------------
(* The lists *)

\* Of an undisturbed list, what is missing is ahead; at its end nothing is missing.
MissingAhead ==
    calm => /\ pc \in {"all", "branch"} => \A w \in stayed \ listed : Ahead(w)
            /\ pc = "family" => \A w \in Couplers(stayed) \ listed : Ahead(w)
            /\ pc = "listed" => stayed \subseteq listed
            /\ pc = "couplers" /\ NumDevices < MaxDevices - 1 =>
                   Couplers(stayed) \subseteq listed

\* What a list holds is behind the search, and the search goes forward only.
\* It begins with nothing listed.
Forward ==
    \/ listed = {} /\ (FromTop \/ LastDiscrepancy = N)
    \/ /\ \A q \in listed : q = SerialNum \/ Before(q, SerialNum)
       /\ SerialNum \in bus
       /\ LastDevice \/ LastDiscrepancy \in ZeroTaken(SerialNum)

OnceOnly ==
    calm => /\ pc \in {"family", "all", "branch"} => Forward
            /\ pc \in {"family", "all", "branch", "couplers", "listed"} => ~twice

\* The order in which a search meets the devices is an order.
LEMMA BeforeIsOrder ==
    ASSUME NEW p \in Rom, NEW q \in Rom, NEW r \in Rom, Before(q, r)
    PROVE  q # r /\ (Before(p, q) => Before(p, r))
<1>1. PICK d \in 1..N : Agree(q, r, d) /\ q[d] = 0 /\ r[d] = 1
    BY DEF Before
<1>2. ASSUME NEW e \in 1..N, Agree(p, q, e), p[e] = 0, q[e] = 1
      PROVE  Before(p, r)
    <2>1. CASE e < d
        <3>1. Agree(p, r, e) /\ r[e] = 1
            BY <1>1, <1>2, <2>1 DEF Agree
        <3> QED
            BY <1>2, <3>1 DEF Before
    <2>2. CASE d < e
        <3>1. Agree(p, r, d) /\ p[d] = 0
            BY <1>1, <1>2, <2>2 DEF Agree
        <3> QED
            BY <1>1, <3>1 DEF Before
    <2>3. CASE d = e
        BY <1>1, <1>2, <2>3
    <2> QED
        BY <2>1, <2>2, <2>3
<1> QED
    BY <1>1, <1>2 DEF Before

\* A walk that branches off from the device found last finds a later one.
LEMMA FoundLater ==
    ASSUME TypeOK, Branching, NEW r \in bus, Reached(r)
    PROVE  Before(SerialNum, r)
<1> DEFINE L == LastDiscrepancy
<1>1. PICK q \in Rivals(SerialNum, L) : q[L] = 1 /\ SerialNum[L] = 0 /\ L \in 1..N
    BY DEF Branching, ZeroTaken
<1>2. SerialNum \in Rom /\ r \in Rom /\ SerialNum \in bus
    BY DEF TypeOK, Branching
<1>3. ASSUME NEW d \in 1..N, d < L, Agree(SerialNum, r, d), SerialNum[d] # r[d]
      PROVE  FALSE
    <2>1. SerialNum \in Rivals(r, d)
        BY <1>2, <1>3 DEF Rivals, Agree
    <2>2. Path(d) = SerialNum[d]
        BY <1>3 DEF Path
    <2> QED
        BY <1>3, <2>1, <2>2 DEF Reached
<1>4. Agree(SerialNum, r, L)
    <2>1. CASE SerialNum = r
        BY <2>1 DEF Agree
    <2>2. CASE SerialNum # r
        <3>1. PICK d \in 1..N : Agree(SerialNum, r, d) /\ SerialNum[d] # r[d]
            BY <1>2, <2>2, FirstDifference
        <3>2. ~(d < L)
            BY <1>3, <3>1
        <3> QED
            BY <1>1, <3>1, <3>2 DEF Agree
    <2> QED
        BY <2>1, <2>2
<1>5. q \in Rivals(r, L)
    BY <1>1, <1>4 DEF Rivals, Agree
<1>6. r[L] = 1
    <2>1. Path(L) = 1
        BY <1>1 DEF Path
    <2> QED
        BY <1>1, <1>5, <2>1 DEF Reached
<1> QED
    BY <1>1, <1>4, <1>6 DEF Before

\* A hit of an undisturbed list is new, and the list goes on forward.
LEMMA HitIsNew ==
    ASSUME TypeOK, Forward, NEW r \in Roms, Hit(r), bus' = bus, listed' \subseteq listed \union {r}
    PROVE  r \notin listed /\ Forward'
<1>1. r \in bus /\ Reached(r) /\ SerialNum' = r /\ ~LastDevice
    BY DEF Hit
<1>2. LastDevice' \/ (LastDiscrepancy \in ZeroTaken(SerialNum))'
    <2>1. PICK z \in 0..N :
              /\ IsLastZero(z, r)
              /\ LastDevice' = (z = 0)
              /\ LastDiscrepancy' = z \/ z = 0
        BY DEF Hit
    <2>2. CASE z = 0
        BY <2>1, <2>2
    <2>3. CASE z # 0
        <3>1. z \in ZeroTaken(r) /\ LastDiscrepancy' = z
            BY <2>1, <2>3 DEF IsLastZero
        <3> QED
            BY <1>1, <3>1 DEF ZeroTaken, Rivals
    <2> QED
        BY <2>2, <2>3
<1>3. CASE listed = {}
    BY <1>1, <1>2, <1>3 DEF Forward
<1>4. ASSUME \A q \in listed : q = SerialNum \/ Before(q, SerialNum),
             SerialNum \in bus, LastDiscrepancy \in ZeroTaken(SerialNum)
      PROVE  r \notin listed /\ Forward'
    <2>1. Before(SerialNum, r)
        BY <1>1, <1>4, FoundLater DEF Branching
    <2>2. \A q \in listed : Before(q, r) /\ q # r
        <3>1. SerialNum \in Rom /\ r \in Rom /\ listed \subseteq Rom
            BY DEF TypeOK
        <3> QED
            BY <1>4, <2>1, <3>1, BeforeIsOrder
    <2>3. \A q \in listed' : q = SerialNum' \/ Before(q, SerialNum')
        BY <1>1, <2>2
    <2> QED
        BY <1>1, <1>2, <2>2, <2>3 DEF Forward, Before, Agree
<1> QED
    BY <1>1, <1>3, <1>4 DEF Forward

\* Steps that are no part of a list but may end one.
LEMMA OtherSteps ==
    ASSUME Where, [Next]_vars, calm',
           pc' \in {"family", "all", "branch", "couplers", "listed"}
    PROVE  \/ UNCHANGED vars
           \/ \E r \in Roms : Join(r) \/ FamilyHit(r) \/ ListHit(r)
           \/ FamilyEnd \/ ListEnd
           \/ FindDevices \/ FirstOnTrunk \/ FirstOnBranch
<1>1. ASSUME (\E w \in Roms : Select(w)) \/ Retry \/ SkipFamily
      PROVE  FALSE
    BY <1>1 DEF Select, Retry, SetUp, SkipFamily
<1>2. ASSUME (\E r \in Roms : Compare(r)) \/ NotFound \/ ReadFails \/ Leave
      PROVE  FALSE
    BY <1>2 DEF Compare, NotFound, ReadFails, Leave
<1>3. ASSUME Noise \/ \E r \in Roms : Depart(r)
      PROVE  FALSE
    BY <1>3 DEF Noise, Depart, Remember, Where
<1> QED
    BY <1>1, <1>2, <1>3 DEF Next, Program

LEMMA MissingStep ==
    ASSUME TypeOK, Where, MissingAhead, [Next]_vars
    PROVE  MissingAhead'
<1> SUFFICES ASSUME calm', pc' \in {"family", "all", "branch", "couplers", "listed"}
             PROVE  MissingAhead'
    BY DEF MissingAhead
<1>1. CASE UNCHANGED vars
    <2>1. \A w : Ahead(w) => Ahead(w)'
        BY <1>1, JoinKeepsAhead DEF vars, world
    <2> QED
        BY <1>1, <2>1 DEF vars, lists, history, MissingAhead, Couplers
<1>2. ASSUME NEW r \in Roms, Join(r)
      PROVE  MissingAhead'
    <2>1. /\ bus \subseteq bus' /\ UNCHANGED search /\ calm
          /\ stayed' = stayed /\ listed' = listed /\ pc' = pc /\ NumDevices' = NumDevices
        BY <1>2 DEF Join, Remember, lists
    <2>2. \A w : Ahead(w) => Ahead(w)'
        BY <2>1, JoinKeepsAhead
    <2> QED
        BY <2>1, <2>2 DEF MissingAhead, Couplers
<1>3. ASSUME NEW r \in Roms, Hit(r), bus' = bus, calm, stayed' = stayed,
             NEW w \in stayed, w # r, Ahead(w)
      PROVE  Ahead(w)'
    BY <1>3, HitKeepsAhead DEF TypeOK
<1>4. ASSUME NEW r \in Roms, ListHit(r)
      PROVE  MissingAhead'
    <2>1. /\ Hit(r) /\ bus' = bus /\ calm /\ stayed' = stayed
          /\ listed' = listed \union {r} /\ pc' = pc /\ pc \in {"all", "branch"}
        BY <1>4 DEF ListHit, Report, world
    <2>2. \A w \in stayed' \ listed' : Ahead(w)'
        BY <1>3, <2>1 DEF MissingAhead
    <2> QED
        BY <2>1, <2>2 DEF MissingAhead
<1>5. ASSUME NEW r \in Roms, FamilyHit(r)
      PROVE  MissingAhead'
    <2>1. /\ Hit(r) /\ bus' = bus /\ calm /\ stayed' = stayed /\ pc = "family"
          /\ r \in Couplers({r}) => listed' = listed \union {r}
          /\ r \notin Couplers({r}) => listed' = listed
        BY <1>5 DEF FamilyHit, Report, world, Couplers
    <2>2. \A w \in Couplers(stayed') \ listed' : Ahead(w)'
        BY <1>3, <2>1 DEF MissingAhead, Couplers
    <2>3. pc' = "family" \/ (pc' = "couplers" /\ ~(NumDevices' < MaxDevices - 1))
        BY <1>5 DEF FamilyHit
    <2> QED
        BY <2>2, <2>3 DEF MissingAhead
<1>6. CASE ListEnd
    <2>1. /\ calm /\ stayed' = stayed /\ listed' = listed /\ pc' = "listed"
          /\ ~noise /\ pc \in {"all", "branch"} /\ (NoMore(TRUE) \/ NoMore(FALSE))
        BY <1>6 DEF ListEnd, history, Where
    <2>2. \A w \in stayed : w \in listed
        <3> SUFFICES ASSUME NEW w \in stayed, w \notin listed PROVE FALSE
            OBVIOUS
        <3>1. Ahead(w) /\ w \in bus
            BY <2>1 DEF MissingAhead, TypeOK
        <3> QED
            BY <2>1, <3>1, GoesOn
    <2> QED
        BY <2>1, <2>2 DEF MissingAhead
<1>7. CASE FamilyEnd
    <2>1. /\ calm /\ stayed' = stayed /\ listed' = listed /\ pc' = "couplers"
          /\ ~noise /\ pc = "family" /\ NoMore(TRUE)
        BY <1>7 DEF FamilyEnd, history, Where
    <2>2. \A w \in Couplers(stayed) : w \in listed
        <3> SUFFICES ASSUME NEW w \in Couplers(stayed), w \notin listed PROVE FALSE
            OBVIOUS
        <3>1. Ahead(w) /\ w \in bus
            BY <2>1 DEF MissingAhead, TypeOK, Couplers
        <3> QED
            BY <2>1, <3>1, GoesOn
    <2> QED
        BY <2>1, <2>2 DEF MissingAhead, Couplers
<1>8. CASE FindDevices
    <2>1. pc' = "family" /\ owFamilySearchSetup(Switch) /\ stayed' \subseteq Roms
        BY <1>8 DEF FindDevices, BeginList, TypeOK
    <2>2. \A w \in Couplers(stayed') : Ahead(w)'
        BY <2>1, SetUpIsAhead DEF Couplers
    <2> QED
        BY <2>1, <2>2 DEF MissingAhead, Couplers
<1>9. CASE FirstOnTrunk \/ FirstOnBranch
    <2>1. pc' \in {"all", "branch"} /\ ResetSearch
        BY <1>9 DEF FirstOnTrunk, FirstOnBranch
    <2>2. \A w : Ahead(w)'
        BY <2>1 DEF ResetSearch, Ahead, FromTop
    <2> QED
        BY <2>1, <2>2 DEF MissingAhead
<1> QED
    BY <1>1, <1>2, <1>4, <1>5, <1>6, <1>7, <1>8, <1>9, OtherSteps

LEMMA OnceStep ==
    ASSUME TypeOK, Where, OnceOnly, [Next]_vars
    PROVE  OnceOnly'
<1> SUFFICES ASSUME calm', pc' \in {"family", "all", "branch", "couplers", "listed"}
             PROVE  OnceOnly'
    BY DEF OnceOnly
<1>1. ASSUME bus \subseteq bus', UNCHANGED <<search, listed>>, Forward
      PROVE  Forward'
    <2>1. LastDiscrepancy \in ZeroTaken(SerialNum) => (LastDiscrepancy \in ZeroTaken(SerialNum))'
        BY <1>1 DEF ZeroTaken, Rivals, search
    <2> QED
        BY <1>1, <2>1 DEF Forward, FromTop, Before, Agree, search
<1>2. CASE UNCHANGED vars
    BY <1>1, <1>2 DEF vars, world, history, OnceOnly
<1>3. ASSUME NEW r \in Roms, Join(r)
      PROVE  OnceOnly'
    BY <1>1, <1>3 DEF Join, Remember, OnceOnly
<1>4. ASSUME NEW r \in Roms, FamilyHit(r) \/ ListHit(r)
      PROVE  OnceOnly'
    <2>1. /\ Hit(r) /\ bus' = bus /\ calm /\ Forward /\ ~twice
          /\ listed' \subseteq listed \union {r}
        BY <1>4 DEF FamilyHit, ListHit, Report, world, OnceOnly
    <2>2. r \notin listed /\ Forward'
        BY <2>1, HitIsNew
    <2>3. ~twice'
        BY <1>4, <2>1, <2>2 DEF FamilyHit, ListHit, Report
    <2> QED
        BY <2>2, <2>3 DEF OnceOnly
<1>5. CASE FamilyEnd \/ ListEnd
    BY <1>5 DEF FamilyEnd, ListEnd, history, OnceOnly
<1>6. CASE FindDevices \/ FirstOnTrunk \/ FirstOnBranch
    <2>1. listed' = {} /\ ~twice' /\ (LastDiscrepancy' = 0 \/ LastDiscrepancy' = N)
        BY <1>6 DEF FindDevices, FirstOnTrunk, FirstOnBranch, BeginList, ResetSearch,
            owFamilySearchSetup
    <2> QED
        BY <2>1 DEF OnceOnly, Forward, FromTop
<1> QED
    BY <1>2, <1>3, <1>4, <1>5, <1>6, OtherSteps

-----------------------------------------------------------------------------
(* The theorems *)

IInv == TypeOK /\ Where /\ WantedAhead /\ MissingAhead /\ OnceOnly

LEMMA Inductive == Spec => []IInv
<1>1. Init => Where /\ WantedAhead /\ MissingAhead /\ OnceOnly
    BY DEF Init, Where, WantedAhead, MissingAhead, OnceOnly
<1>2. TypeOK /\ IInv /\ [Next]_vars => (Where /\ WantedAhead /\ MissingAhead /\ OnceOnly)'
    BY TypeParts, PlaceStep, WantedStep, MissingStep, OnceStep DEF IInv
<1> QED
    BY <1>1, <1>2, TypeCorrect, PTL DEF Spec, IInv

\* A list w1find makes of a bus that no device leaves and no noise disturbs holds
\* every device that was there all the time, and none twice.
THEOREM ListsAreExact == Spec => []ListExact
<1>1. IInv => ListExact
    BY DEF IInv, MissingAhead, OnceOnly, ListExact
<1> QED
    BY <1>1, Inductive, PTL

\* The search implements Selection: whatever state earlier searches left behind,
\* a device is found only on the bus, and an attempt that nothing disturbed finds
\* the device it wants.
THEOREM SelectionIsKept == Spec => SelectsAsAsked
<1> DEFINE state == CASE pc = "select" -> "asking"
                      [] pc \in {"found", "failed"} -> pc
                      [] OTHER -> "idle"
           quiet == prog = "w1retap" /\ calm
<1>1. Init => Selects!Init
    BY DEF Init, Selects!Init
<1>2. ASSUME IInv, [Next]_vars
      PROVE  [Selects!Next]_Selects!vars
    <2> USE DEF Selects!vars
    <2> HIDE RomAssumption
    <2>0. TypeOK /\ Where /\ WantedAhead
        BY <1>2 DEF IInv
    <2>1. CASE UNCHANGED vars
        BY <2>1 DEF vars, world, history
    <2>2. ASSUME NEW w \in Roms, Select(w)
          PROVE  Selects!Ask(w)
        BY <2>2 DEF Select, SetUp, world, Selects!Ask, Selects!Attempt
    <2>3. CASE Retry
        <3>1. prog = "w1retap" /\ pc = "failed" /\ attempt < MaxRetry
              /\ SetUp(wanted, attempt + 1)
            BY <2>0, <2>3 DEF Retry, Where
        <3>2. Selects!Attempt(wanted, attempt + 1)
            BY <3>1 DEF SetUp, world, Selects!Attempt
        <3>3. Selects!Again
            BY <3>1, <3>2 DEF Selects!Again
        <3> QED
            BY <3>3 DEF Selects!Next
    <2>4. ASSUME NEW r \in Roms, Compare(r), r = wanted
          PROVE  Selects!Find
        BY <2>4 DEF Compare, Hit, world, history, Selects!Find
    <2>5. ASSUME NEW r \in Roms, Compare(r), r # wanted
          PROVE  UNCHANGED Selects!vars
        BY <2>5 DEF Compare, world, history
    <2>6. CASE NotFound
        <3>1. ~calm
            <4> SUFFICES ASSUME calm PROVE FALSE
                OBVIOUS
            <4>1. wanted \in bus /\ Ahead(wanted) /\ ~noise /\ NoMore(TRUE)
                BY <2>0, <2>6 DEF NotFound, WantedAhead, Where
            <4> QED
                BY <2>0, <4>1, GoesOn
        <3>2. Selects!Miss
            BY <2>6, <3>1 DEF NotFound, world, history, Selects!Miss
        <3> QED
            BY <3>2 DEF Selects!Next
    <2>7. CASE ReadFails
        <3>1. Selects!Unread
            BY <2>7 DEF ReadFails, world, history, Selects!Unread
        <3> QED
            BY <3>1 DEF Selects!Next
    <2>8. CASE Leave
        <3>1. Selects!Leave
            BY <2>8 DEF Leave, world, Selects!Leave
        <3> QED
            BY <3>1 DEF Selects!Next
    <2>9. ASSUME NEW r \in Roms, Join(r) \/ Depart(r)
          PROVE  Selects!Environment
        <3>1. /\ bus' \subseteq Roms /\ noise' \in BOOLEAN /\ (calm => ~noise)
              /\ calm' = (calm /\ bus \subseteq bus') /\ noise' = noise
              /\ UNCHANGED <<prog, pc, wanted, attempt>>
            BY <2>0, <2>9 DEF Join, Depart, Remember, TypeOK, Where
        <3> QED
            BY <3>1 DEF Selects!Environment
    <2>10. CASE Noise
        <3>1. /\ bus' \subseteq Roms /\ noise' \in BOOLEAN /\ (calm => ~noise)
              /\ ~calm' /\ bus' = bus /\ (noise' \/ noise)
              /\ UNCHANGED <<prog, pc, wanted, attempt>>
            BY <2>0, <2>10 DEF Noise, Remember, TypeOK, Where
        <3>2. Selects!Environment
            BY <3>1 DEF Selects!Environment
        <3> QED
            BY <3>2 DEF Selects!Next
    <2>11. ASSUME UNCHANGED <<noise, prog, wanted, attempt>>,
                  prog = "w1find",
                  pc \notin {"select", "found", "failed"},
                  pc' \notin {"select", "found", "failed"}
           PROVE  /\ bus' = bus => UNCHANGED Selects!vars
                  /\ bus' \subseteq Roms => Selects!Environment
        BY <2>0, <2>11 DEF TypeOK, Selects!Environment
    <2>12. CASE FindDevices \/ FamilyEnd \/ FirstOnTrunk \/ ListEnd
        BY <2>0, <2>11, <2>12 DEF FindDevices, FamilyEnd, FirstOnTrunk, ListEnd, BeginList,
            Where, world
    <2>13. ASSUME NEW r \in Roms, FamilyHit(r) \/ ListHit(r)
           PROVE  UNCHANGED Selects!vars
        BY <2>0, <2>11, <2>13 DEF FamilyHit, ListHit, Where, world
    <2>14. CASE SkipFamily \/ FirstOnBranch
        <3>1. Selects!Environment
            BY <2>0, <2>11, <2>14 DEF SkipFamily, FirstOnBranch, BeginList, Where
        <3> QED
            BY <3>1 DEF Selects!Next
    <2> QED
        <3>1. CASE \E w \in Roms : Select(w)
            BY <2>2, <3>1 DEF Selects!Next
        <3>2. CASE \E r \in Roms : Compare(r) \/ FamilyHit(r) \/ ListHit(r)
            BY <2>4, <2>5, <2>13, <3>2 DEF Selects!Next
        <3>3. CASE \E r \in Roms : Join(r) \/ Depart(r)
            BY <2>9, <3>3 DEF Selects!Next
        <3> QED
            BY <1>2, <2>1, <2>3, <2>6, <2>7, <2>8, <2>10, <2>12, <2>14, <3>1, <3>2, <3>3
            DEF Next, Program
<1> QED
    BY <1>1, <1>2, Inductive, PTL DEF Spec, SelectsAsAsked, Selects!Spec
=============================================================================
