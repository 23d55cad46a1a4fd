-------------------------- MODULE SignalFlags_proofs --------------------------
(***************************************************************************)
(* The safety of the signal flags, for any number of signals and either    *)
(* kind of build.  The argument follows a request that nobody races with:  *)
(* it was delivered while no handler ran and main had not loaded the flags, *)
(* so everybody who loaded them before has stored them, and everybody who  *)
(* loads them later sees it or runs on top of its handler.                 *)
(***************************************************************************)
EXTENDS SignalFlags, TLAPS

Frame == [flag : Flags, reg : SUBSET Flags]

\* The requests nobody raced with.
Sure == owed \ raced

\* The flags of a handler and of those it interrupted.
From(i) == {frames[j].flag : j \in i .. Len(frames)}

\* The values in the hands of main and of the handlers.
LoadsAreOwed ==
    /\ reg \subseteq owed
    /\ \A i \in 1 .. Len(frames) : frames[i].reg \subseteq owed

LoadsAreComplete ==
    /\ open => Sure \subseteq reg
    /\ \A i \in 1 .. Len(frames) : Sure \subseteq frames[i].reg \cup From(i)

\* Main has not looked at the flag since it last began to look at them.
Ahead(f) == at < Arming /\ \E i \in at .. 3 : Order[i] = f

Grain ==
    /\ atomic => frames = <<>> /\ ~open
    /\ open => at < Arming

\* A request that is not tardy is ahead of main, or main is still in the pass before
\* it looks; the same holds of one that has seen a wake-up.
HeldAhead == \A f \in Sure \ tardy : late[f] = 0 /\ (at = Passing \/ Ahead(f))

LateAhead ==
    \A f \in Flags : /\ f \notin owed => late[f] = 0
                     /\ f \in Sure => \/ late[f] = 0
                                      \/ late[f] = 1 /\ (at = Passing \/ Ahead(f))

IInv ==
    /\ TypeOK
    /\ OnlyRequests
    /\ LostOnlyInRace
    /\ LoadsAreOwed
    /\ LoadsAreComplete
    /\ Grain
    /\ HeldAhead
    /\ LateAhead
-----------------------------------------------------------------------------
\* A handler on top of the others.
LEMMA Push ==
    ASSUME NEW x \in Frame, NEW fs \in Seq(Frame), NEW q, q = <<x>> \o fs
    PROVE  /\ q \in Seq(Frame)
           /\ q # <<>>
           /\ Len(q) = Len(fs) + 1
           /\ q[1] = x
           /\ \A k \in 1 .. Len(fs) : q[k + 1] = fs[k]
<1>1. <<x>> \in Seq(Frame) /\ Len(<<x>>) = 1 /\ <<x>>[1] = x
  OBVIOUS
<1>2. q \in Seq(Frame) /\ Len(q) = 1 + Len(fs)
  BY <1>1
<1>3. \A k \in 1 .. Len(q) : q[k] = IF k <= 1 THEN <<x>>[k] ELSE fs[k - 1]
  BY <1>1, <1>2
<1>4. Len(fs) \in Nat
  OBVIOUS
<1>5. q[1] = x /\ \A k \in 1 .. Len(fs) : q[k + 1] = fs[k]
  BY <1>1, <1>2, <1>3, <1>4
<1> QED
  BY <1>2, <1>4, <1>5

\* The innermost handler is gone.
LEMMA Pop ==
    ASSUME NEW fs \in Seq(Frame), fs # <<>>
    PROVE  /\ Head(fs) = fs[1] /\ Head(fs) \in Frame
           /\ Tail(fs) \in Seq(Frame)
           /\ Len(fs) \in Nat \ {0}
           /\ Len(Tail(fs)) = Len(fs) - 1
           /\ \A k \in 1 .. Len(fs) - 1 : Tail(fs)[k] = fs[k + 1]
  OBVIOUS

\* A request nobody races with was delivered while nobody had the flags loaded.
LEMMA SureGrows ==
    ASSUME TypeOK, NEW f \in Flags, Handle(f)
    PROVE  /\ Sure' \subseteq Sure \cup {f}
           /\ frames # <<>> \/ open => Sure' \subseteq Sure
           /\ owed' = owed \cup {f} /\ raced' \subseteq owed' /\ raced \subseteq raced'
  BY DEF TypeOK, Handle, Sure

LEMMA InterruptStep ==
    ASSUME IInv, NEW f \in Flags, Interrupt(f)
    PROVE  IInv'
<1> USE DEF IInv
<1>1. /\ f \notin Handling /\ Handle(f) /\ at' = Resumed
      /\ UNCHANGED <<atomic, open, reg, late>>
  BY DEF Interrupt, Handle
<1>2. /\ Sure' \subseteq Sure \cup {f}
      /\ frames # <<>> \/ open => Sure' \subseteq Sure
      /\ owed' = owed \cup {f} /\ raced' \subseteq owed' /\ raced \subseteq raced'
  BY <1>1, SureGrows
<1>3. /\ tardy' \subseteq owed'
      /\ tardy \ {f} \subseteq tardy' /\ (at # Asleep => tardy \subseteq tardy')
      /\ TooLate(f) => f \in tardy'
  BY <1>1, <1>2 DEF Handle, TypeOK
<1>4. at' \in 1 .. Passing /\ (at # Asleep => at' = at) /\ (at = Asleep => at' = 1)
  BY <1>1 DEF Resumed, TypeOK, Passing, Asleep
<1>5. \A g \in Flags : Ahead(g) => Ahead(g)'
  BY <1>4 DEF Ahead, Arming, Asleep, TypeOK
<1>6. at = Asleep => \A g \in Flags : Ahead(g)'
  BY <1>4 DEF Ahead, Order, Arming, Flags
<1>7. HeldAhead'
  <2> SUFFICES ASSUME NEW g \in Sure', g \notin tardy'
               PROVE  late'[g] = 0 /\ (at' = Passing \/ Ahead(g)')
    BY DEF HeldAhead
  <2>1. g \in Flags
    BY <1>2 DEF Sure, TypeOK
  <2>2. late'[g] = 0
    <3>1. CASE g \in Sure \ tardy
      BY <3>1, <1>1 DEF HeldAhead
    <3>2. CASE g \in Sure /\ g \in tardy
      <4>1. at = Asleep
        BY <3>2, <1>3, <2>1
      <4> QED
        BY <3>2, <4>1, <2>1, <1>1 DEF LateAhead, Ahead, Asleep, Arming, Passing
    <3>3. CASE g \notin Sure
      <4>1. g = f /\ g \notin owed
        BY <3>3, <1>2 DEF Sure
      <4> QED
        BY <4>1, <1>1 DEF LateAhead
    <3> QED
      BY <3>1, <3>2, <3>3
  <2>3. CASE at \in {Asleep, Passing}
    BY <2>1, <2>2, <2>3, <1>4, <1>6 DEF Asleep, Passing
  <2>4. CASE at \in 1 .. Arming
    <3>1. CASE g \in Sure \ tardy
      BY <3>1, <2>1, <2>2, <2>4, <1>5 DEF HeldAhead, Arming, Passing
    <3>2. CASE ~(g \in Sure \ tardy)
      <4>1. g = f
        BY <3>2, <2>4, <1>2, <1>3 DEF Arming, Asleep
      <4>2. ~TooLate(f)
        BY <4>1, <1>3
      <4>3. PICK i \in at .. 3 : Order[i] = f
        BY <4>2, <2>4 DEF TooLate, Arming
      <4>4. Ahead(f)
        BY <4>3, <2>4 DEF Ahead, Arming
      <4> QED
        BY <4>1, <4>4, <1>5, <2>1, <2>2
    <3> QED
      BY <3>1, <3>2
  <2>5. at \in {Asleep, Passing} \/ at \in 1 .. Arming
    BY DEF TypeOK, Asleep, Passing, Arming
  <2> QED
    BY <2>2, <2>3, <2>4, <2>5
<1>8. LateAhead'
  <2> SUFFICES ASSUME NEW g \in Flags
               PROVE  /\ g \notin owed' => late'[g] = 0
                      /\ g \in Sure' => \/ late'[g] = 0
                                        \/ late'[g] = 1 /\ (at' = Passing \/ Ahead(g)')
    BY DEF LateAhead
  <2>1. g \notin owed' => late'[g] = 0
    BY <1>1, <1>2 DEF LateAhead
  <2>2. CASE g \in Sure
    BY <2>1, <2>2, <1>1, <1>4, <1>5 DEF LateAhead, Passing, Asleep
  <2>3. CASE g \notin Sure /\ g \in Sure'
    <3>1. g = f /\ g \notin raced /\ g \notin owed
      BY <2>3, <1>2 DEF Sure
    <3> QED
      BY <3>1, <2>1, <1>1 DEF LateAhead
  <2> QED
    BY <2>1, <2>2, <2>3
<1>9. CASE atomic
  <2>1. frames = <<>> /\ ~open /\ sigme' = sigme \cup {f} /\ frames' = frames
    BY <1>1, <1>9 DEF Handle, Grain
  <2>2. TypeOK'
    BY <1>1, <1>2, <1>3, <1>4, <2>1 DEF TypeOK
  <2>3. Handling = {} /\ Handling' = {}
    BY <2>1 DEF Handling
  <2>4. OnlyRequests' /\ LostOnlyInRace'
    BY <1>2, <2>1, <2>3 DEF OnlyRequests, LostOnlyInRace, Sure
  <2>5. LoadsAreOwed' /\ LoadsAreComplete' /\ Grain'
    BY <1>1, <1>2, <2>1 DEF LoadsAreOwed, LoadsAreComplete, Grain
  <2> QED
    BY <1>7, <1>8, <2>2, <2>4, <2>5
<1>10. CASE ~atomic
  <2> DEFINE x == [flag |-> f, reg |-> sigme]
  <2>1. sigme' = sigme /\ frames' = <<x>> \o frames
    BY <1>1, <1>10 DEF Handle
  <2>2. x \in Frame /\ frames \in Seq(Frame)
    BY DEF Frame, TypeOK
  <2> HIDE DEF x
  <2>3. /\ frames' \in Seq(Frame) /\ frames' # <<>>
        /\ Len(frames') = Len(frames) + 1 /\ Len(frames) \in Nat
        /\ frames'[1] = x
        /\ \A k \in 1 .. Len(frames) : frames'[k + 1] = frames[k]
    BY <2>1, <2>2, Push
  <2>4. ASSUME NEW i \in 1 .. Len(frames'), i # 1
        PROVE  i - 1 \in 1 .. Len(frames) /\ frames'[i] = frames[i - 1]
    <3>1. i - 1 \in 1 .. Len(frames)
      BY <2>3, <2>4
    <3>2. frames'[(i - 1) + 1] = frames[i - 1] /\ (i - 1) + 1 = i
      BY <2>3, <3>1
    <3> QED
      BY <3>1, <3>2
  <2>5. x.flag = f /\ x.reg = sigme
    BY DEF x
  <2>6. Handling' = Handling \cup {f}
    <3>1. Handling' \subseteq Handling \cup {f}
      BY <2>3, <2>4, <2>5 DEF Handling
    <3>2. f \in Handling'
      BY <2>3, <2>5 DEF Handling
    <3>3. Handling \subseteq Handling'
      <4> SUFFICES ASSUME NEW i \in 1 .. Len(frames) PROVE frames[i].flag \in Handling'
        BY DEF Handling
      <4>1. i + 1 \in 1 .. Len(frames') /\ frames'[i + 1].flag = frames[i].flag
        BY <2>3
      <4> QED
        BY <4>1 DEF Handling
    <3> QED
      BY <3>1, <3>2, <3>3
  <2>7. TypeOK'
    <3>1. \A i, j \in DOMAIN frames' : i # j => frames'[i].flag # frames'[j].flag
      <4> SUFFICES ASSUME NEW i \in 1 .. Len(frames'), NEW j \in 1 .. Len(frames'), i < j
                   PROVE  frames'[i].flag # frames'[j].flag
        BY <2>3
      <4>1. j - 1 \in 1 .. Len(frames) /\ frames'[j] = frames[j - 1]
        BY <2>3, <2>4
      <4>2. CASE i = 1
        BY <4>1, <4>2, <1>1, <2>3, <2>5 DEF Handling
      <4>3. CASE i # 1
        <5>1. i - 1 \in 1 .. Len(frames) /\ frames'[i] = frames[i - 1]
          BY <4>3, <2>4
        <5>2. i - 1 # j - 1 /\ DOMAIN frames = 1 .. Len(frames)
          BY <2>3, <2>2
        <5> QED
          BY <4>1, <5>1, <5>2 DEF TypeOK
      <4> QED
        BY <4>2, <4>3
    <3> QED
      BY <1>1, <1>2, <1>3, <1>4, <2>1, <2>3, <3>1 DEF TypeOK, Frame
  <2>8. OnlyRequests' /\ LostOnlyInRace'
    BY <1>2, <2>1, <2>6 DEF OnlyRequests, LostOnlyInRace, Sure
  <2>9. LoadsAreOwed'
    BY <1>1, <1>2, <2>3, <2>4, <2>5 DEF LoadsAreOwed, OnlyRequests
  <2>10. LoadsAreComplete'
    <3>1. open' => Sure' \subseteq reg'
      BY <1>1, <1>2 DEF LoadsAreComplete
    <3>2. ASSUME NEW i \in 1 .. Len(frames')
          PROVE  Sure' \subseteq frames'[i].reg \cup From(i)'
      <4>1. CASE i = 1
        <5>1. From(i)' = Handling'
          BY <4>1 DEF From, Handling
        <5> QED
          BY <4>1, <5>1, <1>2, <2>3, <2>5, <2>6 DEF LostOnlyInRace, Sure
      <4>2. CASE i # 1
        <5>1. i - 1 \in 1 .. Len(frames) /\ frames'[i] = frames[i - 1]
          BY <4>2, <2>4
        <5>2. From(i - 1) \subseteq From(i)'
          <6> SUFFICES ASSUME NEW j \in i - 1 .. Len(frames)
                       PROVE  frames[j].flag \in From(i)'
            BY DEF From
          <6>1. j + 1 \in i .. Len(frames') /\ frames'[j + 1] = frames[j]
            BY <5>1, <2>3
          <6> QED
            BY <6>1 DEF From
        <5>3. Sure' \subseteq Sure
          BY <5>1, <2>3, <1>2
        <5> QED
          BY <5>1, <5>2, <5>3 DEF LoadsAreComplete
      <4> QED
        BY <4>1, <4>2
    <3> QED
      BY <3>1, <3>2 DEF LoadsAreComplete
  <2>11. Grain'
    BY <1>1, <1>4, <1>10 DEF Grain, Asleep, Arming
  <2> QED
    BY <1>7, <1>8, <2>7, <2>8, <2>9, <2>10, <2>11
<1> QED
  BY <1>9, <1>10

LEMMA ReturnStep ==
    ASSUME IInv, Return
    PROVE  IInv'
<1> USE DEF IInv
<1>1. /\ frames # <<>> /\ frames' = Tail(frames)
      /\ sigme' = Head(frames).reg \cup {Head(frames).flag}
      /\ UNCHANGED <<atomic, at, open, reg, owed, raced, tardy, late>>
  BY DEF Return
<1>2. frames \in Seq(Frame)
  BY DEF TypeOK, Frame
<1>3. /\ Head(frames) = frames[1] /\ frames[1] \in Frame
      /\ frames' \in Seq(Frame)
      /\ Len(frames) \in Nat \ {0} /\ Len(frames') = Len(frames) - 1
      /\ \A k \in 1 .. Len(frames) - 1 : frames'[k] = frames[k + 1]
  BY <1>1, <1>2, Pop
<1>4. ~atomic
  BY <1>1 DEF Grain
<1>5. Handling' \subseteq Handling /\ Handling \subseteq Handling' \cup {frames[1].flag}
  <2>1. ASSUME NEW i \in 1 .. Len(frames') PROVE frames'[i].flag \in Handling
    <3>1. i + 1 \in 1 .. Len(frames) /\ frames'[i] = frames[i + 1]
      BY <1>3
    <3> QED
      BY <3>1 DEF Handling
  <2>2. ASSUME NEW i \in 1 .. Len(frames), i # 1 PROVE frames[i].flag \in Handling'
    <3>1. i - 1 \in 1 .. Len(frames') /\ frames'[i - 1] = frames[i]
      BY <1>3, <2>2
    <3> QED
      BY <3>1 DEF Handling
  <2> QED
    BY <2>1, <2>2 DEF Handling
<1>6. TypeOK'
  <2>1. \A i, j \in DOMAIN frames' : i # j => frames'[i].flag # frames'[j].flag
    <3> SUFFICES ASSUME NEW i \in 1 .. Len(frames'), NEW j \in 1 .. Len(frames'), i # j
                 PROVE  frames'[i].flag # frames'[j].flag
      BY <1>3
    <3>1. /\ i + 1 \in 1 .. Len(frames) /\ frames'[i] = frames[i + 1]
          /\ j + 1 \in 1 .. Len(frames) /\ frames'[j] = frames[j + 1]
      BY <1>3
    <3> QED
      BY <3>1 DEF TypeOK
  <2> QED
    BY <1>1, <1>3, <2>1 DEF TypeOK, Frame
<1>7. 1 \in 1 .. Len(frames)
  BY <1>3
<1>8. OnlyRequests'
  BY <1>1, <1>3, <1>5, <1>7 DEF OnlyRequests, LoadsAreOwed, Handling
<1>9. LostOnlyInRace'
  <2>1. Sure \subseteq frames[1].reg \cup From(1)
    BY <1>7 DEF LoadsAreComplete
  <2>2. From(1) = Handling
    BY DEF From, Handling
  <2> QED
    BY <2>1, <2>2, <1>1, <1>3, <1>5 DEF LostOnlyInRace, Sure
<1>10. LoadsAreOwed'
  BY <1>1, <1>3 DEF LoadsAreOwed
<1>11. LoadsAreComplete'
  <2>1. open' => Sure' \subseteq reg'
    BY <1>1 DEF LoadsAreComplete, Sure
  <2>2. ASSUME NEW i \in 1 .. Len(frames')
        PROVE  Sure' \subseteq frames'[i].reg \cup From(i)'
    <3>1. i + 1 \in 1 .. Len(frames) /\ frames'[i] = frames[i + 1]
      BY <1>3
    <3>2. From(i + 1) \subseteq From(i)'
      <4> SUFFICES ASSUME NEW j \in i + 1 .. Len(frames) PROVE frames[j].flag \in From(i)'
        BY DEF From
      <4>1. j - 1 \in i .. Len(frames') /\ frames'[j - 1] = frames[j]
        BY <1>3
      <4> QED
        BY <4>1 DEF From
    <3> QED
      BY <3>1, <3>2, <1>1 DEF LoadsAreComplete, Sure
  <2> QED
    BY <2>1, <2>2 DEF LoadsAreComplete
<1>12. Grain'
  BY <1>1, <1>4 DEF Grain
<1>13. HeldAhead' /\ LateAhead'
  BY <1>1 DEF HeldAhead, LateAhead, Ahead, Sure
<1> QED
  BY <1>6, <1>8, <1>9, <1>10, <1>11, <1>12, <1>13

\* What serving a flag does to the requests.
LEMMA ServeStep ==
    ASSUME IInv, NEW kept \in SUBSET Flags, at < Arming,
           Serve(kept), frames = <<>>, kept \subseteq owed, Sure \subseteq kept
    PROVE  IInv'
<1> USE DEF IInv
<1> DEFINE o == Order[at]
<1>1. /\ sigme' = kept \ {o}
      /\ owed' = owed \ {o} /\ raced' = raced \ {o} /\ tardy' = tardy \ {o}
      /\ late' = [late EXCEPT ![o] = 0]
      /\ at' = at + 1 /\ open' = FALSE /\ reg' = {}
      /\ UNCHANGED <<atomic, frames>>
  BY DEF Serve, TakeUp
<1>2. o \in Flags /\ at \in 1 .. 3 /\ at' \in 2 .. 4
  BY <1>1 DEF Order, Flags, TypeOK, Arming, Passing
<1>3. \A g \in Flags \ {o} : Ahead(g) => Ahead(g)'
  <2> SUFFICES ASSUME NEW g \in Flags \ {o}, Ahead(g) PROVE Ahead(g)'
    OBVIOUS
  <2>1. PICK i \in at .. 3 : Order[i] = g
    BY DEF Ahead
  <2>2. i \in at + 1 .. 3
    BY <1>2, <2>1
  <2> QED
    BY <1>1, <1>2, <2>1, <2>2 DEF Ahead, Arming
<1> HIDE DEF o
<1>4. Sure' = Sure \ {o}
  BY <1>1 DEF Sure
<1>5. TypeOK'
  <2>1. /\ atomic' \in BOOLEAN /\ frames' \in Seq([flag : Flags, reg : SUBSET Flags])
        /\ \A i, j \in DOMAIN frames' : i # j => frames'[i].flag # frames'[j].flag
    BY <1>1 DEF TypeOK
  <2>2. /\ sigme' \subseteq Flags /\ owed' \subseteq Flags
        /\ raced' \subseteq owed' /\ tardy' \subseteq owed'
        /\ open' \in BOOLEAN /\ reg' \subseteq Flags
    BY <1>1 DEF TypeOK
  <2>3. at' \in 1 .. Passing /\ late' \in [Flags -> Nat]
    BY <1>1, <1>2 DEF TypeOK, Passing
  <2> QED
    BY <2>1, <2>2, <2>3 DEF TypeOK
<1>6. Handling = {} /\ Handling' = {}
  BY <1>1 DEF Handling
<1>7. OnlyRequests' /\ LostOnlyInRace'
  BY <1>1, <1>4, <1>6 DEF OnlyRequests, LostOnlyInRace, Sure
<1>8. LoadsAreOwed' /\ LoadsAreComplete' /\ Grain'
  BY <1>1 DEF LoadsAreOwed, LoadsAreComplete, Grain
<1>9. HeldAhead'
  BY <1>1, <1>2, <1>3, <1>4 DEF HeldAhead, TypeOK, Sure, Passing
<1>10. LateAhead'
  BY <1>1, <1>2, <1>3, <1>4 DEF LateAhead, TypeOK, Passing, Sure
<1> QED
  BY <1>5, <1>7, <1>8, <1>9, <1>10

LEMMA MainStep ==
    ASSUME IInv, Skip \/ Load \/ ServeAtOnce \/ Store \/ Arm \/ Wake \/ Pass
    PROVE  IInv'
<1> USE DEF IInv
<1>1. CASE ServeAtOnce
  <2>1. frames = <<>> /\ at < Arming /\ Serve(sigme)
    BY <1>1 DEF ServeAtOnce, Grain
  <2>2. Handling = {}
    BY <2>1 DEF Handling
  <2>3. sigme \in SUBSET Flags /\ sigme \subseteq owed /\ Sure \subseteq sigme
    BY <2>2 DEF TypeOK, OnlyRequests, LostOnlyInRace, Sure
  <2> QED
    BY <2>1, <2>3, ServeStep
<1>2. CASE Store
  <2>1. frames = <<>> /\ open /\ at < Arming /\ Serve(reg)
    BY <1>2 DEF Store, Grain
  <2>2. reg \in SUBSET Flags /\ reg \subseteq owed /\ Sure \subseteq reg
    BY <2>1 DEF TypeOK, LoadsAreOwed, LoadsAreComplete
  <2> QED
    BY <2>1, <2>2, ServeStep
<1>3. CASE Load
  <2>1. /\ open' = TRUE /\ reg' = sigme
        /\ ~atomic /\ frames = <<>> /\ at < Arming
        /\ UNCHANGED <<atomic, sigme, at, frames, owed, raced, tardy, late>>
    BY <1>3 DEF Load
  <2>2. TypeOK' /\ Grain'
    BY <2>1 DEF TypeOK, Grain
  <2>3. OnlyRequests' /\ LostOnlyInRace' /\ LoadsAreOwed' /\ LoadsAreComplete'
    BY <2>1 DEF OnlyRequests, LostOnlyInRace, LoadsAreOwed, LoadsAreComplete, Sure, Handling
  <2>4. HeldAhead' /\ LateAhead'
    BY <2>1 DEF HeldAhead, LateAhead, Ahead, Sure
  <2> QED
    BY <2>2, <2>3, <2>4
<1>4. CASE Skip
  <2>1. /\ frames = <<>> /\ at < Arming /\ Order[at] \notin sigme /\ ~open
        /\ at' = at + 1
        /\ UNCHANGED <<atomic, sigme, open, reg, frames, owed, raced, tardy, late>>
    BY <1>4 DEF Skip
  <2>2. at \in 1 .. 3
    BY <2>1 DEF TypeOK, Arming, Passing
  <2>3. Order[at] \notin Sure
    BY <2>1 DEF LostOnlyInRace, Handling, Sure
  <2>4. \A g \in Sure : Ahead(g) => Ahead(g)'
    <3> SUFFICES ASSUME NEW g \in Sure, Ahead(g) PROVE Ahead(g)'
      OBVIOUS
    <3>1. PICK i \in at .. 3 : Order[i] = g
      BY DEF Ahead
    <3>2. i # at
      BY <2>3, <3>1
    <3>3. i \in at + 1 .. 3 /\ at + 1 < 4
      BY <2>2, <3>2
    <3> QED
      BY <2>1, <3>1, <3>3 DEF Ahead, Arming
  <2>5. TypeOK' /\ Grain'
    BY <2>1, <2>2 DEF TypeOK, Grain, Arming, Passing
  <2>6. OnlyRequests' /\ LostOnlyInRace' /\ LoadsAreOwed' /\ LoadsAreComplete'
    BY <2>1 DEF OnlyRequests, LostOnlyInRace, LoadsAreOwed, LoadsAreComplete, Sure, Handling
  <2>7. HeldAhead'
    BY <2>1, <2>2, <2>4 DEF HeldAhead, TypeOK, Sure, Passing
  <2>8. LateAhead'
    BY <2>1, <2>2, <2>4 DEF LateAhead, Sure, Passing
  <2> QED
    BY <2>5, <2>6, <2>7, <2>8
<1>5. CASE Wake
  <2>1. /\ frames = <<>> /\ at = Asleep /\ at' = Passing
        /\ late' = [f \in Flags |-> IF f \in owed /\ late[f] < 2 THEN late[f] + 1 ELSE late[f]]
        /\ UNCHANGED <<atomic, sigme, open, reg, frames, owed, raced, tardy>>
    BY <1>5 DEF Wake
  <2>2. \A g \in Flags : ~Ahead(g)
    BY <2>1 DEF Ahead, Arming, Asleep
  <2>3. TypeOK' /\ Grain'
    BY <2>1 DEF TypeOK, Grain, Passing, Arming, Asleep
  <2>4. OnlyRequests' /\ LostOnlyInRace' /\ LoadsAreOwed' /\ LoadsAreComplete'
    BY <2>1 DEF OnlyRequests, LostOnlyInRace, LoadsAreOwed, LoadsAreComplete, Sure, Handling
  <2>5. HeldAhead'
    BY <2>1, <2>2 DEF HeldAhead, TypeOK, Sure, Passing, Asleep
  <2>6. LateAhead'
    <3> SUFFICES ASSUME NEW g \in Flags
                 PROVE  /\ g \notin owed => late'[g] = 0
                        /\ g \in Sure => late'[g] = 0 \/ late'[g] = 1
      BY <2>1 DEF LateAhead, Sure
    <3>1. g \in Sure => late[g] = 0 /\ g \in owed
      BY <2>1, <2>2 DEF LateAhead, Sure, Asleep, Passing
    <3> QED
      BY <2>1, <3>1 DEF LateAhead
  <2> QED
    BY <2>3, <2>4, <2>5, <2>6
<1>6. CASE Pass
  <2>1. /\ frames = <<>> /\ at = Passing /\ at' = 1
        /\ UNCHANGED <<atomic, sigme, open, reg, frames, owed, raced, tardy, late>>
    BY <1>6 DEF Pass
  <2>2. \A g \in Flags : Ahead(g)' /\ ~Ahead(g)
    BY <2>1 DEF Ahead, Arming, Passing, Order, Flags
  <2>3. TypeOK' /\ Grain'
    BY <2>1 DEF TypeOK, Grain, Passing, Arming
  <2>4. OnlyRequests' /\ LostOnlyInRace' /\ LoadsAreOwed' /\ LoadsAreComplete'
    BY <2>1 DEF OnlyRequests, LostOnlyInRace, LoadsAreOwed, LoadsAreComplete, Sure, Handling
  <2>5. HeldAhead' /\ LateAhead'
    BY <2>1, <2>2 DEF HeldAhead, LateAhead, Sure, TypeOK
  <2> QED
    BY <2>3, <2>4, <2>5
<1>7. CASE Arm
  <2>1. /\ frames = <<>> /\ at = Arming /\ at' = Asleep
        /\ UNCHANGED <<atomic, sigme, open, reg, frames, owed, raced, tardy, late>>
    BY <1>7 DEF Arm
  <2>2. \A g \in Flags : ~Ahead(g)
    BY <2>1 DEF Ahead, Arming
  <2>3. TypeOK' /\ Grain'
    BY <2>1 DEF TypeOK, Grain, Passing, Arming, Asleep
  <2>4. OnlyRequests' /\ LostOnlyInRace' /\ LoadsAreOwed' /\ LoadsAreComplete'
    BY <2>1 DEF OnlyRequests, LostOnlyInRace, LoadsAreOwed, LoadsAreComplete, Sure, Handling
  <2>5. HeldAhead' /\ LateAhead'
    BY <2>1, <2>2 DEF HeldAhead, LateAhead, Sure, TypeOK, Arming, Asleep, Passing
  <2> QED
    BY <2>3, <2>4, <2>5
<1> QED
  BY <1>1, <1>2, <1>3, <1>4, <1>5, <1>6, <1>7

-----------------------------------------------------------------------------
LEMMA InitInvariant == Init => IInv
<1> SUFFICES ASSUME Init PROVE IInv
  OBVIOUS
<1> USE DEF Init
<1>1. Len(frames) = 0 /\ frames \in Seq(Frame)
  OBVIOUS
<1>2. TypeOK
  <2>1. DOMAIN frames = {}
    BY <1>1
  <2>2. at \in 1 .. Passing /\ late \in [Flags -> Nat]
    BY DEF Passing
  <2> QED
    BY <1>1, <2>1, <2>2 DEF TypeOK, Frame
<1>3. OnlyRequests /\ LostOnlyInRace
  BY <1>1 DEF OnlyRequests, LostOnlyInRace, Handling
<1>4. LoadsAreOwed /\ LoadsAreComplete /\ Grain
  BY <1>1 DEF LoadsAreOwed, LoadsAreComplete, Grain
<1>5. HeldAhead /\ LateAhead
  BY DEF HeldAhead, LateAhead, Sure
<1> QED
  BY <1>2, <1>3, <1>4, <1>5 DEF IInv

LEMMA Stutter == IInv /\ UNCHANGED vars => IInv'
<1> SUFFICES ASSUME IInv, UNCHANGED vars PROVE IInv'
  OBVIOUS
<1> USE DEF IInv, vars
<1>1. TypeOK' /\ OnlyRequests' /\ LostOnlyInRace' /\ LoadsAreOwed'
  BY DEF TypeOK, OnlyRequests, LostOnlyInRace, LoadsAreOwed, Handling
<1>2. LoadsAreComplete' /\ Grain'
  BY DEF LoadsAreComplete, Grain, Sure, From
<1>3. HeldAhead' /\ LateAhead'
  BY DEF HeldAhead, LateAhead, Ahead, Sure
<1> QED
  BY <1>1, <1>2, <1>3

LEMMA Inductive == Spec => []IInv
<1>1. IInv /\ [Next]_vars => IInv'
  BY InterruptStep, ReturnStep, MainStep, Stutter DEF Next, Main
<1> QED
  BY InitInvariant, <1>1, PTL DEF Spec

\* Every variable of SignalFlags keeps its type, and no handler interrupts itself.
THEOREM TypeCorrect == Spec => []TypeOK
<1>1. IInv => TypeOK
  BY DEF IInv
<1> QED
  BY Inductive, <1>1, PTL

\* The pass, the reload and the listing of main are each done only when a signal
\* asked for them, whatever handlers and main have stored over one another.
THEOREM NothingUnasked == Spec => []OnlyRequests
<1>1. IInv => OnlyRequests
  BY DEF IInv
<1> QED
  BY Inductive, <1>1, PTL

\* A signal is forgotten only if it was delivered between a load and a store of
\* sigme, by main or by another handler.
THEOREM NothingLost == Spec => []LostOnlyInRace
<1>1. IInv => LostOnlyInRace
  BY DEF IInv
<1> QED
  BY Inductive, <1>1, PTL

\* No request that nobody races with waits for more than one wake-up.
THEOREM Prompt == Spec => []ServedSoon
<1>1. IInv => ServedSoon
  <2> SUFFICES ASSUME IInv, NEW f \in owed \ raced PROVE late[f] <= 1
    BY DEF ServedSoon
  <2>1. f \in Flags /\ f \in Sure
    BY DEF IInv, TypeOK, Sure
  <2> QED
    BY <2>1 DEF IInv, LateAhead
<1> QED
  BY Inductive, <1>1, PTL

\* And it waits for that one only if it was delivered between the look at its flag
\* and the sleep, the moments in which a signal neither is seen nor ends a sleep.
THEOREM OnlyTardyRequestsWait == Spec => []OnlyTardyWait
<1>1. IInv => OnlyTardyWait
  <2> SUFFICES ASSUME IInv, NEW f \in owed \ raced, f \notin tardy PROVE ~(late[f] > 0)
    BY DEF OnlyTardyWait
  <2>1. late[f] = 0
    BY DEF IInv, HeldAhead, Sure
  <2> QED
    BY <2>1
<1> QED
  BY Inductive, <1>1, PTL

\* In a build that updates the flags in one instruction no signal is ever lost.
THEOREM AtomicLosesNothing == Spec => [](atomic => owed \subseteq sigme)
<1> DEFINE NoRace == atomic => raced = {}
<1>1. Init => NoRace
  BY DEF Init
<1>2. IInv /\ NoRace /\ [Next]_vars => NoRace'
  <2> SUFFICES ASSUME IInv, atomic, raced = {}, [Next]_vars, atomic' PROVE raced' = {}
    BY DEF Next, Main, Skip, Load, ServeAtOnce, Store, Serve, TakeUp, Arm, Wake, Pass, Return,
       Interrupt, Handle, vars
  <2>1. frames = <<>> /\ ~open
    BY DEF IInv, Grain
  <2> QED
    BY <2>1 DEF Next, Main, Skip, Load, ServeAtOnce, Store, Serve, TakeUp, Arm, Wake, Pass, Return,
       Interrupt, Handle, vars
<1>3. IInv /\ NoRace => (atomic => owed \subseteq sigme)
  BY DEF IInv, Grain, LostOnlyInRace, Handling
<1> QED
  BY Inductive, <1>1, <1>2, <1>3, PTL DEF Spec
=============================================================================
