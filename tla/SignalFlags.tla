----------------------------- MODULE SignalFlags -----------------------------
(***************************************************************************)
(* The flags by which the signal handlers ask the main loop for a pass     *)
(* (SIGUSR1, W1_READALL), a reload (SIGHUP, W1_RECONF) or a listing        *)
(* (SIGUSR2, W1_SHOWCF).  A handler runs in the main thread, on top of     *)
(* whatever it interrupts; its own signal is blocked meanwhile, the others *)
(* are not.  "sigme |= f" and "sigme &= ~f" are one instruction on some    *)
(* machines and a load, an operation and a store on others: the variable   *)
(* atomic says which.  A signal is modelled from the moment it is          *)
(* delivered.                                                              *)
(* A definition named X_Slip... is a plausible mistake in X.               *)
(***************************************************************************)
EXTENDS Naturals, Sequences

W1_READALL == "READALL"
W1_RECONF  == "RECONF"
W1_SHOWCF  == "SHOWCF"

Flags == {W1_READALL, W1_RECONF, W1_SHOWCF}

\* The order in which main looks at the flags; then it works out when to wake,
\* sleeps, and does the pass of the wake-up.
Order == <<W1_READALL, W1_RECONF, W1_SHOWCF>>
Arming == 4
Asleep == 5
Passing == 6

VARIABLES
    atomic,  \* the build updates a flag in one instruction
    sigme,   \* the flags
    at,      \* where main is: at a flag of Order, Arming, Asleep or Passing
    open,    \* main has loaded sigme and not stored it yet
    reg,     \* what it loaded
    frames,  \* the handlers running, innermost first: flag and loaded value
    owed,    \* requested and not taken up since (history)
    raced,   \* of these, delivered inside somebody's load and store (history)
    tardy,   \* of these, delivered too late for the round of looks before the
             \* sleep and too early to end it (history)
    late     \* wake-ups since the oldest unserved request (history)

vars == <<atomic, sigme, at, open, reg, frames, owed, raced, tardy, late>>

-----------------------------------------------------------------------------
Init ==
    /\ atomic \in BOOLEAN
    /\ sigme = {}
    /\ at = Passing
    /\ open = FALSE
    /\ reg = {}
    /\ frames = <<>>
    /\ owed = {}
    /\ raced = {}
    /\ tardy = {}
    /\ late = [f \in Flags |-> 0]

Handling == {frames[i].flag : i \in 1 .. Len(frames)}

\* Main has looked at the flag f and is not asleep yet: what sets f now, the sleep
\* that follows does not notice.
TooLate(f) == at <= Arming /\ \A i \in at .. 3 : Order[i] # f

\* The handler of f: at once, or from its load.
Handle(f) ==
    /\ IF atomic
       THEN sigme' = sigme \cup {f} /\ UNCHANGED frames
       ELSE frames' = <<[flag |-> f, reg |-> sigme]>> \o frames /\ UNCHANGED sigme
    /\ owed' = owed \cup {f}
    /\ raced' = IF frames # <<>> \/ open THEN raced \cup {f} ELSE raced
    /\ tardy' = IF TooLate(f) THEN tardy \cup {f}
                ELSE IF at = Asleep THEN tardy \ {f} ELSE tardy
    /\ UNCHANGED <<atomic, open, reg, late>>

\* A signal ends a sleep that has begun, and nothing else.
Resumed == IF at = Asleep THEN 1 ELSE at

Interrupt_SlipRestart(f) == f \notin Handling /\ Handle(f) /\ at' = at

\* A signal is delivered; a sleep returns EINTR once the handler is done.
Interrupt(f) == f \notin Handling /\ Handle(f) /\ at' = Resumed

\* The innermost handler stores and returns.
Return ==
    /\ frames # <<>>
    /\ sigme' = Head(frames).reg \cup {Head(frames).flag}
    /\ frames' = Tail(frames)
    /\ UNCHANGED <<atomic, at, open, reg, owed, raced, tardy, late>>

-----------------------------------------------------------------------------
\* The main thread runs when no handler does.  A flag that is not set is passed
\* over; one that is set is loaded again to be cleared.
Skip ==
    /\ frames = <<>> /\ ~open
    /\ at < Arming /\ Order[at] \notin sigme
    /\ at' = at + 1
    /\ UNCHANGED <<atomic, sigme, open, reg, frames, owed, raced, tardy, late>>

Load ==
    /\ ~atomic
    /\ frames = <<>> /\ ~open
    /\ at < Arming /\ Order[at] \in sigme
    /\ open' = TRUE
    /\ reg' = sigme
    /\ UNCHANGED <<atomic, sigme, at, frames, owed, raced, tardy, late>>

\* What is done when the flag main is at is taken up, but for sigme.
TakeUp ==
    /\ owed' = owed \ {Order[at]}
    /\ raced' = raced \ {Order[at]}
    /\ tardy' = tardy \ {Order[at]}
    /\ late' = [late EXCEPT ![Order[at]] = 0]
    /\ at' = at + 1
    /\ open' = FALSE
    /\ reg' = {}
    /\ UNCHANGED <<atomic, frames>>

Serve_SlipNoClear(kept) == sigme' = kept /\ TakeUp

Serve_SlipAll(kept) == sigme' = {} /\ TakeUp

\* The flag is cleared, then the pass, reload or listing it asks for is done.
Serve(kept) == sigme' = kept \ {Order[at]} /\ TakeUp

ServeAtOnce ==
    /\ atomic /\ at < Arming /\ Order[at] \in sigme
    /\ Serve(sigme)

Store ==
    /\ frames = <<>> /\ open
    /\ Serve(reg)

\* The time to wake is known and the sleep begins, whatever the flags say now.
Arm ==
    /\ frames = <<>> /\ at = Arming
    /\ at' = Asleep
    /\ UNCHANGED <<atomic, sigme, open, reg, frames, owed, raced, tardy, late>>

\* The sleep ends by itself.
Wake ==
    /\ frames = <<>> /\ at = Asleep
    /\ at' = Passing
    /\ late' = [f \in Flags |-> IF f \in owed /\ late[f] < 2 THEN late[f] + 1 ELSE late[f]]
    /\ UNCHANGED <<atomic, sigme, open, reg, frames, owed, raced, tardy>>

Pass_SlipNoLook ==
    /\ frames = <<>> /\ at = Passing
    /\ at' = Arming
    /\ UNCHANGED <<atomic, sigme, open, reg, frames, owed, raced, tardy, late>>

\* The pass of a wake-up is over; main looks at the flags before it sleeps.
Pass ==
    /\ frames = <<>> /\ at = Passing
    /\ at' = 1
    /\ UNCHANGED <<atomic, sigme, open, reg, frames, owed, raced, tardy, late>>

Main == Skip \/ Load \/ ServeAtOnce \/ Store \/ Arm \/ Pass

Next == Main \/ Wake \/ Return \/ \E f \in Flags : Interrupt(f)

Spec == Init /\ [][Next]_vars

\* The main thread runs, and a sleep that no signal interrupts ends: its target is
\* a time of the clock.
FairSpec == Spec /\ WF_vars(Main) /\ WF_vars(Wake)

-----------------------------------------------------------------------------
TypeOK ==
    /\ atomic \in BOOLEAN
    /\ sigme \subseteq Flags /\ owed \subseteq Flags
    /\ raced \subseteq owed /\ tardy \subseteq owed
    /\ at \in 1 .. Passing
    /\ open \in BOOLEAN /\ reg \subseteq Flags
    /\ frames \in Seq([flag : Flags, reg : SUBSET Flags])
    /\ \A i, j \in DOMAIN frames : i # j => frames[i].flag # frames[j].flag
    /\ late \in [Flags -> Nat]

\* Nothing is done that nobody asked for: a stale load never brings back a flag
\* that was served.
OnlyRequests == sigme \cup Handling \subseteq owed

\* A request is on record until it is taken up, unless it was delivered between
\* somebody's load and store of the flags.
LostOnlyInRace == owed \ raced \subseteq sigme \cup Handling

\* A request that nobody races with waits for at most one wake-up, even when it
\* comes after its flag was looked at and before the sleep.
ServedSoon == \A f \in owed \ raced : late[f] <= 1

\* The window of the lost wake-up: a request that nobody races with sees a wake-up
\* before it is served only if it came after main looked at its flag and before
\* the sleep began.  One that comes earlier, during the sleep or during the pass is
\* taken up before main sleeps again.
OnlyTardyWait == \A f \in owed \ raced : late[f] > 0 => f \in tardy

\* With one-instruction updates every request is taken up, however many signals
\* interrupt the sleep.
EveryRequestServed == \A f \in Flags : [](atomic /\ f \in owed => <>(f \notin owed))
=============================================================================
