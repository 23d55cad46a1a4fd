--------------------------- MODULE Plugins_proofs ---------------------------
(***************************************************************************)
(* The plugin libraries, for any configuration files, databases and        *)
(* sensors.                                                                *)
(*                                                                         *)
(* The argument: static variables that are not as they were loaded belong  *)
(* to a library that a line in force names, lead to a database such a line *)
(* names, and hold rows of such lines only; a reload that unloads these    *)
(* libraries therefore unloads everything.  The readings of a pass, but    *)
(* for the refused ones, are whole in every transaction except the one     *)
(* being written, which has all that is neither refused nor still to be    *)
(* inserted, or nothing once its session is lost; they move from the       *)
(* transaction to the database in one step.  SQLite works without a        *)
(* transaction only after it undid one, and with it the whole call.        *)
(***************************************************************************)
EXTENDS Plugins, WellFoundedInduction, TLAPS

USE LoggersAssumption, PluginsAssumption

-----------------------------------------------------------------------------
(* Types *)

\* The static variables of a library, whichever calls were made.
Sane(l, s) ==
    /\ s \in Statics
    /\ s.stmt # "freed" /\ s.stml # "freed"
    /\ s.live => s.conn # NoDb
    /\ ~s.live => s.rows = {}
    /\ s.rows # {} => s.begun
    /\ s.begun => Kind[l] \in {"mysql", "sqlite"}
    /\ Kind[l] = "file" => s = Fresh

Statuses == [Databases -> {"free", "down", "read", "written"}]

LEMMA FreshIsSane == \A l \in Libs : Sane(l, Fresh)
BY DEF Sane, Fresh, Statics, Handles, Kinds

LEMMA Connects ==
    ASSUME NEW l \in Libs, NEW s, Sane(l, s), NEW d \in Databases, NEW live \in BOOLEAN,
           s.conn = NoDb, Kind[l] # "file"
    PROVE  Sane(l, [s EXCEPT !.conn = d, !.live = live])
BY DEF Sane, Statics

LEMMA Prepares ==
    ASSUME NEW l \in Libs, NEW s, Sane(l, s), NEW type \in {"l", "r"}, Kind[l] # "file",
           NEW ok \in BOOLEAN
    PROVE  LET p == Prepared(s, Kind[l], type, ok)
           IN  Sane(l, p) /\ p.rows = s.rows /\ p.conn = s.conn /\ p.live = s.live
<1> DEFINE stmt == Handle(s.stmt, Kind[l], ok)
<1> DEFINE stml == Handle(s.stml, Kind[l], ok)
<1>1. s \in Statics /\ s.stmt # "freed" /\ s.stml # "freed"
    BY DEF Sane
<1>2. /\ stmt \in Handles /\ stmt # "freed"
      /\ stml \in Handles /\ stml # "freed"
    BY <1>1 DEF Handle, Handles, Statics
<1>3. Prepared(s, Kind[l], type, ok) = IF type = "l" THEN [s EXCEPT !.stmt = stmt]
                                                    ELSE [s EXCEPT !.stml = stml]
    BY Zenon DEF Prepared
<1> HIDE DEF stmt, stml
<1> QED
    BY <1>1, <1>2, <1>3 DEF Sane, Statics

LEMMA BeginsTransaction ==
    ASSUME NEW l \in Libs, NEW s, Sane(l, s), Kind[l] # "file"
    PROVE  Sane(l, Begun(s, Kind[l]))
<1>1. CASE Kind[l] \in {"mysql", "sqlite"}
    <2>1. (Kind[l] \in {"mysql", "sqlite"}) = TRUE
        BY <1>1
    <2>2. Begun(s, Kind[l]) = [s EXCEPT !.begun = TRUE]
        BY <2>1, Zenon DEF Begun
    <2> QED
        BY <1>1, <2>2 DEF Sane, Statics
<1>2. CASE Kind[l] \notin {"mysql", "sqlite"}
    <2>1. (Kind[l] \in {"mysql", "sqlite"}) = FALSE
        BY <1>2
    <2>2. Begun(s, Kind[l]) = [s EXCEPT !.begun = FALSE]
        BY <2>1, Zenon DEF Begun
    <2> QED
        BY <1>2, <2>2 DEF Sane, Statics
<1> QED
    BY <1>1, <1>2
-----------------------------------------------------------------------------
(* What the static variables hold, and who uses them *)

Uses(l)      == \E n \in dlls : rc[n].lib = l
Names(l, d)  == \E n \in DOMAIN rc : rc[n].lib = l /\ rc[n].db = d
Calling      == \E n \in dlls : rc[n].lib = call.lib /\ rc[n].db = call.db
Holds(l, s)  == /\ Sane(l, s)
                /\ s.conn # NoDb => Names(l, s.conn)
                /\ \A r \in s.rows : Names(l, r.db)

Types ==
    /\ world \in Statuses
    /\ stored \in [Databases -> SUBSET Row]
    /\ call = [at |-> "none"] \/ call \in Calls
    /\ round \in Nat
    /\ refused \subseteq Row
    /\ rc \in Files /\ dlls \subseteq DOMAIN rc
    /\ main \in {"load", "init", "idle", "round", "ended"}
    /\ starting \in BOOLEAN /\ known \in BOOLEAN
    /\ turn \in [type : {"l", "r"}, line : Nat]
    /\ leaked \subseteq [lib : Libs, types : SUBSET {"c", "l", "r"}]

StaticsHeld ==
    /\ DOMAIN static = Libs /\ static \in [Libs -> Statics]
    /\ \A l \in Libs : Holds(l, static[l])
    /\ \A l \in Libs : static[l] # Fresh => Uses(l)

\* Nothing is left of a program that ended or is about to load.
Unloaded == main \in {"load", "ended"} =>
    dlls = {} /\ call = [at |-> "none"] /\ \A l \in Libs : static[l] = Fresh

\* The database undid the transaction of the call, and every row it was offered with it.
Undoing == RowsOf(call) \subseteq refused /\ ~call.quiet

\* A call is made in a round, for a line in force; past its opening it is in a transaction
\* if its library has them, unless the database undid it.
CallHeld ==
    /\ call # [at |-> "none"] =>
          main = "round" /\ call \in Calls /\ call.at # "none" /\ Calling
    /\ call.at \in {"insert", "commit"} /\ Kind[call.lib] \in {"mysql", "sqlite"} =>
          static[call.lib].begun \/ Undoing

Held == Types /\ StaticsHeld /\ Unloaded /\ CallHeld

LEMMA Lines ==
    ASSUME rc \in Files, NEW n \in DOMAIN rc
    PROVE  n \in Nat /\ rc[n] \in Line /\ rc[n].lib \in Libs /\ rc[n].db \in Databases
<1>1. rc \in Seq(Line)
    OBVIOUS
<1>2. n \in 1 .. Len(rc)
    BY <1>1
<1>3. rc[n] \in Line
    BY <1>1, <1>2
<1> QED
    BY <1>2, <1>3 DEF Line

LEMMA HeldInit == Init => Held
<1> SUFFICES ASSUME Init PROVE Held
    OBVIOUS
<1> USE DEF Init, LoggersInit
<1>1. Types
    BY DEF Types, Statuses
<1>2. \A l \in Libs : static[l] = Fresh /\ Holds(l, Fresh)
    BY FreshIsSane DEF Holds, Fresh
<1>3. StaticsHeld
    BY <1>2, FreshIsSane DEF StaticsHeld, Sane
<1> QED
    BY <1>1, <1>2, <1>3 DEF Held, Unloaded, CallHeld

LEMMA HeldEnded == Held /\ Ended => Held'
<1> SUFFICES ASSUME Held, Ended PROVE Held'
    OBVIOUS
<1> USE DEF Held, Ended
<1>1. Types'
    BY DEF Types
<1>2. \A l \in Libs : static'[l] = Fresh /\ Holds(l, Fresh)'
    BY FreshIsSane DEF Holds, Fresh
<1>3. StaticsHeld'
    BY <1>2, FreshIsSane DEF StaticsHeld, Sane
<1> QED
    BY <1>1, <1>2, <1>3 DEF Unloaded, CallHeld

LEMMA HeldLoad == \A f \in Files : Held /\ read_config(f) => Held'
<1> SUFFICES ASSUME Held, NEW f \in Files, read_config(f) PROVE Held'
    OBVIOUS
<1> USE DEF Held, read_config, logvars
<1>1. Types'
    BY DEF Types, Loadable
<1>2. \A l \in Libs : static'[l] = Fresh /\ Holds(l, Fresh)'
    BY FreshIsSane DEF Holds, Fresh, Unloaded
<1>3. StaticsHeld'
    BY <1>2, FreshIsSane DEF StaticsHeld, Sane
<1> QED
    BY <1>1, <1>2, <1>3 DEF Unloaded, CallHeld

LEMMA HeldRestart == Held /\ Restart => Held'
<1> SUFFICES ASSUME Held, Restart PROVE Held'
    OBVIOUS
<1> USE DEF Held, Restart, Forget
<1>1. Types'
    BY DEF Types
<1>2. StaticsHeld'
    BY DEF StaticsHeld, Holds, Names, Uses
<1> QED
    BY <1>1, <1>2 DEF Unloaded, CallHeld
LEMMA Least ==
    ASSUME NEW T, T \subseteq Nat, T # {}
    PROVE  First(T) \in T
<1> DEFINE smaller == {ss \in Nat \X Nat : ss[1] < ss[2]}
<1>1. IsWellFoundedOn(smaller, Nat)
    BY NatLessThanWellFounded DEF OpToRel
<1>2. \E x \in T : \A y \in T : ~(<<y, x>> \in smaller)
    BY <1>1, WFMin
<1>3. \A x, y \in Nat : ~(<<y, x>> \in smaller) => x <= y
    <2> SUFFICES ASSUME NEW x \in Nat, NEW y \in Nat, y < x
                 PROVE  <<y, x>> \in smaller
        OBVIOUS
    <2> QED
        OBVIOUS
<1>4. \E x \in T : \A y \in T : x <= y
    BY <1>2, <1>3
<1> QED
    BY <1>4 DEF First

\* Steps that leave the static variables, the lines and the call alone.
LEMMA HeldSame ==
    ASSUME Held, Types', UNCHANGED <<static, call, rc, dlls>>,
           call = [at |-> "none"] \/ UNCHANGED <<round, refused>>,
           main' \notin {"load", "ended"}, call = [at |-> "none"] \/ main' = main
    PROVE  Held'
<1>1. StaticsHeld'
    BY DEF Held, StaticsHeld, Holds, Names, Uses
<1>2. Unloaded' /\ CallHeld'
    BY DEF Held, Unloaded, CallHeld, Calling, Undoing, RowsOf
<1> QED
    BY <1>1, <1>2 DEF Held

\* Steps that change the static variables of one library in force.
LEMMA HeldChange ==
    ASSUME Held, NEW l \in Libs, NEW s, static' = [static EXCEPT ![l] = s],
           Holds(l, s), Uses(l), UNCHANGED <<rc, dlls>>
    PROVE  StaticsHeld' /\ \A k \in Libs : static'[k] = IF k = l THEN s ELSE static[k]
<1>1. \A k \in Libs : static'[k] = IF k = l THEN s ELSE static[k]
    BY DEF Held, StaticsHeld
<1>2. \A k \in Libs : Holds(k, static'[k])
    BY <1>1 DEF Held, StaticsHeld
<1>3. (\A k \in Libs : Holds(k, static[k]))'
    BY <1>2 DEF Holds, Names
<1>4. (\A k \in Libs : static[k] # Fresh => Uses(k))'
    BY <1>1 DEF Held, StaticsHeld, Uses
<1>5. static' \in [Libs -> Statics]
    BY DEF Held, StaticsHeld, Holds, Sane
<1> QED
    BY <1>1, <1>3, <1>4, <1>5 DEF StaticsHeld

LEMMA ConnectsTo ==
    ASSUME NEW l \in Libs, Holds(l, static[l]), NEW d \in Databases, Names(l, d),
           static[l].conn = NoDb, Kind[l] # "file"
    PROVE  /\ Holds(l, Connected(l, d))
           /\ Connected(l, d) = [static[l] EXCEPT !.conn = d, !.live = Connected(l, d).live]
           /\ Connected(l, d).conn = d
           /\ Connected(l, d).live = (world[d] # "down")
           /\ Connected(l, d).rows = static[l].rows
           /\ Connected(l, d).begun = static[l].begun
<1> DEFINE s == static[l]
<1>1. PICK b \in BOOLEAN : b = (world[d] # "down")
    OBVIOUS
<1>2. Connected(l, d) = [s EXCEPT !.conn = d, !.live = b]
    BY <1>1, Zenon DEF Connected
<1>3. Sane(l, s) /\ s \in Statics
    BY DEF Holds, Sane
<1>4. Sane(l, [s EXCEPT !.conn = d, !.live = b])
    BY <1>3, Connects
<1>5. LET t == [s EXCEPT !.conn = d, !.live = b]
      IN  t.conn = d /\ t.live = b /\ t.rows = s.rows /\ t.begun = s.begun
    BY <1>3 DEF Statics
<1> QED
    BY <1>1, <1>2, <1>4, <1>5 DEF Holds

LEMMA HeldInitialised == Held /\ do_init => Held'
<1> SUFFICES ASSUME Held, do_init PROVE Held'
    OBVIOUS
<1>1. PICK n \in dlls : InitLine = rc[n]
    <2>1. LinesOf("c") # {} /\ LinesOf("c") \subseteq dlls
        BY DEF do_init, Complete, LinesOf
    <2>2. rc \in Files /\ dlls \subseteq DOMAIN rc
        BY DEF Held, Types
    <2>3. LinesOf("c") \subseteq Nat
        BY <2>1, <2>2, Lines
    <2>4. First(LinesOf("c")) \in LinesOf("c")
        BY <2>1, <2>3, Least
    <2> QED
        BY <2>1, <2>2, <2>4, Lines DEF InitLine
<1>2. PICK l \in Libs : l = InitLine.lib
    BY <1>1, Lines DEF Held, Types
<1>3. PICK d \in Databases : d = InitLine.db
    BY <1>1, Lines DEF Held, Types
<1>4. Uses(l) /\ Names(l, d)
    BY <1>1, <1>2, <1>3 DEF Uses, Names, Held, Types
<1>5. Types' /\ call = [at |-> "none"] /\ main' \in {"round", "idle"}
    BY DEF Held, Types, do_init, CallHeld
<1>6. CASE static' = static
    BY <1>5, <1>6, HeldSame DEF do_init
<1>7. CASE static' # static
    <2>1. Kind[l] = "mongo" /\ static[l].conn = NoDb
              /\ static' = [static EXCEPT ![l] = Connected(l, d)]
        BY <1>2, <1>3, <1>7 DEF do_init
    <2>2. Holds(l, Connected(l, d))
        BY <1>4, <2>1, ConnectsTo DEF Held, StaticsHeld
    <2>3. StaticsHeld'
        BY <1>4, <2>1, <2>2, HeldChange DEF do_init
    <2> QED
        BY <1>5, <2>3 DEF do_init, Held, Unloaded, CallHeld
<1> QED
    BY <1>6, <1>7
LEMMA HeldRound ==
    /\ \A type \in {"l", "r"} : Held /\ StartRound(type) => Held'
    /\ Held /\ EndRound => Held'
<1>1. ASSUME Held, NEW type \in {"l", "r"}, StartRound(type) PROVE Held'
    <2>1. Types'
        BY <1>1 DEF Held, Types, StartRound
    <2> QED
        BY <1>1, <2>1, HeldSame DEF StartRound, Held, CallHeld
<1>2. ASSUME Held, EndRound PROVE Held'
    <2>1. Types'
        BY <1>2 DEF Held, Types, EndRound, logvars
    <2>2. call = [at |-> "none"]
        BY <1>2 DEF EndRound, Held, CallHeld
    <2> QED
        BY <1>2, <2>1, <2>2, HeldSame DEF EndRound, logvars
<1> QED
    BY <1>1, <1>2

\* The line that is called, and what the call begins with.
LEMMA CallsLine ==
    ASSUME Held, Call
    PROVE  \E n \in dlls :
               /\ n \in DOMAIN rc /\ n \in Nat /\ rc[n].lib \in Libs /\ rc[n].db \in Databases
               /\ Begins(turn.type, rc[n].lib, rc[n].db)
               /\ turn' = [turn EXCEPT !.line = n]
<1> DEFINE n == First(ToCall)
<1>1. ToCall # {} /\ ToCall \subseteq dlls
    BY DEF Call, ToCall, LinesOf
<1>2. rc \in Files /\ dlls \subseteq DOMAIN rc
    BY DEF Held, Types
<1>3. ToCall \subseteq Nat
    BY <1>1, <1>2, Lines
<1>4. n \in ToCall
    BY <1>1, <1>3, Least
<1>5. Begins(turn.type, rc[n].lib, rc[n].db) /\ turn' = [turn EXCEPT !.line = n]
    BY DEF Call
<1> HIDE DEF n
<1>6. n \in dlls /\ n \in DOMAIN rc
    BY <1>1, <1>2, <1>4
<1> QED
    BY <1>2, <1>5, <1>6, Lines

LEMMA BeginsCall ==
    ASSUME NEW type \in {"l", "r"}, NEW l \in Libs, NEW d \in Databases, Begins(type, l, d)
    PROVE  \E q \in BOOLEAN :
              /\ call' = [at |-> "open", type |-> type, lib |-> l, db |-> d,
                          todo |-> Offered(type), quiet |-> q]
              /\ q <=> IF static[l].conn = NoDb
                       THEN world[d] = "free" /\ ~(Kind[l] = "mongo" /\ type = "r")
                       ELSE static[l].live /\ world[static[l].conn] = "free"
<1> DEFINE q == IF static[l].conn = NoDb
                THEN world[d] = "free" /\ ~(Kind[l] = "mongo" /\ type = "r")
                ELSE static[l].live /\ world[static[l].conn] = "free"
<1>1. call' = [at |-> "open", type |-> type, lib |-> l, db |-> d,
               todo |-> Offered(type), quiet |-> q]
    BY Zenon DEF Begins
<1>2. CASE q
    <2>1. q = TRUE
        BY <1>2
    <2> QED
        BY <1>1, <2>1
<1>3. CASE ~q
    <2>1. q = FALSE
        BY <1>3
    <2> QED
        BY <1>1, <2>1
<1> QED
    BY <1>2, <1>3

LEMMA HeldCall == Held /\ Call => Held'
<1> SUFFICES ASSUME Held, Call PROVE Held'
    OBVIOUS
<1>1. PICK n \in dlls :
          /\ n \in DOMAIN rc /\ n \in Nat /\ rc[n].lib \in Libs /\ rc[n].db \in Databases
          /\ Begins(turn.type, rc[n].lib, rc[n].db)
          /\ turn' = [turn EXCEPT !.line = n]
    BY CallsLine
<1>2. turn \in [type : {"l", "r"}, line : Nat] /\ turn.type \in {"l", "r"}
    BY DEF Held, Types
<1>3. PICK q \in BOOLEAN :
          call' = [at |-> "open", type |-> turn.type, lib |-> rc[n].lib, db |-> rc[n].db,
                   todo |-> Offered(turn.type), quiet |-> q]
    BY <1>1, <1>2, BeginsCall
<1>4. call' \in Calls /\ call'.at = "open" /\ call'.lib = rc[n].lib /\ call'.db = rc[n].db
    <2>1. Offered(turn.type) \subseteq Items
        BY DEF Offered, Items
    <2> QED
        BY <1>1, <1>2, <1>3, <2>1 DEF Calls
<1>5. Types'
    BY <1>1, <1>2, <1>4 DEF Held, Types, Call
<1>6. StaticsHeld'
    BY DEF Held, StaticsHeld, Call, Holds, Names, Uses
<1>7. CallHeld'
    BY <1>1, <1>4 DEF Call, CallHeld, Calling
<1> QED
    BY <1>5, <1>6, <1>7 DEF Held, Unloaded, Call

LEMMA HeldReturn == Held /\ Return => Held'
<1> SUFFICES ASSUME Held, Return PROVE Held'
    OBVIOUS
<1>1. Types'
    BY DEF Held, Types, Return, plugvars
<1>2. StaticsHeld'
    BY DEF Held, StaticsHeld, Return, Holds, Names, Uses, plugvars
<1> QED
    BY <1>1, <1>2 DEF Held, Unloaded, CallHeld, Return, plugvars

LEMMA HeldReload == Held /\ Reload => Held'
<1> SUFFICES ASSUME Held, Reload PROVE Held'
    OBVIOUS
<1>1. \A l \in Libs : static'[l] = Fresh
    <2> SUFFICES ASSUME NEW l \in Libs PROVE Unload(l) = Fresh
        BY DEF Reload
    <2>1. CASE TypesOf(l) # {}
        BY <2>1 DEF Unload
    <2>2. CASE TypesOf(l) = {}
        <3>1. ~Uses(l)
            BY <2>2 DEF TypesOf, Uses
        <3>2. static[l] = Fresh
            BY <3>1 DEF Held, StaticsHeld
        <3>3. Unload(l) = w1_freeup(l) /\ "l" \notin TypesOf(l)
            BY <2>2 DEF Unload
        <3> QED
            BY <3>2, <3>3 DEF w1_freeup
    <2> QED
        BY <2>1, <2>2
<1>2. \A l \in Libs : Holds(l, Fresh)'
    BY FreshIsSane DEF Holds, Fresh
<1>3. StaticsHeld'
    BY <1>1, <1>2, FreshIsSane DEF Reload, StaticsHeld, Sane
<1>4. call = [at |-> "none"]
    BY DEF Reload, Held, CallHeld
<1>5. leaked' \subseteq [lib : Libs, types : SUBSET {"c", "l", "r"}]
    <2>1. \A l \in Libs : TypesOf(l) \subseteq {"c", "l", "r"}
        <3> SUFFICES ASSUME NEW l \in Libs, NEW n \in dlls PROVE rc[n].type \in {"c", "l", "r"}
            BY DEF TypesOf
        <3>1. rc \in Seq(Line) /\ n \in DOMAIN rc
            BY DEF Held, Types
        <3>2. rc[n] \in Line
            BY <3>1
        <3> QED
            BY <3>2 DEF Line
    <2> QED
        BY <2>1 DEF Reload
<1>6. Types'
    BY <1>5 DEF Held, Types, Reload, Forget
<1> QED
    BY <1>1, <1>3, <1>4, <1>6 DEF Held, Unloaded, CallHeld, Reload
-----------------------------------------------------------------------------
(* The steps of a call *)

\* The facts about a call under way that all its steps use.
LEMMA UnderWay ==
    ASSUME Held, call.at # "none"
    PROVE  /\ main = "round" /\ call \in Calls /\ call.lib \in Libs /\ call.db \in Databases
           /\ call.type \in {"l", "r"} /\ call.todo \subseteq Items
           /\ Uses(call.lib) /\ Names(call.lib, call.db)
           /\ Holds(call.lib, static[call.lib])
<1>1. call # [at |-> "none"]
    <2> SUFFICES ASSUME call = [at |-> "none"] PROVE FALSE
        OBVIOUS
    <2> QED
        OBVIOUS
<1>2. main = "round" /\ call \in Calls /\ Calling
    BY <1>1 DEF Held, CallHeld
<1>3. call.lib \in Libs /\ call.db \in Databases /\ call.type \in {"l", "r"}
          /\ call.todo \subseteq Items
    BY <1>2 DEF Calls
<1>4. Uses(call.lib) /\ Names(call.lib, call.db)
    BY <1>2 DEF Calling, Uses, Names, Held, Types
<1> QED
    BY <1>2, <1>3, <1>4 DEF Held, StaticsHeld

\* What was undone stays so to the end of the call.
LEMMA StaysUndone ==
    ASSUME Undoing, call'.db = call.db, call'.type = call.type, round' = round,
           refused \subseteq refused', call'.quiet => call.quiet
    PROVE  Undoing'
<1>1. RowsOf(call)' = RowsOf(call)
    BY DEF RowsOf, Offered
<1> QED
    BY <1>1 DEF Undoing

\* A step of a call: the libraries stay as they are and the call remains the same one.
LEMMA HeldStep ==
    ASSUME Held, call.at # "none", UNCHANGED plugvars, StaticsHeld',
           call' \in Calls, call'.at # "none", call'.lib = call.lib, call'.db = call.db,
           call'.at \in {"insert", "commit"} /\ Kind[call.lib] \in {"mysql", "sqlite"} =>
               static'[call.lib].begun \/ Undoing',
           world' \in Statuses, stored' \in [Databases -> SUBSET Row],
           round' = round, refused' \subseteq Row
    PROVE  Held'
<1>1. main = "round" /\ Calling
    BY UnderWay DEF Held, CallHeld
<1>2. Types'
    BY DEF Held, Types, plugvars
<1>3. CallHeld'
    BY <1>1 DEF CallHeld, Calling, plugvars
<1> QED
    BY <1>1, <1>2, <1>3 DEF Held, Unloaded, plugvars

\* What Open does to the static variables of the library called.
LEMMA OpenedHolds ==
    ASSUME Held, call.at # "none", NEW ok \in BOOLEAN
    PROVE  /\ Holds(call.lib, Opened(ok))
           /\ Opened(ok).begun <=> Kind[call.lib] \in {"mysql", "sqlite"}
           /\ Opened(ok).rows = static[call.lib].rows
           /\ Opened(ok).conn = IF Opens THEN call.db ELSE static[call.lib].conn
           /\ Opened(ok).live = IF Opens THEN world[call.db] # "down" ELSE static[call.lib].live
<1> DEFINE l == call.lib
<1> DEFINE s == IF Opens THEN Connected(l, call.db) ELSE static[l]
<1>1. /\ l \in Libs /\ call.db \in Databases /\ call.type \in {"l", "r"}
      /\ Names(l, call.db) /\ Holds(l, static[l])
    BY UnderWay
<1>2. /\ Holds(l, s) /\ s.rows = static[l].rows /\ s.begun = static[l].begun
      /\ s.conn = IF Opens THEN call.db ELSE static[l].conn
      /\ s.live = IF Opens THEN world[call.db] # "down" ELSE static[l].live
    <2>1. CASE Opens
        <3>1. s = Connected(l, call.db)
            BY <2>1, Zenon
        <3>2. static[l].conn = NoDb /\ Kind[l] # "file"
            BY <2>1, Zenon DEF Opens
        <3> HIDE DEF l, s
        <3>3. /\ Holds(l, Connected(l, call.db))
              /\ Connected(l, call.db).conn = call.db
              /\ Connected(l, call.db).live = (world[call.db] # "down")
              /\ Connected(l, call.db).rows = static[l].rows
              /\ Connected(l, call.db).begun = static[l].begun
            <4> DEFINE db == call.db
            <4>1. l \in Libs /\ db \in Databases /\ Names(l, db) /\ Holds(l, static[l])
                BY <1>1, Zenon
            <4> HIDE DEF db
            <4>2. /\ Holds(l, Connected(l, db)) /\ Connected(l, db).conn = db
                  /\ Connected(l, db).live = (world[db] # "down")
                  /\ Connected(l, db).rows = static[l].rows
                  /\ Connected(l, db).begun = static[l].begun
                BY <3>2, <4>1, ConnectsTo
            <4> QED
                BY <4>2, Zenon DEF db
        <3> QED
            BY <2>1, <3>1, <3>3, Zenon
    <2>2. CASE ~Opens
        BY <1>1, <2>2
    <2> QED
        BY <2>1, <2>2
<1>3. Sane(l, s) /\ s \in Statics /\ Kind[l] \in Kinds
    BY <1>1, <1>2 DEF Holds, Sane
<1> HIDE DEF s, l
<1>4. CASE Kind[l] \in {"file", "mongo"}
    <2>1. Opened(ok) = s
        BY <1>4 DEF Opened, s, l
    <2>2. Kind[l] \notin {"mysql", "sqlite"}
        BY <1>4
    <2>3. ~s.begun
        BY <1>3, <2>2 DEF Sane
    <2> QED
        BY <1>2, <2>1, <2>2, <2>3 DEF l
<1>5. CASE Kind[l] \notin {"file", "mongo"}
    <2> DEFINE p == Prepared(s, Kind[l], call.type, ok)
    <2> DEFINE o == Begun(p, Kind[l])
    <2>1. Opened(ok) = o
        BY <1>5 DEF Opened, s, l
    <2>2. Sane(l, p) /\ p.rows = s.rows /\ p.conn = s.conn /\ p.live = s.live
        <3>1. Kind[l] # "file" /\ l \in Libs /\ call.type \in {"l", "r"}
            BY <1>1, <1>5 DEF l
        <3> QED
            BY <1>3, <3>1, Prepares
    <2>3. p \in Statics
        BY <2>2 DEF Sane
    <2> HIDE DEF p
    <2>4. Sane(l, o)
        BY <1>1, <1>5, <2>2, BeginsTransaction DEF l
    <2>5. o.rows = p.rows /\ o.conn = p.conn /\ o.live = p.live
        BY <2>3 DEF Begun, Statics
    <2>6. o.begun = (Kind[l] \in {"mysql", "sqlite"})
        BY <2>3, Zenon DEF Begun, Statics
    <2>7. Holds(l, o)
        BY <1>2, <2>2, <2>4, <2>5 DEF Holds
    <2> HIDE DEF o
    <2> QED
        BY <1>2, <2>1, <2>2, <2>5, <2>6, <2>7 DEF l
<1> QED
    BY <1>4, <1>5

\* The call goes on; it may stop being quiet.
LEMMA OpensCall ==
    ASSUME Held, NEW ok \in BOOLEAN, Open(ok)
    PROVE  /\ call.at = "open" /\ call \in Calls /\ call' \in Calls /\ call'.at = "insert"
           /\ call'.lib = call.lib /\ call'.db = call.db /\ call'.type = call.type
           /\ call'.todo = call.todo /\ (call'.quiet => call.quiet)
           /\ static' = [static EXCEPT ![call.lib] = Opened(ok)]
           /\ UNCHANGED <<world, stored, round, refused>>
<1> DEFINE made == \/ Kind[call.lib] \in {"file", "mongo"}
                   \/ InUse(Opened(ok), call.type) = "made"
<1>1. /\ call.at = "open"
      /\ call' = [call EXCEPT !.at = "insert", !.quiet = @ /\ made]
      /\ static' = [static EXCEPT ![call.lib] = Opened(ok)]
      /\ UNCHANGED <<world, stored, round, refused>>
    BY Zenon DEF Open
<1>2. call \in Calls
    BY <1>1, UnderWay
<1>3. PICK q \in BOOLEAN : q = (call.quiet /\ made)
    OBVIOUS
<1>4. call' = [call EXCEPT !.at = "insert", !.quiet = q]
    BY <1>1, <1>3, Zenon
<1> HIDE DEF made
<1>5. /\ call' \in Calls /\ call'.at = "insert" /\ call'.quiet = q
      /\ call'.lib = call.lib /\ call'.db = call.db /\ call'.type = call.type
      /\ call'.todo = call.todo
    BY <1>2, <1>4 DEF Calls
<1>6. call'.quiet => call.quiet
    BY <1>3, <1>5
<1> QED
    BY <1>1, <1>2, <1>5, <1>6

LEMMA HeldOpen == \A ok \in BOOLEAN : Held /\ Open(ok) /\ UNCHANGED plugvars => Held'
<1> SUFFICES ASSUME Held, NEW ok \in BOOLEAN, Open(ok), UNCHANGED plugvars PROVE Held'
    OBVIOUS
<1>1. /\ call.at = "open" /\ call' \in Calls /\ call'.at = "insert"
      /\ call'.lib = call.lib /\ call'.db = call.db
      /\ static' = [static EXCEPT ![call.lib] = Opened(ok)]
      /\ UNCHANGED <<world, stored, round, refused>>
    BY OpensCall
<1>2. call.lib \in Libs /\ Uses(call.lib) /\ Holds(call.lib, Opened(ok))
    BY <1>1, UnderWay, OpenedHolds
<1>3. StaticsHeld' /\ static'[call.lib] = Opened(ok)
    <2> DEFINE l == call.lib
    <2> DEFINE o == Opened(ok)
    <2>1. l \in Libs /\ Uses(l) /\ Holds(l, o) /\ static' = [static EXCEPT ![l] = o]
        BY <1>1, <1>2
    <2>2. UNCHANGED <<rc, dlls>>
        BY DEF plugvars
    <2> HIDE DEF l, o
    <2>3. StaticsHeld' /\ \A k \in Libs : static'[k] = IF k = l THEN o ELSE static[k]
        BY <2>1, <2>2, HeldChange
    <2>4. static'[l] = o
        BY <2>1, <2>3
    <2> QED
        BY <2>3, <2>4 DEF l, o
<1>4. Kind[call.lib] \in {"mysql", "sqlite"} => Opened(ok).begun
    BY <1>1, OpenedHolds
<1> QED
    BY <1>1, <1>3, <1>4, HeldStep DEF Held, Types

LEMMA HeldNotOpened == Held /\ (LockedOut \/ NoFile) /\ UNCHANGED plugvars => Held'
<1> SUFFICES ASSUME Held, LockedOut \/ NoFile, UNCHANGED plugvars PROVE Held'
    OBVIOUS
<1>1. call.at = "open" /\ call' = [call EXCEPT !.at = "done", !.quiet = FALSE]
          /\ UNCHANGED <<world, static, stored, round, refused>>
    BY DEF LockedOut, NoFile
<1>2. call \in Calls
    BY <1>1, UnderWay
<1>3. call' \in Calls /\ call'.at = "done" /\ call'.lib = call.lib /\ call'.db = call.db
    BY <1>1, <1>2 DEF Calls
<1>4. StaticsHeld'
    BY <1>1 DEF Held, StaticsHeld, Holds, Names, Uses, plugvars
<1> QED
    BY <1>1, <1>3, <1>4, HeldStep DEF Held, Types

\* The rest of a call is made in the transaction it was in.
LEMMA StaysBegun ==
    ASSUME Held, call.at \in {"insert", "commit"}, Kind[call.lib] \in {"mysql", "sqlite"},
           static'[call.lib].begun = static[call.lib].begun,
           call'.db = call.db, call'.type = call.type, round' = round,
           refused \subseteq refused', call'.quiet => call.quiet
    PROVE  static'[call.lib].begun \/ Undoing'
BY StaysUndone DEF Held, CallHeld

LEMMA HeldSent == Held /\ Sent /\ UNCHANGED plugvars => Held'
<1> SUFFICES ASSUME Held, Sent, UNCHANGED plugvars PROVE Held'
    OBVIOUS
<1>1. call.at = "insert" /\ call' = [call EXCEPT !.at = "commit"]
          /\ UNCHANGED <<world, static, stored, round, refused>>
    BY DEF Sent
<1>2. call \in Calls
    BY <1>1, UnderWay
<1>3. call' \in Calls /\ call'.at = "commit" /\ call'.lib = call.lib /\ call'.db = call.db
          /\ call'.type = call.type /\ call'.quiet = call.quiet
    BY <1>1, <1>2 DEF Calls
<1>4. StaticsHeld'
    BY <1>1 DEF Held, StaticsHeld, Holds, Names, Uses, plugvars
<1>5. Kind[call.lib] \in {"mysql", "sqlite"} => static'[call.lib].begun \/ Undoing'
    BY <1>1, <1>3, StaysBegun
<1> QED
    BY <1>1, <1>3, <1>4, <1>5, HeldStep DEF Held, Types

LEMMA RowsAreRows ==
    ASSUME Held, call.at # "none"
    PROVE  /\ \A x \in Items : [round |-> round, db |-> call.db, item |-> x] \in Row
           /\ RowsOf(call) \subseteq Row
           /\ \A r \in RowsOf(call) : r.db = call.db
<1>1. round \in Nat
    BY DEF Held, Types
<1>2. call.db \in Databases /\ Offered(call.type) \subseteq Items
    BY UnderWay DEF Offered, Items
<1> QED
    BY <1>1, <1>2 DEF Row, RowsOf

\* The document is taken or not; a call that is still quiet had it taken.
LEMMA InsertsAll ==
    ASSUME Held, NEW ok \in BOOLEAN, InsertAll(ok)
    PROVE  /\ call.at = "insert" /\ Kind[call.lib] = "mongo" /\ (ok => static[call.lib].live)
           /\ call \in Calls /\ call' \in Calls /\ call'.at = "insert" /\ call'.todo = {}
           /\ call'.lib = call.lib /\ call'.db = call.db /\ call'.type = call.type
           /\ (call'.quiet => call.quiet /\ ok)
           /\ stored' = IF ok THEN [stored EXCEPT ![Goes(call)] = @ \cup RowsOf(call)]
                              ELSE stored
           /\ UNCHANGED <<world, static, round, refused>>
<1>1. /\ call.at = "insert" /\ Kind[call.lib] = "mongo" /\ (ok => static[call.lib].live)
      /\ call' = [call EXCEPT !.todo = {}, !.quiet = @ /\ ok]
      /\ stored' = IF ok THEN [stored EXCEPT ![Goes(call)] = @ \cup RowsOf(call)] ELSE stored
      /\ UNCHANGED <<world, static, round, refused>>
    BY Zenon DEF InsertAll
<1>2. call \in Calls
    BY <1>1, UnderWay
<1>3. PICK q \in BOOLEAN : q = (call.quiet /\ ok)
    OBVIOUS
<1>4. call' = [call EXCEPT !.todo = {}, !.quiet = q]
    BY <1>1, <1>3, Zenon
<1>5. /\ call' \in Calls /\ call'.at = "insert" /\ call'.todo = {} /\ call'.quiet = q
      /\ call'.lib = call.lib /\ call'.db = call.db /\ call'.type = call.type
    BY <1>1, <1>2, <1>4 DEF Calls
<1>6. call'.quiet => call.quiet /\ ok
    BY <1>3, <1>5
<1> QED
    BY <1>1, <1>2, <1>5, <1>6

LEMMA HeldInsertAll ==
    \A ok \in BOOLEAN : Held /\ InsertAll(ok) /\ UNCHANGED plugvars => Held'
<1> SUFFICES ASSUME Held, NEW ok \in BOOLEAN, InsertAll(ok), UNCHANGED plugvars PROVE Held'
    OBVIOUS
<1>1. /\ call.at = "insert" /\ Kind[call.lib] = "mongo"
      /\ call' \in Calls /\ call'.at = "insert" /\ call'.lib = call.lib /\ call'.db = call.db
      /\ stored' = IF ok THEN [stored EXCEPT ![Goes(call)] = @ \cup RowsOf(call)] ELSE stored
      /\ UNCHANGED <<world, static, round, refused>>
    BY InsertsAll
<1>2. StaticsHeld'
    BY <1>1 DEF Held, StaticsHeld, Holds, Names, Uses, plugvars
<1>3. stored' \in [Databases -> SUBSET Row]
    BY <1>1, RowsAreRows DEF Held, Types
<1> QED
    BY <1>1, <1>2, <1>3, HeldStep DEF Held, Types

\* The call after one row, whether it was taken or not.
LEMMA SendsOne ==
    ASSUME Held, NEW x \in Items, Insert(x) \/ Refused(x)
    PROVE  /\ call.at = "insert" /\ Kind[call.lib] # "mongo" /\ x \in call.todo
           /\ call \in Calls /\ call' \in Calls /\ call'.at = "insert"
           /\ call'.todo = call.todo \ {x}
           /\ call'.lib = call.lib /\ call'.db = call.db /\ call'.type = call.type
           /\ (call'.quiet => call.quiet) /\ (Refused(x) => ~call'.quiet)
           /\ UNCHANGED <<world, round>>
<1>1. call.at = "insert" /\ Kind[call.lib] # "mongo" /\ x \in call.todo
          /\ UNCHANGED <<world, round>>
    BY DEF Insert, Refused, Sends
<1>2. call \in Calls
    BY <1>1, UnderWay
<1>3. CASE Refused(x)
    <2>1. call' = [call EXCEPT !.todo = @ \ {x}, !.quiet = FALSE]
        BY <1>3 DEF Refused
    <2> QED
        BY <1>1, <1>2, <2>1 DEF Calls
<1>4. CASE Insert(x) /\ ~Refused(x)
    <2>1. call' = [call EXCEPT !.todo = @ \ {x}]
        BY <1>4 DEF Insert
    <2> QED
        BY <1>1, <1>2, <1>4, <2>1 DEF Calls
<1> QED
    BY <1>3, <1>4

\* A row that is taken goes into the transaction, or into the database.
LEMMA TakesRow ==
    ASSUME Held, NEW x \in Items, Insert(x)
    PROVE  LET l == call.lib
               s == static[l]
               r == [round |-> round, db |-> call.db, item |-> x]
           IN  /\ Kind[l] = "file" \/ (s.live /\ s.conn \in Databases)
               /\ refused' = refused
               /\ \/ /\ s.begun /\ s.live /\ stored' = stored
                     /\ static' = [static EXCEPT ![l].rows = s.rows \cup {r}]
                  \/ /\ ~s.begun /\ static' = static /\ Goes(call) \in Databases
                     /\ stored' = [stored EXCEPT ![Goes(call)] = @ \cup {r}]
<1> DEFINE l == call.lib
<1> DEFINE s == static[l]
<1> DEFINE r == [round |-> round, db |-> call.db, item |-> x]
<1>1. /\ call.at = "insert" /\ refused' = refused
      /\ Kind[l] = "file" \/ s.live
      /\ IF s.begun THEN /\ static' = [static EXCEPT ![l].rows = @ \cup {r}]
                         /\ stored' = stored
                    ELSE /\ stored' = [stored EXCEPT ![Goes(call)] = @ \cup {r}]
                         /\ static' = static
    BY Zenon DEF Insert, Sends, Reaches
<1>2. l \in Libs /\ call.db \in Databases /\ Sane(l, s)
    BY <1>1, UnderWay DEF Holds
<1> HIDE DEF r
<1>3. Kind[l] = "file" \/ (s.live /\ s.conn \in Databases)
    BY <1>1, <1>2 DEF Sane, Statics
<1>4. s.begun => s.live
    BY <1>1, <1>2 DEF Sane
<1>5. Goes(call) \in Databases
    BY <1>2, <1>3 DEF Goes
<1> QED
    BY <1>1, <1>3, <1>4, <1>5 DEF r

LEMMA HeldInsert == \A x \in Items : Held /\ Insert(x) /\ UNCHANGED plugvars => Held'
<1> SUFFICES ASSUME Held, NEW x \in Items, Insert(x), UNCHANGED plugvars PROVE Held'
    OBVIOUS
<1> DEFINE l == call.lib
<1> DEFINE s == static[l]
<1> DEFINE r == [round |-> round, db |-> call.db, item |-> x]
<1>1. /\ call.at = "insert" /\ call' \in Calls /\ call'.at = "insert"
      /\ call'.lib = l /\ call'.db = call.db /\ call'.type = call.type
      /\ (call'.quiet => call.quiet) /\ UNCHANGED <<world, round>>
    BY SendsOne
<1>2. /\ l \in Libs /\ call.db \in Databases /\ Uses(l)
      /\ Holds(l, s) /\ Names(l, call.db)
    BY <1>1, UnderWay
<1>3. r \in Row /\ r.db = call.db
    BY <1>1, RowsAreRows
<1> HIDE DEF r
<1>4. refused' = refused
    BY TakesRow
<1>5. Kind[l] \in {"mysql", "sqlite"} /\ static'[l].begun = s.begun
          => static'[l].begun \/ Undoing'
    BY <1>1, <1>4, StaysBegun
<1>6. CASE s.begun
    <2> DEFINE t == [s EXCEPT !.rows = s.rows \cup {r}]
    <2>1. s.live /\ stored' = stored /\ static' = [static EXCEPT ![l].rows = s.rows \cup {r}]
        BY <1>6, TakesRow DEF r
    <2>2. static' = [static EXCEPT ![l] = t]
        BY <1>2, <2>1, Zenon DEF Held, StaticsHeld
    <2>3. Holds(l, t) /\ t.begun = s.begun
        BY <1>2, <1>3, <1>6, <2>1 DEF Holds, Sane, Statics, Fresh
    <2> HIDE DEF t
    <2>4. StaticsHeld' /\ static'[l] = t
        <3>1. UNCHANGED <<rc, dlls>>
            BY DEF plugvars
        <3>2. StaticsHeld' /\ \A k \in Libs : static'[k] = IF k = l THEN t ELSE static[k]
            BY <1>2, <2>2, <2>3, <3>1, HeldChange
        <3> QED
            BY <1>2, <3>2
    <2> QED
        BY <1>1, <1>4, <1>5, <2>1, <2>3, <2>4, HeldStep DEF Held, Types
<1>7. CASE ~s.begun
    <2>1. static' = static /\ stored' = [stored EXCEPT ![Goes(call)] = @ \cup {r}]
        BY <1>7, TakesRow DEF r
    <2>2. StaticsHeld'
        BY <2>1 DEF Held, StaticsHeld, Holds, Names, Uses, plugvars
    <2>3. stored' \in [Databases -> SUBSET Row]
        BY <1>3, <2>1 DEF Held, Types
    <2> QED
        BY <1>1, <1>4, <1>5, <2>1, <2>2, <2>3, HeldStep DEF Held, Types
<1> QED
    BY <1>6, <1>7

LEMMA HeldRefused == \A x \in Items : Held /\ Refused(x) /\ UNCHANGED plugvars => Held'
<1> SUFFICES ASSUME Held, NEW x \in Items, Refused(x), UNCHANGED plugvars PROVE Held'
    OBVIOUS
<1> DEFINE r == [round |-> round, db |-> call.db, item |-> x]
<1>1. /\ call.at = "insert" /\ call' \in Calls /\ call'.at = "insert"
      /\ call'.lib = call.lib /\ call'.db = call.db /\ call'.type = call.type
      /\ (call'.quiet => call.quiet)
    BY SendsOne
<1>2. /\ refused' = refused \cup {r} \/ refused' = refused
      /\ UNCHANGED <<world, static, stored, round>>
    BY DEF Refused
<1>3. r \in Row
    BY <1>1, RowsAreRows
<1> HIDE DEF r
<1>4. refused' \subseteq Row /\ refused \subseteq refused'
    BY <1>2, <1>3 DEF Held, Types
<1>5. StaticsHeld'
    BY <1>2 DEF Held, StaticsHeld, Holds, Names, Uses, plugvars
<1>6. Kind[call.lib] \in {"mysql", "sqlite"} => static'[call.lib].begun \/ Undoing'
    BY <1>1, <1>2, <1>4, StaysBegun
<1> QED
    BY <1>1, <1>2, <1>4, <1>5, <1>6, HeldStep DEF Held, Types

\* A transaction that ended holds nothing, and is followed by another in MySQL only.
LEMMA EndsTransaction ==
    ASSUME Held, NEW l \in Libs, Holds(l, static[l]), Uses(l),
           Kind[l] \in {"mysql", "sqlite"}, UNCHANGED plugvars, NEW b \in BOOLEAN,
           static' = [static EXCEPT ![l].rows = {}, ![l].begun = b]
    PROVE  /\ StaticsHeld'
           /\ \A k \in Libs : static'[k].rows = IF k = l THEN {} ELSE static[k].rows
           /\ \A k \in Libs : static'[k].live = static[k].live
<1> DEFINE s == static[l]
<1> DEFINE t == [s EXCEPT !.rows = {}, !.begun = b]
<1>1. static' = [static EXCEPT ![l] = t]
    BY Zenon DEF Held, StaticsHeld
<1>2. s \in Statics /\ Holds(l, t) /\ t.rows = {} /\ t.live = s.live
    BY DEF Holds, Sane, Statics, Fresh
<1> HIDE DEF t, s
<1>3. StaticsHeld' /\ \A k \in Libs : static'[k] = IF k = l THEN t ELSE static[k]
    BY <1>1, <1>2, HeldChange DEF plugvars
<1>4. static'[l] = t /\ \A k \in Libs : k # l => static'[k] = static[k]
    BY <1>3
<1>5. \A k \in Libs : static'[k].rows = IF k = l THEN {} ELSE static[k].rows
    <2> SUFFICES ASSUME NEW k \in Libs
                 PROVE  static'[k].rows = IF k = l THEN {} ELSE static[k].rows
        OBVIOUS
    <2>1. CASE k = l
        <3>1. static'[k].rows = {}
            BY <1>2, <1>4, <2>1
        <3> QED
            BY <2>1, <3>1
    <2>2. CASE k # l
        <3>1. static'[k] = static[k]
            BY <1>4, <2>2
        <3>2. static'[k].rows = static[k].rows
            BY <3>1
        <3> QED
            BY <2>2, <3>2
    <2> QED
        BY <2>1, <2>2
<1>6. \A k \in Libs : static'[k].live = static[k].live
    BY <1>2, <1>4 DEF s
<1> QED
    BY <1>3, <1>5, <1>6

\* Whether another transaction follows.
LEMMA Ending ==
    \A l : \E b \in BOOLEAN :
        [static EXCEPT ![l].rows = {}, ![l].begun = Kind[l] = "mysql"]
            = [static EXCEPT ![l].rows = {}, ![l].begun = b]
<1> SUFFICES ASSUME NEW l
             PROVE  \E b \in BOOLEAN :
                        [static EXCEPT ![l].rows = {}, ![l].begun = Kind[l] = "mysql"]
                            = [static EXCEPT ![l].rows = {}, ![l].begun = b]
    OBVIOUS
<1>1. PICK b \in BOOLEAN : b = (Kind[l] = "mysql")
    OBVIOUS
<1> QED
    BY <1>1, Zenon

LEMMA UndoesCall ==
    ASSUME Held, Undone
    PROVE  /\ call.at = "insert" /\ Kind[call.lib] \in {"mysql", "sqlite"}
           /\ call' \in Calls /\ call'.at = "insert" /\ ~call'.quiet
           /\ call'.lib = call.lib /\ call'.db = call.db /\ call'.type = call.type
           /\ call'.todo = call.todo /\ refused \subseteq refused'
           /\ refused' \subseteq Row /\ RowsOf(call) \subseteq refused' /\ Undoing'
           /\ UNCHANGED <<world, stored, round>>
<1>1. /\ call.at = "insert" /\ Kind[call.lib] \in {"mysql", "sqlite"}
      /\ call' = [call EXCEPT !.quiet = FALSE] /\ refused' = refused \cup RowsOf(call)
      /\ UNCHANGED <<world, stored, round>>
    BY DEF Undone
<1>2. call \in Calls
    BY <1>1, UnderWay
<1>3. /\ call' \in Calls /\ call'.at = "insert" /\ ~call'.quiet
      /\ call'.lib = call.lib /\ call'.db = call.db /\ call'.type = call.type
      /\ call'.todo = call.todo
    BY <1>1, <1>2 DEF Calls
<1>4. RowsOf(call)' = RowsOf(call)
    BY <1>1, <1>3 DEF RowsOf, Offered
<1>5. refused' \subseteq Row
    BY <1>1, RowsAreRows DEF Held, Types
<1> QED
    BY <1>1, <1>3, <1>4, <1>5 DEF Undoing

LEMMA HeldUndone == Held /\ Undone /\ UNCHANGED plugvars => Held'
<1> SUFFICES ASSUME Held, Undone, UNCHANGED plugvars PROVE Held'
    OBVIOUS
<1>1. /\ call.at = "insert" /\ Kind[call.lib] \in {"mysql", "sqlite"}
      /\ call' \in Calls /\ call'.at = "insert"
      /\ call'.lib = call.lib /\ call'.db = call.db
      /\ refused' \subseteq Row /\ Undoing' /\ UNCHANGED <<world, stored, round>>
    BY UndoesCall
<1>2. call.lib \in Libs /\ Uses(call.lib) /\ Holds(call.lib, static[call.lib])
    BY <1>1, UnderWay
<1>3. \E b \in BOOLEAN :
          static' = [static EXCEPT ![call.lib].rows = {}, ![call.lib].begun = b]
    BY Ending DEF Undone
<1>4. StaticsHeld'
    BY <1>1, <1>2, <1>3, EndsTransaction
<1> QED
    BY <1>1, <1>4, HeldStep DEF Held, Types

LEMMA HeldCommit == Held /\ Commit /\ UNCHANGED plugvars => Held'
<1> SUFFICES ASSUME Held, Commit, UNCHANGED plugvars PROVE Held'
    OBVIOUS
<1> DEFINE l == call.lib
<1> DEFINE s == static[l]
<1>1. call.at = "commit" /\ call' = [call EXCEPT !.at = "done"]
          /\ UNCHANGED <<world, round, refused>>
    BY DEF Commit
<1>2. call \in Calls /\ l \in Libs /\ Uses(l) /\ Holds(l, s) /\ s \in Statics
    BY <1>1, UnderWay DEF Holds, Sane
<1>3. call' \in Calls /\ call'.at = "done" /\ call'.lib = call.lib /\ call'.db = call.db
    BY <1>1, <1>2 DEF Calls
<1>4. stored' \in [Databases -> SUBSET Row]
    <2>1. s.rows \subseteq Row
        BY <1>2 DEF Statics
    <2> QED
        BY <2>1 DEF Commit, Held, Types
<1>5. StaticsHeld'
    <2>1. CASE s.begun /\ ~Blocked(s)
        <3>1. \E b \in BOOLEAN : static' = [static EXCEPT ![l].rows = {}, ![l].begun = b]
            BY <2>1, Ending DEF Commit
        <3>2. Kind[l] \in {"mysql", "sqlite"}
            BY <1>2, <2>1 DEF Holds, Sane
        <3> QED
            BY <1>2, <3>1, <3>2, EndsTransaction
    <2>2. CASE ~(s.begun /\ ~Blocked(s))
        <3>1. static' = static
            BY <2>2 DEF Commit
        <3> QED
            BY <3>1 DEF Held, StaticsHeld, Holds, Names, Uses, plugvars
    <2> QED
        BY <2>1, <2>2
<1> QED
    BY <1>1, <1>3, <1>4, <1>5, HeldStep DEF Held, Types
-----------------------------------------------------------------------------
(* The rest of the world, and every step *)

\* Whatever happens outside, the call stays the same one; it may stop being quiet.
LEMMA StaysTheSame ==
    ASSUME Held, NEW d, call' = Disturbed(d)
    PROVE  \/ call' = call /\ ~(call.at # "none" /\ (call.db = d \/ static[call.lib].conn = d))
           \/ /\ call.at # "none" /\ call \in Calls /\ call' \in Calls
              /\ call' = [call EXCEPT !.quiet = FALSE] /\ ~call'.quiet
              /\ call'.at = call.at /\ call'.lib = call.lib /\ call'.db = call.db
              /\ call'.type = call.type /\ call'.todo = call.todo
<1>1. CASE call.at # "none" /\ (call.db = d \/ static[call.lib].conn = d)
    <2>1. call \in Calls
        BY <1>1, UnderWay
    <2>2. call' = [call EXCEPT !.quiet = FALSE]
        BY <1>1 DEF Disturbed
    <2> QED
        BY <1>1, <2>1, <2>2 DEF Calls
<1>2. CASE ~(call.at # "none" /\ (call.db = d \/ static[call.lib].conn = d))
    BY <1>2 DEF Disturbed
<1> QED
    BY <1>1, <1>2

\* What happens outside keeps what is held if the static variables are in order.
LEMMA HeldOutside ==
    ASSUME Held, UNCHANGED plugvars, NEW d, call' = call \/ call' = Disturbed(d),
           StaticsHeld', \A l \in Libs : static'[l].begun = static[l].begun,
           \A l \in Libs : static[l] = Fresh => static'[l] = Fresh,
           world' \in Statuses, UNCHANGED <<stored, round, refused>>
    PROVE  Held'
<1>1. \/ call' = call
      \/ /\ call.at # "none" /\ call' \in Calls /\ ~call'.quiet /\ call'.type = call.type
         /\ call'.at = call.at /\ call'.lib = call.lib /\ call'.db = call.db
    BY StaysTheSame
<1>2. Undoing => Undoing'
    BY <1>1, StaysUndone
<1>3. call.at \in {"insert", "commit"} => call.lib \in Libs
    BY UnderWay
<1>4. Types'
    BY <1>1 DEF Held, Types, plugvars
<1>5. CASE call' = call
    BY <1>2, <1>3, <1>4, <1>5 DEF Held, CallHeld, Calling, Unloaded, plugvars
<1>6. CASE /\ call.at # "none" /\ call' \in Calls
           /\ call'.at = call.at /\ call'.lib = call.lib /\ call'.db = call.db
    <2>1. call.lib \in Libs /\ main = "round" /\ Calling
        BY <1>6, UnderWay DEF Held, CallHeld
    <2> QED
        BY <1>2, <1>4, <1>6, <2>1 DEF Held, CallHeld, Calling, Unloaded, plugvars
<1> QED
    BY <1>1, <1>5, <1>6

\* A server that stops: its sessions die, and their transactions with them.
LEMMA DownStatics ==
    ASSUME Held, NEW d \in Databases, Down(d)
    PROVE  \A l \in Libs :
              /\ static'[l] = IF static[l].conn = d
                              THEN [static[l] EXCEPT !.live = FALSE, !.rows = {}] ELSE static[l]
              /\ static'[l].conn = static[l].conn /\ static'[l].begun = static[l].begun
              /\ static'[l].live = (static[l].live /\ static[l].conn # d)
              /\ static'[l].stmt = static[l].stmt /\ static'[l].stml = static[l].stml
              /\ static'[l].rows = IF static[l].conn = d THEN {} ELSE static[l].rows
              /\ Holds(l, static[l]) => Holds(l, static'[l])
<1> SUFFICES ASSUME NEW l \in Libs PROVE
              /\ static'[l] = IF static[l].conn = d
                              THEN [static[l] EXCEPT !.live = FALSE, !.rows = {}] ELSE static[l]
              /\ static'[l].conn = static[l].conn /\ static'[l].begun = static[l].begun
              /\ static'[l].live = (static[l].live /\ static[l].conn # d)
              /\ static'[l].stmt = static[l].stmt /\ static'[l].stml = static[l].stml
              /\ static'[l].rows = IF static[l].conn = d THEN {} ELSE static[l].rows
              /\ Holds(l, static[l]) => Holds(l, static'[l])
    OBVIOUS
<1>1. static'[l] = IF static[l].conn = d
                   THEN [static[l] EXCEPT !.live = FALSE, !.rows = {}] ELSE static[l]
    BY DEF Down
<1>2. static[l] \in Statics
    BY DEF Held, StaticsHeld
<1>3. CASE static[l].conn = d
    <2>1. static'[l] = [static[l] EXCEPT !.live = FALSE, !.rows = {}]
        BY <1>1, <1>3
    <2>2. d # NoDb
        OBVIOUS
    <2>3. /\ static'[l].conn = d /\ static'[l].begun = static[l].begun
          /\ static'[l].live = FALSE /\ static'[l].rows = {} /\ static'[l] \in Statics
          /\ static'[l].stmt = static[l].stmt /\ static'[l].stml = static[l].stml
        BY <1>2, <1>3, <2>1 DEF Statics
    <2>4. Holds(l, static[l]) => Holds(l, static'[l])
        <3>1. Sane(l, static[l]) => Kind[l] # "file"
            BY <1>3, <2>2 DEF Sane, Fresh
        <3> QED
            BY <1>3, <2>2, <2>3, <3>1 DEF Holds, Sane
    <2>5. (static[l].live /\ static[l].conn # d) = FALSE
        BY <1>3
    <2> QED
        BY <1>1, <1>3, <2>3, <2>4, <2>5
<1>4. CASE static[l].conn # d
    <2>1. static'[l] = static[l]
        BY <1>1, <1>4
    <2>2. static[l].live \in BOOLEAN
        BY <1>2 DEF Statics
    <2> QED
        BY <1>1, <1>4, <2>1, <2>2
<1> QED
    BY <1>3, <1>4

LEMMA HeldOthers == Held /\ Others => Held'
<1> SUFFICES ASSUME Held, Others PROVE Held'
    OBVIOUS
<1>1. UNCHANGED plugvars
    BY DEF Others
<1>2. ASSUME NEW d \in Databases, Down(d) PROVE Held'
    <2>1. \A l \in Libs : Holds(l, static'[l]) /\ static'[l].begun = static[l].begun
        BY <1>2, DownStatics DEF Held, StaticsHeld
    <2>2. \A l \in Libs : static[l] = Fresh => static'[l] = Fresh
        <3>1. \A l \in Libs : static[l] = Fresh => static[l].conn # d
            BY DEF Fresh
        <3> QED
            BY <1>2, <3>1, DownStatics
    <2>3. static' \in [Libs -> Statics]
        BY <1>2, <2>1 DEF Holds, Sane, Down
    <2>4. StaticsHeld'
        BY <1>1, <2>1, <2>2, <2>3 DEF Held, StaticsHeld, Holds, Names, Uses, plugvars
    <2>5. /\ world' \in Statuses /\ call' = Disturbed(d)
          /\ UNCHANGED <<stored, round, refused>>
        BY <1>2 DEF Down, Statuses, Held, Types
    <2> QED
        BY <1>1, <2>1, <2>2, <2>4, <2>5, HeldOutside
<1>3. ASSUME NEW d \in Databases, NEW how \in {"read", "written"}, Hold(d, how) PROVE Held'
    <2>1. StaticsHeld' /\ static' = static
        BY <1>1, <1>3 DEF Held, StaticsHeld, Holds, Names, Uses, plugvars, Hold
    <2>2. /\ world' \in Statuses /\ call' = Disturbed(d)
          /\ UNCHANGED <<stored, round, refused>>
        BY <1>3 DEF Hold, Statuses, Held, Types
    <2> QED
        BY <1>1, <2>1, <2>2, HeldOutside
<1>4. ASSUME NEW d \in Databases, Free(d) PROVE Held'
    <2>1. StaticsHeld' /\ static' = static
        BY <1>1, <1>4 DEF Held, StaticsHeld, Holds, Names, Uses, plugvars, Free
    <2>2. world' \in Statuses /\ call' = call /\ UNCHANGED <<stored, round, refused>>
        BY <1>4 DEF Free, Statuses, Held, Types
    <2> QED
        BY <1>1, <2>1, <2>2, HeldOutside
<1> QED
    BY <1>2, <1>3, <1>4 DEF Others, Disturb

LEMMA HeldStutter == Held /\ UNCHANGED vars => Held'
BY DEF Held, Types, StaticsHeld, Holds, Names, Uses, Unloaded, CallHeld, Calling, Undoing, RowsOf,
       vars, logvars, plugvars

\* The program ends in five ways.
LEMMA Ends ==
    \/ (\E f \in Files : TooManyDlls(f)) \/ InitFails \/ NoDevices \/ OpenFails \/ Kill => Ended
BY DEF TooManyDlls, InitFails, NoDevices, OpenFails, Kill

LEMMA HeldNext == Held /\ [Next]_vars => Held'
<1> SUFFICES ASSUME Held, [Next]_vars PROVE Held'
    OBVIOUS
<1>1. CASE UNCHANGED vars
    BY <1>1, HeldStutter
<1>2. CASE \E f \in Files : read_config(f)
    BY <1>2, HeldLoad
<1>3. CASE (\E f \in Files : TooManyDlls(f)) \/ InitFails \/ NoDevices \/ OpenFails \/ Kill
    BY <1>3, Ends, HeldEnded
<1>4. CASE do_init \/ (\E type \in {"l", "r"} : StartRound(type)) \/ EndRound
    BY <1>4, HeldInitialised, HeldRound
<1>5. CASE Call \/ Return \/ Reload \/ Restart \/ Others
    BY <1>5, HeldCall, HeldReturn, HeldReload, HeldRestart, HeldOthers
<1>6. CASE Step
    BY <1>6, HeldOpen, HeldNotOpened, HeldInsert, HeldRefused, HeldUndone, HeldInsertAll,
       HeldSent, HeldCommit
    DEF Step, CallStep
<1> QED
    BY <1>1, <1>2, <1>3, <1>4, <1>5, <1>6 DEF Next

LEMMA AlwaysHeld == Spec => []Held
BY HeldInit, HeldNext, PTL DEF Spec

\* Every variable of Plugins keeps its type, whatever the configuration files name.
THEOREM TypeCorrect == Spec => []TypeOK
<1>1. Held => TypeOK
    BY DEF Held, Types, StaticsHeld, TypeOK, Statuses
<1> QED
    BY <1>1, AlwaysHeld, PTL
-----------------------------------------------------------------------------
(* Statements, sessions and databases *)

\* No call uses a statement that w1_cleanup has freed: the libraries it frees statements of
\* are unloaded at once, so that no static variable holds one while lines are called.
THEOREM NoStatementAfterCleanup == Spec => []StatementsAreLive
<1>1. Held => StatementsAreLive
    <2> SUFFICES ASSUME Held, call.at = "insert"
                 PROVE  InUse(static[call.lib], call.type) # "freed"
        BY DEF StatementsAreLive
    <2>1. Sane(call.lib, static[call.lib])
        BY UnderWay DEF Holds
    <2> QED
        BY <2>1 DEF Sane, InUse
<1> QED
    BY <1>1, AlwaysHeld, PTL

\* A reload leaves only sessions of libraries that no log line names, and of ODBC.
THEOREM ReloadLeaksOnlyThese == Spec => []OnlyTheseLeak
<1>1. Init => OnlyTheseLeak
    BY DEF Init, OnlyTheseLeak
<1>2. ASSUME Held, OnlyTheseLeak, [Next]_vars PROVE OnlyTheseLeak'
    <2>1. CASE Reload
        <3> SUFFICES ASSUME NEW l \in Libs, Leaks(l), "l" \in TypesOf(l)
                     PROVE  Kind[l] = "odbc"
            BY <2>1 DEF Reload, OnlyTheseLeak
        <3>1. Sane(l, static[l])
            BY <1>2 DEF Held, StaticsHeld, Holds
        <3>2. ~Fresh.live /\ ~[Fresh EXCEPT !.stml = "freed"].live
            BY DEF Fresh
        <3>3. ~w1_cleanup(l).live
            BY <3>1, <3>2 DEF w1_cleanup, Sane
        <3> QED
            BY <3>3 DEF Leaks, w1_freeup, Forgotten
    <2>2. CASE Ended
        BY <2>2 DEF Ended, OnlyTheseLeak
    <2>3. CASE ~Reload /\ ~Ended
        <3>1. leaked' = leaked
            BY <1>2, <2>3, Ends
               DEF Next, vars, plugvars, read_config, do_init, StartRound, Call, Step, Return,
                   EndRound, Restart, Others
        <3> QED
            BY <1>2, <3>1 DEF OnlyTheseLeak
    <2> QED
        BY <2>1, <2>2, <2>3
<1> QED
    BY <1>1, <1>2, AlwaysHeld, PTL DEF Spec
\* What a call can add to a database: rows of its library's lines.
Adds(d) ==
    LET l == call.lib
    IN  /\ call.at # "none"
        /\ \A r \in stored'[d] \ stored[d] : Names(l, r.db)
        /\ \/ Names(l, d)
           \/ \A r \in stored'[d] \ stored[d] : r.db = d

LEMMA Additions ==
    ASSUME Held, CallStep, NEW d \in Databases, stored'[d] # stored[d]
    PROVE  Adds(d)
<1> DEFINE l == call.lib
<1>1. /\ call.at # "none"
      /\ Commit \/ (\E ok \in BOOLEAN : InsertAll(ok)) \/ \E x \in Items : Insert(x)
    BY DEF CallStep, Open, LockedOut, NoFile, Insert, Sends, Refused, Undone, InsertAll, Sent,
           Commit
<1>2. /\ call \in Calls /\ l \in Libs /\ call.db \in Databases /\ Names(l, call.db)
      /\ Holds(l, static[l]) /\ stored \in [Databases -> SUBSET Row]
    BY <1>1, UnderWay DEF Held, Types
<1>3. static[l].conn = d => Names(l, d) /\ \A r \in static[l].rows : Names(l, r.db)
    BY <1>2 DEF Holds
<1>4. CASE Commit
    <2>1. static[l].conn = d /\ stored'[d] = stored[d] \cup static[l].rows
        BY <1>2, <1>4 DEF Commit
    <2> QED
        BY <1>1, <1>3, <2>1 DEF Adds
<1>5. Goes(call) = d => d = call.db \/ static[l].conn = d
    BY DEF Goes
<1>6. ASSUME NEW x \in Items, Insert(x) PROVE Adds(d)
    <2> DEFINE r == [round |-> round, db |-> call.db, item |-> x]
    <2>1. stored' = [stored EXCEPT ![Goes(call)] = @ \cup {r}]
        BY <1>6, TakesRow
    <2>2. r.db = call.db
        OBVIOUS
    <2> HIDE DEF r
    <2>3. Goes(call) = d /\ stored'[d] = stored[d] \cup {r}
        BY <1>2, <2>1
    <2> QED
        BY <1>1, <1>2, <1>3, <1>5, <2>2, <2>3 DEF Adds
<1>7. ASSUME NEW ok \in BOOLEAN, InsertAll(ok) PROVE Adds(d)
    <2>1. stored' = [stored EXCEPT ![Goes(call)] = @ \cup RowsOf(call)]
        BY <1>7, InsertsAll
    <2>2. Goes(call) = d /\ stored'[d] = stored[d] \cup RowsOf(call)
        BY <1>2, <2>1
    <2> QED
        BY <1>1, <1>2, <1>3, <1>5, <2>2, RowsAreRows DEF Adds
<1> QED
    BY <1>1, <1>4, <1>6, <1>7

\* The steps that are none of a call's either leave what is stored alone or forget it.
LEMMA StoredOutside ==
    ASSUME Held, [Next]_vars, ~CallStep
    PROVE  stored' = stored \/ stored' = [d \in Databases |-> {}]
BY Ends DEF Next, vars, logvars, read_config, Ended, do_init, StartRound, Call, Begins, Step, Return,
            EndRound, Reload, Restart, Forget, Others, Disturb, Down, Hold, Free

\* A row lies in the database its line names, or in one that another line of the library
\* names in the same file: nothing of an earlier configuration outlives a reload.
THEOREM RowsAreAtHome == Spec => []OwnDatabase
<1>1. Init => OwnDatabase
    BY DEF Init, LoggersInit, OwnDatabase
<1>2. ASSUME Held, OwnDatabase, [Next]_vars PROVE OwnDatabase'
    <2>1. CASE CallStep
        <3> SUFFICES ASSUME NEW d \in Databases, NEW r \in stored'[d]
                     PROVE  r.db = d \/ SameLibrary(r.db, d)
            BY DEF OwnDatabase, SameLibrary
        <3>1. CASE r \in stored[d]
            BY <1>2, <3>1 DEF OwnDatabase
        <3>2. CASE r \notin stored[d]
            <4>1. Adds(d)
                BY <1>2, <2>1, <3>2, Additions
            <4>2. r.db = d \/ (Names(call.lib, r.db) /\ Names(call.lib, d))
                BY <3>2, <4>1 DEF Adds
            <4>3. rc \in Files
                BY <1>2 DEF Held, Types
            <4> QED
                BY <4>2, <4>3 DEF Names, SameLibrary
        <3> QED
            BY <3>1, <3>2
    <2>2. CASE ~CallStep
        BY <1>2, <2>2, StoredOutside DEF OwnDatabase, SameLibrary
    <2> QED
        BY <2>1, <2>2
<1> QED
    BY <1>1, <1>2, AlwaysHeld, PTL DEF Spec
-----------------------------------------------------------------------------
(* Quiet calls *)

\* The connection of a quiet call lives, or will be made, and its database is free; what
\* was inserted is in the transaction, or stored where there is none.
Transacts == Kind[call.lib] \in {"mysql", "sqlite"}
Inserted  == {r \in RowsOf(call) : r.item \notin call.todo}
Reaching  == static[call.lib].live /\ world[static[call.lib].conn] = "free"

QuietSoFar ==
    call.at \in {"open", "insert", "commit"} /\ call.quiet =>
        /\ \/ Kind[call.lib] = "file"
           \/ Reaching
           \/ call.at = "open" /\ Opens /\ world[call.db] = "free"
        /\ call.at = "open" => call.todo = Offered(call.type)
        /\ call.at # "open" =>
               Inserted \subseteq IF Transacts THEN static[call.lib].rows ELSE stored[Goes(call)]
        /\ call.at = "commit" => call.todo = {}

LEMMA QuietCalled == Held /\ Call => QuietSoFar'
<1> SUFFICES ASSUME Held, Call PROVE QuietSoFar'
    OBVIOUS
<1>1. PICK n \in dlls :
          /\ n \in DOMAIN rc /\ n \in Nat /\ rc[n].lib \in Libs /\ rc[n].db \in Databases
          /\ Begins(turn.type, rc[n].lib, rc[n].db)
    BY CallsLine
<1>2. turn.type \in {"l", "r"}
    BY DEF Held, Types
<1>3. PICK q \in BOOLEAN :
          /\ call' = [at |-> "open", type |-> turn.type, lib |-> rc[n].lib, db |-> rc[n].db,
                      todo |-> Offered(turn.type), quiet |-> q]
          /\ q <=> IF static[rc[n].lib].conn = NoDb
                   THEN world[rc[n].db] = "free" /\ ~(Kind[rc[n].lib] = "mongo" /\ turn.type = "r")
                   ELSE static[rc[n].lib].live /\ world[static[rc[n].lib].conn] = "free"
    BY <1>1, <1>2, BeginsCall
<1>4. UNCHANGED <<world, static>>
    BY DEF Call
<1>5. /\ call'.at = "open" /\ call'.todo = Offered(turn.type) /\ call'.type = turn.type
      /\ call'.lib = rc[n].lib /\ call'.db = rc[n].db /\ (call'.quiet <=> q)
    BY <1>3
<1>6. Offered(call.type)' = Offered(turn.type)
    BY <1>5 DEF Offered
<1> QED
    BY <1>3, <1>4, <1>5, <1>6 DEF QuietSoFar, Reaching, Opens

LEMMA QuietOpened ==
    \A ok \in BOOLEAN : Held /\ QuietSoFar /\ Open(ok) /\ UNCHANGED plugvars => QuietSoFar'
<1> SUFFICES ASSUME Held, QuietSoFar, NEW ok \in BOOLEAN, Open(ok), UNCHANGED plugvars
             PROVE  QuietSoFar'
    OBVIOUS
<1>1. /\ call.at = "open" /\ call'.at = "insert" /\ call'.lib = call.lib /\ call'.db = call.db
      /\ call'.type = call.type /\ call'.todo = call.todo /\ (call'.quiet => call.quiet)
      /\ static' = [static EXCEPT ![call.lib] = Opened(ok)]
      /\ UNCHANGED <<world, stored, round, refused>>
    BY OpensCall
<1>2. static'[call.lib] = Opened(ok)
    BY <1>1, UnderWay DEF Held, StaticsHeld
<1> SUFFICES ASSUME call.quiet PROVE QuietSoFar'
    BY <1>1 DEF QuietSoFar
<1>3. Kind[call.lib] = "file" \/ Reaching'
    <2>1. Kind[call.lib] = "file" \/ Reaching \/ (Opens /\ world[call.db] = "free")
        BY <1>1 DEF QuietSoFar
    <2>2. Reaching => ~Opens
        BY <1>1, UnderWay DEF Reaching, Opens, Holds, Sane
    <2>3. /\ Opened(ok).conn = IF Opens THEN call.db ELSE static[call.lib].conn
          /\ Opened(ok).live = IF Opens THEN world[call.db] # "down" ELSE static[call.lib].live
        BY <1>1, OpenedHolds
    <2>4. /\ static[call.lib].live' = Opened(ok).live /\ static[call.lib].conn' = Opened(ok).conn
          /\ world' = world
        BY <1>1, <1>2
    <2> QED
        BY <2>1, <2>2, <2>3, <2>4 DEF Reaching
<1>4. Inserted' = {}
    <2>1. call'.todo = Offered(call'.type)
        BY <1>1 DEF QuietSoFar
    <2> QED
        BY <2>1 DEF Inserted, RowsOf, Offered
<1> QED
    BY <1>1, <1>3, <1>4 DEF QuietSoFar

LEMMA QuietInserted ==
    \A x \in Items : Held /\ QuietSoFar /\ Insert(x) /\ UNCHANGED plugvars => QuietSoFar'
<1> SUFFICES ASSUME Held, QuietSoFar, NEW x \in Items, Insert(x), UNCHANGED plugvars, call'.quiet
             PROVE  QuietSoFar'
    BY DEF QuietSoFar
<1> DEFINE l == call.lib
<1> DEFINE s == static[l]
<1> DEFINE r == [round |-> round, db |-> call.db, item |-> x]
<1>1. /\ call.at = "insert" /\ call.quiet /\ call'.at = "insert" /\ call'.lib = l
      /\ call'.db = call.db /\ call'.type = call.type /\ call'.todo = call.todo \ {x}
      /\ call \in Calls /\ UNCHANGED <<world, round>>
    BY SendsOne
<1>2. l \in Libs /\ s \in Statics /\ Sane(l, s)
    BY <1>1, UnderWay DEF Holds, Sane
<1>3. Inserted' \subseteq Inserted \cup {r}
    BY <1>1, <1>2 DEF Inserted, RowsOf, Offered
<1>4. /\ Kind[l] = "file" \/ Reaching
      /\ Inserted \subseteq IF Transacts THEN s.rows ELSE stored[Goes(call)]
    BY <1>1 DEF QuietSoFar
<1>5. \/ /\ s.begun /\ stored' = stored
         /\ static' = [static EXCEPT ![l].rows = s.rows \cup {r}]
      \/ /\ ~s.begun /\ static' = static /\ Goes(call) \in Databases
         /\ stored' = [stored EXCEPT ![Goes(call)] = @ \cup {r}]
    BY TakesRow
<1> HIDE DEF r
<1>6. CASE Transacts
    <2>1. s.begun
        BY <1>1, <1>6 DEF Held, CallHeld, Transacts, Undoing
    <2>2. /\ static'[l].rows = s.rows \cup {r}
          /\ static'[l].live = s.live /\ static'[l].conn = s.conn
        BY <1>2, <1>5, <2>1 DEF Held, StaticsHeld, Statics
    <2> QED
        BY <1>1, <1>3, <1>4, <1>6, <2>2 DEF QuietSoFar, Reaching, Transacts
<1>7. CASE ~Transacts
    <2>1. ~s.begun
        BY <1>2, <1>7 DEF Sane, Transacts
    <2>2. static' = static /\ stored'[Goes(call)] = stored[Goes(call)] \cup {r}
        BY <1>5, <2>1 DEF Held, Types
    <2>3. Goes(call)' = Goes(call)
        BY <1>1, <2>2 DEF Goes
    <2> QED
        BY <1>1, <1>3, <1>4, <1>7, <2>2, <2>3 DEF QuietSoFar, Reaching, Transacts
<1> QED
    BY <1>6, <1>7

LEMMA QuietInsertedAll ==
    \A ok \in BOOLEAN : Held /\ QuietSoFar /\ InsertAll(ok) /\ UNCHANGED plugvars => QuietSoFar'
<1> SUFFICES ASSUME Held, QuietSoFar, NEW ok \in BOOLEAN, InsertAll(ok), UNCHANGED plugvars,
                    call'.quiet
             PROVE  QuietSoFar'
    BY DEF QuietSoFar
<1> DEFINE l == call.lib
<1>1. /\ call.at = "insert" /\ Kind[l] = "mongo" /\ call.quiet
      /\ call'.at = "insert" /\ call'.todo = {} /\ call'.lib = l /\ call'.db = call.db
      /\ call'.type = call.type /\ stored' = [stored EXCEPT ![Goes(call)] = @ \cup RowsOf(call)]
      /\ UNCHANGED <<world, static, round>>
    BY InsertsAll
<1>2. call \in Calls /\ l \in Libs /\ call.db \in Databases /\ Sane(l, static[l])
    BY <1>1, UnderWay DEF Holds
<1>3. Reaching
    BY <1>1 DEF QuietSoFar
<1>4. Goes(call) \in Databases
    BY <1>1, <1>2, <1>3 DEF Goes, Reaching, Sane, Statics
<1>5. RowsOf(call) \subseteq stored'[Goes(call)]
    BY <1>1, <1>4 DEF Held, Types
<1>6. Goes(call)' = Goes(call) /\ RowsOf(call)' = RowsOf(call)
    BY <1>1 DEF Goes, RowsOf, Offered
<1>7. Inserted' \subseteq stored'[Goes(call)']
    BY <1>5, <1>6 DEF Inserted
<1> QED
    BY <1>1, <1>3, <1>7 DEF QuietSoFar, Reaching, Transacts

\* The steps that end a quiet call, or its quiet.
LEMMA NoLongerQuiet ==
    ASSUME Held, LockedOut \/ NoFile \/ Undone \/ (\E x \in Items : Refused(x)) \/ Commit
    PROVE  call'.at = "done" \/ ~call'.quiet
<1>1. CASE LockedOut \/ NoFile \/ Commit
    <2>1. call \in Calls
        BY <1>1, UnderWay DEF LockedOut, NoFile, Commit
    <2> QED
        BY <1>1, <2>1 DEF LockedOut, NoFile, Commit, Calls
<1>2. CASE Undone
    BY <1>2, UndoesCall
<1>3. CASE \E x \in Items : Refused(x)
    BY <1>3, SendsOne
<1> QED
    BY <1>1, <1>2, <1>3

LEMMA QuietSent == Held /\ QuietSoFar /\ Sent /\ UNCHANGED plugvars => QuietSoFar'
<1> SUFFICES ASSUME Held, QuietSoFar, Sent, UNCHANGED plugvars PROVE QuietSoFar'
    OBVIOUS
<1>1. call.at = "insert" /\ call' = [call EXCEPT !.at = "commit"] /\ call.todo = {}
          /\ UNCHANGED <<world, static, stored, round>>
    BY DEF Sent
<1>2. call \in Calls
    BY <1>1, UnderWay
<1>3. /\ call'.at = "commit" /\ call'.lib = call.lib /\ call'.db = call.db
      /\ call'.type = call.type /\ call'.quiet = call.quiet /\ call'.todo = call.todo
    BY <1>1, <1>2 DEF Calls
<1>4. Inserted' = Inserted /\ Goes(call)' = Goes(call)
    BY <1>1, <1>3 DEF Inserted, RowsOf, Offered, Goes
<1> QED
    BY <1>1, <1>3, <1>4 DEF QuietSoFar, Reaching, Transacts

LEMMA QuietOthers == Held /\ QuietSoFar /\ Others => QuietSoFar'
<1> SUFFICES ASSUME Held, QuietSoFar, Others, call'.at # "none", call'.quiet
             PROVE  QuietSoFar'
    BY DEF QuietSoFar
<1> DEFINE l == call.lib
<1>1. ASSUME NEW d \in Databases, call' = Disturbed(d)
      PROVE  call' = call /\ call.db # d /\ static[l].conn # d
    BY <1>1, StaysTheSame
<1>2. ASSUME call' = call, UNCHANGED <<stored, round>>, l \in Libs => static'[l] = static[l],
             \A e \in {call.db, static[l].conn} \cap Databases :
                 world'[e] = world[e] \/ world'[e] = "free"
      PROVE  QuietSoFar'
    <2> SUFFICES ASSUME call.at \in {"open", "insert", "commit"} PROVE QuietSoFar'
        BY <1>2 DEF QuietSoFar
    <2>1. l \in Libs /\ call.db \in Databases /\ Sane(l, static[l])
        BY UnderWay DEF Holds
    <2>2. Inserted' = Inserted /\ Goes(call)' = Goes(call)
        BY <1>2, <2>1 DEF Inserted, RowsOf, Offered, Goes
    <2>3. Reaching => Reaching'
        BY <1>2, <2>1 DEF Reaching, Sane, Statics
    <2>4. Opens /\ world[call.db] = "free" => Opens' /\ world'[call.db] = "free"
        BY <1>2, <2>1 DEF Opens
    <2> QED
        BY <1>2, <2>1, <2>2, <2>3, <2>4 DEF QuietSoFar, Transacts
<1>3. ASSUME NEW d \in Databases, Down(d) PROVE QuietSoFar'
    <2>1. call' = call /\ call.db # d /\ static[l].conn # d
        BY <1>1, <1>3 DEF Down
    <2>2. ASSUME l \in Libs PROVE static'[l] = static[l]
        <3>1. static' = [k \in Libs |-> IF static[k].conn = d
                                       THEN [static[k] EXCEPT !.live = FALSE, !.rows = {}]
                                       ELSE static[k]]
            BY <1>3, Zenon DEF Down
        <3> HIDE DEF l
        <3> QED
            BY <2>1, <2>2, <3>1
    <2>3. \A e \in Databases : e # d => world'[e] = world[e]
        BY <1>3 DEF Down, Held, Types, Statuses
    <2> QED
        BY <1>2, <1>3, <2>1, <2>2, <2>3 DEF Down
<1>4. ASSUME NEW d \in Databases, NEW how \in {"read", "written"}, Hold(d, how)
      PROVE  QuietSoFar'
    <2>1. call' = call /\ call.db # d /\ static[l].conn # d
        BY <1>1, <1>4 DEF Hold
    <2>2. \A e \in Databases : e # d => world'[e] = world[e]
        BY <1>4 DEF Hold, Held, Types, Statuses
    <2> QED
        BY <1>2, <1>4, <2>1, <2>2 DEF Hold
<1>5. ASSUME NEW d \in Databases, Free(d) PROVE QuietSoFar'
    <2>1. \A e \in Databases : world'[e] = world[e] \/ world'[e] = "free"
        BY <1>5 DEF Free, Held, Types, Statuses
    <2> QED
        BY <1>2, <1>5, <2>1 DEF Free
<1> QED
    BY <1>3, <1>4, <1>5 DEF Others, Disturb

LEMMA QuietNext == Held /\ QuietSoFar /\ [Next]_vars => QuietSoFar'
<1> SUFFICES ASSUME Held, QuietSoFar, [Next]_vars PROVE QuietSoFar'
    OBVIOUS
<1>1. CASE UNCHANGED vars
    BY <1>1 DEF QuietSoFar, Reaching, Opens, Inserted, Transacts, RowsOf, Goes, vars, logvars
<1>2. CASE Ended \/ Restart \/ (\E f \in Files : read_config(f)) \/ do_init \/ Reload \/ Return
               \/ EndRound \/ \E type \in {"l", "r"} : StartRound(type)
    <2>1. call' = [at |-> "none"]
        BY <1>2 DEF Ended, Restart, read_config, do_init, Reload, Return, EndRound, StartRound,
                    logvars, Held, Unloaded, CallHeld
    <2> QED
        BY <2>1 DEF QuietSoFar
<1>3. CASE LockedOut \/ NoFile \/ Undone \/ (\E x \in Items : Refused(x)) \/ Commit
    BY <1>3, NoLongerQuiet DEF QuietSoFar
<1> QED
    BY <1>1, <1>2, <1>3, Ends, QuietCalled, QuietOpened, QuietInserted, QuietInsertedAll,
       QuietSent, QuietOthers DEF Next, Step, CallStep

\* A call nothing disturbs stores all that was offered, and what an earlier commit left in
\* the transaction.
THEOREM QuietCallsStore == Spec => QuietCallStoresAll
<1> DEFINE Stores ==
        call.at = "commit" /\ call'.at = "done" /\ call.quiet =>
            /\ RowsOf(call) \cup static[call.lib].rows \subseteq stored'[Goes(call)]
            /\ static'[call.lib].rows = {}
<1>1. Init => QuietSoFar
    BY DEF Init, LoggersInit, QuietSoFar
<1>2. ASSUME Held, QuietSoFar, [Next]_vars PROVE [Stores]_vars
    <2> SUFFICES ASSUME call.at = "commit", call'.at = "done", call.quiet, Next
                 PROVE  Stores
        BY <1>2 DEF vars, logvars
    <2> DEFINE l == call.lib
    <2> DEFINE s == static[l]
    <2>1. call \in Calls /\ l \in Libs /\ Sane(l, s) /\ main = "round"
        BY <1>2, UnderWay DEF Holds
    <2>2. CASE Commit
        <3>1. RowsOf(call) \subseteq IF Transacts THEN s.rows ELSE stored[Goes(call)]
            BY <1>2 DEF QuietSoFar, Inserted
        <3>2. Kind[l] = "file" \/ (s.live /\ world[s.conn] = "free" /\ s.conn \in Databases)
            BY <1>2, <2>1 DEF QuietSoFar, Reaching, Sane, Statics
        <3>3. CASE Transacts
            <4>1. s.begun /\ ~Blocked(s) /\ Goes(call) = s.conn /\ Kind[l] # "file"
                BY <1>2, <3>2, <3>3 DEF Held, CallHeld, Undoing, Transacts, Blocked, Goes
            <4>2. stored'[s.conn] = stored[s.conn] \cup s.rows
                BY <1>2, <2>2, <3>2, <4>1 DEF Commit, Held, Types
            <4>3. static' = [static EXCEPT ![l].rows = {}, ![l].begun = Kind[l] = "mysql"]
                BY <2>2, <4>1 DEF Commit
            <4>4. static'[l].rows = {}
                <5> DEFINE b == Kind[l] = "mysql"
                <5>1. static' = [static EXCEPT ![l].rows = {}, ![l].begun = b]
                    BY <4>3, Zenon
                <5> HIDE DEF b
                <5> QED
                    BY <1>2, <2>1, <5>1 DEF Held, StaticsHeld, Statics
            <4> QED
                BY <3>1, <3>3, <4>1, <4>2, <4>4
        <3>4. CASE ~Transacts
            <4>1. ~s.begun /\ s.rows = {}
                BY <2>1, <3>4 DEF Sane, Transacts
            <4>2. UNCHANGED <<stored, static>>
                BY <2>2, <4>1 DEF Commit
            <4> QED
                BY <3>1, <3>4, <4>1, <4>2
        <3> QED
            BY <3>3, <3>4
    <2>3. CASE ~Commit
        <3>1. call'.at # "done"
            <4>1. CASE Others
                <5>1. call' = call \/ \E d \in Databases : call' = Disturbed(d)
                    BY <4>1 DEF Others, Disturb, Down, Hold, Free
                <5> QED
                    BY <1>2, <5>1, StaysTheSame
            <4>2. CASE CallStep
                BY <1>2, <2>3, <4>2, OpensCall, InsertsAll, SendsOne, UndoesCall
                   DEF CallStep, LockedOut, NoFile, Sent
            <4>3. CASE ~Others /\ ~CallStep
                BY <1>2, <2>1, <4>3, Ends
                   DEF Next, Ended, Restart, read_config, do_init, Reload, Return, EndRound,
                       StartRound, Call, Step, Held, CallHeld, logvars
            <4> QED
                BY <4>1, <4>2, <4>3
        <3> QED
            BY <3>1
    <2> QED
        BY <2>2, <2>3
<1> QED
    BY <1>1, <1>2, QuietNext, AlwaysHeld, PTL DEF Spec, QuietCallStoresAll
-----------------------------------------------------------------------------
(* Passes *)

Reading(n, d, x) == [round |-> n, db |-> d, item |-> x]
Part(l, n, d)    == {x \in Sensors : Reading(n, d, x) \in static[l].rows}
Missed(n, d)     == {x \in Sensors : Reading(n, d, x) \in refused}
Settled(S, n, d) == S = {} \/ Sensors \ S \subseteq Missed(n, d)
Writing(l, n, d) == /\ call.at = "insert" /\ call.type = "l" /\ Transacts
                    /\ call.lib = l /\ call.db = d /\ round = n

\* The readings of pass n, but for the refused ones, are whole in the databases and in every
\* transaction but the one being written, which has them all but those still to be inserted.
WholeFor(n, d) ==
    /\ Settled(Got(n, d), n, d)
    /\ \A l \in Libs : IF Writing(l, n, d) /\ static[l].live
                       THEN Sensors \ call.todo \subseteq Part(l, n, d) \cup Missed(n, d)
                       ELSE Settled(Part(l, n, d), n, d)

Wholes ==
    /\ call.at = "open" => call.todo = Offered(call.type)
    /\ call.at = "insert" => call.todo \subseteq Offered(call.type)
    /\ \A n \in Nat, d \in Databases : OneByOne(d) \/ WholeFor(n, d)

\* A row more is a reading more, if it is one.
LEMMA GotMore ==
    ASSUME Held, NEW e \in Databases, NEW S, stored' = [stored EXCEPT ![e] = @ \cup S],
           NEW n, NEW d
    PROVE  /\ Got(n, d) \subseteq Sensors /\ Got(n, d)' \subseteq Sensors
           /\ \A x \in Sensors :
                 x \in Got(n, d)' <=> x \in Got(n, d) \/ Reading(n, d, x) \in S
<1>1. \A c \in Databases : \A y : y \in stored'[c] <=> y \in stored[c] \/ (c = e /\ y \in S)
    BY DEF Held, Types
<1>2. ASSUME NEW y
      PROVE  (\E c \in Databases : y \in stored'[c])
                 <=> (\E c \in Databases : y \in stored[c]) \/ y \in S
    BY <1>1, Zenon
<1> QED
    BY <1>2 DEF Got, Reading

LEMMA GotSame ==
    /\ stored' = stored => \A n, d : Got(n, d)' = Got(n, d)
    /\ stored' = [d \in Databases |-> {}] => \A n, d : Got(n, d)' = {}
BY DEF Got

\* A row that was refused stays so until the next load.
LEMMA MissedMore == refused \subseteq refused' => \A n, d : Missed(n, d) \subseteq Missed(n, d)'
BY DEF Missed

\* Steps that insert nothing, and leave a transaction alone or lose it: only the call whose
\* connection is lost was writing.
LEMMA WholesKept ==
    ASSUME Wholes, stored' = stored \/ stored' = [d \in Databases |-> {}],
           call'.at \in {"open", "insert"} => call'.todo = Offered(call'.type),
           refused \subseteq refused',
           \A l \in Libs : \/ static'[l].rows = {}
                           \/ static'[l].rows = static[l].rows /\ call.at # "insert"
    PROVE  Wholes'
<1> SUFFICES ASSUME NEW n \in Nat, NEW d \in Databases, ~OneByOne(d) PROVE WholeFor(n, d)'
    BY DEF Wholes, OneByOne
<1>1. WholeFor(n, d) /\ Missed(n, d) \subseteq Missed(n, d)'
    BY MissedMore DEF Wholes
<1>2. Settled(Got(n, d), n, d)'
    BY <1>1, GotSame DEF WholeFor, Settled
<1>3. ASSUME NEW l \in Libs PROVE Settled(Part(l, n, d), n, d)'
    <2>1. CASE static'[l].rows = {}
        BY <2>1 DEF Part, Settled
    <2>2. CASE static'[l].rows = static[l].rows /\ call.at # "insert"
        <3>1. Part(l, n, d)' = Part(l, n, d)
            BY <2>2 DEF Part
        <3>2. Settled(Part(l, n, d), n, d)
            BY <1>1, <2>2 DEF WholeFor, Writing
        <3> QED
            BY <1>1, <3>1, <3>2 DEF Settled
    <2> QED
        BY <2>1, <2>2
<1>4. ASSUME NEW l \in Libs, Writing(l, n, d)' PROVE Sensors \ call'.todo = {}
    BY <1>4 DEF Writing, Offered
<1> QED
    BY <1>2, <1>3, <1>4 DEF WholeFor

\* Nothing is left of the passes before a load.
LEMMA WholesForgotten ==
    ASSUME stored' = [d \in Databases |-> {}], call'.at = "none",
           \A l \in Libs : static'[l].rows = {}
    PROVE  Wholes'
<1>1. \A n, d : Got(n, d)' = {}
    BY GotSame
<1>2. \A l \in Libs : \A n, d : Part(l, n, d)' = {}
    BY DEF Part
<1>3. \A l \in Libs : \A n, d : ~Writing(l, n, d)'
    BY DEF Writing
<1> SUFFICES ASSUME NEW n \in Nat, NEW d \in Databases PROVE WholeFor(n, d)'
    BY DEF Wholes
<1> QED
    BY <1>1, <1>2, <1>3 DEF WholeFor, Settled

LEMMA WholesOpened ==
    \A ok \in BOOLEAN : Held /\ Wholes /\ Open(ok) /\ UNCHANGED plugvars => Wholes'
<1> SUFFICES ASSUME Held, Wholes, NEW ok \in BOOLEAN, Open(ok), UNCHANGED plugvars PROVE Wholes'
    OBVIOUS
<1>1. /\ call.at = "open" /\ call'.at = "insert" /\ call'.type = call.type
      /\ call'.todo = call.todo /\ static' = [static EXCEPT ![call.lib] = Opened(ok)]
      /\ UNCHANGED <<stored, refused>>
    BY OpensCall
<1>2. call.lib \in Libs /\ Opened(ok).rows = static[call.lib].rows
    BY <1>1, UnderWay, OpenedHolds
<1>3. call'.todo = Offered(call'.type)
    BY <1>1 DEF Wholes
<1>4. \A l \in Libs : static'[l].rows = static[l].rows
    BY <1>1, <1>2 DEF Held, StaticsHeld
<1> QED
    BY <1>1, <1>3, <1>4, WholesKept

\* The row of one insert is a reading of the pass under way or none at all.  SQLite inserts
\* without a transaction only when it undid the one of this call.
LEMMA WholesInserted ==
    \A x \in Items : Held /\ Wholes /\ Insert(x) /\ UNCHANGED plugvars => Wholes'
<1> SUFFICES ASSUME Held, Wholes, NEW x \in Items, Insert(x), UNCHANGED plugvars PROVE Wholes'
    OBVIOUS
<1> DEFINE k == call.lib
<1> DEFINE s == static[k]
<1> DEFINE r == [round |-> round, db |-> call.db, item |-> x]
<1>1. /\ call.at = "insert" /\ Kind[k] # "mongo" /\ x \in call.todo
      /\ call'.at = "insert" /\ call'.lib = k /\ call'.db = call.db /\ call'.type = call.type
      /\ call'.todo = call.todo \ {x} /\ round' = round
    BY SendsOne
<1>2. /\ k \in Libs /\ call.db \in Databases /\ Sane(k, s) /\ s \in Statics
      /\ call.type \in {"l", "r"} /\ Names(k, call.db) /\ rc \in Files
    BY <1>1, UnderWay DEF Holds, Sane, Held, Types
<1>3. /\ refused' = refused
      /\ \/ /\ s.begun /\ s.live /\ stored' = stored
            /\ static' = [static EXCEPT ![k].rows = s.rows \cup {r}]
         \/ /\ ~s.begun /\ static' = static /\ Goes(call) \in Databases
            /\ stored' = [stored EXCEPT ![Goes(call)] = @ \cup {r}]
    BY TakesRow
<1> SUFFICES ASSUME NEW n \in Nat, NEW d \in Databases, ~OneByOne(d) PROVE WholeFor(n, d)'
    BY <1>1 DEF Wholes, OneByOne, Offered
<1>4. WholeFor(n, d) /\ Missed(n, d)' = Missed(n, d)
    BY <1>3 DEF Wholes, Missed
<1>5. CASE n = round /\ d = call.db /\ call.type = "l"
    <2>1. Transacts
        <3>1. Kind[k] \notin {"odbc", "file"}
            BY <1>2, <1>5 DEF OneByOne, Names
        <3>2. Kind[k] \in Kinds
            BY <1>2
        <3> QED
            BY <1>1, <3>1, <3>2 DEF Transacts, Kinds
    <2>2. CASE s.begun
        <3>1. s.live /\ stored' = stored /\ static' = [static EXCEPT ![k].rows = s.rows \cup {r}]
            BY <1>3, <2>2
        <3>2. /\ \A l \in Libs : l # k => static'[l] = static[l]
              /\ static'[k].live = s.live /\ static'[k].rows = s.rows \cup {r}
            BY <1>2, <3>1 DEF Held, StaticsHeld, Statics
        <3>3. ASSUME NEW l \in Libs, l # k PROVE Settled(Part(l, n, d), n, d)' /\ ~Writing(l, n, d)'
            <4>1. Settled(Part(l, n, d), n, d) /\ ~Writing(l, n, d)'
                BY <1>1, <1>4, <3>3 DEF WholeFor, Writing
            <4>2. Part(l, n, d)' = Part(l, n, d)
                BY <3>2, <3>3 DEF Part
            <4> QED
                BY <1>4, <4>1, <4>2 DEF Settled
        <3>4. Part(k, n, d) \subseteq Part(k, n, d)' /\ (x \in Sensors => x \in Part(k, n, d)')
            BY <1>1, <1>5, <3>2 DEF Part, Reading
        <3>5. Writing(k, n, d) /\ Writing(k, n, d)'
            BY <1>1, <1>5, <2>1 DEF Writing, Transacts
        <3>6. Sensors \ call.todo \subseteq Part(k, n, d) \cup Missed(n, d)
            BY <1>2, <1>4, <3>1, <3>5 DEF WholeFor
        <3>7. Settled(Got(n, d), n, d)'
            BY <1>4, <3>1, GotSame DEF WholeFor, Settled
        <3> QED
            BY <1>1, <1>4, <3>1, <3>2, <3>3, <3>4, <3>5, <3>6, <3>7 DEF WholeFor
    <2>3. CASE ~s.begun
        <3>1. RowsOf(call) \subseteq refused
            BY <1>1, <2>1, <2>3 DEF Held, CallHeld, Undoing, Transacts
        <3>2. Missed(n, d)' = Sensors
            BY <1>3, <1>5, <3>1 DEF Missed, RowsOf, Offered, Reading
        <3> QED
            BY <3>2 DEF WholeFor, Settled
    <2> QED
        BY <2>2, <2>3
<1>6. CASE ~(n = round /\ d = call.db /\ call.type = "l")
    <2>1. \A y \in Sensors : Reading(n, d, y) # r
        <3>1. call.type = "r" => x \notin Sensors
            BY <1>1 DEF Wholes, Offered
        <3> QED
            BY <1>2, <1>6, <3>1 DEF Reading
    <2> HIDE DEF r
    <2>2. \A l \in Libs : Part(l, n, d)' = Part(l, n, d)
        <3>1. \A l \in Libs : static'[l].rows \subseteq static[l].rows \cup {r}
                                  /\ static[l].rows \subseteq static'[l].rows
            BY <1>2, <1>3 DEF Held, StaticsHeld, Statics
        <3> QED
            BY <2>1, <3>1 DEF Part
    <2>3. Got(n, d)' = Got(n, d)
        <3>1. CASE stored' = stored
            BY <3>1, GotSame
        <3>2. CASE stored' # stored
            <4>1. /\ Got(n, d) \subseteq Sensors /\ Got(n, d)' \subseteq Sensors
                  /\ \A y \in Sensors :
                        y \in Got(n, d)' <=> y \in Got(n, d) \/ Reading(n, d, y) \in {r}
                BY <1>3, <3>2, GotMore
            <4> QED
                BY <2>1, <4>1
        <3> QED
            BY <3>1, <3>2
    <2>4. \A l \in Libs : ~Writing(l, n, d) /\ ~Writing(l, n, d)'
        BY <1>1, <1>6 DEF Writing
    <2> QED
        BY <1>4, <2>2, <2>3, <2>4 DEF WholeFor, Settled
<1> QED
    BY <1>5, <1>6

LEMMA WholesRefused ==
    \A x \in Items : Held /\ Wholes /\ Refused(x) /\ UNCHANGED plugvars => Wholes'
<1> SUFFICES ASSUME Held, Wholes, NEW x \in Items, Refused(x), UNCHANGED plugvars PROVE Wholes'
    OBVIOUS
<1>1. /\ call.at = "insert" /\ call'.at = "insert" /\ call'.lib = call.lib
      /\ call'.db = call.db /\ call'.type = call.type /\ call'.todo = call.todo \ {x}
    BY SendsOne
<1>2. /\ refused' = IF static[call.lib].live
                     THEN refused \cup {Reading(round, call.db, x)} ELSE refused
      /\ UNCHANGED <<world, static, stored, round>>
    BY DEF Refused, Reading
<1> SUFFICES ASSUME NEW n \in Nat, NEW d \in Databases, ~OneByOne(d) PROVE WholeFor(n, d)'
    BY <1>1 DEF Wholes, OneByOne, Offered
<1>3. /\ WholeFor(n, d) /\ Missed(n, d) \subseteq Missed(n, d)'
      /\ Got(n, d)' = Got(n, d) /\ \A l \in Libs : Part(l, n, d)' = Part(l, n, d)
    BY <1>2, MissedMore, GotSame DEF Wholes, Part
<1>4. ASSUME NEW l \in Libs
      PROVE  /\ Writing(l, n, d)' <=> Writing(l, n, d)
             /\ Writing(l, n, d) /\ static[l].live =>
                   Sensors \ call'.todo \subseteq (Sensors \ call.todo) \cup Missed(n, d)'
    <2>1. Writing(l, n, d)' <=> Writing(l, n, d)
        BY <1>1, <1>2 DEF Writing, Transacts
    <2>2. Writing(l, n, d) /\ static[l].live /\ x \in Sensors => x \in Missed(n, d)'
        BY <1>2 DEF Writing, Missed
    <2> QED
        BY <1>1, <2>1, <2>2
<1> QED
    BY <1>2, <1>3, <1>4 DEF WholeFor, Settled

LEMMA WholesUndone == Held /\ Wholes /\ Undone /\ UNCHANGED plugvars => Wholes'
<1> SUFFICES ASSUME Held, Wholes, Undone, UNCHANGED plugvars PROVE Wholes'
    OBVIOUS
<1> DEFINE k == call.lib
<1>1. /\ call.at = "insert" /\ Kind[k] \in {"mysql", "sqlite"}
      /\ call'.at = "insert" /\ call'.lib = k /\ call'.db = call.db /\ call'.type = call.type
      /\ call'.todo = call.todo /\ refused \subseteq refused' /\ RowsOf(call) \subseteq refused'
      /\ UNCHANGED <<stored, round>>
    BY UndoesCall
<1>2. k \in Libs /\ Uses(k) /\ Holds(k, static[k])
    BY <1>1, UnderWay
<1>3. \E b \in BOOLEAN : static' = [static EXCEPT ![k].rows = {}, ![k].begun = b]
    BY Ending DEF Undone
<1>4. \A l \in Libs : static'[l].rows = IF l = k THEN {} ELSE static[l].rows
    BY <1>1, <1>2, <1>3, EndsTransaction
<1> SUFFICES ASSUME NEW n \in Nat, NEW d \in Databases, ~OneByOne(d) PROVE WholeFor(n, d)'
    BY <1>1 DEF Wholes, OneByOne, Offered
<1>5. WholeFor(n, d) /\ Missed(n, d) \subseteq Missed(n, d)' /\ Got(n, d)' = Got(n, d)
    BY <1>1, MissedMore, GotSame DEF Wholes
<1>6. ASSUME NEW l \in Libs, l # k PROVE Settled(Part(l, n, d), n, d)' /\ ~Writing(l, n, d)'
    <2>1. Settled(Part(l, n, d), n, d) /\ ~Writing(l, n, d)'
        BY <1>1, <1>5, <1>6 DEF WholeFor, Writing
    <2>2. Part(l, n, d)' = Part(l, n, d)
        BY <1>4, <1>6 DEF Part
    <2> QED
        BY <1>5, <2>1, <2>2 DEF Settled
<1>7. Part(k, n, d)' = {}
    BY <1>1, <1>2, <1>4 DEF Part
<1>8. Writing(k, n, d)' => Missed(n, d)' = Sensors
    BY <1>1 DEF Writing, Missed, RowsOf, Offered, Reading
<1> QED
    BY <1>1, <1>5, <1>6, <1>7, <1>8 DEF WholeFor, Settled

LEMMA WholesInsertedAll ==
    \A ok \in BOOLEAN : Held /\ Wholes /\ InsertAll(ok) /\ UNCHANGED plugvars => Wholes'
<1> SUFFICES ASSUME Held, Wholes, NEW ok \in BOOLEAN, InsertAll(ok), UNCHANGED plugvars
             PROVE  Wholes'
    OBVIOUS
<1>1. /\ call.at = "insert" /\ Kind[call.lib] = "mongo" /\ (ok => static[call.lib].live)
      /\ call'.at = "insert" /\ call'.todo = {} /\ call'.lib = call.lib
      /\ stored' = IF ok THEN [stored EXCEPT ![Goes(call)] = @ \cup RowsOf(call)] ELSE stored
      /\ UNCHANGED <<world, static, round, refused>>
    BY InsertsAll
<1>2. call.lib \in Libs /\ Sane(call.lib, static[call.lib])
    BY <1>1, UnderWay DEF Holds
<1> SUFFICES ASSUME NEW n \in Nat, NEW d \in Databases, ~OneByOne(d) PROVE WholeFor(n, d)'
    BY <1>1 DEF Wholes, OneByOne
<1>3. WholeFor(n, d) /\ \A l \in Libs : ~Writing(l, n, d) /\ ~Writing(l, n, d)'
    BY <1>1 DEF Wholes, Writing, Transacts
<1>4. Missed(n, d)' = Missed(n, d) /\ \A l \in Libs : Part(l, n, d)' = Part(l, n, d)
    BY <1>1 DEF Missed, Part
<1>5. Settled(Got(n, d), n, d)'
    <2>1. CASE ~ok
        BY <1>1, <1>3, <1>4, <2>1, GotSame DEF WholeFor, Settled
    <2>2. CASE ok
        <3>1. /\ Goes(call) \in Databases
              /\ stored' = [stored EXCEPT ![Goes(call)] = @ \cup RowsOf(call)]
            BY <1>1, <1>2, <2>2 DEF Goes, Sane, Statics
        <3> DEFINE New == {x \in Sensors : Reading(n, d, x) \in RowsOf(call)}
        <3>2. Got(n, d)' = Got(n, d) \cup New
            BY <3>1, GotMore
        <3>3. New \in {{}, Sensors}
            <4>1. CASE n = round /\ d = call.db /\ call.type = "l"
                BY <4>1 DEF RowsOf, Offered, Reading
            <4>2. CASE ~(n = round /\ d = call.db /\ call.type = "l")
                BY <4>2 DEF RowsOf, Offered, Reading
            <4> QED
                BY <4>1, <4>2
        <3> HIDE DEF New
        <3> QED
            BY <1>3, <1>4, <3>2, <3>3 DEF WholeFor, Settled
    <2> QED
        BY <2>1, <2>2
<1> QED
    BY <1>3, <1>4, <1>5 DEF WholeFor, Settled

LEMMA WholesSent == Held /\ Wholes /\ Sent /\ UNCHANGED plugvars => Wholes'
<1> SUFFICES ASSUME Held, Wholes, Sent, UNCHANGED plugvars PROVE Wholes'
    OBVIOUS
<1>1. call.at = "insert" /\ call' = [call EXCEPT !.at = "commit"] /\ call.todo = {}
          /\ UNCHANGED <<world, static, stored, round, refused>>
    BY DEF Sent
<1>2. call \in Calls
    BY <1>1, UnderWay
<1>3. call'.at = "commit"
    BY <1>1, <1>2 DEF Calls
<1> SUFFICES ASSUME NEW n \in Nat, NEW d \in Databases, ~OneByOne(d) PROVE WholeFor(n, d)'
    BY <1>3 DEF Wholes, OneByOne
<1>4. WholeFor(n, d)
    BY <1>1 DEF Wholes
<1>5. /\ Missed(n, d)' = Missed(n, d) /\ Got(n, d)' = Got(n, d)
      /\ \A l \in Libs : Part(l, n, d)' = Part(l, n, d)
    BY <1>1, GotSame DEF Missed, Part
<1>6. \A l \in Libs : ~Writing(l, n, d)' /\ Settled(Part(l, n, d), n, d)
    BY <1>1, <1>3, <1>4 DEF WholeFor, Settled, Writing
<1> QED
    BY <1>4, <1>5, <1>6 DEF WholeFor, Settled

LEMMA WholesCommitted == Held /\ Wholes /\ Commit /\ UNCHANGED plugvars => Wholes'
<1> SUFFICES ASSUME Held, Wholes, Commit, UNCHANGED plugvars PROVE Wholes'
    OBVIOUS
<1> DEFINE k == call.lib
<1> DEFINE s == static[k]
<1>1. /\ call.at = "commit" /\ call' = [call EXCEPT !.at = "done"]
      /\ UNCHANGED <<world, round, refused>>
    BY DEF Commit
<1>2. call \in Calls /\ k \in Libs /\ Uses(k) /\ Holds(k, s) /\ Sane(k, s)
    BY <1>1, UnderWay DEF Holds
<1>3. call'.at = "done"
    BY <1>1, <1>2 DEF Calls
<1>4. CASE ~(s.begun /\ ~Blocked(s))
    <2>1. UNCHANGED <<stored, static>>
        BY <1>4 DEF Commit
    <2> QED
        BY <1>1, <1>3, <2>1, WholesKept
<1>5. CASE s.begun /\ ~Blocked(s)
    <2>1. \A l \in Libs : static'[l].rows = IF l = k THEN {} ELSE static[l].rows
        <3>1. \E b \in BOOLEAN : static' = [static EXCEPT ![k].rows = {}, ![k].begun = b]
            BY <1>5, Ending DEF Commit
        <3>2. Kind[k] \in {"mysql", "sqlite"}
            BY <1>2, <1>5 DEF Sane
        <3> QED
            BY <1>2, <3>1, <3>2, EndsTransaction
    <2> SUFFICES ASSUME NEW n \in Nat, NEW d \in Databases, ~OneByOne(d) PROVE WholeFor(n, d)'
        BY <1>3 DEF Wholes, OneByOne
    <2>2. /\ WholeFor(n, d) /\ Missed(n, d)' = Missed(n, d)
          /\ \A l \in Libs : ~Writing(l, n, d)
        BY <1>1 DEF Wholes, Writing, Missed
    <2>3. Settled(Got(n, d), n, d)'
        <3>1. CASE s.rows = {}
            <4>1. stored' = stored
                BY <1>5, <3>1 DEF Commit, Held, Types
            <4> QED
                BY <2>2, <4>1, GotSame DEF WholeFor, Settled
        <3>2. CASE s.rows # {}
            <4>1. s.conn \in Databases /\ stored' = [stored EXCEPT ![s.conn] = @ \cup s.rows]
                BY <1>2, <1>5, <3>2 DEF Commit, Sane, Statics
            <4>2. /\ Got(n, d) \subseteq Sensors /\ Got(n, d)' \subseteq Sensors
                  /\ \A x \in Sensors :
                        x \in Got(n, d)' <=> x \in Got(n, d) \/ Reading(n, d, x) \in s.rows
                <5> DEFINE S == s.rows
                <5> DEFINE e == s.conn
                <5>1. e \in Databases /\ stored' = [stored EXCEPT ![e] = @ \cup S]
                    BY <4>1
                <5> HIDE DEF S, e
                <5>2. /\ Got(n, d) \subseteq Sensors /\ Got(n, d)' \subseteq Sensors
                      /\ \A x \in Sensors :
                            x \in Got(n, d)' <=> x \in Got(n, d) \/ Reading(n, d, x) \in S
                    BY <5>1, GotMore
                <5> QED
                    BY <5>2 DEF S
            <4>3. Settled(Got(n, d), n, d) /\ Settled(Part(k, n, d), n, d)
                BY <1>2, <2>2 DEF WholeFor
            <4>4. Got(n, d)' = Got(n, d) \cup Part(k, n, d)
                BY <4>2 DEF Part
            <4> QED
                BY <2>2, <4>3, <4>4 DEF Settled
        <3> QED
            BY <3>1, <3>2
    <2>4. ASSUME NEW l \in Libs PROVE Settled(Part(l, n, d), n, d)' /\ ~Writing(l, n, d)'
        <3>1. Part(l, n, d)' = IF l = k THEN {} ELSE Part(l, n, d)
            BY <2>1 DEF Part
        <3>2. Settled(Part(l, n, d), n, d)
            BY <2>2 DEF WholeFor
        <3> QED
            BY <1>3, <2>2, <3>1, <3>2 DEF Settled, Writing
    <2> QED
        BY <2>3, <2>4 DEF WholeFor
<1> QED
    BY <1>4, <1>5

LEMMA WholesOthers == Held /\ Wholes /\ Others => Wholes'
<1> SUFFICES ASSUME Held, Wholes, Others PROVE Wholes'
    OBVIOUS
<1>1. UNCHANGED <<stored, round, refused>>
    BY DEF Others, Disturb, Down, Hold, Free
<1>2. /\ call'.at = call.at
      /\ call.at # "none" => call'.lib = call.lib /\ call'.db = call.db
            /\ call'.type = call.type /\ call'.todo = call.todo
    <2>1. call' = call \/ \E d \in Databases : call' = Disturbed(d)
        BY DEF Others, Disturb, Down, Hold, Free
    <2> QED
        BY <2>1, StaysTheSame
<1>3. \A l \in Libs : \/ static'[l].rows = {} /\ ~static'[l].live
                      \/ static'[l].rows = static[l].rows /\ static'[l].live = static[l].live
    <2>1. ASSUME NEW d \in Databases, Down(d), NEW l \in Libs
          PROVE  \/ static'[l].rows = {} /\ ~static'[l].live
                 \/ static'[l].rows = static[l].rows /\ static'[l].live = static[l].live
        <3>1. CASE static[l].conn = d
            BY <2>1, <3>1, DownStatics
        <3>2. CASE static[l].conn # d
            <4>1. static'[l] = static[l]
                BY <2>1, <3>2, DownStatics
            <4> QED
                BY <4>1
        <3> QED
            BY <3>1, <3>2
    <2>2. (\E d \in Databases : Down(d)) \/ static' = static
        BY DEF Others, Disturb, Hold, Free
    <2> QED
        BY <2>1, <2>2
<1> SUFFICES ASSUME NEW n \in Nat, NEW d \in Databases, ~OneByOne(d) PROVE WholeFor(n, d)'
    BY <1>2 DEF Wholes, OneByOne, Offered
<1>4. WholeFor(n, d)
    BY <1>1 DEF Wholes
<1>5. Missed(n, d)' = Missed(n, d) /\ Got(n, d)' = Got(n, d)
    BY <1>1, GotSame DEF Missed
<1>6. ASSUME NEW l \in Libs
      PROVE  IF Writing(l, n, d)' /\ static'[l].live
             THEN Sensors \ call'.todo \subseteq Part(l, n, d)' \cup Missed(n, d)'
             ELSE Settled(Part(l, n, d), n, d)'
    <2>1. CASE static'[l].rows = {} /\ ~static'[l].live
        BY <2>1 DEF Settled, Part
    <2>2. CASE static'[l].rows = static[l].rows /\ static'[l].live = static[l].live
        <3>1. Part(l, n, d)' = Part(l, n, d)
            BY <2>2 DEF Part
        <3>2. /\ Writing(l, n, d) <=> Writing(l, n, d)'
              /\ Writing(l, n, d) => call'.todo = call.todo
            BY <1>1, <1>2 DEF Writing, Transacts
        <3> QED
            BY <1>4, <1>5, <2>2, <3>1, <3>2 DEF WholeFor, Settled
    <2> QED
        BY <1>3, <2>1, <2>2
<1> QED
    BY <1>4, <1>5, <1>6 DEF WholeFor, Settled

LEMMA WholesNext == Held /\ Held' /\ Wholes /\ [Next]_vars => Wholes'
<1> SUFFICES ASSUME Held, Held', Wholes, [Next]_vars PROVE Wholes'
    OBVIOUS
<1>1. CASE UNCHANGED vars
    BY <1>1 DEF Wholes, WholeFor, Settled, Missed, Part, Got, OneByOne, Writing, Transacts, Offered,
                vars, logvars
<1>2. CASE Ended
    <2>1. \A l \in Libs : static'[l].rows = {}
        BY <1>2 DEF Ended, Fresh
    <2> QED
        BY <1>2, <2>1, WholesKept DEF Ended
<1>3. CASE Reload \/ Restart
    <2>1. main' = "load" /\ stored' = [d \in Databases |-> {}]
        BY <1>3 DEF Reload, Restart, Forget
    <2>2. call'.at = "none" /\ \A l \in Libs : static'[l].rows = {}
        BY <2>1 DEF Held, Unloaded, Fresh
    <2> QED
        BY <2>1, <2>2, WholesForgotten
<1>4. CASE \/ (\E f \in Files : read_config(f)) \/ EndRound \/ Return
           \/ \E type \in {"l", "r"} : StartRound(type)
    <2>1. call.at # "insert" /\ call'.at = "none" /\ static' = static /\ refused' = refused
              /\ (stored' = stored \/ stored' = [d \in Databases |-> {}])
        BY <1>4 DEF read_config, EndRound, Return, StartRound, logvars, Held, Unloaded, CallHeld
    <2> QED
        BY <2>1, WholesKept
<1>5. CASE do_init
    <2>1. call' = call /\ call.at = "none" /\ stored' = stored /\ refused' = refused
        BY <1>5 DEF do_init, Held, CallHeld
    <2>2. \A l \in Libs : static'[l].rows = static[l].rows
        BY <1>5 DEF do_init, Connected, Held, StaticsHeld, Statics
    <2> QED
        BY <2>1, <2>2, WholesKept
<1>6. CASE Call
    <2>1. \E type \in {"l", "r"}, l \in Libs, d \in Databases : Begins(type, l, d)
        BY <1>6, CallsLine DEF Held, Types
    <2>2. call'.at = "open" /\ call'.todo = Offered(call'.type)
        BY <2>1, BeginsCall
    <2> QED
        BY <1>6, <2>2, WholesKept DEF Call
<1>7. CASE LockedOut \/ NoFile
    <2>1. call \in Calls
        BY <1>7, UnderWay DEF LockedOut, NoFile
    <2>2. call.at = "open" /\ call'.at = "done"
        BY <1>7, <2>1 DEF LockedOut, NoFile, Calls
    <2> QED
        BY <1>7, <2>2, WholesKept DEF LockedOut, NoFile
<1> QED
    BY <1>1, <1>2, <1>3, <1>4, <1>5, <1>6, <1>7, Ends, WholesOpened, WholesInserted,
       WholesRefused, WholesUndone, WholesInsertedAll, WholesSent, WholesCommitted, WholesOthers
    DEF Next, Step, CallStep

\* The readings of a pass reach a database together or not at all, but for those the
\* database refused or undid, except through ODBC and in the files.
THEOREM OnlyRefusedRowsAreMissing == Spec => []OnlyRefusedAreMissing
<1>1. Init => Wholes
    BY DEF Init, LoggersInit, Fresh, Wholes, WholeFor, Settled, Got, Part
<1>2. Held /\ Wholes => OnlyRefusedAreMissing
    <2> SUFFICES ASSUME Held, Wholes, NEW n \in 1 .. round, NEW d \in Databases
                 PROVE  \/ Got(n, d) = {}
                        \/ \A x \in Sensors \ Got(n, d) :
                              [round |-> n, db |-> d, item |-> x] \in refused
                        \/ OneByOne(d)
        BY DEF OnlyRefusedAreMissing
    <2>1. n \in Nat
        BY DEF Held, Types
    <2> QED
        BY <2>1 DEF Wholes, WholeFor, Settled, Missed, Reading
<1> QED
    BY <1>1, <1>2, WholesNext, AlwaysHeld, PTL DEF Spec
=============================================================================
