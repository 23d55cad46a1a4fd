------------------------------ MODULE Plugins ------------------------------
(***************************************************************************)
(* The plugin libraries of w1retap.c over the run of the program: the      *)
(* init=, log= and rep= lines of the configuration file are loaded         *)
(* (read_config, dll_parse), their entry points are looked up (do_init),   *)
(* every pass calls the loggers and every message the report loggers in    *)
(* the order of their lines, and SIGHUP closes everything and begins anew  *)
(* (cleanup, w1_freeup).  The libraries are those of Loggers; a library    *)
(* named by several lines is loaded once, and its static variables live    *)
(* until the last of its handles is closed.  The program may be killed at  *)
(* any moment; the service manager starts it again.                        *)
(* A definition named X_Slip... is a plausible mistake in X.               *)
(***************************************************************************)
EXTENDS Loggers, Sequences

CONSTANTS
    Files,      \* the configuration files: sequences of lines
    Installed,  \* the libraries that can be opened
    MAXDLL,     \* the size of the dlls array
    MaxRounds   \* bound of the model: passes and messages between two loads

\* init = ("c"), log = ("l") and rep = ("r") lines.
Line == [type : {"c", "l", "r"}, lib : Libs, db : Databases]

ASSUME PluginsAssumption ==
    /\ Files # {} /\ Files \subseteq Seq(Line)
    /\ Installed \subseteq Libs
    /\ MAXDLL \in Nat
    /\ MaxRounds \in Nat

VARIABLES
    rc,        \* the configuration file as it was read last
    dlls,      \* the lines of rc that are loaded
    main,      \* what main is doing
    starting,  \* the startup message is still to come
    known,     \* w1_init found the devices
    turn,      \* the loop over dlls: which type of line, and the last line called
    leaked     \* sessions the last reload left behind: of which library, and in which
               \* lines it was (history)

plugvars == <<rc, dlls, main, starting, known, turn, leaked>>
vars == <<logvars, plugvars>>

LinesOf(type) == {n \in dlls : rc[n].type = type}
TypesOf(l) == {rc[n].type : n \in {m \in dlls : rc[m].lib = l}}
First(S) == CHOOSE n \in S : \A m \in S : n <= m

Init ==
    /\ LoggersInit
    /\ rc \in Files
    /\ dlls = {} /\ main = "load" /\ starting = TRUE /\ known = FALSE
    /\ turn = [type |-> "r", line |-> 0]
    /\ leaked = {}

\* The process is gone, and its connections with it.
Ended ==
    /\ main' = "ended"
    /\ static' = [l \in Libs |-> Fresh]
    /\ call' = [at |-> "none"]
    /\ dlls' = {} /\ leaked' = {} /\ known' = FALSE
    /\ UNCHANGED <<world, stored, round, refused, rc, starting, turn>>

-----------------------------------------------------------------------------
\* A library that cannot be opened is passed over without a word; a line too many is the
\* end.
Loadable(f) == {n \in DOMAIN f : f[n].lib \in Installed}

TooMany(f) ==
    \E n \in DOMAIN f : Cardinality({m \in Loadable(f) : m < n}) = MAXDLL - 1

\* The file is read as it is now: somebody may have edited it.
read_config(f) ==
    /\ main = "load" /\ ~TooMany(f)
    /\ rc' = f
    /\ dlls' = Loadable(f)
    /\ main' = "init"
    /\ UNCHANGED <<logvars, starting, known, turn, leaked>>

TooManyDlls(f) == main = "load" /\ TooMany(f) /\ Ended

\* There is an init line, and every report library has w1_report.
Complete ==
    /\ LinesOf("c") # {}
    /\ \A n \in LinesOf("r") : Kind[rc[n].lib] \in {"sqlite", "mongo"}

\* Only the first init line counts.  w1_init connects for itself, but MongoDB does it with the connection of the loggers
\* and ends the program when it cannot.
InitLine == rc[First(LinesOf("c"))]

do_init ==
    /\ main = "init" /\ Complete
    /\ Kind[InitLine.lib] = "mongo" => world[InitLine.db] # "down"
    /\ static' = IF Kind[InitLine.lib] = "mongo" /\ static[InitLine.lib].conn = NoDb
                 THEN [static EXCEPT ![InitLine.lib] = Connected(InitLine.lib, InitLine.db)]
                 ELSE static
    /\ known' = (world[InitLine.db] # "down")
    /\ main' = IF starting THEN "round" ELSE "idle"
    /\ turn' = [type |-> "r", line |-> 0]
    /\ starting' = FALSE
    /\ UNCHANGED <<world, stored, call, round, refused, rc, dlls, leaked>>

\* A library without w1_init, or whose file of devices is missing, ends the program too.
InitFails ==
    /\ main = "init"
    /\ \/ ~Complete
       \/ Complete /\ Kind[InitLine.lib] = "file"
       \/ Complete /\ Kind[InitLine.lib] = "mongo" /\ world[InitLine.db] = "down"
    /\ Ended

\* Without devices the delay becomes zero, which ends the loop after a start and traps
\* after a reload.
NoDevices == main = "idle" /\ ~known /\ Ended

-----------------------------------------------------------------------------
\* A pass that read something calls the log lines, a message the rep lines.
StartRound(type) ==
    /\ main = "idle" /\ known /\ round < MaxRounds
    /\ round' = round + 1
    /\ stored' = [d \in Databases |-> {}]
    /\ main' = "round"
    /\ turn' = [type |-> type, line |-> 0]
    /\ UNCHANGED <<world, static, call, refused, rc, dlls, starting, known, leaked>>

ToCall == {n \in LinesOf(turn.type) : n > turn.line}

Call ==
    /\ main = "round" /\ call.at = "none" /\ ToCall # {}
    /\ LET n == First(ToCall) IN
         /\ Begins(turn.type, rc[n].lib, rc[n].db)
         /\ turn' = [turn EXCEPT !.line = n]
    /\ UNCHANGED <<world, static, stored, round, refused, rc, dlls, main, starting, known,
                   leaked>>

Step == CallStep /\ UNCHANGED plugvars

OpenFails == call.at = "open" /\ OpenIsFatal /\ Ended

Return ==
    /\ call.at = "done"
    /\ call' = [at |-> "none"]
    /\ UNCHANGED <<world, static, stored, round, refused, plugvars>>

EndRound ==
    /\ main = "round" /\ call.at = "none" /\ ToCall = {}
    /\ main' = "idle"
    /\ UNCHANGED <<logvars, rc, dlls, starting, known, turn, leaked>>

-----------------------------------------------------------------------------
\* SIGHUP.  w1_freeup cleans up the libraries of the log lines; then every handle is
\* closed, and the libraries go with their static variables.
w1_freeup_SlipFirst(l) ==
    IF LinesOf("l") # {} /\ l = rc[First(LinesOf("l"))].lib THEN w1_cleanup(l) ELSE static[l]
w1_freeup(l) == IF "l" \in TypesOf(l) THEN w1_cleanup(l) ELSE static[l]

Unload_SlipLogOnly(l) == IF TypesOf(l) = {"l"} THEN Fresh ELSE w1_freeup(l)
Unload(l) == IF TypesOf(l) # {} THEN Fresh ELSE w1_freeup(l)

Leaks(l) == w1_freeup(l).live \/ ("l" \in TypesOf(l) /\ Forgotten(l))

\* Passes are counted, and what they stored is looked at, from one load to the next.
Forget == round' = 0 /\ stored' = [d \in Databases |-> {}] /\ refused' = {}

Reload ==
    /\ main = "idle" /\ known
    /\ leaked' = {[lib |-> l, types |-> TypesOf(l)] : l \in {k \in Libs : Leaks(k)}}
    /\ static' = [l \in Libs |-> Unload(l)]
    /\ dlls' = {}
    /\ known' = FALSE
    /\ main' = "load"
    /\ Forget
    /\ UNCHANGED <<world, call, rc, starting, turn>>

\* The process is killed, and started again by the service manager.
Kill == main # "ended" /\ Ended

Restart ==
    /\ main = "ended"
    /\ main' = "load" /\ starting' = TRUE
    /\ Forget
    /\ UNCHANGED <<world, static, call, rc, dlls, known, turn, leaked>>

\* Bound of the model: the databases of the configuration are disturbed.
Named == {rc[n].db : n \in {m \in DOMAIN rc : Kind[rc[m].lib] # "file"}}

Others ==
    /\ \E d \in Databases : (d \in Named /\ Disturb(d)) \/ Free(d)
    /\ UNCHANGED plugvars

Next ==
    \/ (\E f \in Files : read_config(f) \/ TooManyDlls(f)) \/ do_init \/ InitFails \/ NoDevices
    \/ \E type \in {"l", "r"} : StartRound(type)
    \/ Call \/ Step \/ OpenFails \/ Return \/ EndRound
    \/ Reload \/ Kill \/ Restart \/ Others

Spec == Init /\ [][Next]_vars

-----------------------------------------------------------------------------
TypeOK ==
    /\ world \in [Databases -> {"free", "down", "read", "written"}]
    /\ static \in [Libs -> Statics]
    /\ stored \in [Databases -> SUBSET Row]
    /\ call = [at |-> "none"] \/ call \in Calls
    /\ round \in Nat
    /\ refused \subseteq Row
    /\ rc \in Files /\ dlls \subseteq DOMAIN rc
    /\ main \in {"load", "init", "idle", "round", "ended"}
    /\ starting \in BOOLEAN /\ known \in BOOLEAN
    /\ turn \in [type : {"l", "r"}, line : Nat]
    /\ leaked \subseteq [lib : Libs, types : SUBSET {"c", "l", "r"}]

\* The readings of a pass reach the database of a line (w1_logger) together or not at all,
\* wherever a server stops, the program is killed or another program holds the file,
\* but for the rows the database itself refused or undid: those are passed over and the
\* others are committed.  ODBC and the files take the rows one by one.
Got(n, d) == {x \in Sensors : \E e \in Databases :
                                 [round |-> n, db |-> d, item |-> x] \in stored[e]}
OneByOne(d) ==
    \E f \in Files : \E n \in DOMAIN f : f[n].db = d /\ Kind[f[n].lib] \in {"odbc", "file"}
OnlyRefusedAreMissing ==
    call.at = "none" => \A n \in 1 .. round, d \in Databases :
        \/ Got(n, d) = {}
        \/ \A x \in Sensors \ Got(n, d) : [round |-> n, db |-> d, item |-> x] \in refused
        \/ OneByOne(d)

\* A call nothing disturbs, on a connection that was not lost since it was made, stores
\* all that was offered and whatever an earlier commit left behind in the transaction.
QuietCallStoresAll ==
    [][call.at = "commit" /\ call'.at = "done" /\ call.quiet =>
          /\ RowsOf(call) \cup static[call.lib].rows \subseteq stored'[Goes(call)]
          /\ static'[call.lib].rows = {}]_vars

\* A row lies in the database its line names, or in that of another line of the same
\* library in the same file: nothing of an earlier configuration outlives a reload
\* (cleanup), though the libraries keep their connections in static variables.
SameLibrary(d, e) ==
    \E f \in Files : \E n, m \in DOMAIN f :
        f[n].lib = f[m].lib /\ f[n].db = d /\ f[m].db = e
OwnDatabase ==
    \A d \in Databases : \A r \in stored[d] : r.db = d \/ SameLibrary(r.db, d)

\* A reload leaves no session behind, except of a library that no log line names
\* (w1_freeup cleans up only those) and of ODBC, whose connection is never disconnected.
OnlyTheseLeak == \A s \in leaked : "l" \notin s.types \/ Kind[s.lib] = "odbc"

\* No call uses a statement that w1_cleanup has freed.
StatementsAreLive ==
    call.at = "insert" /\ Kind[call.lib] \in {"mysql", "sqlite", "odbc"} =>
        InUse(static[call.lib], call.type) # "freed"

\* "Multiple 'log' entries may be given and are all logged to" (docs/manual.html): a call
\* that nothing disturbs stores its rows in the database its own line names.  It fails
\* when two lines name one library, whose connection is the first line's (w1_logger).
AllLinesLogged ==
    [][call.at = "commit" /\ call'.at = "done" /\ call.quiet =>
          RowsOf(call) \subseteq stored'[call.db]]_vars
=============================================================================
