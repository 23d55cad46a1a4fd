------------------------------ MODULE Loggers ------------------------------
(***************************************************************************)
(* The logger libraries beside the PostgreSQL one: w1_logger and w1_report *)
(* of mysql/w1mysql.c, sqlite/w1sqlite.c, odbc/w1odbc.c, mongo/w1mongo.c   *)
(* and of the file loggers, one call after the other, request by request.  *)
(* Each library keeps its connection and its statements in static          *)
(* variables, so that all the lines of the configuration that name the     *)
(* library share them; none acts on the result of a request: a failed one   *)
(* is logged at most, and the call goes on with the next.  Meanwhile       *)
(* database servers stop and return, other programs read and write the     *)
(* sqlite files, and a database refuses a row or rolls a transaction back. *)
(* Plugins loads the libraries and makes the calls.                        *)
(* A definition named X_Slip... is a plausible mistake in X.               *)
(***************************************************************************)
EXTENDS Naturals, FiniteSets

CONSTANTS
    Libs,       \* the logger libraries
    Kind,       \* of each: "mysql", "sqlite", "odbc", "mongo" or "file"
    Databases,  \* what a line can name: the database of a server, or a file
    Servers,    \* of these, the databases of servers
    NoDb,       \* no connection
    Sensors,    \* the sensors, all valid
    Message,    \* what w1_report stores
    MaxRefused  \* bound of the model: rows the databases refuse of themselves

Items == Sensors \cup {Message}
Kinds == {"mysql", "sqlite", "odbc", "mongo", "file"}

ASSUME LoggersAssumption ==
    /\ Kind \in [Libs -> Kinds]
    /\ Servers \subseteq Databases
    /\ NoDb \notin Databases
    /\ Message \notin Sensors
    /\ MaxRefused \in Nat

VARIABLES
    world,   \* of each database: "free", "down" (a server), or a file that another
             \* program reads ("read") or writes ("written")
    static,  \* the static variables of each library, and the transaction of its connection
    stored,  \* what each database received since the pass or message began
    call,    \* the call under way
    round,   \* the log time
    refused  \* rows that a database did not take over a live session, or undid (history)

logvars == <<world, static, stored, call, round, refused>>

\* One reading or message: when, for which database of the configuration, and of what.
Row == [round : Nat, db : Databases, item : Items]

\* A statement that could not be prepared is null in SQLite, and a handle that no
\* request succeeds with in MySQL and ODBC.
Handles == {"null", "made", "bad", "freed"}

Statics == [conn : Databases \cup {NoDb},  \* where the connection leads
            live : BOOLEAN,                \* the server still knows it
            begun : BOOLEAN,               \* it is in a transaction
            rows : SUBSET Row,             \* what the transaction inserted
            stmt : Handles, stml : Handles]

\* A library that was just loaded.
Fresh == [conn |-> NoDb, live |-> FALSE, begun |-> FALSE, rows |-> {},
          stmt |-> "null", stml |-> "null"]

Calls == [at : {"none", "open", "insert", "commit", "done"}, type : {"l", "r"},
          lib : Libs, db : Databases, todo : SUBSET Items,
          quiet : BOOLEAN]                 \* nothing disturbs it (history)

\* The items a line is called with: w1_logger has the sensors, w1_report the message.
Offered(type) == IF type = "l" THEN Sensors ELSE {Message}

RowsOf(c) == [round : {round}, db : {c.db}, item : Offered(c.type)]

\* Where the call's rows go: the files are opened by each call, everything else by the
\* first one.
Goes(c) == IF Kind[c.lib] = "file" THEN c.db ELSE static[c.lib].conn

LoggersInit ==
    /\ world = [d \in Databases |-> "free"]
    /\ static = [l \in Libs |-> Fresh]
    /\ stored = [d \in Databases |-> {}]
    /\ call = [at |-> "none"]
    /\ round = 0
    /\ refused = {}

-----------------------------------------------------------------------------
\* A call of line n; it is quiet unless its connection is lost or its database is not
\* free, and until that changes.  w1_report of MongoDB never connects.
Begins(type, lib, db) ==
    call' = [at |-> "open", type |-> type, lib |-> lib, db |-> db, todo |-> Offered(type),
             quiet |-> IF static[lib].conn = NoDb
                       THEN world[db] = "free" /\ ~(Kind[lib] = "mongo" /\ type = "r")
                       ELSE static[lib].live /\ world[static[lib].conn] = "free"]

\* The connection is made once and never again; MySQL and MongoDB end the program when
\* that fails (a null connection, an exit), ODBC keeps a handle that leads nowhere.
Opens == static[call.lib].conn = NoDb /\ Kind[call.lib] # "file"
           /\ ~(Kind[call.lib] = "mongo" /\ call.type = "r")

OpenIsFatal == Opens /\ world[call.db] = "down" /\ Kind[call.lib] \in {"mysql", "mongo"}

Connected(l, d) == [static[l] EXCEPT !.conn = d, !.live = world[d] # "down"]

\* A statement is prepared when its pointer is null, and nobody looks whether it was.
Handle(h, k, ok) ==
    IF h # "null" THEN h ELSE IF ok THEN "made" ELSE IF k = "sqlite" THEN "null" ELSE "bad"

Prepared(s, k, type, ok) ==
    IF type = "l" THEN [s EXCEPT !.stmt = Handle(@, k, ok)]
                  ELSE [s EXCEPT !.stml = Handle(@, k, ok)]

InUse(s, type) == IF type = "l" THEN s.stmt ELSE s.stml

\* MySQL is always in a transaction; a second "begin" of SQLite fails and changes nothing.
Begun_SlipNone(s, k) == [s EXCEPT !.begun = k = "mysql"]
Begun(s, k) == [s EXCEPT !.begun = k \in {"mysql", "sqlite"}]

\* The static variables of the call's library when its first insert is sent.
Opened(ok) ==
    LET s == IF Opens THEN Connected(call.lib, call.db) ELSE static[call.lib]
        k == Kind[call.lib]
    IN  IF k \in {"file", "mongo"} THEN s ELSE Begun(Prepared(s, k, call.type, ok), k)

MayFail == Cardinality(refused) < MaxRefused

Open(ok) ==
    /\ call.at = "open" /\ ~OpenIsFatal
    /\ ~ok => MayFail /\ Kind[call.lib] \notin {"file", "mongo"}
    /\ static' = [static EXCEPT ![call.lib] = Opened(ok)]
    /\ call' = [call EXCEPT !.at = "insert",
                            !.quiet = @ /\ (\/ Kind[call.lib] \in {"file", "mongo"}
                                           \/ InUse(Opened(ok), call.type) = "made")]
    /\ UNCHANGED <<world, stored, round, refused>>

\* The lock file in /tmp: the databases are left alone.  ODBC does not look for it.
LockedOut ==
    /\ call.at = "open" /\ call.type = "l" /\ Kind[call.lib] \in {"mysql", "sqlite", "mongo"}
    /\ call' = [call EXCEPT !.at = "done", !.quiet = FALSE]
    /\ UNCHANGED <<world, static, stored, round, refused>>

\* The file of the line cannot be opened.
NoFile ==
    /\ call.at = "open" /\ Kind[call.lib] = "file"
    /\ call' = [call EXCEPT !.at = "done", !.quiet = FALSE]
    /\ UNCHANGED <<world, static, stored, round, refused>>

\* The rows are sent one by one: inserts, or the lines of a file (a kill while they are in
\* a buffer leaves what an earlier kill would have left).  One can only be taken
\* by a session that is not lost, through a statement that was prepared; a writer in
\* the file keeps SQLite out, and a reader does unless a transaction is open.
Sends(x) ==
    /\ call.at = "insert" /\ Kind[call.lib] # "mongo"
    /\ x \in call.todo

Reaches ==
    LET s == static[call.lib] IN
    \/ Kind[call.lib] = "file"
    \/ /\ s.live /\ InUse(s, call.type) = "made"
       /\ world[s.conn] \in IF s.begun THEN {"free", "read"} ELSE {"free"}

\* A row is taken: part of the transaction if there is one.
Insert(x) ==
    LET l == call.lib
        r == [round |-> round, db |-> call.db, item |-> x]
    IN  /\ Sends(x) /\ Reaches
        /\ call' = [call EXCEPT !.todo = @ \ {x}]
        /\ IF static[l].begun
           THEN static' = [static EXCEPT ![l].rows = @ \cup {r}] /\ UNCHANGED stored
           ELSE stored' = [stored EXCEPT ![Goes(call)] = @ \cup {r}] /\ UNCHANGED static
        /\ UNCHANGED <<world, round, refused>>

\* A row is refused; the loop goes on with the next, and the transaction with it.  A row
\* sent over a lost session is not the database's to refuse.
Refused(x) ==
    /\ Sends(x) /\ (Reaches => MayFail)
    /\ call' = [call EXCEPT !.todo = @ \ {x}, !.quiet = FALSE]
    /\ refused' = IF static[call.lib].live
                  THEN refused \cup {[round |-> round, db |-> call.db, item |-> x]}
                  ELSE refused
    /\ UNCHANGED <<world, static, stored, round>>

\* The database rolls the transaction back because a request failed.  What is sent
\* afterwards is in a new transaction of MySQL, and in none of SQLite.
Undone ==
    LET l == call.lib IN
    /\ call.at = "insert" /\ Kind[l] \in {"mysql", "sqlite"}
    /\ static[l].begun /\ static[l].live /\ MayFail
    /\ call' = [call EXCEPT !.quiet = FALSE]
    /\ static' = [static EXCEPT ![l].rows = {}, ![l].begun = Kind[l] = "mysql"]
    /\ refused' = refused \cup RowsOf(call)
    /\ UNCHANGED <<world, stored, round>>

\* MongoDB: one document, which is taken or not.
InsertAll(ok) ==
    /\ call.at = "insert" /\ Kind[call.lib] = "mongo"
    /\ call.todo # {}
    /\ ok => static[call.lib].live
    /\ call' = [call EXCEPT !.todo = {}, !.quiet = @ /\ ok]
    /\ stored' = IF ok THEN [stored EXCEPT ![Goes(call)] = @ \cup RowsOf(call)] ELSE stored
    /\ UNCHANGED <<world, static, round, refused>>

Sent ==
    /\ call.at = "insert" /\ call.todo = {}
    /\ call' = [call EXCEPT !.at = "commit"]
    /\ UNCHANGED <<world, static, stored, round, refused>>

\* SQLite cannot commit while another program reads the file: the transaction stays open,
\* with its lock, and the next commit of the connection stores it.
Blocked(s) == s.rows # {} /\ world[s.conn] = "read"

Commit_SlipRollback ==
    LET l == call.lib
        s == static[l]
        ends == s.begun /\ ~Blocked(s)
    IN  /\ call.at = "commit"
        /\ call' = [call EXCEPT !.at = "done"]
        /\ stored' = IF ends THEN [stored EXCEPT ![s.conn] = @ \cup (s.rows \cap RowsOf(call))]
                             ELSE stored
        /\ static' = IF ends
                     THEN [static EXCEPT ![l].rows = {}, ![l].begun = Kind[l] = "mysql"]
                     ELSE static
        /\ UNCHANGED <<world, round, refused>>

Commit ==
    LET l == call.lib
        s == static[l]
        ends == s.begun /\ ~Blocked(s)
    IN  /\ call.at = "commit"
        /\ call' = [call EXCEPT !.at = "done"]
        /\ stored' = IF ends THEN [stored EXCEPT ![s.conn] = @ \cup s.rows] ELSE stored
        /\ static' = IF ends
                     THEN [static EXCEPT ![l].rows = {}, ![l].begun = Kind[l] = "mysql"]
                     ELSE static
        /\ UNCHANGED <<world, round, refused>>

CallStep ==
    \/ \E ok \in BOOLEAN : Open(ok) \/ InsertAll(ok)
    \/ LockedOut \/ NoFile
    \/ \E x \in Items : Insert(x) \/ Refused(x)
    \/ Undone \/ Sent \/ Commit

-----------------------------------------------------------------------------
\* w1_cleanup.  SQLite finalises its report statement and keeps the pointer; ODBC frees
\* the handle of a connection it did not disconnect, which fails, and forgets it.
w1_cleanup(l) ==
    CASE Kind[l] = "file" -> static[l]
      [] Kind[l] = "sqlite" /\ static[l].stml = "made" /\ static[l].conn # NoDb ->
             [Fresh EXCEPT !.stml = "freed"]
      [] OTHER -> Fresh

\* The sessions that nothing points at after w1_cleanup.
Forgotten(l) == Kind[l] = "odbc" /\ static[l].live

-----------------------------------------------------------------------------
\* The rest of the world.
Disturbed(d) ==
    IF call.at # "none" /\ (call.db = d \/ static[call.lib].conn = d)
    THEN [call EXCEPT !.quiet = FALSE] ELSE call

\* A server stops: its sessions and their transactions are gone.
Down(d) ==
    /\ d \in Servers /\ world[d] = "free"
    /\ world' = [world EXCEPT ![d] = "down"]
    /\ static' = [l \in Libs |-> IF static[l].conn = d
                                 THEN [static[l] EXCEPT !.live = FALSE, !.rows = {}]
                                 ELSE static[l]]
    /\ call' = Disturbed(d)
    /\ UNCHANGED <<stored, round, refused>>

\* Another program reads a file, or writes it when no transaction of ours holds the lock.
Hold(d, how) ==
    /\ d \notin Servers /\ world[d] = "free"
    /\ how = "written" => \A l \in Libs : static[l].conn = d => static[l].rows = {}
    /\ world' = [world EXCEPT ![d] = how]
    /\ call' = Disturbed(d)
    /\ UNCHANGED <<static, stored, round, refused>>

\* The server is back, or the other program is done.
Free(d) ==
    /\ world[d] # "free"
    /\ world' = [world EXCEPT ![d] = "free"]
    /\ UNCHANGED <<static, stored, call, round, refused>>

Disturb(d) == Down(d) \/ \E how \in {"read", "written"} : Hold(d, how)
=============================================================================
