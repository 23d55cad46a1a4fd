------------------------------ MODULE PgLogger ------------------------------
(***************************************************************************)
(* The PostgreSQL logger (pgsql/w1pgsql.c): w1_logger stores the valid     *)
(* readings of a pass in one transaction, w1_report a message of the       *)
(* program; both use one connection and a prepared statement each, and the *)
(* only look at the connection is the one db_status takes when a call      *)
(* begins.  The server may go away and come back between any two requests, *)
(* and tables may be dropped and created.  The library notices a lost      *)
(* session when a request fails, not before.                               *)
(* A definition named X_Slip... is a plausible mistake in X.               *)
(***************************************************************************)
EXTENDS Naturals

CONSTANTS
    Sensors,   \* the sensors of the configuration
    Message,   \* what w1_report stores
    TableOf    \* the table of each: "readings", or its own when its name begins
               \* with '>'; "replog" for the message

Items  == Sensors \cup {Message}
Tables == {TableOf[x] : x \in Items}

ASSUME LoggerAssumption ==
    /\ Message \notin Sensors
    /\ TableOf \in [Items -> STRING]
    /\ TableOf[Message] = "replog"
    /\ \A x \in Sensors : TableOf[x] # "replog"

VARIABLES
    up,        \* the server can be reached
    tables,    \* the tables that exist
    session,   \* the server has a session for the connection
    prepared,  \* the statements prepared in it
    tx,        \* its transaction: "none", "open" or "aborted"
    pending,   \* what the transaction has inserted
    rows,      \* what is stored of the call under way, or of the last one
    db,        \* the connection as the library knows it: "null", "ok" or "bad"
    stmts,     \* the statements the logger takes for prepared: stmt, stml
    pc,        \* where the call is
    offered,   \* what the call has to store
    todo,      \* of these, what it has not sent yet
    steady,    \* server and tables were there all through the call (history)
    spoilt,    \* a statement could not be prepared for want of its table (history)
    lost       \* steady calls in a row that stored nothing for no such reason, up to 2
               \* (history)

server  == <<up, tables, session, prepared, tx, pending, rows>>
client  == <<db, stmts, pc, offered, todo>>
history == <<steady, spoilt, lost>>
vars == <<server, client, history>>

-----------------------------------------------------------------------------
\* The statement of an item; a table of its own is filled by a plain insert.
Insrt == "insrt"
Insrl == "insrl"
Statement == IF offered = {Message} THEN Insrl ELSE Insrt
NeedsPrepared(x) == TableOf[x] \in {"readings", "replog"}

Init ==
    /\ up \in BOOLEAN
    /\ tables \in SUBSET Tables
    /\ session = FALSE /\ prepared = {} /\ tx = "none" /\ pending = {} /\ rows = {}
    /\ db = "null" /\ stmts = {}
    /\ pc = "idle" /\ offered = {} /\ todo = {}
    /\ steady = FALSE /\ lost = 0 /\ spoilt = FALSE

\* The valid readings of a pass, or a message.  With the lock file in /tmp a call
\* of w1_logger returns at once: it is no call here.
Call(items) ==
    /\ pc = "idle"
    /\ offered' = items
    /\ rows' = {}
    /\ pc' = "status"
    /\ steady' = (up /\ tables = Tables)
    /\ UNCHANGED <<up, tables, session, prepared, tx, pending, db, stmts, todo, lost, spoilt>>

\* A new session; nothing is prepared in it.
Connect ==
    /\ db' = IF up THEN "ok" ELSE db
    /\ session' = up
    /\ prepared' = {} /\ tx' = "none" /\ pending' = {}

\* The end of a call, and what it stored.
EndCall(stored) ==
    /\ pc' = "idle"
    /\ rows' = stored
    /\ lost' = IF ~steady \/ spoilt \/ stored = offered THEN 0
               ELSE IF lost < 2 THEN lost + 1 ELSE lost

db_status_SlipKeepStatements ==
    /\ pc = "status"
    /\ \/ db = "null" /\ Connect /\ UNCHANGED <<stmts, spoilt>>
       \/ db = "bad" /\ Connect /\ UNCHANGED stmts /\ spoilt' = FALSE
       \/ db = "ok" /\ UNCHANGED <<db, session, prepared, tx, pending, stmts, spoilt>>
    /\ IF db' = "null" THEN EndCall({}) ELSE pc' = "prepare" /\ UNCHANGED <<rows, lost>>
    /\ UNCHANGED <<up, tables, offered, todo, steady>>

\* Connect when there is no connection; reset one that is known to be bad, and
\* prepare everything anew.  Without a connection the call is over.
db_status ==
    /\ pc = "status"
    /\ \/ db = "null" /\ Connect /\ UNCHANGED <<stmts, spoilt>>
       \/ db = "bad" /\ Connect /\ stmts' = {} /\ spoilt' = FALSE
       \/ db = "ok" /\ UNCHANGED <<db, session, prepared, tx, pending, stmts, spoilt>>
    /\ IF db' = "null" THEN EndCall({}) ELSE pc' = "prepare" /\ UNCHANGED <<rows, lost>>
    /\ UNCHANGED <<up, tables, offered, todo, steady>>

\* A request reaches the session, or fails and shows the connection to be bad.
Reaches == db = "ok" /\ session
Noticed == db' = IF Reaches THEN db ELSE "bad"

\* The statement counts as prepared whatever the answer is.
Prepare ==
    /\ pc = "prepare"
    /\ pc' = "begin"
    /\ IF Statement \in stmts
       THEN UNCHANGED <<db, stmts, prepared, spoilt>>
       ELSE LET made == IF Statement = Insrl THEN "replog" \in tables
                                             ELSE "readings" \in tables
            IN  /\ Noticed
                /\ stmts' = stmts \cup {Statement}
                /\ prepared' = IF Reaches /\ made THEN prepared \cup {Statement} ELSE prepared
                /\ spoilt' = (spoilt \/ (Reaches /\ ~made))
    /\ UNCHANGED <<up, tables, session, tx, pending, rows, offered, todo, steady, lost>>

Begin_SlipNone ==
    /\ pc = "begin"
    /\ pc' = "insert"
    /\ todo' = offered
    /\ UNCHANGED <<server, db, stmts, offered, history>>

Begin ==
    /\ pc = "begin"
    /\ Noticed
    /\ tx' = IF Reaches THEN "open" ELSE tx
    /\ pending' = IF Reaches THEN {} ELSE pending
    /\ pc' = "insert"
    /\ todo' = offered
    /\ UNCHANGED <<up, tables, session, prepared, rows, stmts, offered, history>>

\* One insert: outside a transaction it is stored at once, inside one it waits for
\* the commit; one that fails aborts the transaction and what was in it.
Accepted(x) ==
    TableOf[x] \in tables /\ (NeedsPrepared(x) => Statement \in prepared)

Insert(x) ==
    /\ pc = "insert"
    /\ x \in todo
    /\ todo' = todo \ {x}
    /\ Noticed
    /\ IF Reaches /\ tx = "open"
       THEN /\ tx' = IF Accepted(x) THEN tx ELSE "aborted"
            /\ pending' = IF Accepted(x) THEN pending \cup {x} ELSE {}
            /\ UNCHANGED rows
       ELSE /\ rows' = IF Reaches /\ tx = "none" /\ Accepted(x) THEN rows \cup {x} ELSE rows
            /\ UNCHANGED <<tx, pending>>
    /\ UNCHANGED <<up, tables, session, prepared, stmts, pc, offered, history>>

Commit_SlipSkipAborted ==
    /\ pc = "insert" /\ todo = {}
    /\ Noticed
    /\ IF Reaches /\ tx # "aborted"
       THEN EndCall(rows \cup pending) /\ tx' = "none" /\ pending' = {}
       ELSE EndCall(rows) /\ UNCHANGED <<tx, pending>>
    /\ UNCHANGED <<up, tables, session, prepared, stmts, offered, todo, steady, spoilt>>

\* Commit; for an aborted transaction it is a rollback.
Commit ==
    /\ pc = "insert" /\ todo = {}
    /\ Noticed
    /\ IF Reaches
       THEN EndCall(rows \cup pending) /\ tx' = "none" /\ pending' = {}
       ELSE EndCall(rows) /\ UNCHANGED <<tx, pending>>
    /\ UNCHANGED <<up, tables, session, prepared, stmts, offered, todo, steady, spoilt>>

\* SIGHUP: the connection is closed, and opened again by the next call.
w1_cleanup ==
    /\ pc = "idle"
    /\ db' = "null" /\ stmts' = {} /\ spoilt' = FALSE
    /\ session' = FALSE /\ prepared' = {} /\ tx' = "none" /\ pending' = {}
    /\ UNCHANGED <<up, tables, rows, pc, offered, todo, steady, lost>>

-----------------------------------------------------------------------------
\* The server stops, or the network does: the session and its transaction are gone.
Outage ==
    /\ up
    /\ up' = FALSE /\ steady' = FALSE
    /\ session' = FALSE /\ prepared' = {} /\ tx' = "none" /\ pending' = {}
    /\ UNCHANGED <<tables, rows, client, lost, spoilt>>

Return ==
    /\ ~up
    /\ up' = TRUE
    /\ UNCHANGED <<tables, session, prepared, tx, pending, rows, client, history>>

\* Somebody drops or creates tables.
Alter(ts) ==
    /\ up
    /\ tables' = ts
    /\ steady' = FALSE
    /\ UNCHANGED <<up, session, prepared, tx, pending, rows, client, lost, spoilt>>

Step == db_status \/ Prepare \/ Begin \/ Commit \/ \E x \in Items : Insert(x)

Calls == \E items \in SUBSET Sensors \ {{}} : Call(items)

Next == Step \/ Calls \/ Call({Message}) \/ w1_cleanup \/ Outage \/ Return
          \/ \E ts \in SUBSET Tables : Alter(ts)

Spec == Init /\ [][Next]_vars

\* A call runs to its end, and passes that read something are made again and again.
FairSpec == Spec /\ WF_vars(Step) /\ WF_vars(Calls)

-----------------------------------------------------------------------------
\* The variables have their types; a connection that is closed has no session and no
\* statements, so that the next one prepares its own.
TypeOK ==
    /\ up \in BOOLEAN /\ tables \subseteq Tables
    /\ session \in BOOLEAN /\ (session => up)
    /\ prepared \subseteq {Insrt, Insrl}
    /\ tx \in {"none", "open", "aborted"}
    /\ pending \subseteq Items /\ rows \subseteq Items
    /\ db \in {"null", "ok", "bad"}
    /\ stmts \subseteq {Insrt, Insrl}
    /\ (db = "null" => stmts = {} /\ ~session)
    /\ pc \in {"idle", "status", "prepare", "begin", "insert"}
    /\ offered \subseteq Items /\ todo \subseteq offered
    /\ steady \in BOOLEAN /\ lost \in 0 .. 2 /\ spoilt \in BOOLEAN

\* The readings of a pass (w1_logger) are stored together or not at all, wherever the server
\* goes away and whichever insert fails: a reader of the database never sees half a
\* pass.
AllOrNothing == rows \in {{}, offered}

\* No transaction outlives the call of w1_logger or w1_report that began it: nothing of a pass is committed with the next
\* one, and no lock is held until then.
NoOpenTransaction == pc \in {"idle", "status", "prepare", "begin"} => tx = "none"

\* A lost session costs one call after the server is back: that call notices it, the
\* db_status of the next one resets the connection and prepares its statement again.  Only a
\* statement that could not be prepared for want of its table costs more.
LossBounded == lost <= 1

\* When the server and the tables stay, every call of w1_logger is stored from some time on,
\* unless a statement was prepared while its table was missing.
Recovers ==
    <>[](up /\ tables = Tables /\ ~spoilt) => <>[](pc = "idle" => rows = offered)
=============================================================================
