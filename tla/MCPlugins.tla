----------------------------- MODULE MCPlugins -----------------------------
(***************************************************************************)
(* Instances of Plugins for TLC: one library of each kind and a set of     *)
(* configuration files that use them in the ways that matter.              *)
(***************************************************************************)
EXTENDS Plugins

MCLibs == {"w1mysql", "w1sqlite", "w1odbc", "w1mongo", "w1file", "w1none"}
MCKind == [l \in MCLibs |->
              CASE l = "w1mysql" -> "mysql" [] l = "w1sqlite" -> "sqlite"
                [] l = "w1odbc" -> "odbc"   [] l = "w1mongo" -> "mongo"
                [] OTHER -> "file"]
MCDatabases == {"my", "db1", "db2", "dsn", "mongo", "txt"}
MCServers   == {"my", "dsn", "mongo"}
MCInstalled == MCLibs \ {"w1none"}

L(t, l, d) == [type |-> t, lib |-> l, db |-> d]

\* SQLite for everything; a file beside a MySQL logger; ODBC beside a report-only SQLite;
\* MongoDB for everything; devices in MongoDB and the log elsewhere.
Sqlite == <<L("c", "w1sqlite", "db1"), L("l", "w1sqlite", "db1"), L("r", "w1sqlite", "db1")>>
Mysql  == <<L("c", "w1mysql", "my"), L("l", "w1file", "txt"), L("l", "w1mysql", "my")>>
Odbc   == <<L("c", "w1file", "txt"), L("r", "w1sqlite", "db2"), L("l", "w1odbc", "dsn")>>
Mongo  == <<L("l", "w1mongo", "mongo"), L("c", "w1mongo", "mongo"), L("r", "w1mongo", "mongo")>>
Split  == <<L("c", "w1mongo", "mongo"), L("l", "w1none", "txt"), L("l", "w1sqlite", "db2")>>
\* Two log lines of one library.
Two    == <<L("c", "w1file", "txt"), L("l", "w1sqlite", "db1"), L("l", "w1sqlite", "db2")>>
\* No w1_report; a line too many.
NoReport == <<L("c", "w1file", "txt"), L("r", "w1odbc", "dsn")>>
Long   == Mysql \o <<L("r", "w1sqlite", "db1")>>

MCFiles  == {Sqlite, Mysql, Odbc, Mongo, Split, NoReport, Long}
TwoFiles == {Two}
=============================================================================
