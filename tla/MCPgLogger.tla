----------------------------- MODULE MCPgLogger -----------------------------
(***************************************************************************)
(* Instances of PgLogger for TLC: two sensors in the readings table and    *)
(* one with a table of its own.                                            *)
(***************************************************************************)
EXTENDS PgLogger

MCSensors == {"temp", "pres", "roof"}
MCMessage == "message"
MCTableOf == [x \in MCSensors \cup {MCMessage} |->
                 IF x = "roof" THEN "roof" ELSE IF x = "message" THEN "replog"
                 ELSE "readings"]
=============================================================================
