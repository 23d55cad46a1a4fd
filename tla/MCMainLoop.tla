----------------------------- MODULE MCMainLoop -----------------------------
(***************************************************************************)
(* Instances of MainLoop for TLC: two devices; configurations in which the *)
(* wake-up value is the interval of neither, of one and of both; reloads   *)
(* among them, one without "delay =".                                      *)
(***************************************************************************)
EXTENDS MainLoop

Conf(delay, i1, i2, log, rel) ==
    [delay |-> delay, table |-> <<i1, i2>>, logtmp |-> log, release |-> rel]

MCConfigs == {Conf(20, 10, 0, TRUE, FALSE), Conf(0, 15, 0, FALSE, TRUE),
              Conf(30, 15, 30, TRUE, TRUE)}
MCTables == {c.table : c \in MCConfigs}
MCDelays == {c.delay : c \in MCConfigs}
MCDevs == {1, 2}
=============================================================================
