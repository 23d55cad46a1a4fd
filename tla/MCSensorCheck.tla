---------------------------- MODULE MCSensorCheck ----------------------------
(***************************************************************************)
(* Instances of SensorCheck for TLC: a minute between wake-ups, a clock of *)
(* half minutes, five readings; limits on the rate, on the range, on both, *)
(* and on a rain gauge counter.                                            *)
(***************************************************************************)
EXTENDS SensorCheck

Row(flags, counter, roc) ==
    [flags |-> flags, counter |-> counter, rmin |-> 0, rmax |-> 3, roc |-> roc]

MCLimits == {Row({W1_ROC}, FALSE, 1),
             Row({W1_ROC, W1_RMIN, W1_RMAX}, FALSE, 2),
             Row({W1_RMIN, W1_RMAX}, FALSE, 0),
             Row({W1_ROC}, TRUE, 2)}
\* Either SIGUSR1 or a clock that is set.
MCModes == {[user |-> TRUE, steps |-> FALSE], [user |-> FALSE, steps |-> TRUE]}
UserMode == {[user |-> TRUE, steps |-> FALSE]}
MCReadings == -1 .. 4
=============================================================================
