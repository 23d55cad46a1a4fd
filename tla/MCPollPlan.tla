----------------------------- MODULE MCPollPlan -----------------------------
(***************************************************************************)
(* Instances of PollPlan for TLC: three devices, intervals below and       *)
(* between the limits, two of which do not divide one another; a word so   *)
(* narrow that the product of three intervals may or may not fit.          *)
(***************************************************************************)
EXTENDS PollPlan

MCTables == [Devs -> {0, 5, 20, 45}]
MCDelays == {0, 7, 60}

\* Every device at the default delay: the product of the intervals is zero
\* modulo the word, as for eleven devices at 120 seconds and 32 bits.
PlainTables == [Devs -> {0, 30}]
=============================================================================
