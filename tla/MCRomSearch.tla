----------------------------- MODULE MCRomSearch ----------------------------
(***************************************************************************)
(* An instance of RomSearch for TLC: ROMs of two family bits, two serial   *)
(* bits and two check bits; three couplers, so that a list of couplers may *)
(* be full, and a device of each other family.                             *)
(***************************************************************************)
EXTENDS RomSearch

WithCheck(a, b, c, d) == <<a, b, c, d, (a + b + c) % 2, (b + d) % 2>>

MCRoms == {WithCheck(1, 1, 0, 0), WithCheck(1, 1, 0, 1), WithCheck(1, 1, 1, 0),
           WithCheck(0, 1, 1, 1), WithCheck(1, 0, 0, 1)}
MCSwitch == <<1, 1>>
=============================================================================
