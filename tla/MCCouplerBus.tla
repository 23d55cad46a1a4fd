---------------------------- MODULE MCCouplerBus ----------------------------
(***************************************************************************)
(* Instances of CouplerBus for TLC: two couplers, a device on each branch  *)
(* of the first and one on the second; a reload may drop the second        *)
(* coupler, moving its device to the trunk.                                *)
(***************************************************************************)
EXTENDS CouplerBus, TLC

CONSTANTS c1, c2, dm, da, dx

At(c, b) == [coupler |-> c, branch |-> b]

Full == [table |-> {c1, c2},
         route |-> dm :> At(c1, COUPLER_MAIN_ON)
                @@ da :> At(c1, COUPLER_AUX_ON)
                @@ dx :> At(c2, COUPLER_MAIN_ON)]

Reduced == [table |-> {c1},
            route |-> dm :> At(c1, COUPLER_MAIN_ON)
                   @@ da :> At(c1, COUPLER_AUX_ON)
                   @@ dx :> None]

MCCouplers == {c1, c2}
MCDevices  == {dm, da, dx}
MCConfigs  == {Full, Reduced}
=============================================================================
