----------------------------- MODULE MCDevices -----------------------------
(***************************************************************************)
(* Which units are in use together in the runs of Devices: any one or two, *)
(* and the halves of the last terminal with a device whose interrupts are  *)
(* served before theirs.                                                   *)
(***************************************************************************)
EXTENDS Devices

MCUses ==
    kSubset(1, Unit) \cup kSubset(2, Unit)
        \cup {{<<3, 7, "device">>, <<7, 7, "recv">>, <<7, 7, "tran">>}}
=============================================================================
