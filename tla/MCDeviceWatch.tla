--------------------------- MODULE MCDeviceWatch ---------------------------
(***************************************************************************)
(* Instances of DeviceWatch for TLC.                                       *)
(***************************************************************************)
EXTENDS DeviceWatch

(* One axis over all of i32, whose range and differences wrap, and one     *)
(* with a flat of its own.                                                 *)
MCInfos == {[min |-> -8, max |-> 7, flat |-> 0], [min |-> 0, max |-> 7, flat |-> -2]}
MCSamples == {-8, 0, 7}

(* A stick at the one end of its way, pushed the other way, and at rest.   *)
MCSticks == {-4, 3, 2}

(* A stick with a threshold of two fifths of its way.                      *)
StickInfos == {[min |-> -4, max |-> 4, flat |-> 0]}
StickSamples == 0 .. 4
=============================================================================
