---------------------------- MODULE MCIdleDaemon ----------------------------
(***************************************************************************)
(* Instances of IdleDaemon for TLC: the sets of services, and a statement  *)
(* of the README that the code does not keep.                              *)
(***************************************************************************)
EXTENDS IdleDaemon

(* A machine with everything, and one with nothing but the inhibitors. *)
SomeServices == {Services, {"logind", "screensaver"}}

(* One kind of inhibitor is enough where no property tells them apart. *)
NoScreensaver == {Services \ {"screensaver"}}
NoLogind == {Services \ {"logind"}}

(* README: "While an idle inhibitor is held, it stays awake and never      *)
(* blanks."  on_timeout does not look at the inhibitors in DIM, so a video *)
(* that starts during the warning is blanked all the same.                 *)
NeverBlanksWhileInhibited ==
  [][Blackout /\ ~Requested => ~ScreensaverBlocked]_vars
=============================================================================
