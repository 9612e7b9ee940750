--------------------------- MODULE PanelProtocol ---------------------------
(***************************************************************************)
(* What somebody sitting in front of the screen is promised, without       *)
(* timers, sockets or D-Bus: the overlay covers the panel in at most two   *)
(* steps (dim, then black), the TV is sent to standby only behind a black  *)
(* overlay, and a TV in standby is always switched on again before         *)
(* anything else happens to the panel.                                     *)
(*                                                                         *)
(*     lit -> dimmed -> dark -> asleep -> waking -> lit                    *)
(*                                                                         *)
(* IdleDaemon implements this: screen is the opacity the daemon has asked  *)
(* the overlay for, tv the power state of the CEC-controlled TV.           *)
(***************************************************************************)

VARIABLES screen, tv

panelVars == <<screen, tv>>

PanelInit == screen = "clear" /\ tv = "on"

(* A warning is shown over a lit panel only. *)
DimPanel ==
  /\ tv = "on" /\ screen = "clear"
  /\ screen' = "dim" /\ UNCHANGED tv

(* The panel goes black, with or without a warning before it. *)
Darken ==
  /\ tv = "on" /\ screen # "opaque"
  /\ screen' = "opaque" /\ UNCHANGED tv

(* The TV sleeps only once there is nothing left to see. *)
Sleep ==
  /\ screen = "opaque" /\ tv = "on"
  /\ tv' = "standby" /\ UNCHANGED screen

(* The overlay goes away, whether or not the TV is still in standby. *)
Reveal ==
  /\ screen # "clear"
  /\ screen' = "clear" /\ UNCHANGED tv

(* A revealed TV in standby is switched on: the promise of a wake-up. *)
TurnOn ==
  /\ screen = "clear" /\ tv = "standby"
  /\ tv' = "on" /\ UNCHANGED screen

PanelNext == DimPanel \/ Darken \/ Sleep \/ Reveal \/ TurnOn

PanelSpec == PanelInit /\ [][PanelNext]_panelVars

(* Once the overlay is gone nothing may delay the TV for ever. *)
FairPanel == PanelSpec /\ WF_panelVars(TurnOn)

=============================================================================
