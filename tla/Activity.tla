------------------------------ MODULE Activity ------------------------------
(***************************************************************************)
(* What counts as somebody touching a controller: is_activity and          *)
(* abs_thresholds of input.rs for evdev, the report parsing of hid.rs for  *)
(* hidraw.  An i32 is a number from -Top to Top - 1; its arithmetic wraps, *)
(* as in the release build.  last is what the task remembers of the axis   *)
(* (a set that is empty before the first sample) or of the report.         *)
(***************************************************************************)
EXTENDS Integers, FiniteSetsExt

CONSTANTS
  Top,       (* 2^31                                                       *)
  StickTop,  (* 2^15                                                       *)
  Share,     (* a threshold is at least the range over Share: 20           *)
  Deadzone,  (* Profile.stick_deadzone                                     *)
  Touch      (* the capacitive bits: the complement of Profile.button_mask *)

ASSUME ActivityAssumption ==
  /\ Top \in Nat \ {0, 1} /\ StickTop \in Nat \ {0} /\ StickTop < Top
  /\ Share \in Nat \ {0} /\ Deadzone \in Nat

I32 == -Top .. Top - 1
I16 == -StickTop .. StickTop - 1

Signed(n) == ((n + Top) % (2 * Top)) - Top

(* i32::abs: the smallest number is its own. *)
Magnitude(n) == IF n < 0 THEN Signed(-n) ELSE n

-----------------------------------------------------------------------------
(* evdev. *)

(* A slip: an axis without range or flat has no deadzone at all.           *)
ThresholdUnbounded(info) ==
  Max({Max({Signed(info.max - info.min), 0}) \div Share, Magnitude(info.flat)})

(* abs_thresholds, of one axis. *)
Threshold(info) ==
  Max({Max({Signed(info.max - info.min), 0}) \div Share, Magnitude(info.flat), 1})

(* A slip: the baseline before the first sample is 0.                      *)
MovedFromZero(last, v, threshold) ==
  \E p \in IF last = {} THEN {0} ELSE last : Magnitude(Signed(v - p)) >= threshold

(* The first sample establishes a baseline and is no activity.             *)
Moved(last, v, threshold) == \E p \in last : Magnitude(Signed(v - p)) >= threshold

is_activity(event, threshold, last) ==
  \/ event.type = "key"     (* or relative *)
  \/ event.type = "abs" /\ Moved(last, event.value, threshold)

-----------------------------------------------------------------------------
(* hidraw: a report of the right length and id has buttons, a set, and one *)
(* stick axis, an i16.                                                     *)

masked_buttons(report) == report.buttons \ Touch

(* A slip: abs of the i16 itself, whose smallest number is its own.        *)
StickDeflectedNarrow(report) ==
  report.stick # -StickTop /\ Magnitude(report.stick) > Deadzone

(* Widened to i32 before abs, a stick at the end of its way counts too.    *)
stick_deflected(report) == Magnitude(report.stick) > Deadzone

ReportActive(report, last) ==
  \/ \E prev \in last : masked_buttons(report) # masked_buttons(prev)
  \/ stick_deflected(report)
=============================================================================
