----------------------------- MODULE X11Overlay -----------------------------
(***************************************************************************)
(* overlay_x11.rs: the overlay as an Xwayland window that gamescope draws  *)
(* on top of everything.  The handle stores the desired opacity and sends  *)
(* a command; the thread looks for the display, connects, publishes the    *)
(* sender, restores the opacity and then obeys commands until the          *)
(* connection breaks.  The window is created on top and unmapped, mapped   *)
(* by the first show and never unmapped again: gamescope composites anew   *)
(* only for a fresh frame of a mapped window, and of the windows flagged   *)
(* as external overlays only the topmost, ours or mangoapp's.              *)
(*                                                                         *)
(* Opacities are members of Opacities; Clear stands for hide().  The       *)
(* dimmed opacity is taken to be above 0: show(0.0) would raise a          *)
(* transparent window.  Sizes, the backoff and the poll of 200 ms are      *)
(* left out.                                                               *)
(***************************************************************************)
EXTENDS Naturals, Sequences

CONSTANTS
  Opacities, Clear,  (* what the daemon asks for, and nothing              *)
  Displays,          (* where DISPLAY may be when the process starts       *)
  MaxQueue,          (* bound on unread commands: the channel has none     *)
  MaxOutages         (* bound on the times Xwayland goes away or is found  *)
                     (* without a visual                                   *)

ASSUME X11Assumption ==
  /\ Clear \in Opacities /\ "quit" \notin Opacities
  /\ Displays \subseteq {"inherited", "unset"}
  /\ MaxQueue \in Nat /\ MaxOutages \in Nat

VARIABLES
  caller,                (* the handle: idle, between store and send, done *)
  desired, quit,         (* Shared.alpha, Shared.quit                      *)
  linked, queue,         (* Shared.sender is Some; its unread commands     *)
  thread,                (* where overlay_thread is                        *)
  mapped, raised, pixel, (* our window: mapped, above mangoapp's, painted  *)
  picture,               (* what the last composited frame shows of it     *)
  up, broken,            (* Xwayland is there; our connection to it is not *)
  display,               (* DISPLAY: "inherited", in gamescope's "file",   *)
                         (* or "unset"                                     *)
  outages                (* bounded counter                                *)

handle  == <<caller, desired, quit>>
link    == <<linked, queue>>
window  == <<mapped, raised, pixel>>
server  == <<up, broken, display, outages>>
vars    == <<handle, link, thread, window, picture, server>>

Quit == "quit"
Running == thread = "loop" /\ ~broken

(* In run's loop, a hide half done included. *)
InLoop == thread \in {"loop", "lower"}

-----------------------------------------------------------------------------
(* X11OverlayHandle. *)

Send(cmd) == queue' = IF linked THEN Append(queue, cmd) ELSE queue

(* show and hide store the opacity, then lock the sender.                  *)
SetAlpha(a) ==
  /\ caller = "idle" /\ Len(queue) < MaxQueue
  /\ desired' = a
  /\ caller' = "set"
  /\ UNCHANGED <<quit, link, thread, window, picture, server>>

SendAlpha ==
  /\ caller = "set"
  /\ Send(desired)
  /\ caller' = "idle"
  /\ UNCHANGED <<desired, quit, linked, thread, window, picture, server>>

StoreQuit ==
  /\ caller = "idle" /\ Len(queue) < MaxQueue
  /\ quit' = TRUE
  /\ caller' = "quit"
  /\ UNCHANGED <<desired, link, thread, window, picture, server>>

SendQuit ==
  /\ caller = "quit"
  /\ Send(Quit)
  /\ caller' = "done"
  /\ UNCHANGED <<desired, quit, linked, thread, window, picture, server>>

-----------------------------------------------------------------------------
(* overlay_thread. *)

CheckQuit ==
  /\ thread = "check"
  /\ thread' = IF quit THEN "ended" ELSE "connect"
  /\ UNCHANGED <<handle, link, window, picture, server>>

(* A slip: the environment of the process is trusted.                      *)
ResolvedOnce == display = "inherited"

(* resolve_display, at every attempt.                                      *)
Resolved == display \in {"inherited", "file"}

Connect ==
  /\ thread = "connect"
  /\ IF up /\ Resolved THEN thread' = "publish" /\ broken' = FALSE
     ELSE thread' = "recheck" /\ UNCHANGED broken
  /\ UNCHANGED <<handle, link, window, picture, up, display, outages>>

Publish ==
  /\ thread = "publish"
  /\ linked' = TRUE /\ queue' = << >>
  /\ thread' = "setup"
  /\ UNCHANGED <<handle, window, picture, server>>

(* Whatever made run return, its window goes with the connection.          *)
RunReturns ==
  /\ thread' = "unlink"
  /\ mapped' = FALSE /\ pixel' = Clear
  /\ UNCHANGED <<handle, linked, raised>>

ConnectionLost ==
  /\ thread = "setup" \/ InLoop
  /\ broken
  /\ RunReturns
  /\ UNCHANGED <<queue, picture, server>>

NoVisual ==
  /\ thread = "setup" /\ ~broken /\ outages < MaxOutages
  /\ RunReturns
  /\ outages' = outages + 1
  /\ UNCHANGED <<queue, picture, up, broken, display>>

(* A slip: the sender of the lost connection stays in Shared.              *)
UnlinkForgets ==
  /\ thread = "unlink"
  /\ thread' = "recheck"
  /\ UNCHANGED <<handle, link, window, picture, server>>

Unlink ==
  /\ thread = "unlink"
  /\ linked' = FALSE /\ queue' = << >>
  /\ thread' = "recheck"
  /\ UNCHANGED <<handle, window, picture, server>>

Recheck ==
  /\ thread = "recheck"
  /\ thread' = IF quit THEN "ended" ELSE "check"
  /\ UNCHANGED <<handle, link, window, picture, server>>

-----------------------------------------------------------------------------
(* run.  A command that meets a broken connection ends it and is dropped   *)
(* with the channel, so commands are obeyed on a living one only.          *)

(* show: size, map, raise, then paint: the frame comes last.               *)
ShowWindow(a) ==
  /\ mapped' = TRUE /\ raised' = TRUE
  /\ pixel' = a /\ picture' = a

(* A slip: the new connection waits for the next command.                  *)
SetupForgets ==
  /\ thread = "setup" /\ ~broken
  /\ thread' = "loop"
  /\ mapped' = FALSE /\ raised' = TRUE /\ pixel' = Clear
  /\ UNCHANGED <<handle, link, picture, server>>

(* A new window, unmapped; the desired opacity is restored.                *)
Setup ==
  /\ thread = "setup" /\ ~broken
  /\ thread' = "loop"
  /\ IF desired # Clear THEN ShowWindow(desired)
     ELSE mapped' = FALSE /\ raised' = TRUE /\ pixel' = Clear /\ UNCHANGED picture
  /\ UNCHANGED <<handle, link, server>>

OnShow ==
  /\ Running /\ queue # << >> /\ Head(queue) \notin {Clear, Quit}
  /\ queue' = Tail(queue)
  /\ ShowWindow(Head(queue))
  /\ UNCHANGED <<handle, linked, thread, server>>

(* A slip: hide by unmapping, which yields no frame.                       *)
OnHideUnmaps ==
  /\ Running /\ queue # << >> /\ Head(queue) = Clear
  /\ queue' = Tail(queue)
  /\ mapped' = FALSE /\ pixel' = Clear
  /\ UNCHANGED <<handle, linked, thread, raised, picture, server>>

(* Paint transparent and flush; the frame is there before the window is    *)
(* lowered.                                                                *)
OnHide ==
  /\ Running /\ queue # << >> /\ Head(queue) = Clear
  /\ queue' = Tail(queue)
  /\ IF mapped THEN thread' = "lower" /\ pixel' = Clear /\ picture' = Clear
     ELSE UNCHANGED <<thread, pixel, picture>>
  /\ UNCHANGED <<handle, linked, mapped, raised, server>>

(* A slip: hide by painting only.                                          *)
LowerForgets ==
  /\ thread = "lower" /\ ~broken
  /\ thread' = "loop"
  /\ UNCHANGED <<handle, link, window, picture, server>>

(* Then drop below mangoapp's window, which wins the slot with its next    *)
(* frame, and flush again.                                                 *)
Lower ==
  /\ thread = "lower" /\ ~broken
  /\ thread' = "loop" /\ raised' = FALSE
  /\ UNCHANGED <<handle, link, mapped, pixel, picture, server>>

(* Destroying the window yields no frame either.                           *)
OnQuit ==
  /\ Running /\ queue # << >> /\ Head(queue) = Quit
  /\ queue' = Tail(queue)
  /\ RunReturns
  /\ UNCHANGED <<picture, server>>

-----------------------------------------------------------------------------
(* gamescope and its Xwayland. *)

(* Somebody else's frame: the topmost overlay window is composited with it. *)
Recomposite ==
  /\ up
  /\ picture' = IF mapped /\ raised /\ ~broken THEN pixel ELSE Clear
  /\ UNCHANGED <<handle, link, thread, window, server>>

GoAway ==
  /\ up /\ outages < MaxOutages
  /\ up' = FALSE /\ broken' = TRUE /\ outages' = outages + 1
  /\ picture' = Clear
  /\ UNCHANGED <<handle, link, thread, window, display>>

ComeBack ==
  /\ ~up
  /\ up' = TRUE
  /\ UNCHANGED <<handle, link, thread, window, picture, broken, display, outages>>

(* gamescope fills in its environment file during the session's start.     *)
WriteEnvironment ==
  /\ display = "unset"
  /\ display' = "file"
  /\ UNCHANGED <<handle, link, thread, window, picture, up, broken, outages>>

-----------------------------------------------------------------------------

Init ==
  /\ caller = "idle" /\ desired = Clear /\ quit = FALSE
  /\ linked = FALSE /\ queue = << >>
  /\ thread = "check"
  /\ mapped = FALSE /\ raised = FALSE /\ pixel = Clear /\ picture = Clear
  /\ up \in BOOLEAN /\ broken = FALSE
  /\ display \in Displays
  /\ outages = 0

HandleReturns == SendAlpha \/ SendQuit

Thread ==
  \/ CheckQuit \/ Connect \/ Publish \/ Setup \/ ConnectionLost \/ NoVisual
  \/ Unlink \/ Recheck
  \/ OnShow \/ OnHide \/ Lower \/ OnQuit

Compositor == Recomposite \/ GoAway \/ ComeBack \/ WriteEnvironment

Next ==
  \/ \E a \in Opacities : SetAlpha(a)
  \/ StoreQuit \/ HandleReturns \/ Thread \/ Compositor

Spec == Init /\ [][Next]_vars
-----------------------------------------------------------------------------
(* Properties. *)

(* Every variable holds a value of its kind, and the sender is there       *)
(* exactly from the time the channel is published to the time the thread   *)
(* has noticed that the connection is gone.                                *)
TypeOK ==
  /\ caller \in {"idle", "set", "quit", "done"}
  /\ desired \in Opacities /\ quit \in BOOLEAN
  /\ linked \in BOOLEAN /\ queue \in Seq(Opacities \cup {Quit})
  /\ thread \in {"check", "connect", "publish", "setup", "loop", "lower", "unlink",
                 "recheck", "ended"}
  /\ mapped \in BOOLEAN /\ raised \in BOOLEAN
  /\ pixel \in Opacities /\ picture \in Opacities
  /\ up \in BOOLEAN /\ broken \in BOOLEAN
  /\ display \in {"inherited", "file", "unset"}
  /\ outages \in 0..MaxOutages
  /\ thread # "ended" => (linked <=> InLoop \/ thread \in {"setup", "unlink"})
  /\ ~linked => queue = << >>

(* The opacity the thread ends up with when its queue is drained.          *)
LastWord == IF queue = << >> THEN pixel ELSE queue[Len(queue)]

(* Whenever the daemon is not in the middle of a call, the last word the   *)
(* connected thread has or will hear is the opacity that was asked for,    *)
(* wherever a reconnect and its restore fell between store and send.       *)
HearsTheLastWord == InLoop /\ caller = "idle" => LastWord = desired

(* The thread serves calls that will still be made or are being made.      *)
Serving == InLoop /\ caller # "done"

Register == INSTANCE OverlayRegister
  WITH asked <- desired, calling <- caller # "idle", live <- Serving,
       word <- IF Serving THEN LastWord ELSE Clear

(* To its caller the overlay is a register: draining the queue, losing the *)
(* connection and finding it again never change what it will come to show. *)
ImplementsRegister == Register!RegisterSpec

(* While the window is mapped, the frame on the screen is the one it was   *)
(* last painted with, so that no black frame outlives a hide; it is above  *)
(* mangoapp's, and not about to be lowered, whenever it shows something;   *)
(* and it is below when a hide is done, so that a hidden overlay never     *)
(* suppresses the HUD.                                                     *)
NoStaleFrame ==
  InLoop /\ ~broken /\ mapped =>
    /\ picture = pixel
    /\ pixel # Clear => raised /\ thread = "loop"
    /\ thread = "loop" /\ raised => pixel # Clear
-----------------------------------------------------------------------------
(* HearsTheLastWord, strengthened to what Setup finds in a queue that was  *)
(* filled before it read the desired opacity, and to a window that is      *)
(* transparent before it is mapped.                                        *)
WordInv ==
  /\ HearsTheLastWord
  /\ thread = "setup" /\ caller = "idle" /\ queue # << >> => queue[Len(queue)] = desired
  /\ ~mapped => pixel = Clear
=============================================================================
