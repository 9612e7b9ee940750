---------------------------- MODULE LayerOverlay ----------------------------
(***************************************************************************)
(* overlay.rs: the layer-shell overlay.  Three parties:                    *)
(*                                                                         *)
(*   the handle       set() and quit(), called by the daemon: each writes  *)
(*                    Shared, then locks the sender and sends              *)
(*   the thread       overlay_thread: connect, publish a new channel, run  *)
(*                    the Wayland event loop until it ends, take the       *)
(*                    channel back, start over                             *)
(*   the compositor   configures, closes and shows the surface, and may    *)
(*                    go away and come back                                *)
(*                                                                         *)
(* Opacities are members of Opacities; Clear is fully transparent.  Time   *)
(* (the backoff, the dispatch timeout) is left out.                        *)
(***************************************************************************)
EXTENDS Naturals, Sequences

CONSTANTS
  Opacities, Clear,  (* what the daemon asks for, and nothing              *)
  Faults,            (* what may go wrong: see FaultKinds                  *)
  MaxSets,           (* bound on the calls of set                          *)
  MaxOutages         (* bound on the times the compositor goes away or is  *)
                     (* found without its globals                          *)

FaultKinds == {"globals", "closed", "draw"}

ASSUME OverlayAssumption ==
  /\ Clear \in Opacities /\ Opacities \cap {"nothing", "quit"} = {}
  /\ Faults \subseteq FaultKinds
  /\ MaxSets \in Nat /\ MaxOutages \in Nat

VARIABLES
  caller,        (* the handle: idle, between write and send, or done      *)
  desired, quit, (* Shared.alpha, Shared.quit                              *)
  linked, queue, (* Shared.sender is Some; the commands in its channel     *)
  thread,        (* where overlay_thread is                                *)
  opacity,       (* Overlay.alpha                                          *)
  layer,         (* Overlay.layer: none, created, or configured            *)
  sized,         (* Overlay.size is not (0, 0)                             *)
  exit,          (* Overlay.exit                                           *)
  shown,         (* what the compositor shows of the surface, or "nothing" *)
  up, broken,    (* the compositor is there; our connection to it is not   *)
  sets, outages, (* bounded counters                                       *)
  spoiled        (* history: a draw failed, or the surface was closed, and *)
                 (* nothing was drawn or created since                     *)

handle == <<caller, desired, quit, sets>>
link   == <<linked, queue>>
app    == <<opacity, layer, sized, exit, spoiled>>
server == <<up, broken, outages>>
vars   == <<handle, link, thread, app, shown, server>>

Quit == "quit"
Running == thread = "loop" /\ ~exit

-----------------------------------------------------------------------------
(* OverlayHandle. *)

Send(cmd) == queue' = IF linked THEN Append(queue, cmd) ELSE queue

SetAlpha(a) ==
  /\ caller = "idle" /\ sets < MaxSets
  /\ desired' = a
  /\ caller' = "set" /\ sets' = sets + 1
  /\ UNCHANGED <<quit, link, thread, app, shown, server>>

SendAlpha ==
  /\ caller = "set"
  /\ Send(desired)
  /\ caller' = "idle"
  /\ UNCHANGED <<desired, quit, sets, linked, thread, app, shown, server>>

StoreQuit ==
  /\ caller = "idle"
  /\ quit' = TRUE
  /\ caller' = "quit"
  /\ UNCHANGED <<desired, sets, link, thread, app, shown, server>>

SendQuit ==
  /\ caller = "quit"
  /\ Send(Quit)
  /\ caller' = "done"
  /\ UNCHANGED <<desired, quit, sets, linked, thread, app, shown, server>>

-----------------------------------------------------------------------------
(* overlay_thread. *)

CheckQuit ==
  /\ thread = "check"
  /\ thread' = IF quit THEN "ended" ELSE "connect"
  /\ UNCHANGED <<handle, link, app, shown, server>>

Connect ==
  /\ thread = "connect"
  /\ IF up THEN thread' = "publish" /\ broken' = FALSE
     ELSE thread' = "recheck" /\ UNCHANGED broken
  /\ UNCHANGED <<handle, link, app, shown, up, outages>>

Publish ==
  /\ thread = "publish"
  /\ linked' = TRUE /\ queue' = << >>
  /\ thread' = "setup"
  /\ UNCHANGED <<handle, app, shown, server>>

(* A slip: a fresh connection starts from a transparent overlay.           *)
SetupForgets ==
  /\ thread = "setup" /\ ~broken
  /\ opacity' = Clear /\ layer' = "none"
  /\ sized' = FALSE /\ exit' = FALSE /\ spoiled' = FALSE
  /\ thread' = "loop"
  /\ UNCHANGED <<handle, link, shown, server>>

(* run: bind the globals, restore the desired opacity.                     *)
Setup ==
  /\ thread = "setup" /\ ~broken
  /\ opacity' = desired
  /\ layer' = IF desired # Clear THEN "created" ELSE "none"
  /\ sized' = FALSE /\ exit' = FALSE /\ spoiled' = FALSE
  /\ thread' = "loop"
  /\ UNCHANGED <<handle, link, shown, server>>

(* run returns: the connection is dropped, and the receiving end of the    *)
(* channel with it.                                                        *)
RunReturns ==
  /\ thread' = "unlink"
  /\ layer' = "none" /\ sized' = FALSE /\ shown' = "nothing"
  /\ UNCHANGED <<handle, link, opacity, exit, spoiled>>

ConnectionLost ==
  /\ thread \in {"setup", "loop"} /\ broken
  /\ RunReturns
  /\ UNCHANGED server

(* A compositor that is still starting offers no layer shell yet.          *)
GlobalsMissing ==
  /\ thread = "setup" /\ "globals" \in Faults /\ outages < MaxOutages
  /\ RunReturns
  /\ outages' = outages + 1
  /\ UNCHANGED <<up, broken>>

RunEnds ==
  /\ thread = "loop" /\ exit
  /\ RunReturns
  /\ UNCHANGED server

(* A slip: the sender of the lost connection stays in Shared.             *)
UnlinkForgets ==
  /\ thread = "unlink"
  /\ thread' = "recheck"
  /\ UNCHANGED <<handle, link, app, shown, server>>

Unlink ==
  /\ thread = "unlink"
  /\ linked' = FALSE /\ queue' = << >>
  /\ thread' = "recheck"
  /\ UNCHANGED <<handle, app, shown, server>>

Recheck ==
  /\ thread = "recheck"
  /\ thread' = IF quit THEN "ended" ELSE "check"
  /\ UNCHANGED <<handle, link, app, shown, server>>

-----------------------------------------------------------------------------
(* The event loop's callbacks. *)

(* draw: nothing without a size; otherwise a buffer is attached, unless    *)
(* the pool or the buffer cannot be had.                                   *)
Draw(a, hasSize) ==
  IF ~hasSize THEN UNCHANGED <<shown, spoiled>>
  ELSE \/ shown' = (IF broken THEN "nothing" ELSE a) /\ spoiled' = FALSE
       \/ "draw" \in Faults /\ UNCHANGED shown /\ spoiled' = TRUE

(* on_cmd(Show), set_alpha. *)
OnShow ==
  /\ Running /\ queue # << >> /\ Head(queue) # Quit
  /\ queue' = Tail(queue)
  /\ opacity' = Head(queue)
  /\ IF layer # "none" THEN Draw(Head(queue), sized) /\ UNCHANGED layer
     ELSE /\ layer' = IF Head(queue) # Clear THEN "created" ELSE "none"
          /\ spoiled' = FALSE
          /\ UNCHANGED shown
  /\ UNCHANGED <<handle, linked, thread, sized, exit, server>>

OnQuit ==
  /\ Running /\ queue # << >> /\ Head(queue) = Quit
  /\ queue' = Tail(queue)
  /\ layer' = "none" /\ shown' = "nothing" /\ exit' = TRUE
  /\ UNCHANGED <<handle, linked, thread, opacity, sized, spoiled, server>>

(* A slip: the first paint is left to the next Show.                       *)
ConfigureOnly ==
  /\ Running /\ ~broken /\ layer # "none"
  /\ layer' = "configured" /\ sized' = TRUE
  /\ UNCHANGED <<handle, link, thread, opacity, exit, shown, spoiled, server>>

(* configure: the size is known, paint. *)
Configure ==
  /\ Running /\ ~broken /\ layer # "none"
  /\ layer' = "configured" /\ sized' = TRUE
  /\ Draw(opacity, TRUE)
  /\ UNCHANGED <<handle, link, thread, opacity, exit, server>>

(* A slip: the size of the closed surface is kept for the next one.        *)
ClosedKeepsSize ==
  /\ Running /\ ~broken /\ layer # "none" /\ "closed" \in Faults
  /\ layer' = "none" /\ shown' = "nothing" /\ spoiled' = TRUE
  /\ UNCHANGED <<handle, link, thread, opacity, sized, exit, server>>

(* closed by the compositor: nobody creates it again until the next Show.  *)
Closed ==
  /\ Running /\ ~broken /\ layer # "none" /\ "closed" \in Faults
  /\ layer' = "none" /\ sized' = FALSE /\ shown' = "nothing" /\ spoiled' = TRUE
  /\ UNCHANGED <<handle, link, thread, opacity, exit, server>>

-----------------------------------------------------------------------------
(* The compositor, which is gamescope. *)

GoAway ==
  /\ up /\ outages < MaxOutages
  /\ up' = FALSE /\ broken' = TRUE /\ outages' = outages + 1
  /\ shown' = "nothing"
  /\ UNCHANGED <<handle, link, thread, app>>

ComeBack ==
  /\ ~up
  /\ up' = TRUE
  /\ UNCHANGED <<handle, link, thread, app, shown, broken, outages>>

-----------------------------------------------------------------------------

Init ==
  /\ caller = "idle" /\ desired = Clear /\ quit = FALSE
  /\ linked = FALSE /\ queue = << >>
  /\ thread = "check"
  /\ opacity = Clear /\ layer = "none" /\ sized = FALSE /\ exit = FALSE
  /\ shown = "nothing"
  /\ up \in BOOLEAN /\ broken = FALSE
  /\ sets = 0 /\ outages = 0
  /\ spoiled = FALSE

Handle == (\E a \in Opacities : SetAlpha(a)) \/ SendAlpha \/ StoreQuit \/ SendQuit

Thread ==
  \/ CheckQuit \/ Connect \/ Publish \/ Setup \/ ConnectionLost \/ GlobalsMissing \/ RunEnds
  \/ Unlink \/ Recheck
  \/ OnShow \/ OnQuit

Compositor == Configure \/ Closed \/ GoAway \/ ComeBack

Next == Handle \/ Thread \/ Compositor

Spec == Init /\ [][Next]_vars

(* The thread runs; a call of the handle returns; a living compositor      *)
(* configures a surface that waits for it.  The thread's steps are never   *)
(* disabled by others, but for the loop's, which a burst of configures     *)
(* cannot starve as calloop polls every source.                            *)
FairSpec ==
  /\ Spec
  /\ WF_vars(SendAlpha) /\ WF_vars(SendQuit)
  /\ WF_vars(Thread)
  /\ WF_vars(layer = "created" /\ Configure)
-----------------------------------------------------------------------------
(* Properties. *)

(* Every variable holds a value of its kind, and the sender is there       *)
(* exactly from the time the channel is published to the time the thread   *)
(* has noticed that the connection is gone.                                *)
TypeOK ==
  /\ caller \in {"idle", "set", "quit", "done"}
  /\ desired \in Opacities /\ opacity \in Opacities
  /\ quit \in BOOLEAN /\ linked \in BOOLEAN
  /\ queue \in Seq(Opacities \cup {Quit})
  /\ thread \in {"check", "connect", "publish", "setup", "loop", "unlink", "recheck",
                 "ended"}
  /\ layer \in {"none", "created", "configured"}
  /\ sized \in BOOLEAN /\ exit \in BOOLEAN /\ spoiled \in BOOLEAN
  /\ shown \in Opacities \cup {"nothing"}
  /\ up \in BOOLEAN /\ broken \in BOOLEAN
  /\ sets \in Nat /\ outages \in Nat
  /\ linked <=> thread \in {"setup", "loop", "unlink"}
  /\ ~linked => queue = << >>

(* The opacity the thread ends up with when its queue is drained.          *)
LastWord == IF queue = << >> THEN opacity ELSE queue[Len(queue)]

(* Whenever the daemon is not in the middle of a call, the last word the   *)
(* running thread has or will hear is the opacity that was asked for: no   *)
(* interleaving of set(), of a reconnect and of the restore after it makes *)
(* the overlay settle on a stale opacity.                                  *)
HearsTheLastWord == Running /\ caller = "idle" => LastWord = desired

(* The thread serves calls that will still be made or are being made.      *)
Serving == Running /\ caller # "done"

Register == INSTANCE OverlayRegister
  WITH asked <- desired, calling <- caller # "idle", live <- Serving,
       word <- IF Serving THEN LastWord ELSE Clear

(* To its caller the overlay is a register: draining the queue, losing the *)
(* connection and finding it again never change what it will come to show. *)
ImplementsRegister == Register!RegisterSpec

(* A buffer is attached only to a surface that was configured: to do it    *)
(* earlier is a protocol error that costs the connection.                  *)
NoEarlyBuffer == layer # "configured" => shown = "nothing"

(* What a viewer sees of the overlay. *)
Visible == IF shown = "nothing" THEN Clear ELSE shown

(* Whenever nothing is on its way between daemon, thread and compositor,   *)
(* the viewer sees what the daemon asked for: every path to a drawing, by  *)
(* a command, by a configure before or after it, by a reconnect, ends in   *)
(* the same picture.  The rest of Converges is that this moment comes.     *)
ShowsTheLastWord ==
  Running /\ ~broken /\ queue = << >> /\ caller = "idle" /\ layer # "created"
    => spoiled \/ Visible = desired

(* When the compositor stays, the screen comes to show what the daemon     *)
(* asked for last, however often the connection was lost before, unless    *)
(* the compositor closed the surface or refused the last buffer.           *)
Converges == <>[]up => <>[](quit \/ spoiled \/ Visible = desired)
-----------------------------------------------------------------------------
(* HearsTheLastWord, strengthened to what Setup finds in a queue that was  *)
(* filled before it read the desired opacity.                              *)
WordInv ==
  /\ HearsTheLastWord
  /\ thread = "setup" /\ caller = "idle" /\ queue # << >> => queue[Len(queue)] = desired

(* ShowsTheLastWord, strengthened: whatever is still in the queue, a       *)
(* surface that needs no configure shows the thread's own opacity; one     *)
(* that was configured can be drawn on.                                    *)
PaintInv ==
  Running =>
    /\ ~broken /\ ~spoiled /\ layer # "created" => Visible = opacity
    /\ layer = "configured" => sized
=============================================================================
