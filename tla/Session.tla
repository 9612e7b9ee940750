------------------------------ MODULE Session ------------------------------
(***************************************************************************)
(* The daemon and its X11 overlay in one process, under one gamescope:     *)
(* IdleDaemon's alpha and quit are the desired and quit of X11Overlay.     *)
(* A handler of the daemon runs on only when its call of the overlay       *)
(* handle has returned; the overlay thread, the compositor and the rest of *)
(* the world move between any two steps.  The daemon does not wait for the *)
(* thread when it ends, and a crash takes both.                            *)
(***************************************************************************)
EXTENDS X11Overlay, FiniteSets

CONSTANTS IdleTimeout, DimWarning, Debug, ServiceSets, Faults, Signals, Clients,
          Lines, None, MaxStarts,
          MaxTrouble   (* bound on what happens at once while somebody     *)
                       (* keeps the daemon company                         *)

VARIABLES pc, cont, state, last_activity, dim_deadline, services, tv, cec_dev,
          pending, conn, serving, reply, sock, inhibitors, logind_blocked, cached,
          starts, astray, quiet, warned, excused

Daemon == INSTANCE IdleDaemon WITH alpha <- desired

(* The overlay's opacities are the daemon's; its thread can always be      *)
(* spawned, so every start finds an overlay.                               *)
ASSUME SessionAssumption ==
  /\ Daemon!ConfigAssumption
  /\ Opacities = Daemon!Overlays /\ Clear = "clear"
  /\ \A set \in ServiceSets : "overlay" \in set
  /\ MaxTrouble \in Nat

machine == <<pc, cont, state, last_activity, dim_deadline, services, tv, cec_dev,
             pending, conn, serving, reply, sock, inhibitors, logind_blocked, cached,
             starts, astray, quiet, warned, excused>>
overlay == <<link, thread, window, picture, server>>
svars   == <<vars, machine>>

-----------------------------------------------------------------------------

(* The step of the daemon calls show or hide: it changes the opacity, or   *)
(* it is a wake that may find it clear already.                            *)
Calls ==
  \/ desired' # desired
  \/ pc = "select" /\ cont' = "exit"
  \/ pc = "read_line" /\ conn[serving] = "wake"

(* The daemon's task takes a step, up to its next call or await.           *)
TaskStep(A) ==
  /\ caller = "idle" /\ Len(queue) < MaxQueue
  /\ A
  /\ caller' = IF quit' # quit THEN "quit" ELSE IF Calls THEN "set" ELSE "idle"
  /\ UNCHANGED overlay

OverlayStep(A) == A /\ UNCHANGED machine

WorldStep(A) == A /\ UNCHANGED <<caller, overlay>>

(* The thread and its window end with the process, which yields no frame.  *)
ThreadEnds ==
  /\ thread' = "ended"
  /\ mapped' = FALSE /\ pixel' = Clear
  /\ UNCHANGED <<raised, picture, server>>

(* main returns once quit() has, whether or not the thread has read it.    *)
ProcessEnds ==
  /\ pc = "stopped" /\ caller = "done" /\ thread # "ended"
  /\ ThreadEnds
  /\ UNCHANGED <<handle, link, machine>>

Crash ==
  /\ Daemon!Crash
  /\ ThreadEnds
  /\ caller' = "done" /\ linked' = FALSE /\ queue' = << >>

(* A new process: a new Shared, a new thread.                              *)
Start ==
  /\ thread = "ended"
  /\ Daemon!Start
  /\ caller' = "idle" /\ linked' = FALSE /\ queue' = << >>
  /\ thread' = "check"
  /\ UNCHANGED <<window, picture, server>>

SessionInit == Init /\ Daemon!Init

(* Users, clients, applications, logind and the CEC adapter. *)
Around ==
  \/ Daemon!Input \/ Daemon!Tick \/ Daemon!PropertiesChanged \/ Daemon!Replug
  \/ \E s \in Signals : Daemon!Signal(s)
  \/ \E c \in Clients : Daemon!Connect(c) \/ Daemon!WriteLine(c)
  \/ \E kind \in Daemon!Kinds :
       Daemon!TakeInhibitor(kind) \/ Daemon!ReleaseInhibitor(kind)

SessionStep ==
  \/ TaskStep(Daemon!Handler) \/ TaskStep(Daemon!Select)
  \/ OverlayStep(HandleReturns) \/ OverlayStep(Thread) \/ OverlayStep(Compositor)
  \/ ProcessEnds \/ Crash \/ Start
  \/ WorldStep(Around)

(* A bound: outages and restarts do not meet clients, inhibitors and a     *)
(* missing adapter in every combination, but up to MaxTrouble of them.     *)
Company ==
  {c \in Clients : conn[c] # "closed"} \cup inhibitors \cup {d \in {"cec"} : ~cec_dev}

Bounded ==
  Company = {} \/ Cardinality(Company) + outages + (starts - 1) <= MaxTrouble

SessionNext == SessionStep /\ Bounded'

SessionSpec == SessionInit /\ [][SessionNext]_svars

(* As for the parts: handlers go on, select! is fair to a branch that is   *)
(* ready again and again, time passes, logind's signals arrive, clients    *)
(* write the line they connected for, the overlay thread runs.             *)
FairSession ==
  /\ SessionSpec
  /\ WF_svars(TaskStep(Daemon!Handler)) /\ WF_svars(TaskStep(Daemon!Timeout))
  /\ SF_svars(TaskStep(Daemon!RecvActivity))
  /\ WF_svars(OverlayStep(HandleReturns)) /\ WF_svars(OverlayStep(Thread))
  /\ WF_svars(WorldStep(Daemon!Tick)) /\ WF_svars(WorldStep(Daemon!PropertiesChanged))
  /\ \A c \in Clients : WF_svars(WorldStep(Daemon!WriteLine(c)))
-----------------------------------------------------------------------------
(* Properties. *)

(* A frame of ours is on the screen, and no window of ours.                *)
Orphan == picture # Clear /\ ~mapped

(* While the first process lives no frame outlives its window: the window  *)
(* is destroyed on Quit only after the hide of the shutdown was painted.   *)
(* (A process that ends before its thread has read the hide, or that is    *)
(* killed, can leave a black frame behind.)                                *)
NoOrphanFrame == Orphan => thread = "ended" \/ starts > 1

(* Daemon, thread and compositor agree: while nothing is on its way between *)
(* them, the glass shows what the state machine believes, unless a process *)
(* that is gone has left its last frame there.                             *)
GlassMatchesState ==
  Running /\ queue = << >> /\ caller = "idle" /\ Daemon!Settled
    => picture = Daemon!AlphaOf(state) \/ (Orphan /\ starts > 1)

(* Stopped, killed and started again, the daemon finds its overlay to be   *)
(* the register it was: nothing of the old life is heard in the new one.   *)
RegisterSurvives == Register!LivesSpec

(* Xwayland stays, and its display can be found. *)
Reachable == up /\ display # "unset"

(* From the input device to the glass: once gamescope is there, a touch    *)
(* uncovers the screen, unless what covers it was left by a process that   *)
(* is gone.                                                                *)
TouchLights ==
  <>[]Reachable =>
    ("act" \in pending ~> picture = Clear \/ ~Daemon!Running \/ Orphan)

(* And once everybody has left, the glass goes black and stays so.         *)
DarkWhenAlone ==
  <>[]Reachable /\ <>[]Daemon!LeftAlone => <>[](picture = "opaque")
-----------------------------------------------------------------------------
(* NoOrphanFrame, strengthened.                                            *)

(* The daemon calls quit once, when all is clear, and says nothing after   *)
(* it; the thread never hears Quit before the hide that was sent first.    *)
QuitInv ==
  /\ quit => pc = "stopped"
  /\ caller \in {"quit", "done"} => pc \in {"stopped", "crashed"} /\ desired = Clear
  /\ caller # "done" => \A i \in 1 .. Len(queue) : queue[i] # Quit
  /\ caller = "quit" /\ InLoop => LastWord = Clear
  /\ caller = "quit" /\ thread = "setup" /\ queue # << >> => queue[Len(queue)] = Clear
  /\ InLoop \/ thread = "setup" =>
       \A i \in 1 .. Len(queue) : queue[i] = Quit =>
         IF i = 1 THEN pixel = Clear ELSE queue[i - 1] = Clear

(* What is on the screen is ours while the window is mapped, which it is   *)
(* only under a connection, and nothing of it under a broken one.          *)
FrameInv ==
  /\ mapped => InLoop
  /\ thread # "ended" /\ starts = 1 => (mapped /\ ~broken) \/ picture = Clear
=============================================================================
