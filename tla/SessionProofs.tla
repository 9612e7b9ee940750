--------------------------- MODULE SessionProofs ---------------------------
(***************************************************************************)
(* Proofs about Session.  A step of the session is a step of its daemon    *)
(* and, until the process ends, one of its overlay: what is proved of the  *)
(* parts carries over.  Proved is the daemon with its theorems.            *)
(***************************************************************************)
EXTENDS Session, X11OverlayProofs, TLAPS

Proved == INSTANCE IdleDaemonProofs WITH alpha <- desired

(* Daemon and Proved are two names of one specification. *)
LEMMA SameConfig == Proved!ConfigAssumption
  BY SessionAssumption
  DEF SessionAssumption, Daemon!ConfigAssumption, Daemon!Services, Daemon!FaultKinds,
      Daemon!SignalKinds, Daemon!LineKinds, Daemon!Commands, Proved!ConfigAssumption,
      Proved!Services, Proved!FaultKinds, Proved!SignalKinds, Proved!LineKinds,
      Proved!Commands

LEMMA SameInit == Daemon!Init <=> Proved!Init
  BY DEF Daemon!Init, Daemon!NoConnections, Proved!Init,
     Proved!NoConnections

LEMMA SameHandler == Daemon!Handler <=> Proved!Handler
  BY DEF Daemon!Handler, Daemon!StandbyDone, Daemon!ViewOnDone,
     Daemon!ActiveSourceDone, Daemon!LogindAnswers, Daemon!LogindUnreadable,
     Daemon!Defer, Daemon!HoldersListed, Daemon!StartDim, Daemon!SkipDim,
     Daemon!ControlBlank, Daemon!ControlWake, Daemon!ControlStatus,
     Daemon!ControlDone, Daemon!Exit, Daemon!CecRun, Daemon!SkipCec, Daemon!Held,
     Daemon!Decided,
     Daemon!Blocked, Daemon!ScreensaverBlocked, Daemon!EnterDim,
     Daemon!EnterBlack, Daemon!ForceBlank, Daemon!Wake, Daemon!Show,
     Daemon!CecActive, Daemon!EndOfProcess, Daemon!NoConnections,
     Daemon!clocks, Daemon!control, Daemon!query, Daemon!panel,
     Daemon!world, Proved!Handler, Proved!StandbyDone, Proved!ViewOnDone,
     Proved!ActiveSourceDone, Proved!LogindAnswers, Proved!LogindUnreadable,
     Proved!Defer, Proved!HoldersListed, Proved!StartDim, Proved!SkipDim,
     Proved!ControlBlank, Proved!ControlWake, Proved!ControlStatus,
     Proved!ControlDone, Proved!Exit, Proved!CecRun, Proved!SkipCec, Proved!Held,
     Proved!Decided,
     Proved!Blocked, Proved!ScreensaverBlocked, Proved!EnterDim,
     Proved!EnterBlack, Proved!ForceBlank, Proved!Wake, Proved!Show,
     Proved!CecActive, Proved!EndOfProcess, Proved!NoConnections,
     Proved!clocks, Proved!control, Proved!query, Proved!panel, Proved!world

LEMMA SameSelect == Daemon!Select <=> Proved!Select
  BY DEF Daemon!Select, Daemon!RecvActivity, Daemon!RecvUsr1,
     Daemon!RecvUsr2, Daemon!RecvStop, Daemon!Timeout, Daemon!ActiveTimeout,
     Daemon!DimTimeout, Daemon!BlackTimeout, Daemon!Accept, Daemon!Receive,
     Daemon!OnActivity, Daemon!ForceBlank, Daemon!EnterBlack, Daemon!Wake,
     Daemon!Show, Daemon!SkipCec, Daemon!CecActive, Daemon!Told, Daemon!task, Daemon!clocks,
     Daemon!control, Daemon!query, Daemon!panel, Daemon!world,
     Proved!Select, Proved!RecvActivity, Proved!RecvUsr1, Proved!RecvUsr2,
     Proved!RecvStop, Proved!Timeout, Proved!ActiveTimeout,
     Proved!DimTimeout, Proved!BlackTimeout, Proved!Accept, Proved!Receive,
     Proved!OnActivity, Proved!ForceBlank, Proved!EnterBlack, Proved!Wake,
     Proved!Show, Proved!SkipCec, Proved!CecActive, Proved!Told, Proved!task, Proved!clocks,
     Proved!control, Proved!query, Proved!panel, Proved!world

LEMMA SameWorld == Daemon!World <=> Proved!World
  BY DEF Daemon!World, Daemon!Input, Daemon!Replug, Daemon!Tick,
     Daemon!Crash, Daemon!Start, Daemon!PropertiesChanged, Daemon!Signal,
     Daemon!Connect, Daemon!WriteLine, Daemon!TakeInhibitor,
     Daemon!ReleaseInhibitor, Daemon!Kinds, Daemon!Running,
     Daemon!EndOfProcess, Daemon!NoConnections, Daemon!Held, Daemon!CountTo, Daemon!task,
     Daemon!clocks, Daemon!control, Daemon!query, Daemon!panel,
     Daemon!world, Proved!World, Proved!Input, Proved!Replug, Proved!Tick,
     Proved!Crash, Proved!Start, Proved!PropertiesChanged, Proved!Signal,
     Proved!Connect, Proved!WriteLine, Proved!TakeInhibitor,
     Proved!ReleaseInhibitor, Proved!Kinds, Proved!Running,
     Proved!EndOfProcess, Proved!NoConnections, Proved!Held, Proved!CountTo, Proved!task,
     Proved!clocks, Proved!control, Proved!query, Proved!panel, Proved!world

LEMMA SameStep == [Daemon!Next]_Daemon!vars <=> [Proved!Next]_Proved!vars
<1>1. Daemon!vars = Proved!vars /\ (UNCHANGED Daemon!vars <=> UNCHANGED Proved!vars)
    BY DEF Daemon!vars, Daemon!task, Daemon!clocks, Daemon!control,
     Daemon!query, Daemon!panel, Daemon!world, Proved!vars, Proved!task,
     Proved!clocks, Proved!control, Proved!query, Proved!panel, Proved!world
<1>2. QED
  BY <1>1, SameHandler, SameSelect, SameWorld DEF Daemon!Next, Proved!Next
-----------------------------------------------------------------------------
(* The composition adds nothing to what the daemon may do: a step of the   *)
(* session is a step of its daemon or leaves it alone.                     *)
LEMMA AroundIsWorld == Around => Daemon!World
  BY DEF Around, Daemon!World

LEMMA DaemonStep == [SessionNext]_svars => [Daemon!Next]_Daemon!vars
<1> SUFFICES ASSUME [SessionNext]_svars PROVE [Daemon!Next]_Daemon!vars
  OBVIOUS
<1>1. CASE TaskStep(Daemon!Handler) \/ TaskStep(Daemon!Select)
  BY <1>1 DEF TaskStep, Daemon!Next
<1>2. CASE WorldStep(Around)
  BY <1>2, AroundIsWorld DEF WorldStep, Daemon!Next
<1>3. CASE Crash \/ Start
  BY <1>3 DEF Crash, Start, Daemon!Next, Daemon!World
<1>4. CASE UNCHANGED <<desired, quit, machine>>
  BY <1>4 DEF machine, Daemon!vars, Daemon!task, Daemon!clocks, Daemon!control,
              Daemon!query, Daemon!panel, Daemon!world
<1>5. CASE OverlayStep(HandleReturns)
  BY <1>4, <1>5 DEF OverlayStep, HandleReturns, SendAlpha, SendQuit
<1>6. CASE OverlayStep(Thread)
  <2>1. Thread => UNCHANGED handle
    BY DEF Thread, CheckQuit, Connect, Publish, Setup, ConnectionLost, NoVisual, Unlink,
           Recheck, OnShow, OnHide, Lower, OnQuit, RunReturns
  <2>2. QED
    BY <1>4, <1>6, <2>1 DEF OverlayStep, handle
<1>7. CASE OverlayStep(Compositor)
  BY <1>4, <1>7 DEF OverlayStep, Compositor, Recomposite, GoAway, ComeBack,
                    WriteEnvironment, handle
<1>8. CASE ProcessEnds
  BY <1>4, <1>8 DEF ProcessEnds, handle
<1>9. CASE UNCHANGED svars
  BY <1>4, <1>9 DEF svars, vars, handle
<1>10. QED
  BY <1>1, <1>2, <1>3, <1>5, <1>6, <1>7, <1>8, <1>9 DEF SessionNext, SessionStep

(* The daemon of the session is the daemon: whatever IdleDaemonProofs      *)
(* shows of it holds with the real overlay attached.                       *)
THEOREM DaemonImplemented == SessionSpec => Daemon!Spec
<1>1. SessionInit => Daemon!Init
  BY DEF SessionInit
<1>2. QED
  BY <1>1, DaemonStep, PTL DEF SessionSpec, Daemon!Spec

LEMMA ProvedImplemented == SessionSpec => Proved!Spec
  BY DaemonImplemented, SameInit, SameStep, PTL DEF Daemon!Spec, Proved!Spec

(* The promises of the daemon hold in front of the real overlay: whatever  *)
(* clients write, applications hold and failures meet a restart of         *)
(* gamescope, replies are true, inhibitors and warnings respected and the  *)
(* TV, unless astray, follows the state.                                   *)
THEOREM PromisesCarried ==
  SessionSpec =>
    /\ [](Proved!OverlayMatchesState /\ Proved!CleanExit /\ Proved!RepliesTruthful)
    /\ []Proved!TvMatchesState
    /\ Proved!FullWarning /\ Proved!InhibitorRespected /\ Proved!BlankOnlyWhenQuiet
  BY ProvedImplemented, SameConfig, Proved!OverlayCorrect, Proved!ExitCorrect,
     Proved!TvCorrect, Proved!RepliesCorrect, Proved!WarningCorrect, Proved!InhibitorCorrect,
     Proved!QuietCorrect, PTL

(* Types and the agreement of overlay, state and shutdown, carried over.   *)
LEMMA DaemonInvariants == SessionSpec => [](Proved!TypeOK /\ Proved!PanelInv)
  BY ProvedImplemented, SameConfig, Proved!TypeCorrect, Proved!PanelAlways, PTL
-----------------------------------------------------------------------------
(* A step of the daemon's task is seen by the overlay as a call of show or *)
(* hide, as the one call of quit, or not at all.                           *)
LEMMA HandlerQuits ==
  ASSUME Proved!TypeOK, Daemon!Handler
  PROVE  /\ starts' = starts
         /\ pc \notin {"stopped", "crashed"}
         /\ \/ quit' = quit
            \/ pc = "exit" /\ quit' = TRUE /\ pc' = "stopped" /\ desired' = desired
<1>1. ASSUME Proved!Exit
      PROVE  /\ pc = "exit" /\ quit' = TRUE /\ pc' = "stopped" /\ desired' = desired
             /\ starts' = starts
  BY <1>1, SessionAssumption DEF SessionAssumption, Proved!Exit, Proved!TypeOK
<1>2. QED
  BY <1>1, SameHandler
  DEF Proved!Handler, Proved!StandbyDone, Proved!ViewOnDone,
     Proved!ActiveSourceDone, Proved!LogindAnswers, Proved!LogindUnreadable,
     Proved!Defer, Proved!HoldersListed, Proved!StartDim, Proved!SkipDim,
     Proved!ControlBlank, Proved!ControlWake, Proved!ControlStatus,
     Proved!ControlDone, Proved!EnterDim, Proved!EnterBlack, Proved!ForceBlank,
     Proved!Wake, Proved!panel, Proved!world

LEMMA SelectKeepsQuit ==
  ASSUME Daemon!Select
  PROVE  quit' = quit /\ starts' = starts /\ pc \notin {"stopped", "crashed"}
<1>1. Proved!Select
  BY SameSelect
<1>2. QED
  BY <1>1 DEF Proved!Select, Proved!RecvActivity, Proved!RecvUsr1, Proved!RecvUsr2,
     Proved!RecvStop, Proved!Receive, Proved!Timeout, Proved!ActiveTimeout,
     Proved!DimTimeout, Proved!BlackTimeout, Proved!Accept, Proved!panel, Proved!world

LEMMA TaskCalls ==
  ASSUME TypeOK, Proved!TypeOK, QuitInv,
         TaskStep(Daemon!Handler) \/ TaskStep(Daemon!Select)
  PROVE  /\ starts' = starts
         /\ \/ StoreQuit /\ pc = "exit" /\ pc' = "stopped"
            \/ /\ quit = FALSE
               /\ (\E a \in Opacities : SetAlpha(a)) \/ UNCHANGED vars
<1>1. Proved!TypeOK'
  <2>1. Daemon!Next
    BY DEF TaskStep, Daemon!Next
  <2>2. QED
    BY <2>1, SameStep, SameConfig, Proved!TypeStep
<1>2. desired' \in Opacities
  BY <1>1, SessionAssumption DEF SessionAssumption, Proved!TypeOK, Proved!Overlays,
     Daemon!Overlays
<1>3. /\ starts' = starts /\ pc \notin {"stopped", "crashed"}
      /\ \/ quit' = quit
         \/ pc = "exit" /\ quit' = TRUE /\ pc' = "stopped" /\ desired' = desired
  BY HandlerQuits, SelectKeepsQuit DEF TaskStep
<1>4. quit = FALSE
  BY <1>3 DEF QuitInv, TypeOK
<1>5. CASE quit' = quit
  <2>1. CASE Calls
    <3>1. SetAlpha(desired')
      BY <1>5, <2>1 DEF TaskStep, SetAlpha, overlay
    <3>2. QED
      BY <1>2, <1>3, <1>4, <3>1
  <2>2. CASE ~Calls
    <3>1. desired' = desired
      BY <2>2 DEF Calls
    <3>2. UNCHANGED vars
      BY <1>5, <2>2, <3>1 DEF TaskStep, overlay, vars, handle, TypeOK
    <3>3. QED
      BY <1>3, <1>4, <3>2
  <2>3. QED
    BY <2>1, <2>2
<1>6. CASE pc = "exit" /\ quit' = TRUE /\ pc' = "stopped" /\ desired' = desired
  BY <1>3, <1>4, <1>6 DEF TaskStep, StoreQuit, overlay
<1>7. QED
  BY <1>3, <1>5, <1>6

(* Nobody around the daemon touches the handle, or starts or ends it.      *)
LEMMA AroundKeepsHandle == ASSUME Around PROVE UNCHANGED <<desired, quit, pc, starts>>
<1> USE DEF Daemon!task, Daemon!panel, Daemon!world
<1>1. CASE Daemon!Input \/ Daemon!Tick \/ Daemon!PropertiesChanged \/ Daemon!Replug
  BY <1>1 DEF Daemon!Input, Daemon!Tick, Daemon!PropertiesChanged, Daemon!Replug
<1>2. CASE \E s \in Signals : Daemon!Signal(s)
  BY <1>2 DEF Daemon!Signal
<1>3. CASE \E c \in Clients : Daemon!Connect(c) \/ Daemon!WriteLine(c)
  BY <1>3 DEF Daemon!Connect, Daemon!WriteLine
<1>4. CASE \E kind \in Daemon!Kinds :
             Daemon!TakeInhibitor(kind) \/ Daemon!ReleaseInhibitor(kind)
  BY <1>4 DEF Daemon!TakeInhibitor, Daemon!ReleaseInhibitor
<1>5. QED
  BY <1>1, <1>2, <1>3, <1>4 DEF Around

(* Between the start and the end of a process the overlay is X11Overlay,   *)
(* called by the daemon or left to its thread and the compositor.          *)
LEMMA OverlayTakesPart ==
  ASSUME TypeOK, Proved!TypeOK, QuitInv, [SessionNext]_svars
  PROVE  \/ /\ starts' = starts
            /\ \/ StoreQuit /\ pc = "exit" /\ pc' = "stopped"
               \/ /\ quit = FALSE /\ caller = "idle"
                  /\ (\E a \in Opacities : SetAlpha(a)) \/ UNCHANGED vars
         \/ /\ starts' = starts /\ pc' = pc
            /\ HandleReturns \/ Thread \/ Compositor \/ UNCHANGED vars
         \/ ProcessEnds \/ Crash \/ Start
<1>1. CASE TaskStep(Daemon!Handler) \/ TaskStep(Daemon!Select)
  BY <1>1, TaskCalls DEF TaskStep
<1>2. CASE OverlayStep(HandleReturns) \/ OverlayStep(Thread) \/ OverlayStep(Compositor)
  BY <1>2 DEF OverlayStep, machine
<1>3. CASE WorldStep(Around)
  BY <1>3, AroundKeepsHandle DEF WorldStep, vars, handle, overlay
<1>4. CASE UNCHANGED svars
  BY <1>4 DEF svars, machine
<1>5. QED
  BY <1>1, <1>2, <1>3, <1>4 DEF SessionNext, SessionStep

(* What the overlay alone keeps, the start and the end of a process keep.  *)
LEMMA LifetimeKeepsOverlay ==
  ASSUME TypeOK, WordInv, NoStaleFrame, ProcessEnds \/ Crash \/ Start
  PROVE  TypeOK' /\ WordInv' /\ NoStaleFrame'
<1> USE X11Assumption, SessionAssumption
    DEF X11Assumption, SessionAssumption, TypeOK, WordInv, HearsTheLastWord, NoStaleFrame,
        Running, InLoop, handle, link, window, server
<1>1. CASE ProcessEnds
  <2>1. mapped' \in BOOLEAN
    BY <1>1, Zenon DEF ProcessEnds, ThreadEnds
  <2>2. QED  BY <1>1, <2>1 DEF ProcessEnds, ThreadEnds
<1>2. CASE Crash
  <2>1. mapped' \in BOOLEAN /\ linked' \in BOOLEAN
    BY <1>2, Zenon DEF Crash, ThreadEnds
  <2>2. queue' \in Seq(Opacities \cup {Quit})
    BY <1>2 DEF Crash
  <2>3. desired' = Clear /\ quit' = quit
    BY <1>2 DEF Crash, Daemon!Crash
  <2>4. QED  BY <1>2, <2>1, <2>2, <2>3 DEF Crash, ThreadEnds
<1>3. CASE Start
  <2>1. quit' \in BOOLEAN /\ linked' \in BOOLEAN
    BY <1>3, Zenon DEF Start, Daemon!Start
  <2>2. queue' \in Seq(Opacities \cup {Quit})
    BY <1>3 DEF Start
  <2>3. desired' = Clear
    BY <1>3 DEF Start, Daemon!Start
  <2>4. QED  BY <1>3, <2>1, <2>2, <2>3 DEF Start
<1>4. QED
  BY <1>1, <1>2, <1>3

LEMMA OverlayKept ==
  ASSUME TypeOK, WordInv, NoStaleFrame, Proved!TypeOK, QuitInv, [SessionNext]_svars
  PROVE  TypeOK' /\ WordInv' /\ NoStaleFrame'
  BY OverlayTakesPart, LifetimeKeepsOverlay, TypeStep, WordStep, FrameStep DEF Next
-----------------------------------------------------------------------------
(* Shutdown is the last thing the daemon says, and the hide before it is   *)
(* heard first.                                                            *)
LEMMA QuitStep ==
  ASSUME TypeOK, WordInv, Proved!TypeOK, Proved!PanelInv, QuitInv, FrameInv,
         [SessionNext]_svars
  PROVE  QuitInv'
<1> USE DEF TypeOK, QuitInv, LastWord, Running, InLoop, handle, link, window, server
<1> Quit \notin Opacities
  BY SessionAssumption DEF SessionAssumption, Daemon!Overlays, Quit
<1>1. CASE StoreQuit /\ pc = "exit" /\ pc' = "stopped"
  <2>1. desired = Clear
    BY <1>1, SessionAssumption
    DEF SessionAssumption, Proved!TypeOK, Proved!PanelInv, Proved!OverlayMatchesState,
        Proved!Settled, Proved!AlphaOf, Proved!CecCalls
  <2>2. QED
    BY <1>1, <2>1 DEF StoreQuit, WordInv, HearsTheLastWord
<1>2. CASE /\ quit = FALSE /\ caller = "idle"
           /\ (\E a \in Opacities : SetAlpha(a)) \/ UNCHANGED vars
  BY <1>2 DEF SetAlpha, vars
<1>3. CASE pc' = pc /\ HandleReturns
  <2>1. CASE SendAlpha
    <3>1. \A i \in 1 .. Len(queue') : queue'[i] # Quit
      BY <2>1 DEF SendAlpha, Send
    <3>2. QED
      BY <1>3, <2>1, <3>1 DEF SendAlpha
  <2>2. CASE SendQuit
    <3>1. \A i \in 1 .. Len(queue) : queue[i] # Quit
      BY <2>2 DEF SendQuit
    <3>2. InLoop \/ thread = "setup" =>
            IF queue = << >> THEN pixel = Clear ELSE queue[Len(queue)] = Clear
      BY <2>2 DEF SendQuit, WordInv, FrameInv
    <3>3. ASSUME InLoop \/ thread = "setup", NEW i \in 1 .. Len(queue'), queue'[i] = Quit
          PROVE  IF i = 1 THEN pixel = Clear ELSE queue'[i - 1] = Clear
      BY <2>2, <3>1, <3>2, <3>3 DEF SendQuit, Send
    <3>4. QED
      BY <1>3, <2>2, <3>3 DEF SendQuit
  <2>3. QED
    BY <1>3, <2>1, <2>2 DEF HandleReturns
<1>4. CASE pc' = pc /\ (CheckQuit \/ Connect \/ Recheck \/ Publish \/ Unlink \/ Lower)
  BY <1>4 DEF CheckQuit, Connect, Recheck, Publish, Unlink, Lower
<1>5. CASE pc' = pc /\ (ConnectionLost \/ NoVisual)
  BY <1>5 DEF ConnectionLost, NoVisual, RunReturns
<1>6. CASE pc' = pc /\ OnQuit
  <2>1. \A i \in 1 .. Len(queue') : queue'[i] = queue[i + 1] /\ i + 1 \in 1 .. Len(queue)
    BY <1>6 DEF OnQuit
  <2>2. QED
    BY <1>6, <2>1 DEF OnQuit, RunReturns
<1>7. CASE pc' = pc /\ Setup
  BY <1>7 DEF Setup, ShowWindow
<1>8. CASE pc' = pc /\ (OnShow \/ OnHide)
  <2>1. \A i \in 1 .. Len(queue') : queue'[i] = queue[i + 1] /\ i + 1 \in 1 .. Len(queue)
    BY <1>8 DEF OnShow, OnHide
  <2>2. LastWord' = LastWord
    BY <1>8, LastOfTail DEF OnShow, OnHide, ShowWindow, WordInv
  <2>3. ASSUME NEW i \in 1 .. Len(queue'), queue'[i] = Quit
        PROVE  IF i = 1 THEN pixel' = Clear ELSE queue'[i - 1] = Clear
    <3>1. queue[i + 1] = Quit /\ queue[i] = Clear
      BY <1>8, <2>1, <2>3 DEF OnShow, OnHide
    <3>2. CASE i = 1
      BY <1>8, <3>1, <3>2 DEF OnShow, OnHide, WordInv
    <3>3. CASE i > 1
      BY <2>1, <3>1, <3>3
    <3>4. QED
      BY <3>2, <3>3
  <2>4. QED
    BY <1>8, <2>1, <2>2, <2>3 DEF OnShow, OnHide
<1>9. CASE pc' = pc /\ Compositor
  BY <1>9 DEF Compositor, Recomposite, GoAway, ComeBack, WriteEnvironment
<1>10. CASE pc' = pc /\ UNCHANGED vars
  BY <1>10 DEF vars
<1>11. CASE ProcessEnds
  BY <1>11 DEF ProcessEnds, ThreadEnds, machine
<1>12. CASE Crash
  <2>1. pc' = "crashed" /\ pc # "stopped" /\ desired' = Clear /\ quit' = quit
    BY <1>12, SessionAssumption
    DEF SessionAssumption, Crash, Daemon!Crash, Daemon!Running
  <2>2. QED
    BY <1>12, <2>1 DEF Crash, ThreadEnds
<1>13. CASE Start
  BY <1>13 DEF Start, Daemon!Start
<1>14. QED
  BY <1>1, <1>2, <1>3, <1>4, <1>5, <1>6, <1>7, <1>8, <1>9, <1>10, <1>11, <1>12, <1>13,
     OverlayTakesPart DEF Thread

(* A frame of this process has its window under it. *)
LEMMA FrameInvStep ==
  ASSUME TypeOK, NoStaleFrame, Proved!TypeOK, WordInv, QuitInv, FrameInv,
         [SessionNext]_svars
  PROVE  FrameInv'
<1> USE DEF TypeOK, NoStaleFrame, FrameInv, Running, InLoop, handle, link, window, server
<1>1. CASE /\ starts' = starts
           /\ StoreQuit \/ (\E a \in Opacities : SetAlpha(a)) \/ UNCHANGED vars
  BY <1>1 DEF StoreQuit, SetAlpha, vars
<1>2. CASE starts' = starts /\ HandleReturns
  BY <1>2 DEF HandleReturns, SendAlpha, SendQuit
<1>3. CASE starts' = starts /\ (CheckQuit \/ Connect \/ Recheck \/ Publish \/ Unlink \/ Lower)
  BY <1>3 DEF CheckQuit, Connect, Recheck, Publish, Unlink, Lower
<1>4. CASE starts' = starts /\ (ConnectionLost \/ NoVisual)
  BY <1>4 DEF ConnectionLost, NoVisual, RunReturns
<1>5. CASE starts' = starts /\ OnQuit
  <2>1. pixel = Clear
    BY <1>5 DEF OnQuit, QuitInv
  <2>2. QED
    BY <1>5, <2>1 DEF OnQuit, RunReturns
<1>6. CASE starts' = starts /\ (Setup \/ OnShow \/ OnHide)
  BY <1>6 DEF Setup, OnShow, OnHide, ShowWindow
<1>7. CASE starts' = starts /\ Compositor
  BY <1>7 DEF Compositor, Recomposite, GoAway, ComeBack, WriteEnvironment
<1>8. CASE ProcessEnds \/ Crash
  BY <1>8 DEF ProcessEnds, Crash, ThreadEnds
<1>9. CASE Start
  BY <1>9 DEF Start, Daemon!Start, Proved!TypeOK
<1>10. QED
  BY <1>1, <1>2, <1>3, <1>4, <1>5, <1>6, <1>7, <1>8, <1>9, OverlayTakesPart DEF Thread

SessionInv == TypeOK /\ WordInv /\ NoStaleFrame /\ QuitInv /\ FrameInv

LEMMA SessionAlways == SessionSpec => []SessionInv
<1>1. SessionInit => SessionInv
  <2>1. Init => TypeOK
    BY TypeInit
  <2>2. QED
    BY <2>1, SessionAssumption
    DEF SessionInit, SessionInv, Init, WordInv, HearsTheLastWord, NoStaleFrame, InLoop,
        QuitInv, FrameInv
<1>2. SessionInv /\ Proved!TypeOK /\ Proved!PanelInv /\ [SessionNext]_svars => SessionInv'
  BY OverlayKept, QuitStep, FrameInvStep DEF SessionInv
<1>3. QED
  BY <1>1, <1>2, DaemonInvariants, PTL DEF SessionSpec

(* With the daemon as caller and processes that end and start again, every *)
(* variable of the overlay keeps its type and its sender its connection.   *)
THEOREM SessionTypes == SessionSpec => []TypeOK
<1>1. SessionInv => TypeOK
  BY DEF SessionInv
<1>2. QED
  BY <1>1, SessionAlways, PTL

(* Nor does the daemon find an interleaving of calls and reconnects after  *)
(* which the window settles on another opacity than it asked for last.     *)
THEOREM SessionWord == SessionSpec => []HearsTheLastWord
<1>1. SessionInv => HearsTheLastWord
  BY DEF SessionInv, WordInv
<1>2. QED
  BY <1>1, SessionAlways, PTL

(* The frame of a mapped window is its last one, in every process.         *)
THEOREM SessionFrames == SessionSpec => []NoStaleFrame
<1>1. SessionInv => NoStaleFrame
  BY DEF SessionInv
<1>2. QED
  BY <1>1, SessionAlways, PTL

(* The first process leaves no frame without its window while it lives,    *)
(* the shutdown that destroys the window included.                         *)
THEOREM NothingOrphaned == SessionSpec => []NoOrphanFrame
<1>1. SessionInv /\ Proved!TypeOK => NoOrphanFrame
  BY DEF SessionInv, FrameInv, NoOrphanFrame, Orphan, Proved!TypeOK
<1>2. QED
  BY <1>1, SessionAlways, DaemonInvariants, PTL

(* Whenever nothing is on its way between them, the compositor shows what  *)
(* the state machine believes: the promise that daemon, handle, thread and *)
(* window keep only together.                                              *)
THEOREM GlassCorrect == SessionSpec => []GlassMatchesState
<1>1. SessionInv /\ Proved!TypeOK /\ Proved!PanelInv => GlassMatchesState
  <2> SUFFICES ASSUME SessionInv, Proved!TypeOK, Proved!PanelInv, Running, queue = << >>,
                      caller = "idle", Daemon!Settled
               PROVE  picture = Daemon!AlphaOf(state) \/ (Orphan /\ starts > 1)
    BY DEF GlassMatchesState
  <2>1. desired = Daemon!AlphaOf(state)
    BY SessionAssumption
    DEF SessionAssumption, Proved!TypeOK, Proved!PanelInv, Proved!OverlayMatchesState,
        Proved!Settled, Proved!AlphaOf, Proved!CecCalls, Daemon!Settled, Daemon!AlphaOf,
        Daemon!CecCalls
  <2>2. pixel = desired
    BY DEF SessionInv, WordInv, HearsTheLastWord, LastWord, Running, InLoop
  <2>3. CASE mapped
    BY <2>1, <2>2, <2>3 DEF SessionInv, NoStaleFrame, Running, InLoop
  <2>4. CASE ~mapped
    BY <2>1, <2>2, <2>4
    DEF SessionInv, WordInv, FrameInv, Running, Orphan, Proved!TypeOK
  <2>5. QED
    BY <2>3, <2>4
<1>2. QED
  BY <1>1, SessionAlways, DaemonInvariants, PTL
-----------------------------------------------------------------------------
(* Two refinements meet: the overlay stays a register to the daemon across *)
(* the lives of processes, and the daemon keeps PanelProtocol with it.     *)
LEMMA SessionRegisterStep ==
  ASSUME SessionInv, Proved!TypeOK, [SessionNext]_svars
  PROVE  [Register!RegisterNext \/ Register!Reset]_Register!registerVars
<1> USE DEF SessionInv
<1>1. NoQuitYet
  BY DEF NoQuitYet, QuitInv
<1>2. CASE [Next]_vars
  BY <1>1, <1>2, RegisterStep
<1>3. CASE ProcessEnds
  BY <1>3, Lost DEF ProcessEnds, ThreadEnds, handle, Serving, InLoop
<1>4. CASE Crash
  <2>1. desired' = Clear
    BY <1>4, SessionAssumption DEF SessionAssumption, Crash, Daemon!Crash
  <2>2. Register!Reset
    BY <1>4, <2>1 DEF Crash, ThreadEnds, Serving, InLoop, Register!Reset
  <2>3. QED  BY <2>2
<1>5. CASE Start
  <2>1. desired' = Clear
    BY <1>5, SessionAssumption DEF SessionAssumption, Start, Daemon!Start
  <2>2. Register!Reset
    BY <1>5, <2>1 DEF Start, Serving, InLoop, Register!Reset
  <2>3. QED  BY <2>2
<1>6. QED
  BY <1>2, <1>3, <1>4, <1>5, OverlayTakesPart DEF Next

(* Stopped, killed and started again, the daemon finds a register.         *)
THEOREM SessionRegister == SessionSpec => RegisterSurvives
<1>1. SessionInit => Register!RegisterInit
  BY DEF SessionInit, Init, Register!RegisterInit, Serving, InLoop
<1>2. SessionInv /\ Proved!TypeOK /\ [SessionNext]_svars
        => [Register!RegisterNext \/ Register!Reset]_Register!registerVars
  BY SessionRegisterStep
<1>3. QED
  BY <1>1, <1>2, SessionAlways, DaemonInvariants, PTL
  DEF SessionSpec, RegisterSurvives, Register!LivesSpec

(* With a CEC that works, and a process nobody kills, what the daemon asks *)
(* of the real overlay and of the TV follows PanelProtocol.                *)
THEOREM PanelCarried ==
  ASSUME Proved!NoTvFaults
  PROVE  SessionSpec => Proved!Panel!PanelSpec
<1>1. Proved!OverlayEverywhere
  BY SessionAssumption DEF SessionAssumption, Proved!OverlayEverywhere
<1>2. Proved!Spec => Proved!Panel!PanelSpec
  BY <1>1, SameConfig, Proved!NoTvFaults, Proved!PanelRefined
<1>3. QED
  BY <1>2, ProvedImplemented, PTL
=============================================================================
