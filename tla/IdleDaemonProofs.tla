-------------------------- MODULE IdleDaemonProofs --------------------------
(***************************************************************************)
(* Proofs about IdleDaemon, for every value of its constants.              *)
(***************************************************************************)
EXTENDS IdleDaemon, TLAPS

(* The type invariant is inductive by itself. *)
LEMMA TypeInit == Init => TypeOK
<1> SUFFICES ASSUME Init PROVE TypeOK
  OBVIOUS
<1>1. quit \in BOOLEAN /\ sock \in BOOLEAN /\ logind_blocked \in BOOLEAN
      /\ excused \in BOOLEAN /\ astray \in BOOLEAN
  BY Zenon DEF Init
<1>2. conn \in [Clients -> {"closed", "open"} \cup Lines]
  BY DEF Init, NoConnections
<1>3. QED
  BY <1>1, <1>2, ConfigAssumption
  DEF ConfigAssumption, Init, TypeOK, Kinds, InControl, CecCalls, Overlays, Resumes,
      ReplyTexts

(* The history variables and locals that a step sets are truth values.     *)
LEMMA SkipType == ASSUME SkipCec PROVE astray' \in BOOLEAN
  BY Zenon DEF SkipCec

LEMMA RunType ==
  ASSUME TypeOK, NEW power \in {"on", "standby"}, CecRun(power)
  PROVE  tv' \in {"on", "standby"} /\ astray' \in BOOLEAN
<1>1. astray' \in BOOLEAN
  BY Zenon DEF CecRun
<1>2. QED
  BY <1>1 DEF CecRun, TypeOK

LEMMA DecidedType ==
  Decided => logind_blocked' \in BOOLEAN /\ excused' \in BOOLEAN /\ cached' = cached
  BY Zenon DEF Decided

LEMMA TypeStep == TypeOK /\ [Next]_vars => TypeOK'
<1> SUFFICES ASSUME TypeOK, [Next]_vars PROVE TypeOK'
  OBVIOUS
<1> USE ConfigAssumption DEF ConfigAssumption, TypeOK, task, clocks, control, panel, query,
    world, Kinds, InControl, CecCalls, Overlays, Resumes, ReplyTexts
<1>1. CASE Handler
  <2>1. CASE StandbyDone  BY <2>1, RunType DEF StandbyDone
  <2>2. CASE ViewOnDone  BY <2>2, RunType DEF ViewOnDone
  <2>3. CASE ActiveSourceDone  BY <2>3 DEF ActiveSourceDone
  <2>4. CASE LogindAnswers  BY <2>4 DEF LogindAnswers, Held
  <2>5. CASE LogindUnreadable
    <3>1. excused' \in BOOLEAN /\ logind_blocked' \in BOOLEAN
      BY <2>5, Zenon DEF LogindUnreadable
    <3>2. QED  BY <2>5, <3>1 DEF LogindUnreadable
  <2>6. CASE Defer  BY <2>6, DecidedType DEF Defer
  <2>7. CASE HoldersListed  BY <2>7 DEF HoldersListed
  <2>8. CASE StartDim  BY <2>8, DecidedType DEF StartDim, EnterDim, Show
  <2>9. CASE SkipDim  BY <2>9, SkipType, DecidedType DEF SkipDim, EnterBlack, Show
  <2>10. CASE ControlBlank  BY <2>10, SkipType DEF ControlBlank, ForceBlank, EnterBlack, Show
  <2>11. CASE ControlWake  BY <2>11, SkipType DEF ControlWake, Wake, Show
  <2>12. CASE ControlStatus  BY <2>12 DEF ControlStatus
  <2>13. CASE ControlDone  BY <2>13 DEF ControlDone
  <2>14. CASE Exit
    <3>1. quit' = TRUE \/ quit' = FALSE
      BY <2>14 DEF Exit
    <3>2. conn' \in [Clients -> {"closed", "open"} \cup Lines]
      BY <2>14 DEF Exit, EndOfProcess, NoConnections
    <3>3. quit' \in BOOLEAN
      BY <3>1
    <3>4. UNCHANGED <<state, clocks, alpha, tv, cec_dev, astray, services, starts>>
          /\ cont' = "select" /\ logind_blocked' = FALSE /\ cached' = "unread" /\ excused' = FALSE
          /\ pc' = "stopped" /\ pending' = {} /\ serving' = None /\ reply' = "none"
          /\ inhibitors' \subseteq Kinds /\ sock' \in BOOLEAN
      BY <2>14 DEF Exit, EndOfProcess
    <3>5. QED  BY <3>2, <3>3, <3>4
  <2>15. QED  BY <1>1, <2>1, <2>2, <2>3, <2>4, <2>5, <2>6, <2>7, <2>8, <2>9, <2>10,
                 <2>11, <2>12, <2>13, <2>14 DEF Handler
<1>2. CASE Select
  <2>1. CASE RecvActivity  BY <2>1, SkipType DEF RecvActivity, Receive, OnActivity, Wake, Show
  <2>2. CASE RecvUsr1  BY <2>2, SkipType DEF RecvUsr1, Receive, ForceBlank, EnterBlack, Show
  <2>3. CASE RecvUsr2  BY <2>3, SkipType DEF RecvUsr2, Receive, OnActivity, Wake, Show
  <2>4. CASE RecvStop
    <3>1. UNCHANGED <<clocks, quit, tv, cec_dev, control, query, world>>
          /\ serving = None /\ pending' \subseteq {"act"} \cup Signals
      BY <2>4 DEF RecvStop, Receive
    <3>2. pc' \in {"view_on", "exit"} /\ cont' = "exit" /\ alpha' \in Overlays
          /\ state' \in {"Active", "Dim", "Black"} /\ astray' \in BOOLEAN
      BY <2>4, SkipType DEF RecvStop, Wake, Show
    <3>3. QED  BY <3>1, <3>2
  <2>5. CASE ActiveTimeout
    <3>1. excused' \in BOOLEAN /\ logind_blocked' \in BOOLEAN
      BY <2>5, Zenon DEF ActiveTimeout
    <3>2. QED  BY <2>5, <3>1 DEF ActiveTimeout
  <2>6. CASE DimTimeout  BY <2>6, SkipType DEF DimTimeout, EnterBlack, Show
  <2>7. CASE BlackTimeout  BY <2>7 DEF BlackTimeout
  <2>8. CASE \E c \in Clients : Accept(c)  BY <2>8 DEF Accept
  <2>9. QED  BY <1>2, <2>1, <2>2, <2>3, <2>4, <2>5, <2>6, <2>7, <2>8
             DEF Select, Timeout
<1>3. CASE World
  <2>1. CASE Input  BY <2>1 DEF Input
  <2>2. CASE Replug  BY <2>2 DEF Replug
  <2>3. CASE Tick  BY <2>3 DEF Tick, CountTo
  <2>4. CASE Crash  BY <2>4 DEF Crash, EndOfProcess, NoConnections
  <2>5. CASE Start
    <3>1. quit' \in BOOLEAN /\ sock' \in BOOLEAN
      BY <2>5, Zenon DEF Start
    <3>2. conn' \in [Clients -> {"closed", "open"} \cup Lines]
      BY <2>5 DEF Start, NoConnections
    <3>3. starts' \in 1..MaxStarts
      BY <2>5 DEF Start
    <3>4. QED  BY <2>5, <3>1, <3>2, <3>3 DEF Start
  <2>6. CASE \E s \in Signals : Signal(s)
    <3>1. PICK s \in Signals : Signal(s)
      BY <2>6
    <3>2. pending' \subseteq {"act"} \cup Signals
      BY <3>1 DEF Signal
    <3>3. UNCHANGED <<task, state, clocks, panel, control, query, world>>
      BY <3>1 DEF Signal
    <3>4. QED  BY <3>2, <3>3
  <2>7. CASE \E c \in Clients : Connect(c) \/ WriteLine(c)
    <3>1. conn' \in [Clients -> {"closed", "open"} \cup Lines]
      BY <2>7 DEF Connect, WriteLine
    <3>2. UNCHANGED <<task, state, clocks, alpha, quit, tv, cec_dev, astray, pending, serving,
                      reply, query, world>>
      BY <2>7 DEF Connect, WriteLine
    <3>3. QED  BY <3>1, <3>2
  <2>8. CASE \E kind \in Kinds : TakeInhibitor(kind) \/ ReleaseInhibitor(kind)
    <3>1. excused' \in BOOLEAN
      BY <2>8, Zenon DEF TakeInhibitor, ReleaseInhibitor
    <3>2. inhibitors' \subseteq Kinds
      BY <2>8 DEF TakeInhibitor, ReleaseInhibitor
    <3>3. UNCHANGED <<task, state, clocks, alpha, quit, tv, cec_dev, astray, pending, control,
                      logind_blocked, cached, services, sock, starts>>
      BY <2>8 DEF TakeInhibitor, ReleaseInhibitor
    <3>4. QED  BY <3>1, <3>2, <3>3
  <2>9. CASE PropertiesChanged  BY <2>9 DEF PropertiesChanged, Held
  <2>10. QED  BY <1>3, <2>1, <2>2, <2>3, <2>4, <2>5, <2>6, <2>7, <2>8, <2>9 DEF World
<1>4. CASE UNCHANGED vars
  BY <1>4 DEF vars
<1>5. QED
  BY <1>1, <1>2, <1>3, <1>4 DEF Next

(* The daemon never leaves the states the code's types allow, and the      *)
(* control stream is owned exactly while a command is being served.        *)
THEOREM TypeCorrect == Spec => []TypeOK
  BY TypeInit, TypeStep, PTL DEF Spec

-----------------------------------------------------------------------------
(* The strengthenings of the safety properties, one lemma per conjunct of  *)
(* the inductive invariant.                                                *)

(* The overlay, the state and the steps of shutdown agree after any step. *)
LEMMA PanelStep == TypeOK /\ PanelInv /\ [Next]_vars => PanelInv'
<1> SUFFICES ASSUME TypeOK, PanelInv, [Next]_vars PROVE PanelInv'
  OBVIOUS
<1> USE DEF TypeOK, PanelInv, OverlayMatchesState, CleanExit, Settled, AlphaOf,
   CecCalls, Resumes, task, clocks, control, panel, query, world
<1>1. CASE Handler
  <2>1. CASE StandbyDone  BY <2>1 DEF StandbyDone, CecRun
  <2>2. CASE ViewOnDone  BY <2>2 DEF ViewOnDone, CecRun
  <2>3. CASE ActiveSourceDone  BY <2>3 DEF ActiveSourceDone
  <2>4. CASE LogindAnswers  BY <2>4 DEF LogindAnswers, Held
  <2>5. CASE LogindUnreadable  BY <2>5 DEF LogindUnreadable
  <2>6. CASE Defer  BY <2>6 DEF Defer, Decided
  <2>7. CASE HoldersListed  BY <2>7 DEF HoldersListed
  <2>8. CASE StartDim  BY <2>8 DEF StartDim, Decided, EnterDim, Show
  <2>9. CASE SkipDim  BY <2>9 DEF SkipDim, Decided, EnterBlack, SkipCec, Show
  <2>10. CASE ControlBlank  BY <2>10 DEF ControlBlank, ForceBlank, EnterBlack, SkipCec, Show
  <2>11. CASE ControlWake  BY <2>11 DEF ControlWake, Wake, SkipCec, Show
  <2>12. CASE ControlStatus  BY <2>12 DEF ControlStatus
  <2>13. CASE ControlDone  BY <2>13 DEF ControlDone
  <2>14. CASE Exit  BY <2>14 DEF Exit, EndOfProcess
  <2>15. QED  BY <1>1, <2>1, <2>2, <2>3, <2>4, <2>5, <2>6, <2>7, <2>8, <2>9, <2>10,
     <2>11, <2>12, <2>13, <2>14 DEF Handler
<1>2. CASE Select
  <2>1. CASE RecvActivity  BY <2>1 DEF RecvActivity, Receive, OnActivity, Wake, SkipCec, Show
  <2>2. CASE RecvUsr1  BY <2>2 DEF RecvUsr1, Receive, ForceBlank, EnterBlack, SkipCec, Show
  <2>3. CASE RecvUsr2  BY <2>3 DEF RecvUsr2, Receive, OnActivity, Wake, SkipCec, Show
  <2>4. CASE RecvStop  BY <2>4 DEF RecvStop, Receive, Wake, SkipCec, Show
  <2>5. CASE ActiveTimeout  BY <2>5 DEF ActiveTimeout
  <2>6. CASE DimTimeout  BY <2>6 DEF DimTimeout, EnterBlack, SkipCec, Show
  <2>7. CASE BlackTimeout  BY <2>7 DEF BlackTimeout
  <2>8. CASE \E c \in Clients : Accept(c)  BY <2>8 DEF Accept
  <2>9. QED  BY <1>2, <2>1, <2>2, <2>3, <2>4, <2>5, <2>6, <2>7, <2>8 DEF Select,
     Timeout
<1>3. CASE World
  <2>1. CASE Input  BY <2>1 DEF Input
  <2>2. CASE Replug  BY <2>2 DEF Replug
  <2>3. CASE Tick  BY <2>3 DEF Tick, CountTo
  <2>4. CASE Crash  BY <2>4 DEF Crash, EndOfProcess
  <2>5. CASE Start  BY <2>5 DEF Start, Running
  <2>6. CASE \E s \in Signals : Signal(s)  BY <2>6 DEF Signal
  <2>7. CASE \E c \in Clients : Connect(c) \/ WriteLine(c)
    BY <2>7 DEF Connect, WriteLine
  <2>8. CASE \E kind \in Kinds : TakeInhibitor(kind) \/ ReleaseInhibitor(kind)
    BY <2>8 DEF TakeInhibitor, ReleaseInhibitor
  <2>9. CASE PropertiesChanged  BY <2>9 DEF PropertiesChanged, Held
  <2>10. QED  BY <1>3, <2>1, <2>2, <2>3, <2>4, <2>5, <2>6, <2>7, <2>8, <2>9 DEF World
<1>4. CASE UNCHANGED vars
  BY <1>4 DEF vars
<1>5. QED
  BY <1>1, <1>2, <1>3, <1>4 DEF Next

(* A reply in preparation keeps belonging to the command on the stream.    *)
LEMMA ControlStep ==
  TypeOK /\ PanelInv /\ ControlInv /\ [Next]_vars => ControlInv'
<1> SUFFICES ASSUME TypeOK, PanelInv, ControlInv, [Next]_vars PROVE ControlInv'
  OBVIOUS
<1> USE ConfigAssumption DEF ConfigAssumption, TypeOK, PanelInv,
   OverlayMatchesState, ControlInv, RepliesTruthful, InControl, Settled, AlphaOf,
   CecCalls, Resumes, task, clocks, control, panel, query, world
<1>1. CASE Handler
  <2>1. CASE StandbyDone  BY <2>1 DEF StandbyDone, CecRun
  <2>2. CASE ViewOnDone  BY <2>2 DEF ViewOnDone, CecRun
  <2>3. CASE ActiveSourceDone  BY <2>3 DEF ActiveSourceDone
  <2>4. CASE LogindAnswers  BY <2>4 DEF LogindAnswers, Held
  <2>5. CASE LogindUnreadable  BY <2>5 DEF LogindUnreadable
  <2>6. CASE Defer  BY <2>6 DEF Defer, Decided
  <2>7. CASE HoldersListed  BY <2>7 DEF HoldersListed
  <2>8. CASE StartDim  BY <2>8 DEF StartDim, Decided, EnterDim, Show
  <2>9. CASE SkipDim  BY <2>9 DEF SkipDim, Decided, EnterBlack, SkipCec, Show
  <2>10. CASE ControlBlank  BY <2>10 DEF ControlBlank, ForceBlank, EnterBlack, SkipCec, Show
  <2>11. CASE ControlWake  BY <2>11 DEF ControlWake, Wake, SkipCec, Show
  <2>12. CASE ControlStatus  BY <2>12 DEF ControlStatus
  <2>13. CASE ControlDone  BY <2>13 DEF ControlDone
  <2>14. CASE Exit  BY <2>14 DEF Exit, EndOfProcess
  <2>15. QED  BY <1>1, <2>1, <2>2, <2>3, <2>4, <2>5, <2>6, <2>7, <2>8, <2>9, <2>10,
     <2>11, <2>12, <2>13, <2>14 DEF Handler
<1>2. CASE Select
  <2>1. CASE RecvActivity  BY <2>1 DEF RecvActivity, Receive, OnActivity, Wake, SkipCec, Show
  <2>2. CASE RecvUsr1  BY <2>2 DEF RecvUsr1, Receive, ForceBlank, EnterBlack, SkipCec, Show
  <2>3. CASE RecvUsr2  BY <2>3 DEF RecvUsr2, Receive, OnActivity, Wake, SkipCec, Show
  <2>4. CASE RecvStop  BY <2>4 DEF RecvStop, Receive, Wake, SkipCec, Show
  <2>5. CASE ActiveTimeout  BY <2>5 DEF ActiveTimeout
  <2>6. CASE DimTimeout  BY <2>6 DEF DimTimeout, EnterBlack, SkipCec, Show
  <2>7. CASE BlackTimeout  BY <2>7 DEF BlackTimeout
  <2>8. CASE \E c \in Clients : Accept(c)  BY <2>8 DEF Accept
  <2>9. QED  BY <1>2, <2>1, <2>2, <2>3, <2>4, <2>5, <2>6, <2>7, <2>8 DEF Select,
     Timeout
<1>3. CASE World
  <2>1. CASE Input  BY <2>1 DEF Input
  <2>2. CASE Replug  BY <2>2 DEF Replug
  <2>3. CASE Tick  BY <2>3 DEF Tick, CountTo
  <2>4. CASE Crash  BY <2>4 DEF Crash, EndOfProcess
  <2>5. CASE Start  BY <2>5 DEF Start, Running
  <2>6. CASE \E s \in Signals : Signal(s)  BY <2>6 DEF Signal
  <2>7. CASE \E c \in Clients : Connect(c) \/ WriteLine(c)
    <3>1. \A c \in Clients : conn[c] \in Lines => conn'[c] = conn[c]
      BY <2>7 DEF Connect, WriteLine, LineKinds, Commands
    <3>2. UNCHANGED <<task, state, alpha, services, serving, reply>>
      BY <2>7 DEF Connect, WriteLine
    <3>3. pc = "reply" => serving \in Clients
      OBVIOUS
    <3>4. cont = "reply" /\ pc \in CecCalls => serving \in Clients
      OBVIOUS
    <3>5. QED  BY <3>1, <3>2, <3>3, <3>4
  <2>8. CASE \E kind \in Kinds : TakeInhibitor(kind) \/ ReleaseInhibitor(kind)
    BY <2>8 DEF TakeInhibitor, ReleaseInhibitor
  <2>9. CASE PropertiesChanged  BY <2>9 DEF PropertiesChanged, Held
  <2>10. QED  BY <1>3, <2>1, <2>2, <2>3, <2>4, <2>5, <2>6, <2>7, <2>8, <2>9 DEF World
<1>4. CASE UNCHANGED vars
  BY <1>4 DEF vars
<1>5. QED
  BY <1>1, <1>2, <1>3, <1>4 DEF Next

(* last_activity and dim_deadline keep measuring what they stand for.      *)
LEMMA TimerStep == TypeOK /\ TimerInv /\ [Next]_vars => TimerInv'
<1> SUFFICES ASSUME TypeOK, TimerInv, [Next]_vars PROVE TimerInv'
  OBVIOUS
<1> USE ConfigAssumption DEF ConfigAssumption, TypeOK, TimerInv, Running, CecCalls,
   Resumes, task, clocks, control, panel, query, world
<1>1. CASE Handler
  <2>1. CASE StandbyDone  BY <2>1 DEF StandbyDone, CecRun
  <2>2. CASE ViewOnDone  BY <2>2 DEF ViewOnDone, CecRun
  <2>3. CASE ActiveSourceDone  BY <2>3 DEF ActiveSourceDone
  <2>4. CASE LogindAnswers  BY <2>4 DEF LogindAnswers, Held
  <2>5. CASE LogindUnreadable  BY <2>5 DEF LogindUnreadable
  <2>6. CASE Defer  BY <2>6 DEF Defer, Decided
  <2>7. CASE HoldersListed  BY <2>7 DEF HoldersListed
  <2>8. CASE StartDim  BY <2>8 DEF StartDim, Decided, EnterDim, Show
  <2>9. CASE SkipDim  BY <2>9 DEF SkipDim, Decided, EnterBlack, SkipCec, Show
  <2>10. CASE ControlBlank  BY <2>10 DEF ControlBlank, ForceBlank, EnterBlack, SkipCec, Show
  <2>11. CASE ControlWake  BY <2>11 DEF ControlWake, Wake, SkipCec, Show
  <2>12. CASE ControlStatus  BY <2>12 DEF ControlStatus
  <2>13. CASE ControlDone  BY <2>13 DEF ControlDone
  <2>14. CASE Exit  BY <2>14 DEF Exit, EndOfProcess
  <2>15. QED  BY <1>1, <2>1, <2>2, <2>3, <2>4, <2>5, <2>6, <2>7, <2>8, <2>9, <2>10,
     <2>11, <2>12, <2>13, <2>14 DEF Handler
<1>2. CASE Select
  <2>1. CASE RecvActivity  BY <2>1 DEF RecvActivity, Receive, OnActivity, Wake, SkipCec, Show
  <2>2. CASE RecvUsr1  BY <2>2 DEF RecvUsr1, Receive, ForceBlank, EnterBlack, SkipCec, Show
  <2>3. CASE RecvUsr2  BY <2>3 DEF RecvUsr2, Receive, OnActivity, Wake, SkipCec, Show
  <2>4. CASE RecvStop  BY <2>4 DEF RecvStop, Receive, Wake, SkipCec, Show
  <2>5. CASE ActiveTimeout  BY <2>5 DEF ActiveTimeout
  <2>6. CASE DimTimeout  BY <2>6 DEF DimTimeout, EnterBlack, SkipCec, Show
  <2>7. CASE BlackTimeout  BY <2>7 DEF BlackTimeout
  <2>8. CASE \E c \in Clients : Accept(c)  BY <2>8 DEF Accept
  <2>9. QED  BY <1>2, <2>1, <2>2, <2>3, <2>4, <2>5, <2>6, <2>7, <2>8 DEF Select,
     Timeout
<1>3. CASE World
  <2>1. CASE Input  BY <2>1 DEF Input
  <2>2. CASE Replug  BY <2>2 DEF Replug
  <2>3. CASE Tick  BY <2>3 DEF Tick, CountTo
  <2>4. CASE Crash  BY <2>4 DEF Crash, EndOfProcess
  <2>5. CASE Start  BY <2>5 DEF Start, Running
  <2>6. CASE \E s \in Signals : Signal(s)  BY <2>6 DEF Signal
  <2>7. CASE \E c \in Clients : Connect(c) \/ WriteLine(c)
    BY <2>7 DEF Connect, WriteLine
  <2>8. CASE \E kind \in Kinds : TakeInhibitor(kind) \/ ReleaseInhibitor(kind)
    BY <2>8 DEF TakeInhibitor, ReleaseInhibitor
  <2>9. CASE PropertiesChanged  BY <2>9 DEF PropertiesChanged, Held
  <2>10. QED  BY <1>3, <2>1, <2>2, <2>3, <2>4, <2>5, <2>6, <2>7, <2>8, <2>9 DEF World
<1>4. CASE UNCHANGED vars
  BY <1>4 DEF vars
<1>5. QED
  BY <1>1, <1>2, <1>3, <1>4 DEF Next

(* What on_timeout read of logind stays excused by the time it is used.    *)
LEMMA InhibitStep == TypeOK /\ InhibitInv /\ [Next]_vars => InhibitInv'
<1> SUFFICES ASSUME TypeOK, InhibitInv, [Next]_vars PROVE InhibitInv'
  OBVIOUS
<1> USE DEF TypeOK, InhibitInv, Told, CecCalls, Resumes, Kinds, task, clocks, control,
   panel, query, world
<1>1. CASE Handler
  <2>1. CASE StandbyDone  BY <2>1 DEF StandbyDone, CecRun
  <2>2. CASE ViewOnDone  BY <2>2 DEF ViewOnDone, CecRun
  <2>3. CASE ActiveSourceDone  BY <2>3 DEF ActiveSourceDone
  <2>4. CASE LogindAnswers  BY <2>4 DEF LogindAnswers, Held
  <2>5. CASE LogindUnreadable  BY <2>5 DEF LogindUnreadable
  <2>6. CASE Defer  BY <2>6 DEF Defer, Decided
  <2>7. CASE HoldersListed  BY <2>7 DEF HoldersListed
  <2>8. CASE StartDim  BY <2>8 DEF StartDim, Decided, EnterDim, Show
  <2>9. CASE SkipDim  BY <2>9 DEF SkipDim, Decided, EnterBlack, SkipCec, Show
  <2>10. CASE ControlBlank  BY <2>10 DEF ControlBlank, ForceBlank, EnterBlack, SkipCec, Show
  <2>11. CASE ControlWake  BY <2>11 DEF ControlWake, Wake, SkipCec, Show
  <2>12. CASE ControlStatus  BY <2>12 DEF ControlStatus
  <2>13. CASE ControlDone  BY <2>13 DEF ControlDone
  <2>14. CASE Exit  BY <2>14 DEF Exit, EndOfProcess
  <2>15. QED  BY <1>1, <2>1, <2>2, <2>3, <2>4, <2>5, <2>6, <2>7, <2>8, <2>9, <2>10,
     <2>11, <2>12, <2>13, <2>14 DEF Handler
<1>2. CASE Select
  <2>1. CASE RecvActivity  BY <2>1 DEF RecvActivity, Receive, OnActivity, Wake, SkipCec, Show
  <2>2. CASE RecvUsr1  BY <2>2 DEF RecvUsr1, Receive, ForceBlank, EnterBlack, SkipCec, Show
  <2>3. CASE RecvUsr2  BY <2>3 DEF RecvUsr2, Receive, OnActivity, Wake, SkipCec, Show
  <2>4. CASE RecvStop  BY <2>4 DEF RecvStop, Receive, Wake, SkipCec, Show
  <2>5. CASE ActiveTimeout  BY <2>5 DEF ActiveTimeout
  <2>6. CASE DimTimeout  BY <2>6 DEF DimTimeout, EnterBlack, SkipCec, Show
  <2>7. CASE BlackTimeout  BY <2>7 DEF BlackTimeout
  <2>8. CASE \E c \in Clients : Accept(c)  BY <2>8 DEF Accept
  <2>9. QED  BY <1>2, <2>1, <2>2, <2>3, <2>4, <2>5, <2>6, <2>7, <2>8 DEF Select,
     Timeout
<1>3. CASE World
  <2>1. CASE Input  BY <2>1 DEF Input
  <2>2. CASE Replug  BY <2>2 DEF Replug
  <2>3. CASE Tick  BY <2>3 DEF Tick, CountTo
  <2>4. CASE Crash  BY <2>4 DEF Crash, EndOfProcess
  <2>5. CASE Start  BY <2>5 DEF Start, Running
  <2>6. CASE \E s \in Signals : Signal(s)  BY <2>6 DEF Signal
  <2>7. CASE \E c \in Clients : Connect(c) \/ WriteLine(c)
    BY <2>7 DEF Connect, WriteLine
  <2>8. CASE \E kind \in Kinds : TakeInhibitor(kind) \/ ReleaseInhibitor(kind)
    <3>1. UNCHANGED <<task, logind_blocked, cached>>
      BY <2>8 DEF TakeInhibitor, ReleaseInhibitor
    <3>2. pc = "query" /\ Told => excused' \/ Told'
      <4>1. pc = "query" /\ "logind" \in inhibitors => excused' \/ "logind" \in inhibitors'
        BY <2>8, Zenon DEF TakeInhibitor, ReleaseInhibitor, Kinds
      <4>2. QED  BY <3>1, <4>1, Zenon DEF Told
    <3>3. excused => excused'
      BY <2>8, Zenon DEF TakeInhibitor, ReleaseInhibitor
    <3>4. QED  BY <3>1, <3>2, <3>3, Zenon DEF InhibitInv
  <2>9. CASE PropertiesChanged  BY <2>9 DEF PropertiesChanged, Held
  <2>10. QED  BY <1>3, <2>1, <2>2, <2>3, <2>4, <2>5, <2>6, <2>7, <2>8, <2>9 DEF World
<1>4. CASE UNCHANGED vars
  BY <1>4 DEF vars
<1>5. QED
  BY <1>1, <1>2, <1>3, <1>4 DEF Next

(* The TV follows the state through every transition.                      *)
LEMMA TvStep ==
  TypeOK /\ PanelInv /\ TimerInv /\ TvInv /\ [Next]_vars => TvInv'
<1> SUFFICES ASSUME TypeOK, PanelInv, TimerInv, TvInv, [Next]_vars
             PROVE  TvInv'
  OBVIOUS
<1> USE DEF TypeOK, TimerInv, TvInv, TvMatchesState, Settled,
   CecActive, CecCalls, Resumes, task, clocks, control, panel, query, world
<1>1. CASE Handler
  <2>1. CASE StandbyDone  BY <2>1 DEF StandbyDone, CecRun
  <2>2. CASE ViewOnDone  BY <2>2 DEF ViewOnDone, CecRun
  <2>3. CASE ActiveSourceDone  BY <2>3 DEF ActiveSourceDone
  <2>4. CASE LogindAnswers  BY <2>4 DEF LogindAnswers, Held
  <2>5. CASE LogindUnreadable  BY <2>5 DEF LogindUnreadable
  <2>6. CASE Defer  BY <2>6 DEF Defer, Decided
  <2>7. CASE HoldersListed  BY <2>7 DEF HoldersListed
  <2>8. CASE StartDim  BY <2>8 DEF StartDim, Decided, EnterDim, Show
  <2>9. CASE SkipDim  BY <2>9 DEF SkipDim, Decided, EnterBlack, SkipCec, Show
  <2>10. CASE ControlBlank  BY <2>10 DEF ControlBlank, ForceBlank, EnterBlack, SkipCec, Show
  <2>11. CASE ControlWake  BY <2>11 DEF ControlWake, Wake, SkipCec, Show
  <2>12. CASE ControlStatus  BY <2>12 DEF ControlStatus
  <2>13. CASE ControlDone  BY <2>13 DEF ControlDone
  <2>14. CASE Exit  BY <2>14 DEF Exit, EndOfProcess
  <2>15. QED  BY <1>1, <2>1, <2>2, <2>3, <2>4, <2>5, <2>6, <2>7, <2>8, <2>9, <2>10,
     <2>11, <2>12, <2>13, <2>14 DEF Handler
<1>2. CASE Select
  <2>1. CASE RecvActivity  BY <2>1 DEF RecvActivity, Receive, OnActivity, Wake, SkipCec, Show
  <2>2. CASE RecvUsr1  BY <2>2 DEF RecvUsr1, Receive, ForceBlank, EnterBlack, SkipCec, Show
  <2>3. CASE RecvUsr2  BY <2>3 DEF RecvUsr2, Receive, OnActivity, Wake, SkipCec, Show
  <2>4. CASE RecvStop  BY <2>4 DEF RecvStop, Receive, Wake, SkipCec, Show
  <2>5. CASE ActiveTimeout  BY <2>5 DEF ActiveTimeout
  <2>6. CASE DimTimeout  BY <2>6 DEF DimTimeout, EnterBlack, SkipCec, Show
  <2>7. CASE BlackTimeout  BY <2>7 DEF BlackTimeout
  <2>8. CASE \E c \in Clients : Accept(c)  BY <2>8 DEF Accept
  <2>9. QED  BY <1>2, <2>1, <2>2, <2>3, <2>4, <2>5, <2>6, <2>7, <2>8 DEF Select,
     Timeout
<1>3. CASE World
  <2>1. CASE Input  BY <2>1 DEF Input
  <2>2. CASE Replug  BY <2>2 DEF Replug
  <2>3. CASE Tick  BY <2>3 DEF Tick, CountTo
  <2>4. CASE Crash  BY <2>4 DEF Crash, EndOfProcess
  <2>5. CASE Start
    <3>1. pc = "crashed" \/ (pc = "stopped" /\ state = "Active")
      BY <2>5 DEF Start, Running, PanelInv, CleanExit
    <3>2. QED  BY <2>5, <3>1 DEF Start
  <2>6. CASE \E s \in Signals : Signal(s)  BY <2>6 DEF Signal
  <2>7. CASE \E c \in Clients : Connect(c) \/ WriteLine(c)
    BY <2>7 DEF Connect, WriteLine
  <2>8. CASE \E kind \in Kinds : TakeInhibitor(kind) \/ ReleaseInhibitor(kind)
    BY <2>8 DEF TakeInhibitor, ReleaseInhibitor
  <2>9. CASE PropertiesChanged  BY <2>9 DEF PropertiesChanged, Held
  <2>10. QED  BY <1>3, <2>1, <2>2, <2>3, <2>4, <2>5, <2>6, <2>7, <2>8, <2>9 DEF World
<1>4. CASE UNCHANGED vars
  BY <1>4 DEF vars
<1>5. QED
  BY <1>1, <1>2, <1>3, <1>4 DEF Next
-----------------------------------------------------------------------------
(* Action properties. *)

(* Only five actions can darken the panel; two of them are requests.       *)
LEMMA DarkeningSteps ==
  ASSUME TypeOK, Next, Darkens, ~Requested
  PROVE  StartDim \/ SkipDim \/ DimTimeout
<1> USE DEF TypeOK, Darkens, Blackout, Requested, task, clocks, control, panel, query, world,
    CecCalls, Resumes
<1>1. ASSUME Handler PROVE StartDim \/ SkipDim
  <2>1. ~StandbyDone  BY DEF StandbyDone
  <2>2. ~ViewOnDone  BY DEF ViewOnDone
  <2>3. ~ActiveSourceDone  BY DEF ActiveSourceDone
  <2>4. ~LogindAnswers /\ ~LogindUnreadable  BY DEF LogindAnswers, LogindUnreadable
  <2>5. ~Defer /\ ~HoldersListed  BY DEF Defer, HoldersListed
  <2>6. ~ControlBlank  BY DEF ControlBlank
  <2>7. ~ControlWake  BY DEF ControlWake, Wake
  <2>8. ~ControlStatus /\ ~ControlDone  BY DEF ControlStatus, ControlDone
  <2>9. ~Exit  BY DEF Exit
  <2>10. QED
    BY <1>1, <2>1, <2>2, <2>3, <2>4, <2>5, <2>6, <2>7, <2>8, <2>9 DEF Handler
<1>2. ASSUME Select PROVE DimTimeout
  <2>1. ~RecvActivity /\ ~RecvUsr2
    BY DEF RecvActivity, RecvUsr2, Receive, OnActivity, Wake
  <2>2. ~RecvUsr1  BY DEF RecvUsr1, Receive
  <2>3. ~RecvStop  BY DEF RecvStop, Receive, Wake
  <2>4. ~ActiveTimeout /\ ~BlackTimeout  BY DEF ActiveTimeout, BlackTimeout
  <2>5. ~(\E c \in Clients : Accept(c))  BY DEF Accept
  <2>6. QED  BY <1>2, <2>1, <2>2, <2>3, <2>4, <2>5 DEF Select, Timeout
<1>3. ~World
  <2>1. ~Input /\ ~Replug /\ ~Tick /\ ~PropertiesChanged
    BY DEF Input, Replug, Tick, PropertiesChanged
  <2>2. ~Crash /\ ~Start  BY DEF Crash, Start
  <2>3. ~(\E s \in Signals : Signal(s))  BY DEF Signal
  <2>4. ~(\E c \in Clients : Connect(c) \/ WriteLine(c))  BY DEF Connect, WriteLine
  <2>5. ~(\E kind \in Kinds : TakeInhibitor(kind) \/ ReleaseInhibitor(kind))
    BY DEF TakeInhibitor, ReleaseInhibitor
  <2>6. QED  BY <2>1, <2>2, <2>3, <2>4, <2>5 DEF World
<1>4. QED
  BY <1>1, <1>2, <1>3 DEF Next

(* Without a request the panel goes black only after the whole warning.    *)
LEMMA WarningStep ==
  TypeOK /\ TimerInv /\ [Next]_vars =>
    [Blackout /\ ~Requested
       => DimWarning = 0 \/ (state = "Dim" /\ warned = DimWarning)]_vars
<1> SUFFICES ASSUME TypeOK, TimerInv, Next, Blackout, ~Requested
             PROVE  DimWarning = 0 \/ (state = "Dim" /\ warned = DimWarning)
  OBVIOUS
<1>1. StartDim \/ SkipDim \/ DimTimeout
  BY DarkeningSteps DEF Darkens
<1>2. ~StartDim
  BY DEF StartDim, EnterDim, Blackout
<1>3. CASE SkipDim
  BY <1>3 DEF SkipDim
<1>4. CASE DimTimeout
  <2>1. warned + 0 = DimWarning /\ state = "Dim"
    BY <1>4 DEF DimTimeout, TimerInv
  <2>2. warned \in Nat
    BY ConfigAssumption DEF ConfigAssumption, TypeOK
  <2>3. QED
    BY <2>1, <2>2
<1>5. QED
  BY <1>1, <1>2, <1>3, <1>4

(* Without a request the daemon leaves ACTIVE with no inhibitor against it. *)
LEMMA InhibitorStep ==
  TypeOK /\ InhibitInv /\ [Next]_vars =>
    [state = "Active" /\ Darkens /\ ~Requested
       => ~ScreensaverBlocked /\ excused]_vars
<1> SUFFICES ASSUME TypeOK, InhibitInv, Next, state = "Active", Darkens, ~Requested
             PROVE  ~ScreensaverBlocked /\ excused
  OBVIOUS
<1>1. StartDim \/ SkipDim \/ DimTimeout
  BY DarkeningSteps
<1>2. ~DimTimeout
  BY DEF DimTimeout
<1>3. pc = "decide" /\ ~logind_blocked /\ ~ScreensaverBlocked
  BY <1>1, <1>2 DEF StartDim, SkipDim, Blocked
<1>4. QED
  BY <1>3 DEF InhibitInv

(* Without a request the panel darkens only over an untouched machine.     *)
LEMMA QuietStep ==
  TypeOK /\ TimerInv /\ [Next]_vars =>
    [Darkens /\ ~Requested => quiet = IdleTimeout \/ "act" \in pending]_vars
<1> SUFFICES ASSUME TypeOK, TimerInv, Next, Darkens, ~Requested
             PROVE  quiet = IdleTimeout \/ "act" \in pending
  OBVIOUS
<1>1. StartDim \/ SkipDim \/ DimTimeout
  BY DarkeningSteps
<1>2. ASSUME pc = "decide" PROVE quiet = IdleTimeout \/ "act" \in pending
  <2>1. last_activity = IdleTimeout /\ ("act" \in pending \/ last_activity <= quiet)
    BY <1>2 DEF TimerInv, Running
  <2>2. quiet \in 0..IdleTimeout
    BY DEF TypeOK
  <2>3. QED
    BY <2>1, <2>2, ConfigAssumption DEF ConfigAssumption
<1>3. CASE DimTimeout
  BY <1>3 DEF DimTimeout, TimerInv, Running
<1>4. QED
  BY <1>1, <1>2, <1>3 DEF StartDim, SkipDim
-----------------------------------------------------------------------------
(* Initial states, and the invariants of every behaviour. *)

LEMMA InvInit ==
  Init => PanelInv /\ ControlInv /\ TimerInv /\ InhibitInv /\ TvInv
  BY ConfigAssumption
  DEF ConfigAssumption, Init, PanelInv, OverlayMatchesState, CleanExit, Settled, AlphaOf,
      ControlInv, RepliesTruthful, TimerInv, Running, InhibitInv, TvInv, TvMatchesState,
      CecCalls

LEMMA PanelAlways == Spec => []PanelInv
  BY TypeCorrect, InvInit, PanelStep, PTL DEF Spec

LEMMA TimerAlways == Spec => []TimerInv
  BY TypeCorrect, InvInit, TimerStep, PTL DEF Spec

(* Outside CEC transitions the overlay shows what the state says.          *)
THEOREM OverlayCorrect == Spec => []OverlayMatchesState
<1>1. PanelInv => OverlayMatchesState
  BY DEF PanelInv
<1>2. QED
  BY <1>1, PanelAlways, PTL

(* However the daemon is told to stop, it leaves a lit panel behind.       *)
THEOREM ExitCorrect == Spec => []CleanExit
<1>1. PanelInv => CleanExit
  BY DEF PanelInv
<1>2. QED
  BY <1>1, PanelAlways, PTL

(* Control clients are told the truth.                                     *)
THEOREM RepliesCorrect == Spec => []RepliesTruthful
<1>1. ControlInv => RepliesTruthful
  BY DEF ControlInv
<1>2. Spec => []ControlInv
  BY TypeCorrect, PanelAlways, InvInit, ControlStep, PTL DEF Spec
<1>3. QED
  BY <1>1, <1>2, PTL

(* The dim warning is never cut short, whatever interrupted earlier ones.  *)
THEOREM WarningCorrect == Spec => FullWarning
  BY TypeCorrect, TimerAlways, WarningStep, PTL DEF Spec, FullWarning

(* ACTIVE is left only when no inhibitor speaks against it.                *)
THEOREM InhibitorCorrect == Spec => InhibitorRespected
<1>1. Spec => []InhibitInv
  BY TypeCorrect, InvInit, InhibitStep, PTL DEF Spec
<1>2. QED
  BY <1>1, TypeCorrect, InhibitorStep, PTL DEF Spec, InhibitorRespected

(* The panel darkens by itself only after idle_timeout without input.      *)
THEOREM QuietCorrect == Spec => BlankOnlyWhenQuiet
  BY TypeCorrect, TimerAlways, QuietStep, PTL DEF Spec, BlankOnlyWhenQuiet

LEMMA TvAlways == Spec => []TvInv
  BY TvStep, TypeCorrect, PanelAlways, TimerAlways, InvInit, PTL DEF Spec

(* Whatever fails, is pulled or is killed: unless the TV was left astray,  *)
(* it is in standby exactly in BLACK.                                      *)
THEOREM TvCorrect == Spec => []TvMatchesState
<1>1. TvInv => TvMatchesState
  BY DEF TvInv
<1>2. QED
  BY <1>1, TvAlways, PTL
-----------------------------------------------------------------------------
(* The safety half of the refinement of PanelProtocol. *)

(* Where CEC works and nobody kills the daemon, the TV is never astray.    *)
NoTvFaults == Faults \cap {"cec", "unplug", "crash"} = {}
Obedient == ~astray /\ cec_dev /\ pc # "crashed"

LEMMA ObedientStep == ASSUME NoTvFaults PROVE TypeOK /\ Obedient /\ [Next]_vars => Obedient'
<1> SUFFICES ASSUME TypeOK, Obedient, [Next]_vars PROVE Obedient'
  OBVIOUS
<1> USE NoTvFaults DEF NoTvFaults, TypeOK, Resumes, Obedient, CecActive, task, clocks, control, panel,
    query, world
<1>1. CASE Handler
  <2>1. CASE StandbyDone  BY <2>1 DEF StandbyDone, CecRun
  <2>2. CASE ViewOnDone  BY <2>2 DEF ViewOnDone, CecRun
  <2>3. CASE ActiveSourceDone  BY <2>3 DEF ActiveSourceDone
  <2>4. CASE LogindAnswers  BY <2>4 DEF LogindAnswers
  <2>5. CASE LogindUnreadable  BY <2>5 DEF LogindUnreadable
  <2>6. CASE Defer  BY <2>6 DEF Defer, Decided
  <2>7. CASE HoldersListed  BY <2>7 DEF HoldersListed
  <2>8. CASE StartDim  BY <2>8 DEF StartDim, Decided, EnterDim
  <2>9. CASE SkipDim  BY <2>9 DEF SkipDim, Decided, EnterBlack, SkipCec
  <2>10. CASE ControlBlank  BY <2>10 DEF ControlBlank, ForceBlank, EnterBlack, SkipCec
  <2>11. CASE ControlWake  BY <2>11 DEF ControlWake, Wake, SkipCec
  <2>12. CASE ControlStatus  BY <2>12 DEF ControlStatus
  <2>13. CASE ControlDone  BY <2>13 DEF ControlDone
  <2>14. CASE Exit  BY <2>14 DEF Exit, EndOfProcess
  <2>15. QED  BY <1>1, <2>1, <2>2, <2>3, <2>4, <2>5, <2>6, <2>7, <2>8, <2>9, <2>10,
     <2>11, <2>12, <2>13, <2>14 DEF Handler
<1>2. CASE Select
  <2>1. CASE RecvActivity  BY <2>1 DEF RecvActivity, Receive, OnActivity, Wake, SkipCec
  <2>2. CASE RecvUsr1  BY <2>2 DEF RecvUsr1, Receive, ForceBlank, EnterBlack, SkipCec
  <2>3. CASE RecvUsr2  BY <2>3 DEF RecvUsr2, Receive, OnActivity, Wake, SkipCec
  <2>4. CASE RecvStop  BY <2>4 DEF RecvStop, Receive, Wake, SkipCec
  <2>5. CASE ActiveTimeout  BY <2>5 DEF ActiveTimeout
  <2>6. CASE DimTimeout  BY <2>6 DEF DimTimeout, EnterBlack, SkipCec
  <2>7. CASE BlackTimeout  BY <2>7 DEF BlackTimeout
  <2>8. CASE \E c \in Clients : Accept(c)  BY <2>8 DEF Accept
  <2>9. QED  BY <1>2, <2>1, <2>2, <2>3, <2>4, <2>5, <2>6, <2>7, <2>8 DEF Select,
     Timeout
<1>3. CASE World
  <2>1. CASE Input  BY <2>1 DEF Input
  <2>2. CASE Replug  BY <2>2 DEF Replug
  <2>3. CASE Tick  BY <2>3 DEF Tick
  <2>4. CASE Crash  BY <2>4 DEF Crash, EndOfProcess
  <2>5. CASE Start  BY <2>5 DEF Start
  <2>6. CASE \E s \in Signals : Signal(s)  BY <2>6 DEF Signal
  <2>7. CASE \E c \in Clients : Connect(c) \/ WriteLine(c)
    <3>1. UNCHANGED <<pc, astray, cec_dev>>
      BY <2>7 DEF Connect, WriteLine
    <3>2. QED  BY <3>1
  <2>8. CASE \E kind \in Kinds : TakeInhibitor(kind) \/ ReleaseInhibitor(kind)
    <3>1. UNCHANGED <<pc, astray, cec_dev>>
      BY <2>8 DEF TakeInhibitor, ReleaseInhibitor
    <3>2. QED  BY <3>1
  <2>9. CASE PropertiesChanged  BY <2>9 DEF PropertiesChanged
  <2>10. QED  BY <1>3, <2>1, <2>2, <2>3, <2>4, <2>5, <2>6, <2>7, <2>8, <2>9 DEF World
<1>4. CASE UNCHANGED vars
  BY <1>4 DEF vars
<1>5. QED
  BY <1>1, <1>2, <1>3, <1>4 DEF Next

LEMMA ObedientAlways == ASSUME NoTvFaults PROVE Spec => []Obedient
<1>1. Init => Obedient
  BY DEF Init, Obedient
<1>2. TypeOK /\ Obedient /\ [Next]_vars => Obedient'
  BY NoTvFaults, ObedientStep
<1>3. QED
  BY <1>1, <1>2, TypeCorrect, PTL DEF Spec

OverlayEverywhere == \A S \in ServiceSets : "overlay" \in S

LEMMA PanelRefinesStep ==
  /\ NoTvFaults /\ OverlayEverywhere
  /\ Obedient /\ Obedient'
  /\ TypeOK /\ PanelInv /\ TimerInv /\ TvInv
  /\ [Next]_vars
  => [Panel!PanelNext]_<<alpha, tv>>
<1> SUFFICES ASSUME NoTvFaults, OverlayEverywhere, Obedient, Obedient', TypeOK, PanelInv,
                    TimerInv, TvInv, [Next]_vars
             PROVE  [Panel!PanelNext]_<<alpha, tv>>
  OBVIOUS
<1>1. "overlay" \in services
  BY DEF OverlayEverywhere, TypeOK
<1> USE <1>1 DEF TypeOK, PanelInv, OverlayMatchesState, TvInv, TvMatchesState, Obedient,
    Settled, AlphaOf, CecCalls, Overlays, task, clocks, control, panel, query, world,
    Panel!PanelNext, Panel!DimPanel, Panel!Darken, Panel!Sleep, Panel!Reveal, Panel!TurnOn
<1>2. CASE Handler
  <2>1. CASE StandbyDone  BY <2>1 DEF StandbyDone, CecRun
  <2>2. CASE ViewOnDone  BY <2>2 DEF ViewOnDone, CecRun
  <2>3. CASE ActiveSourceDone  BY <2>3 DEF ActiveSourceDone
  <2>4. CASE LogindAnswers  BY <2>4 DEF LogindAnswers, Held
  <2>5. CASE LogindUnreadable  BY <2>5 DEF LogindUnreadable
  <2>6. CASE Defer  BY <2>6 DEF Defer, Decided
  <2>7. CASE HoldersListed  BY <2>7 DEF HoldersListed
  <2>8. CASE StartDim  BY <2>8 DEF StartDim, Decided, EnterDim, TimerInv, Show
  <2>9. CASE SkipDim  BY <2>9 DEF SkipDim, Decided, EnterBlack, TimerInv, SkipCec, Show
  <2>10. CASE ControlBlank  BY <2>10 DEF ControlBlank, ForceBlank, EnterBlack, SkipCec, Show
  <2>11. CASE ControlWake  BY <2>11 DEF ControlWake, Wake, SkipCec, Show
  <2>12. CASE ControlStatus  BY <2>12 DEF ControlStatus
  <2>13. CASE ControlDone  BY <2>13 DEF ControlDone
  <2>14. CASE Exit  BY <2>14 DEF Exit, EndOfProcess
  <2>15. QED  BY <1>2, <2>1, <2>2, <2>3, <2>4, <2>5, <2>6, <2>7, <2>8, <2>9, <2>10,
     <2>11, <2>12, <2>13, <2>14 DEF Handler
<1>3. CASE Select
  <2>1. CASE RecvActivity  BY <2>1 DEF RecvActivity, Receive, OnActivity, Wake, SkipCec, Show
  <2>2. CASE RecvUsr1  BY <2>2 DEF RecvUsr1, Receive, ForceBlank, EnterBlack, SkipCec, Show
  <2>3. CASE RecvUsr2  BY <2>3 DEF RecvUsr2, Receive, OnActivity, Wake, SkipCec, Show
  <2>4. CASE RecvStop  BY <2>4 DEF RecvStop, Receive, Wake, SkipCec, Show
  <2>5. CASE ActiveTimeout  BY <2>5 DEF ActiveTimeout
  <2>6. CASE DimTimeout  BY <2>6 DEF DimTimeout, EnterBlack, SkipCec, Show
  <2>7. CASE BlackTimeout  BY <2>7 DEF BlackTimeout
  <2>8. CASE \E c \in Clients : Accept(c)  BY <2>8 DEF Accept
  <2>9. QED  BY <1>3, <2>1, <2>2, <2>3, <2>4, <2>5, <2>6, <2>7, <2>8 DEF Select,
     Timeout
<1>4. CASE World
  <2>1. CASE Input  BY <2>1 DEF Input
  <2>2. CASE Replug  BY <2>2 DEF Replug
  <2>3. CASE Tick  BY <2>3 DEF Tick, CountTo
  <2>4. CASE Crash  BY <2>4 DEF Crash, EndOfProcess
  <2>5. CASE Start  BY <2>5 DEF Start, Running, CleanExit
  <2>6. CASE \E s \in Signals : Signal(s)  BY <2>6 DEF Signal
  <2>7. CASE \E c \in Clients : Connect(c) \/ WriteLine(c)
    BY <2>7 DEF Connect, WriteLine
  <2>8. CASE \E kind \in Kinds : TakeInhibitor(kind) \/ ReleaseInhibitor(kind)
    BY <2>8 DEF TakeInhibitor, ReleaseInhibitor
  <2>9. CASE PropertiesChanged  BY <2>9 DEF PropertiesChanged, Held
  <2>10. QED  BY <1>4, <2>1, <2>2, <2>3, <2>4, <2>5, <2>6, <2>7, <2>8, <2>9 DEF World
<1>5. CASE UNCHANGED vars
  BY <1>5 DEF vars
<1>6. QED
  BY <1>2, <1>3, <1>4, <1>5 DEF Next

(* Every step of the daemon is one the viewer was promised, or none.       *)
THEOREM PanelRefined ==
  ASSUME NoTvFaults, OverlayEverywhere
  PROVE  Spec => Panel!PanelSpec
<1>1. Init => Panel!PanelInit
  BY DEF Init, Panel!PanelInit
<1>2. Obedient /\ Obedient' /\ TypeOK /\ PanelInv /\ TimerInv /\ TvInv /\ [Next]_vars
        => [Panel!PanelNext]_Panel!panelVars
  BY PanelRefinesStep, NoTvFaults, OverlayEverywhere DEF Panel!panelVars
<1>3. Spec => []Obedient
  BY ObedientAlways, NoTvFaults
<1>4. QED
  BY <1>1, <1>2, <1>3, TvAlways, TypeCorrect, PanelAlways, TimerAlways, PTL
  DEF Spec, Panel!PanelSpec
=============================================================================
