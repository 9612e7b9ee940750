----------------------------- MODULE IdleDaemon -----------------------------
(***************************************************************************)
(* The daemon of gamescope-idle: the event loop of daemon::run, the state  *)
(* machine of Machine, and what they touch (overlay handle, cec-ctl, the   *)
(* logind query, the control socket, signals, the activity channel).       *)
(*                                                                         *)
(* The loop is one task.  A handler runs to its end before the loop        *)
(* selects again, but every .await in it lets the rest of the world move,  *)
(* so pc names the await the task is suspended at:                         *)
(*                                                                         *)
(*   select         tokio::select! in run                                  *)
(*   query, list    the logind calls of on_timeout                         *)
(*   decide         between logind's answer and the screensaver's          *)
(*   standby        cec-ctl --standby in enter_black                       *)
(*   view_on,                                                              *)
(*   active_source  the two cec-ctl calls in wake                          *)
(*   read_line,                                                            *)
(*   reply          handle_control before and after the command            *)
(*   exit           shutdown, between wake and the end of run              *)
(*   stopped, crashed   no process                                         *)
(*                                                                         *)
(* A handler called from several places continues at cont when it is done. *)
(*                                                                         *)
(* Instants are kept relative to now, in ticks: last_activity is the time  *)
(* since Machine.last_activity, dim_deadline the time left until           *)
(* Machine.dim_deadline.  Both stop counting where the code's comparison   *)
(* can no longer tell, which makes the state space finite without a bound  *)
(* on time.                                                                *)
(***************************************************************************)
EXTENDS Naturals

CONSTANTS
  IdleTimeout,   (* Config.idle_timeout, in ticks                           *)
  DimWarning,    (* Config.dim_warning, in ticks; 0 skips the dim stage     *)
  Debug,         (* tracing enabled at DEBUG: on_timeout lists the holders  *)
  ServiceSets,   (* the sets of services a start may find available         *)
  Faults,        (* what may go wrong around the daemon                     *)
  Signals,       (* the signals somebody may send                           *)
  Clients,       (* control clients                                         *)
  Lines,         (* the lines they may write                                *)
  None,          (* no client                                               *)
  MaxStarts      (* bound on the number of starts of the daemon             *)

Services == {"overlay", "cec", "logind", "screensaver"}
FaultKinds == {"cec", "unplug", "logind", "crash"}
SignalKinds == {"usr1", "usr2", "term", "int"}
Commands == {"blank", "wake", "status"}

(* "other" is an unknown command or the end of the stream, "broken" a line *)
(* that read_line cannot read.                                             *)
LineKinds == Commands \cup {"other", "broken"}

ASSUME ConfigAssumption ==
  /\ IdleTimeout \in Nat
  /\ DimWarning \in Nat
  /\ Debug \in BOOLEAN
  /\ ServiceSets \subseteq SUBSET Services
  /\ Faults \subseteq FaultKinds
  /\ Signals \subseteq SignalKinds
  /\ None \notin Clients /\ Lines \subseteq LineKinds
  /\ MaxStarts \in Nat \ {0}

VARIABLES
  pc, cont,          (* the daemon task                                     *)
  state,             (* Machine.state                                       *)
  last_activity,     (* ticks since Machine.last_activity                   *)
  dim_deadline,      (* ticks left until Machine.dim_deadline               *)
  services,          (* overlay, cec, inhibit, screensaver: which are Some  *)
  alpha, quit,       (* Shared.alpha and Shared.quit of the overlay handle  *)
  tv, cec_dev,       (* the TV's power; does the CEC device node exist      *)
  pending,           (* select! branches that are ready: activity, signals  *)
  conn,              (* per client: its connection and the line it wrote    *)
  serving, reply,    (* the stream handle_control owns, and its reply       *)
  sock,              (* the socket file exists                              *)
  inhibitors,        (* kinds of idle inhibitor some application holds      *)
  logind_blocked,    (* on_timeout's local                                  *)
  cached,            (* the proxy's copy of BlockInhibited, or "unread"     *)
  starts,            (* how many times the daemon was started               *)
  (* History, read by the properties only: *)
  astray,            (* since a cec-ctl run last reached the TV, one failed *)
                     (* or was not made as the adapter was gone, or the     *)
                     (* daemon was killed with the TV in standby            *)
  quiet,             (* ticks since the last input event, at most IdleTimeout *)
  warned,            (* ticks since enter_dim, at most DimWarning           *)
  excused            (* since the timer fired, logind's inhibitor was at    *)
                     (* some instant not held, not readable, or not yet     *)
                     (* heard of                                            *)

task    == <<pc, cont>>
clocks  == <<last_activity, dim_deadline, quiet, warned>>
control == <<conn, serving, reply>>
query   == <<logind_blocked, cached, excused>>
panel   == <<alpha, quit, tv, cec_dev, astray>>
world   == <<services, sock, starts, inhibitors>>
vars    == <<task, state, clocks, panel, pending, control, query, world>>

Running == pc \notin {"stopped", "crashed"}
CecActive == "cec" \in services /\ cec_dev
CountTo(n, max) == IF n < max THEN n + 1 ELSE max

-----------------------------------------------------------------------------
(* Machine: the handlers, each up to its first await. *)

(* No cec-ctl run is made; if CEC is configured, one was due. *)
SkipCec == astray' = (astray \/ "cec" \in services)

Show(a) == alpha' = IF "overlay" \in services THEN a ELSE alpha

(* Operators named for a mistake (WakeHidesBlackOnly, ReceiveForgets, ...) *)
(* are slips one could make in the operator that follows them.  Next does  *)
(* not use them: they are there to see which property notices.             *)

WakeHidesBlackOnly(k) ==
  /\ IF state = "Black" THEN Show("clear") ELSE UNCHANGED alpha
  /\ cont' = k
  /\ IF state = "Black" /\ CecActive
       THEN pc' = "view_on" /\ UNCHANGED <<state, astray>>
       ELSE /\ pc' = k /\ state' = "Active"
            /\ IF state = "Black" THEN SkipCec ELSE UNCHANGED astray

WakeForgetsTv(k) ==
  /\ Show("clear")
  /\ cont' = k /\ pc' = k /\ state' = "Active" /\ UNCHANGED astray

(* wake: hide the overlay, then the TV if the screen was black. *)
Wake(k) ==
  /\ Show("clear")
  /\ cont' = k
  /\ IF state = "Black" /\ CecActive
       THEN pc' = "view_on" /\ UNCHANGED <<state, astray>>
       ELSE /\ pc' = k /\ state' = "Active"
            /\ IF state = "Black" THEN SkipCec ELSE UNCHANGED astray

OnActivityKeepsClock(k) ==
  IF state # "Active" THEN Wake(k) /\ last_activity' = 0
  ELSE pc' = k /\ cont' = k /\ UNCHANGED <<state, alpha, astray, last_activity>>

OnActivityIgnoresDim(k) ==
  /\ last_activity' = 0
  /\ IF state = "Black" THEN Wake(k)
     ELSE pc' = k /\ cont' = k /\ UNCHANGED <<state, alpha, astray>>

OnActivity(k) ==
  /\ last_activity' = 0
  /\ IF state # "Active" THEN Wake(k)
     ELSE pc' = k /\ cont' = k /\ UNCHANGED <<state, alpha, astray>>

EnterDimKeepsDeadline ==
  /\ Show("dim")
  /\ state' = "Dim"
  /\ warned' = 0 /\ UNCHANGED dim_deadline
  /\ pc' = "select" /\ cont' = "select"

EnterDim ==
  /\ Show("dim")
  /\ dim_deadline' = DimWarning
  /\ state' = "Dim"
  /\ warned' = 0
  /\ pc' = "select" /\ cont' = "select"

EnterBlackTvFirst(k) ==
  /\ cont' = k
  /\ IF CecActive THEN pc' = "standby" /\ UNCHANGED <<state, alpha, astray>>
     ELSE Show("opaque") /\ pc' = k /\ state' = "Black" /\ SkipCec

(* enter_black: cover the panel, then the TV's standby, then the state. *)
EnterBlack(k) ==
  /\ Show("opaque")
  /\ cont' = k
  /\ IF CecActive THEN pc' = "standby" /\ UNCHANGED <<state, astray>>
     ELSE pc' = k /\ state' = "Black" /\ SkipCec

ForceBlankFromActive(k) ==
  IF state = "Active" THEN EnterBlack(k)
  ELSE pc' = k /\ cont' = k /\ UNCHANGED <<state, alpha, astray>>

ForceBlank(k) ==
  IF state # "Black" THEN EnterBlack(k)
  ELSE pc' = k /\ cont' = k /\ UNCHANGED <<state, alpha, astray>>

-----------------------------------------------------------------------------
(* Handlers resumed after an await. *)

(* A cec-ctl run: it reaches the TV or fails, which is logged and ignored; *)
(* the adapter may have been pulled since it was found to be there.        *)
CecRun(power) ==
  \/ tv' = power /\ astray' = FALSE
  \/ ("cec" \in Faults \/ ~cec_dev) /\ UNCHANGED tv /\ astray' = TRUE

StandbyDone ==
  /\ pc = "standby"
  /\ CecRun("standby")
  /\ state' = "Black" /\ pc' = cont
  /\ UNCHANGED <<cont, clocks, alpha, quit, cec_dev, pending, control, query,
                 world>>

ViewOnDone ==
  /\ pc = "view_on"
  /\ CecRun("on")
  /\ pc' = "active_source"
  /\ UNCHANGED <<cont, state, clocks, alpha, quit, cec_dev, pending, control, query,
                 world>>

ActiveSourceDone ==
  /\ pc = "active_source"
  /\ state' = "Active" /\ pc' = cont
  /\ UNCHANGED <<cont, clocks, panel, pending, control, query, world>>

Held == IF "logind" \in inhibitors THEN "idle" ELSE "free"
(* idle_blocked.  The proxy reads BlockInhibited from logind once, and     *)
(* answers from its copy from then on.                                     *)
LogindAnswers ==
  /\ pc = "query"
  /\ cached' = IF cached = "unread" THEN Held ELSE cached
  /\ logind_blocked' = (cached' = "idle")
  /\ pc' = "decide"
  /\ UNCHANGED <<cont, state, clocks, panel, pending, control, excused, world>>

(* An unreadable property counts as "not inhibited": logind went away, the *)
(* copy was dropped, and the read that followed failed.                    *)
LogindUnreadable ==
  /\ pc = "query" /\ "logind" \in Faults
  /\ cached' = "unread" /\ logind_blocked' = FALSE /\ excused' = TRUE
  /\ pc' = "decide"
  /\ UNCHANGED <<cont, state, clocks, panel, pending, control, world>>

ScreensaverBlocked == "screensaver" \in services /\ "screensaver" \in inhibitors
BlockedByLogindOnly == logind_blocked
BlockedByBoth == logind_blocked /\ ScreensaverBlocked
Blocked == logind_blocked \/ ScreensaverBlocked

(* The answer has been used: what was noted about it is forgotten. *)
Decided == logind_blocked' = FALSE /\ excused' = FALSE /\ UNCHANGED cached

(* Inhibited: defer a full cycle, at DEBUG after naming the holders. *)
Defer ==
  /\ pc = "decide" /\ Blocked
  /\ IF Debug /\ "logind" \in services
       THEN pc' = "list" /\ UNCHANGED last_activity
       ELSE pc' = "select" /\ last_activity' = 0
  /\ Decided
  /\ UNCHANGED <<cont, state, dim_deadline, quiet, warned, panel, pending, control,
                 world>>

HoldersListed ==
  /\ pc = "list"
  /\ pc' = "select" /\ last_activity' = 0
  /\ UNCHANGED <<cont, state, dim_deadline, quiet, warned, panel, pending, control,
                 query, world>>

StartDim ==
  /\ pc = "decide" /\ ~Blocked /\ DimWarning # 0
  /\ EnterDim
  /\ Decided
  /\ UNCHANGED <<last_activity, quiet, quit, tv, cec_dev, astray, pending, control,
                 world>>

SkipDim ==
  /\ pc = "decide" /\ ~Blocked /\ DimWarning = 0
  /\ EnterBlack("select")
  /\ Decided
  /\ UNCHANGED <<clocks, quit, tv, cec_dev, pending, control, world>>

-----------------------------------------------------------------------------
(* The branches of tokio::select!.  Taking one drops the future made by    *)
(* ctrl_c(), and a SIGINT it had seen with it; the other listeners live    *)
(* across iterations and keep theirs.                                      *)

ReceiveForgets(e) ==
  /\ pc = "select" /\ e \in pending
  /\ pending' = (pending \ {e}) \cap {"act"}

Receive(e) ==
  /\ pc = "select" /\ e \in pending
  /\ pending' = pending \ {e, "int"}

RecvActivity ==
  /\ Receive("act")
  /\ OnActivity("select")
  /\ UNCHANGED <<dim_deadline, quiet, warned, quit, tv, cec_dev, control, query,
                 world>>

RecvUsr2 ==
  /\ Receive("usr2")
  /\ OnActivity("select")
  /\ UNCHANGED <<dim_deadline, quiet, warned, quit, tv, cec_dev, control, query,
                 world>>

RecvUsr1 ==
  /\ Receive("usr1")
  /\ ForceBlank("select")
  /\ UNCHANGED <<clocks, quit, tv, cec_dev, control, query, world>>

RecvStopNoWake ==
  /\ Receive("term") \/ Receive("int")
  /\ pc' = "exit" /\ cont' = "exit"
  /\ UNCHANGED <<state, alpha, astray, clocks, quit, tv, cec_dev, control, query,
                 world>>

(* SIGTERM, SIGINT: leave the loop and wake. *)
RecvStop ==
  /\ Receive("term") \/ Receive("int")
  /\ Wake("exit")
  /\ UNCHANGED <<clocks, quit, tv, cec_dev, control, query, world>>

(* The daemon had the chance to know of logind's inhibitor. *)
Told == "logind" \in inhibitors /\ cached # "free"

(* The timer of ACTIVE.  Without logind nothing is asked. *)
ActiveTimeout ==
  /\ pc = "select" /\ state = "Active" /\ last_activity >= IdleTimeout
  /\ pc' = IF "logind" \in services THEN "query" ELSE "decide"
  /\ logind_blocked' = FALSE
  /\ excused' = ~("logind" \in services /\ Told)
  /\ pending' = pending \ {"int"}
  /\ UNCHANGED <<cont, state, clocks, panel, control, cached, world>>

DimTimeoutIdles ==
  /\ pc = "select" /\ state = "Dim" /\ dim_deadline = 0
  /\ pending' = pending \ {"int"}
  /\ UNCHANGED <<task, state, clocks, panel, control, query, world>>

(* The timer of DIM.  Inhibitors are not looked at again. *)
DimTimeout ==
  /\ pc = "select" /\ state = "Dim" /\ dim_deadline = 0
  /\ EnterBlack("select")
  /\ pending' = pending \ {"int"}
  /\ UNCHANGED <<clocks, quit, tv, cec_dev, control, query, world>>

(* The hourly timer of BLACK does nothing but go round the loop. *)
BlackTimeout ==
  /\ pc = "select" /\ state = "Black"
  /\ pending' = pending \ {"int"}
  /\ UNCHANGED <<task, state, clocks, panel, control, query, world>>

Accept(c) ==
  /\ pc = "select" /\ conn[c] # "closed"
  /\ serving' = c
  /\ pc' = "read_line"
  /\ pending' = pending \ {"int"}
  /\ UNCHANGED <<cont, state, clocks, panel, conn, reply, query, world>>

-----------------------------------------------------------------------------
(* handle_control. *)

ControlBlankNoReply ==
  /\ pc = "read_line" /\ conn[serving] = "blank"
  /\ ForceBlank("select")
  /\ reply' = "ok"
  /\ UNCHANGED <<clocks, quit, tv, cec_dev, pending, conn, serving, query, world>>

ControlBlank ==
  /\ pc = "read_line" /\ conn[serving] = "blank"
  /\ ForceBlank("reply")
  /\ reply' = "ok"
  /\ UNCHANGED <<clocks, quit, tv, cec_dev, pending, conn, serving, query, world>>

ControlWake ==
  /\ pc = "read_line" /\ conn[serving] = "wake"
  /\ last_activity' = 0
  /\ Wake("reply")
  /\ reply' = "ok"
  /\ UNCHANGED <<dim_deadline, quiet, warned, quit, tv, cec_dev, pending, conn,
                 serving, query, world>>

ControlStatus ==
  /\ pc = "read_line" /\ conn[serving] \in {"status", "other"}
  /\ reply' = IF conn[serving] = "status" THEN state ELSE "error"
  /\ pc' = "reply"
  /\ UNCHANGED <<cont, state, clocks, panel, pending, conn, serving, query, world>>

ControlDoneKeepsBroken ==
  /\ pc = "reply" \/ (pc = "read_line" /\ conn[serving] = "broken")
  /\ conn' = IF pc = "reply" THEN [conn EXCEPT ![serving] = "closed"] ELSE conn
  /\ serving' = None /\ reply' = "none"
  /\ pc' = "select" /\ cont' = "select"
  /\ UNCHANGED <<state, clocks, panel, pending, query, world>>

(* End of handle_control: the reply is written, or read_line failed and    *)
(* there is none; the stream is dropped either way.                        *)
ControlDone ==
  /\ pc = "reply" \/ (pc = "read_line" /\ conn[serving] = "broken")
  /\ conn' = [conn EXCEPT ![serving] = "closed"]
  /\ serving' = None /\ reply' = "none"
  /\ pc' = "select" /\ cont' = "select"
  /\ UNCHANGED <<state, clocks, panel, pending, query, world>>

-----------------------------------------------------------------------------
(* Start, end and crash of the process. *)

NoConnections == [c \in Clients |-> "closed"]

(* The daemon starts over; nothing was persisted. *)
Start ==
  /\ ~Running /\ starts < MaxStarts
  /\ pc' = "select"
  /\ state' = "Active" /\ last_activity' = 0 /\ dim_deadline' = 0
  /\ services' \in ServiceSets
  /\ alpha' = "clear" /\ quit' = FALSE
  /\ pending' = {} /\ conn' = NoConnections /\ serving' = None /\ reply' = "none"
  /\ sock' = TRUE
  /\ starts' = starts + 1
  /\ UNCHANGED <<cont, tv, cec_dev, astray, inhibitors, quiet, warned, query>>

(* The process ends: its handlers, its copy of logind's property, the      *)
(* connections and the screensaver's cookies go with it.                   *)
EndOfProcess ==
  /\ cont' = "select"
  /\ logind_blocked' = FALSE /\ cached' = "unread" /\ excused' = FALSE
  /\ conn' = NoConnections /\ serving' = None /\ reply' = "none"
  /\ pending' = {}
  /\ inhibitors' = inhibitors \ {"screensaver"}

Exit ==
  /\ pc = "exit"
  /\ quit' = ("overlay" \in services)
  /\ sock' = FALSE
  /\ pc' = "stopped"
  /\ EndOfProcess
  /\ UNCHANGED <<state, clocks, alpha, tv, cec_dev, astray, services, starts>>

(* Killed or panicked: the compositor drops the overlay, the socket file,  *)
(* the TV and logind's inhibitors stay as they are.                        *)
Crash ==
  /\ Running /\ "crash" \in Faults
  /\ pc' = "crashed"
  /\ alpha' = "clear"
  /\ astray' = (astray \/ tv = "standby")
  /\ EndOfProcess
  /\ UNCHANGED <<state, clocks, quit, tv, cec_dev, services, sock, starts>>

-----------------------------------------------------------------------------
(* The world around the daemon. *)

(* An input task saw genuine activity: try_send on the channel of size 1.  *)
Input ==
  /\ Running
  /\ pending' = pending \cup {"act"}
  /\ quiet' = 0
  /\ UNCHANGED <<task, state, last_activity, dim_deadline, warned, panel, control,
                 query, world>>

(* SIGUSR1, SIGUSR2 and SIGTERM are remembered; SIGINT only while the loop *)
(* is selecting, as nobody listens for it inside a handler.                *)
Signal(s) ==
  /\ Running
  /\ s \in {"usr1", "usr2", "term"} \/ (s = "int" /\ pc = "select")
  /\ pending' = pending \cup {s}
  /\ UNCHANGED <<task, state, clocks, panel, control, query, world>>

Connect(c) ==
  /\ Running /\ sock /\ conn[c] = "closed"
  /\ conn' = [conn EXCEPT ![c] = "open"]
  /\ UNCHANGED <<task, state, clocks, panel, pending, serving, reply, query, world>>

WriteLine(c) ==
  /\ conn[c] = "open"
  /\ \E line \in Lines : conn' = [conn EXCEPT ![c] = line]
  /\ UNCHANGED <<task, state, clocks, panel, pending, serving, reply, query, world>>

TakeInhibitor(kind) ==
  /\ kind = "screensaver" => Running /\ "screensaver" \in services
  /\ inhibitors' = inhibitors \cup {kind}
  /\ UNCHANGED <<task, state, clocks, panel, pending, control, query, services,
                 sock, starts>>

ReleaseInhibitor(kind) ==
  /\ inhibitors' = inhibitors \ {kind}
  /\ excused' = (excused \/ (kind = "logind" /\ pc \in {"query", "decide"}))
  /\ UNCHANGED <<task, state, clocks, panel, pending, control, logind_blocked,
                 cached, services, sock, starts>>

(* logind's PropertiesChanged reaches the proxy. *)
PropertiesChanged ==
  /\ Running /\ cached # "unread"
  /\ cached' = Held
  /\ UNCHANGED <<task, state, clocks, panel, pending, control, logind_blocked,
                 excused, world>>

(* The CEC adapter is pulled or put back. *)
Replug ==
  /\ "unplug" \in Faults
  /\ cec_dev' = ~cec_dev
  /\ UNCHANGED <<task, state, clocks, alpha, quit, tv, astray, pending, control,
                 query, world>>

Tick ==
  /\ Running
  /\ last_activity' = CountTo(last_activity, IdleTimeout)
  /\ quiet' = CountTo(quiet, IdleTimeout)
  /\ warned' = CountTo(warned, DimWarning)
  /\ dim_deadline' = IF dim_deadline > 0 THEN dim_deadline - 1 ELSE 0
  /\ UNCHANGED <<task, state, panel, pending, control, query, world>>

-----------------------------------------------------------------------------

Kinds == {"logind", "screensaver"}

Init ==
  /\ pc = "select" /\ cont = "select"
  /\ state = "Active" /\ last_activity = 0 /\ dim_deadline = 0
  /\ services \in ServiceSets
  /\ alpha = "clear" /\ quit = FALSE
  /\ pending = {} /\ conn = NoConnections /\ serving = None /\ reply = "none"
  /\ sock = TRUE
  /\ logind_blocked = FALSE /\ cached = "unread"
  /\ tv = "on" /\ cec_dev = TRUE /\ astray = FALSE
  /\ inhibitors \in SUBSET {"logind"}
  /\ starts = 1
  /\ quiet = 0 /\ warned = 0 /\ excused = FALSE

(* What the daemon does by itself once a handler has begun. *)
Handler ==
  \/ StandbyDone \/ ViewOnDone \/ ActiveSourceDone
  \/ LogindAnswers \/ LogindUnreadable
  \/ Defer \/ HoldersListed \/ StartDim \/ SkipDim
  \/ ControlBlank \/ ControlWake \/ ControlStatus \/ ControlDone
  \/ Exit

Timeout == ActiveTimeout \/ DimTimeout \/ BlackTimeout

Select ==
  \/ RecvActivity \/ RecvUsr1 \/ RecvUsr2 \/ RecvStop \/ Timeout
  \/ \E c \in Clients : Accept(c)

World ==
  \/ Input \/ Replug \/ Tick \/ Crash \/ Start \/ PropertiesChanged
  \/ \E s \in Signals : Signal(s)
  \/ \E c \in Clients : Connect(c) \/ WriteLine(c)
  \/ \E kind \in Kinds : TakeInhibitor(kind) \/ ReleaseInhibitor(kind)

Next == Handler \/ Select \/ World

Spec == Init /\ [][Next]_vars

(* Scheduling.  Once a handler has begun, tokio polls it again when what   *)
(* it awaits is there: bus replies and the end of cec-ctl come, lines of   *)
(* clients need not.  select! polls its branches in random order, so a     *)
(* branch that is ready again and again is taken in the end.               *)
FairDaemon ==
  /\ WF_vars(Handler) /\ WF_vars(Timeout) /\ WF_vars(Tick) /\ WF_vars(PropertiesChanged)
  /\ SF_vars(RecvActivity) /\ SF_vars(RecvUsr1) /\ SF_vars(RecvStop)

FairSpec == Spec /\ FairDaemon

(* Clients that do what `gamescope-idle wake` and the like do: connect and *)
(* write one line at once.                                                 *)
FairClients == \A c \in Clients : SF_vars(Accept(c)) /\ WF_vars(WriteLine(c))

FairSpecWithClients == FairSpec /\ FairClients
-----------------------------------------------------------------------------
(* Properties. *)

Overlays == {"clear", "dim", "opaque"}
ReplyTexts == {"none", "ok", "error", "Active", "Dim", "Black"}
Resumes == {"select", "reply", "exit"}

CecCalls == {"standby", "view_on", "active_source"}
InControl == pc \in {"read_line", "reply"} \/ (pc \in CecCalls /\ cont = "reply")

(* Every variable holds a value of its kind, and handle_control owns a     *)
(* stream exactly while it reads the line, serves it and replies.          *)
TypeOK ==
  /\ pc \in {"select", "read_line", "reply", "exit", "stopped", "crashed"}
             \cup {"query", "decide", "list"} \cup CecCalls
  /\ cont \in Resumes
  /\ state \in {"Active", "Dim", "Black"}
  /\ last_activity \in 0..IdleTimeout /\ quiet \in 0..IdleTimeout
  /\ dim_deadline \in 0..DimWarning /\ warned \in 0..DimWarning
  /\ services \in ServiceSets
  /\ alpha \in Overlays /\ quit \in BOOLEAN
  /\ tv \in {"on", "standby"} /\ cec_dev \in BOOLEAN /\ astray \in BOOLEAN
  /\ pending \subseteq {"act"} \cup Signals
  /\ conn \in [Clients -> {"closed", "open"} \cup Lines]
  /\ serving \in Clients \cup {None} /\ reply \in ReplyTexts
  /\ sock \in BOOLEAN
  /\ inhibitors \subseteq Kinds
  /\ logind_blocked \in BOOLEAN /\ excused \in BOOLEAN
  /\ cached \in {"unread", "free", "idle"}
  /\ starts \in 1..MaxStarts
  /\ serving # None <=> InControl

(* The opacity each state stands for. *)
AlphaOf(s) == CASE s = "Active" -> "clear" [] s = "Dim" -> "dim" [] s = "Black" -> "opaque"

(* No handler is halfway between touching the panel and changing state. *)
Settled == pc \notin CecCalls \cup {"crashed"}

(* What the overlay was last told to show is what the state machine        *)
(* believes, whatever mixture of inputs, signals, timers and commands led  *)
(* there and wherever the daemon is suspended outside a CEC transition.    *)
OverlayMatchesState ==
  Settled /\ "overlay" \in services => alpha = AlphaOf(state)

(* The TV is in standby exactly when the daemon, configured to control it, *)
(* is in BLACK: over any number of transitions, failures, unplugged        *)
(* adapters and restarts, unless the last run that was due did not reach   *)
(* it or the daemon was killed while it was off; and any later run that    *)
(* does reach it puts it right.                                            *)
TvMatchesState ==
  Settled /\ ~astray => (tv = "standby" <=> state = "Black" /\ "cec" \in services)

(* A client that gets an answer gets a true one: after "ok" the screen is  *)
(* black, or lit, as it asked, and a status is the state at that moment.   *)
RepliesTruthful ==
  pc = "reply" =>
    /\ conn[serving] = "blank" => reply = "ok" /\ state = "Black"
    /\ conn[serving] = "wake" => reply = "ok" /\ state = "Active"
    /\ conn[serving] = "status" => reply = state
    /\ "overlay" \in services => alpha = AlphaOf(state)

(* A daemon that was told to stop, in whatever state it was and with       *)
(* whatever else pending, leaves a lit panel, a finished overlay and no    *)
(* socket file behind.                                                     *)
CleanExit ==
  pc = "stopped" =>
    /\ state = "Active" /\ alpha = "clear"
    /\ quit = ("overlay" \in services)
    /\ ~sock

(* Somebody asked for black in this step: SIGUSR1, or a blank command. *)
Requested ==
  \/ "usr1" \in pending /\ "usr1" \notin pending'
  \/ pc = "read_line" /\ conn[serving] = "blank"

(* This step covers the panel with black, or begins to dim it. *)
Blackout == pc # "standby" /\ state # "Black"
            /\ (pc' = "standby" \/ state' = "Black")
Darkens == Blackout \/ (state = "Active" /\ state' = "Dim")

(* Unless somebody asked for it, the screen goes black only at the end of  *)
(* the whole dim warning, counted from the moment it was dimmed and not    *)
(* from some earlier dim that input interrupted.                           *)
FullWarning ==
  [][Blackout /\ ~Requested
       => DimWarning = 0 \/ (state = "Dim" /\ warned = DimWarning)]_vars

(* Unless somebody asked for it, the daemon leaves ACTIVE only if no       *)
(* ScreenSaver inhibitor is held at that very moment and logind's was, at  *)
(* some moment since the timer fired, free, unreadable, or so new that     *)
(* logind's signal had not arrived.                                        *)
InhibitorRespected ==
  [][state = "Active" /\ Darkens /\ ~Requested
       => ~ScreensaverBlocked /\ excused]_vars

(* Unless somebody asked for it, the panel is dimmed or blanked only when  *)
(* nothing was touched for idle_timeout, or when the touch is already in   *)
(* the channel and will wake the screen at once.                           *)
BlankOnlyWhenQuiet ==
  [][Darkens /\ ~Requested => quiet = IdleTimeout \/ "act" \in pending]_vars

Panel == INSTANCE PanelProtocol WITH screen <- alpha, tv <- tv

(* The daemon keeps the promises made to the viewer, the TV's included. *)
ImplementsPanel == Panel!FairPanel

(* Input lights the screen: overlay gone, TV on. *)
InputWakes ==
  "act" \in pending ~> (state = "Active" /\ alpha = "clear" /\ tv = "on") \/ ~Running

(* If from some time on nobody touches, holds, or asks for anything, the   *)
(* screen goes black and stays so.                                         *)
LeftAlone ==
  /\ Running /\ quiet = IdleTimeout /\ pending = {}
  /\ inhibitors = {} /\ conn = NoConnections
EventuallyBlack == <>[]LeftAlone => <>[](state = "Black")

(* Every client that wrote a line gets its stream back. *)
Answered == \A c \in Clients : conn[c] \in Lines ~> conn[c] = "closed"

(* A signal is never lost, even one that arrives during a handler. *)
SignalsServed ==
  /\ "usr1" \in pending ~> state = "Black" \/ ~Running
  /\ "term" \in pending ~> ~Running
-----------------------------------------------------------------------------
(* Inductive strengthenings, conjunct by conjunct; proved in               *)
(* IdleDaemonProofs from TypeOK.                                           *)

(* What the overlay shows, also halfway through a CEC transition, and what *)
(* shutdown has reached.                                                   *)
PanelInv ==
  /\ "overlay" \notin services => alpha = "clear"
  /\ OverlayMatchesState
  /\ pc = "standby" => cont # "exit" /\ ("overlay" \in services => alpha = "opaque")
  /\ pc \in {"view_on", "active_source"} => alpha = "clear"
  /\ pc = "exit" => state = "Active"
  /\ CleanExit

(* The command a CEC transition is carried out for. *)
ControlInv ==
  /\ RepliesTruthful
  /\ pc = "reply" => conn[serving] \in Lines
  /\ cont = "reply" /\ pc = "standby" => conn[serving] = "blank" /\ reply = "ok"
  /\ cont = "reply" /\ pc \in {"view_on", "active_source"}
       => conn[serving] = "wake" /\ reply = "ok"

(* The clocks of the code never run ahead of the events they measure. *)
TimerInv ==
  /\ Running => "act" \in pending \/ last_activity <= quiet
  /\ pc \in {"query", "decide", "list"} =>
       state = "Active" /\ last_activity = IdleTimeout
  /\ Running /\ state = "Dim" => "act" \in pending \/ quiet = IdleTimeout
  /\ state = "Dim" => warned + dim_deadline = DimWarning

(* While on_timeout is suspended, its view of logind is one it was told.   *)
InhibitInv ==
  /\ pc = "query" => excused \/ Told
  /\ pc = "decide" => excused \/ logind_blocked

(* The TV, also halfway through a CEC transition and after a crash. *)
TvInv ==
  /\ TvMatchesState
  /\ pc \in CecCalls => "cec" \in services
  /\ pc = "standby" => astray \/ tv = "on"
  /\ pc = "view_on" => state = "Black"
  /\ pc \in {"active_source", "crashed"} => astray \/ tv = "on"
=============================================================================
