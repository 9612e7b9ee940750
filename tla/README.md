# gamescope-idle: a verification project

TLA+ models of the `gamescope-idle` daemon, checked with TLC on small instances
and proved, where it matters most, with TLAPS for every value of the constants.
Source paths are relative to the repository root.

## The system

`gamescope-idle` blanks an OLED panel in gamescope's Steam session when nobody
touches anything, and keeps it lit while a video plays. One process, several
tasks and threads:

| part | source | state it keeps | operations |
|---|---|---|---|
| event loop and `Machine` | `src/daemon.rs` | `state` (ACTIVE, DIM, BLACK), `last_activity`, `dim_deadline` | `on_activity`, `on_timeout`, `force_blank`, `wake`, `handle_control`, start, shutdown |
| HDMI-CEC | `src/cec.rs` | device path | `standby`, `wake`: run `cec-ctl` |
| logind inhibitors | `src/inhibit.rs` | D-Bus proxy and its property cache | `idle_blocked`, `idle_inhibitors`, the `inhibit` wrapper |
| ScreenSaver service | `src/screensaver.rs` | `next_cookie`, `holders` | `Inhibit`, `UnInhibit`, the reaper of vanished clients |
| layer-shell overlay | `src/overlay.rs` | desired opacity, channel, surface | `show`, `hide`, `quit`, a reconnecting thread, Wayland callbacks |
| X11 overlay | `src/overlay_x11.rs` | desired opacity, channel, window | as above, over Xwayland |
| input | `src/input.rs`, `src/hid.rs` | watched devices, last samples | rescan, attach, activity |
| control socket | `src/control.rs` | none | `blank`, `wake`, `status` |
| configuration, command line | `src/config.rs`, `src/main.rs` | none | load, dispatch |

How they interact: input tasks put `()` into a channel of size 1; signals and
control clients are further branches of the same `tokio::select!`; the loop
calls the overlay through a handle (shared memory and a channel to the overlay
thread), awaits `cec-ctl` and logind, and reads the ScreenSaver table under its
mutex. While a handler awaits, the loop serves nothing else, but input tasks,
the bus, the ScreenSaver tasks, the overlay thread and the rest of the world go on.

What is hard: state read before an `.await` and used after it; a timer that
fires with activity already pending; clients that say nothing; a CEC command
that fails; a crash in BLACK; applications that vanish without releasing their
inhibitor; a compositor that restarts between two halves of a call. PROJECT.json
lists each such hazard with the line where it bites.

What makes each part correct: input always lights panel and TV; an idle and
uninhibited machine always goes black; nothing goes black early, unwarned or
inhibited; replies and exits tell the truth; a held cookie counts, a dead
application's does not; the overlay shows what it was last told, and no frame
of it stays on the glass; a pad that is plugged in is read, once, and nothing but
real input counts.

## Modules

| module | models |
|---|---|
| `PanelProtocol` | what the viewer is promised: opacity and TV power in five steps |
| `OverlayRegister` | what the daemon is promised by either overlay: a register that holds the last opacity asked for |
| `IdleDaemon` | the event loop, `Machine`, CEC, logind query, socket, signals, restart |
| `MCIdleDaemon` | its instances for TLC, and a README sentence as a property |
| `ScreenSaver` | the D-Bus service, its clients and its reaper |
| `LayerOverlay` | overlay handle, overlay thread and compositor |
| `X11Overlay` | the X11 overlay's handle and thread, gamescope, mangoapp's window |
| `Session` | `IdleDaemon` and `X11Overlay` in one process that stops, is killed, starts again |
| `Activity` | what counts as input: thresholds, baseline, report parsing, in 32 bits |
| `DeviceWatch` | the rescans, the watched sets, the device tasks, devices coming and going |
| `MCDeviceWatch` | its instances for TLC |
| `IdleDaemonProofs`, `ScreenSaverProofs`, `LayerOverlayProofs`, `X11OverlayProofs`, `ActivityProofs`, `DeviceWatchProofs`, `SessionProofs` | the theorems |
| `QueueLemmas` | the last element of a queue, for both overlays |

### IdleDaemon

`pc` names the await at which the loop's task is suspended (`select`, `query`,
`list`, `standby`, `view_on`, `active_source`, `read_line`, `reply`, `exit`), or
that there is no process. An action runs from one await to the next, so every
interleaving the code allows is a path. `decide` is an extra stop between
logind's answer and the ScreenSaver table: on a multi-threaded runtime a cookie
may be taken there. `cont` is the return address of `wake` and `enter_black`,
which several handlers call.

* Instants are relative: `last_activity` counts ticks since the code's
  `last_activity`, `dim_deadline` counts down. They saturate where the code's
  comparison cannot tell any more, so time needs no bound.
* `pending` holds the ready branches of `select!`. SIGINT is different from the
  other signals: `ctrl_c()` is built anew in each iteration, so a SIGINT is seen
  only while the loop selects and is dropped when another branch wins.
* `cached` is the property cache of the zbus proxy: after the first read,
  `idle_blocked` answers from it, and logind's `PropertiesChanged` updates it
  some time later.
* `conn` is each client's stream with the line it wrote, one of `Lines`. A line is a
  command, something else (an unknown word, or end of stream) or a read error.
* `services` are the optional parts a start found; `Faults` turns on failing
  `cec-ctl`, a pulled adapter, an unreadable logind, and crashes.
* `tv` is the real power state of the TV. Nobody but the daemon changes it: a
  viewer with a remote control is outside the model.
* `cec_dev` says whether the device node exists. It does at first; with the fault
  `unplug` it may go before anything else happens, and a machine without an
  adapter is one without `cec` among its services.
* `quiet`, `warned`, `excused` and `astray` are history, read by properties only. `astray`
  is true from a `cec-ctl` run that was due and failed or was skipped, or from the death of a
  daemon whose TV was in standby, to the next run that reaches the TV: the exact span in which the TV
  and the state may differ. `TvMatchesState` says that outside it they never do, under every
  fault.

Start-up is one step: nothing is served before the loop runs, and connections
made before it simply wait.

### ScreenSaver

Each critical section under the mutex is an action: `inhibit`, `un_inhibit`,
`Reap`. zbus runs calls in tasks of their own, so calls wait in a set and run in
any order. `spawn` is three steps because the name is claimed before the reaper
subscribes. `CookieMax` stands for the largest `u32`, so the wrap happens.
An application may vanish at any time: before the reaper has subscribed, and with its own
calls still waiting. Two things then go wrong, and the properties name exactly those. A cookie is
`stray` when its owner left with nobody watching (`screensaver.rs:162-166`), or when its `Inhibit`
ran after the reaper's visit (`screensaver.rs:183`, two tasks); nothing takes it back.
A cookie is `reused` when the wrapped counter gives it out again while somebody holds it
or is releasing it. Both are history variables.

### LayerOverlay

`set` is two steps (store the opacity, send the command), `quit` too. The
thread's steps are connect, publish the sender, set up and restore the opacity,
loop, take the sender back, look at `quit` again. `Draw` attaches a buffer or
fails to get one. Sizes are known or unknown. Backoff and timeouts only delay.

### X11Overlay

The handle and the reconnect are those of `LayerOverlay`; what differs is how a frame
gets on and off the glass. `pixel` is what the window was last painted with, `picture`
what the last composited frame shows of it. gamescope composites anew when a mapped window
commits a frame (`ShowWindow`, `OnHide`) or another client does (`Recomposite`), and
takes only the topmost overlay window: ours while `raised`, else mangoapp's. Unmapping or
destroying the window yields no frame, as the comment at `overlay_x11.rs:214` says. A
command that meets a broken connection ends `run` and is dropped with the channel.
`display` is where DISPLAY is found, at every attempt; `Displays` is where it may be at first.
Each flush is a step: a hide paints transparent (`OnHide`, `overlay_x11.rs:295`) and then
lowers the window (`Lower`, line 230), with the connection lost or another client's frame in
between; a show maps and raises in the flush whose last request is the paint. `dim_alpha` is
taken to be above 0: `show(0.0)` would raise a transparent window.

### Session

`IdleDaemon` with its `alpha` and `quit` instantiated by the `Shared` of `X11Overlay`.
`TaskStep` joins a step of the daemon's task to its call of the handle: the task goes on
when the call has returned, while thread, compositor and world move in between. `run` does
not join the overlay thread, so `ProcessEnds` may come with the hide unread; `Crash` may
come at any time. Both take thread and window away without a frame. `WorldStep(Around)` is all the
rest of `IdleDaemon`'s world: input, time, signals, control clients and their lines, inhibitors
taken and released, logind's `PropertiesChanged`, the adapter pulled and put back.
`Bounded` keeps the instance small: clients, inhibitors and a missing adapter (`Company`) count
against outages and restarts, all together at most `MaxTrouble`; outages and restarts
by themselves are not limited by it. The theorems hold for every `MaxTrouble`.

### OverlayRegister

Five steps seen by a caller: a call stores an opacity (`Ask`) and returns (`Answer`), a
connection starts to serve (`Begin`) and is lost (`Lose`), a process is replaced (`Reset`,
in `LivesSpec` only). The refinement mapping takes for `word` what the thread will have
shown when its queue is drained, so that obeying a command is a stutter. A connection that
begins in the middle of a call may restore anything; the return of that call must put it
right. Both overlays implement `RegisterSpec`, the session implements `LivesSpec`.

### Activity and DeviceWatch

`Activity` is arithmetic: an i32 lies in `-Top .. Top - 1` and wraps, as the release
profile compiles it. A stick's sample is an i16 of `-StickTop .. StickTop - 1`, which
`hid.rs:226` widens to i32 before `abs`; `StickTop < Top`, so the far end of a stick's way does not
wrap and counts. `DeviceWatch` has one axis per evdev device and one stick axis per
report; the code keeps a map, whose entries do not interact. Buttons are a set, `Touch`
the capacitive ones.

`evdev::enumerate` is lazy: the rescan opens one device, judges it, then opens the next,
so a device may be unplugged between `Enumerate` and `Judge` (`live` turns false in
whoever holds it). hidraw is different: the rescan lists the nodes first (`StartScan`),
matches a profile by path and the task opens the path later, when there may be
another device, or none. The watched sets of the two classes are disjoint and kept in one
variable. `seen` and `banned` are history, read by properties only. A hidraw report of an
unknown id or length is `other`, as is an evdev event of a type that never counts.

## Runs

| run | question | instance | shows |
|---|---|---|---|
| `daemon_faults` | is anything wrong under every fault? | `IdleTimeout` 1, `DimWarning` 2, all faults, SIGINT, one client, two starts, all services or only the inhibitors (542,216 states) | types, overlay, TV, replies, clean exit, full warning, inhibitors, quiet |
| `daemon_no_warning` | is the straight path to BLACK right too? | `DimWarning` 0, SIGUSR2 and SIGTERM, one client, two starts, logind may fail (88,064 states) | inhibitors, quiet |
| `daemon_fair` | does everything happen that must? | fair scheduling, no faults, SIGUSR1 and SIGTERM, one client, all services but the ScreenSaver (23,966 states) | input wakes, abandonment blanks, clients and signals are served, `PanelProtocol` is implemented |
| `daemon_inhibitor_in_dim` | README line 60 | no logind | violated: not looked at in DIM |
| `daemon_stuck_client` | README line 57 | clients need not write | violated: loop stuck in `read_line` |
| `daemon_crash_tv` | README lines 195-196 | crash and restart | violated: TV stays in standby |
| `screensaver` | are cookies right? | two applications, three cookies, four calls; they vanish at any time (46,732 states) | held is honoured but if `reused`, gone is reaped and stays so but if `stray` (`NothingPinned`, `GoneReaped`), across a wrap |
| `screensaver_pinned` | `screensaver.rs` lines 14-17 | applications may vanish at any time | violated: not reaped |
| `overlay` | does the overlay show the last word? | three calls of `set`, two outages, all faults | no stale opacity, at rest the viewer sees the last one, `OverlayRegister` is implemented, converges |
| `session` | does the glass follow the hand? | `IdleTimeout` 1, `DimWarning` 1, X11 overlay and logind, one client that blanks or wakes, inhibitors, a missing adapter, one outage or missing visual, SIGTERM, crash, two starts, two unread commands, `MaxTrouble` 1 (169,263 states) | a touch uncovers the screen, abandonment covers it, glass and state machine agree at rest, the register survives restarts, no stale or orphaned frame while the overlay lives |
| `devices` | is every device read, once, and only real input counted? | one evdev and one hidraw node, a device of any kind plugged and unplugged without bound, `Top` 8, axis samples at both ends of i32 and 0, `StickTop` 4, stick samples -4, 3 and 2 with a deadzone of 2, one button and one touch sensor (145,976 states) | one reader per node, lasting pads are read, only real input signals and every report of it does |
| `slow_push` | README lines 58-59 | one evdev axis from its centre 0 to its end 4, threshold 2, steps of 1 | violated: the push never counts |

Bounds, and why they are enough. Timeouts of 0, 1 and 2 ticks separate "not yet",
"just now" and "long ago", all that comparisons distinguish; the theorems have no
such bound. One client is enough for what a client does to the loop, since the
loop serves one stream at a time and a waiting one only stays pending; the
theorems hold for any number. Two starts give a crash or stop followed by a
whole life. `Signals` is a subset per run; the passing runs cover all four between
them, and a run has those its properties are about. `CookieMax` 3 and `MaxCalls` 4 wrap
the counter with cookies in use. `MaxSets` 3 and `MaxOutages` 2 let two outages
fall anywhere around the calls. In `session`, `MaxQueue` 2 holds the commands of a wake
and of the shutdown unread together, and one outage may hit any step of the thread; the proofs about
`X11Overlay` have neither bound. With `MaxTrouble` 1 a client, an inhibitor or a pulled adapter
comes one at a time and to a first life without outages, where dim, wake, blank on request and
deferred blanking all happen through the real overlay; that they meet outages and restarts
is left to the theorems. `Displays` is `{"unset"}` there: DISPLAY is published late, which an
inherited one never is. `devices` has one node per class because tasks, listed
paths and devices of different nodes do not meet; all that two generations at one node can
do to each other is there, and `NodesReadOnce` holds for any number. `Top` 8 puts
differences such as 7 - (-8) outside the range, so wrapping happens; the stick samples are a full
deflection to the side whose magnitude does not fit an i16, one past the deadzone, and one on its edge.

Deadlock is checked where the daemon may always go on (time passes, and it can be started again
within the bound on starts). `CHECK_DEADLOCK FALSE` is
used where a single life ends (one start, or all calls made and the thread ended), and in
`devices`, where nobody has to plug anything in.

### Fairness

* A handler that began goes on (weak fairness of `Handler`): tokio polls a task
  whose future is ready. This assumes that logind answers and `cec-ctl` ends;
  the code has no timeout on either. It assumes nothing about a client's
  line, hence `daemon_stuck_client`.
* `select!` polls its branches in random order, so a branch that is ready again
  and again is taken: strong fairness of each receiver and of `Accept`. The timer
  stays ready until served: weak fairness.
* Time passes and logind's signals arrive: weak fairness of `Tick` and
  `PropertiesChanged`.
* `FairClients`, used in `daemon_fair` and `daemon_crash_tv`: clients write
  their line, as `control::send` does.
* ScreenSaver: every task that can run does. LayerOverlay: the thread runs, a
  call returns, and a compositor that is up configures a new surface.
  `Converges` is claimed only if the compositor stays up from some time on.
* Session: as for its parts, the overlay thread a thread of its own (weak fairness of
  `Thread`). `TouchLights` and `DarkWhenAlone` assume that gamescope stays and that DISPLAY is
  somewhere in the end, `FairSession` that clients write and that logind's signals arrive;
  nothing is assumed of other clients' frames, so `Recomposite`
  never comes to the rescue.
* DeviceWatch: the rescan of a class goes on (its `sleep` ends), a task that can end
  does (weak fairness of `Scan` and `Ends`), and an open that can succeed again and again
  does (strong fairness of `Begin`). Nothing is assumed of devices.

## Mutants

Each property is checked against a slip in the code it guards. They stand
beside the operator they replace and are named for the mistake
(`WakeForgetsTv`, `EnterDimKeepsDeadline`, `SetupForgets`, ...). `Next` uses none.

## Where the code and its words differ

1. An inhibitor taken in DIM does not prevent BLACK (`daemon.rs:216`; README:
   "While an idle inhibitor is held, it stays awake and never blanks").
2. A client that connects and writes nothing stops the loop (`daemon.rs:249`;
   README: "Any keyboard or controller input wakes it instantly").
3. After a crash in BLACK the restarted daemon believes it is ACTIVE and never
   wakes the TV (`daemon.rs:109`, `daemon.rs:166`; README: "woken on input").
4. An application that takes a cookie and vanishes between the claim of the name
   and the subscription of the reaper pins the screen on (`screensaver.rs:166`;
   its own header: "otherwise a crash would pin the screen on forever").
5. A stick pushed slowly, in steps below a twentieth of its range, never counts: each
   sample becomes the new baseline (`input.rs:174`; README: "real stick pushes do").

## Proofs

For all constants that satisfy the modules' assumptions:

* `IdleDaemonProofs`. The invariant is `TypeOK` with `PanelInv` (overlay against
  state, also halfway through a CEC transition, and the stages of shutdown),
  `ControlInv` (which command a transition serves), `TimerInv` (the code's clocks
  against real silence and the real warning) and `InhibitInv` (what an answer
  from logind is worth when it is used). The properties alone are not
  inductive: that the overlay is clear in ACTIVE needs to know that it was
  cleared *before* the CEC wake-up; that a warning was full needs
  `warned + dim_deadline = DimWarning`. Each part has a lemma with a step per
  action. `DarkeningSteps` shows that only three actions darken the panel without a request;
  the theorems on warning, inhibitors and silence follow from it.
* `TvCorrect` needs no premise on the faults: `TvInv` follows the TV through both halves of a CEC
  transition and through a crash, `astray` or not. `PanelRefined` assumes
  `NoTvFaults` and that every start finds an overlay, since `PanelProtocol` promises a TV that
  obeys. It is the safety half of the refinement; its fairness half is checked by `daemon_fair`.
* `ScreenSaverProofs`. `CookieInv` adds that a cookie in an `UnInhibit` under way is
  nobody's any more unless `reused`, and that before 2^32 - 1 calls no cookie
  beyond the counter is in use. So `HeldIsHonoured` covers any number of calls: what it
  excepts is a cookie given twice, and it says that the first `CookieMax` calls give none twice.
  `GoneAreReaped` is the safety half of `GoneReaped`, and has no premise: applications vanish at
  any time, and a cookie of one that is gone waits for a visit that is still to come or is
  one of the two kinds of `stray`. `NothingPinned` is inductive as it stands. What happens to
  the first kind is the finding of `screensaver_pinned`.
* `LayerOverlayProofs`. `WordInv` adds what `Setup` finds in the queue: a command
  that was sent before it read the opacity.
  `PaintInv` says that a surface which needs no configure shows the thread's own opacity,
  whatever is still in the queue; with `WordInv` it gives `LastWordShown`.
* `RegisterImplemented`, in both overlays' proofs: the steps of handle, thread and
  compositor are those of `OverlayRegister` or are not seen by a caller (`Unseen`, `Lost`).
  It needs `WordInv`, and that `Quit` is in no queue before `quit` was called.
* `X11OverlayProofs`. The same as for the other overlay, and that an unmapped window is transparent: a
  connection that starts hidden does not paint. `FramesFresh` holds between the two flushes of a
  hide too, where the window is transparent and still on top: a black window is raised and not
  about to be lowered, and a hidden one is below when the thread is back in its loop.
* `DeviceWatchProofs`. `ReaderInv` adds to `OneReader` that a path listed for its
  name has no task, so that no end of a task takes it off the list, and that a
  task keeps the fields it was given. `DeviceTypes` carries the types of every
  field of a task, among them `threshold \in 1 .. Top`, which `OnlyTouchesReported` needs. The
  latter says of a hidraw report both that it signals only real input and that it does signal it.
* `ActivityProofs`. The arithmetic, for any `Top`, `Share` and `Deadzone`: what `%` and
  `\div` do near the range (`Remainder`, `Quotient`), the three cases of a wrapped
  difference (`Wraps`), and `abs`, which leaves the smallest integer negative
  (`MagnitudeBound`). `MovedInTruth`: a wrapped difference of two samples is never larger
  than the true one, so wrapping can hide a movement and not invent one. `DeflectedInTruth`: for
  a stick it hides nothing either, as an i16 is widened first.
* `SessionProofs`. A step of `Session` is a step of `IdleDaemon`, or leaves its variables
  alone (`DaemonStep`), those of clients, inhibitors and logind included (`AroundIsWorld`), so
  `DaemonImplemented` and with it all that is proved of the daemon: overlay, TV, exit, replies,
  warning, inhibitors and silence (`PromisesCarried`, `PanelCarried`). `Session` and `IdleDaemonProofs` instantiate
  `IdleDaemon` each on its own; the lemmas `Same...` show that the two instances are equal.
  A step of the session is also one of `X11Overlay` until the process ends
  (`OverlayTakesPart`), where the lemmas of `X11OverlayProofs` are cited.
  `NoOrphanFrame` needs `QuitInv`: the daemon calls `quit` once, stopped and with the
  overlay clear, and in the queue the hide stands before `Quit`. `FrameInv` adds that a
  window is mapped only under a connection. `GlassCorrect` joins the three:
  state and opacity agree (`PanelInv`), opacity and window agree (`WordInv`), window and
  frame agree (`NoStaleFrame`).

Assumptions on constants, named where they are declared: `ConfigAssumption`,
`SessionAssumption` (the overlay's opacities are the daemon's, and its thread is spawned at
every start), `OverlayAssumption` and `X11Assumption` (the commands and the mark for "no
surface" are no opacities), `ActivityAssumption`, `WatchAssumption`. TLC evaluates each.

Every safety property of every passing run is a theorem, for all constants that satisfy the
assumptions.
Model-checked only: all liveness (`InputWakes`, `EventuallyBlack`, `Answered`,
`SignalsServed`, `GoneReaped`, `ReleasedInTheEnd`, `Converges`, `TouchLights`,
`DarkWhenAlone`, `EventuallyWatched`) and the fairness half of `ImplementsPanel`, which are
out of the prover's reach. The safety each of them rests on is proved where it has a name:
`LastWordShown` for `Converges`, `GoneAreReaped` for `GoneReaped`, `GlassCorrect` for
`TouchLights` and `DarkWhenAlone`.

## Not modelled, and why

* Wording, logs, argument and file parsing, pixel layout, sizes of outputs.
* The command line (`main.rs`): it dispatches into the parts above, and its
  hidden test commands into single parts. The client side of `blank`, `wake` and
  `status` is `Connect` and `WriteLine`; of the `inhibit` wrapper only its inhibitor matters.
* `cec-ctl` or logind hanging for ever: it is an assumption, see Fairness.
* Two daemons at one socket path: the systemd user unit runs one.
* Cookies across a restart of the daemon: `ScreenSaver` is one life of the service, whose
  clients hold nothing in the next.
* What gamescope does with an overlay window mapped over ours later, and a DISPLAY
  inherited from an earlier session: the code learns nothing of either.
* What a frame shows that a process left on the glass when it ended before its overlay
  thread was done, or was killed: `NoOrphanFrame` and `TouchLights` exclude it, and it goes with the
  next frame of any client.

Hazards that the models contain and no property covers, as the code itself has no remedy and
promises none:

* a SIGINT that arrives outside `select!` is lost (`daemon.rs:128`); `SignalsServed` speaks of the
  signals that are kept;
* a layer-shell buffer that was refused leaves the old frame until the next command
  (`overlay.rs:292`, `spoiled`);
* a path banned by a Video Bus device stays banned (`input.rs:61`), and a hidraw task may read another device
  than the one its profile was matched for (`hid.rs:94`);
* a mangoapp window mapped over ours, an outdated DISPLAY (`overlay_x11.rs`), a hanging `cec-ctl`.

PROJECT.json has the note of each.

## Plan

Done: all modules above, and a theorem for every safety property of the runs. What is left
to prove: the safety halves of the other liveness properties, that is, what cannot get lost between
a signal or a client and the loop (`SignalsServed`, `Answered`), and that a device that
is plugged in and not blocked is read, listed or still to be scanned (`EventuallyWatched`).
