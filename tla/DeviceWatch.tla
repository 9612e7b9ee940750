---------------------------- MODULE DeviceWatch ----------------------------
(***************************************************************************)
(* The tasks of input.rs and hid.rs: for each of the two classes a rescan  *)
(* that attaches what it does not watch yet, for each attached device a    *)
(* task that reads it until it dies, and a set of watched paths between    *)
(* them.  Devices come and go at any time, and a new one may appear at the *)
(* node of an old one before the old one's task has noticed its death.     *)
(*                                                                         *)
(* A step runs from one point where another task may interfere to the      *)
(* next.  A task is a record: the node, whether it has opened or reads,    *)
(* whether the device it holds is still plugged (live), and what it        *)
(* remembers of the samples: one axis for evdev, the previous report for   *)
(* hidraw.  seen is history: the samples since it last signalled.          *)
(***************************************************************************)
EXTENDS Activity

CONSTANTS
  Event, Hidraw,     (* the nodes of the two classes                       *)
  Ignored,           (* Config.ignore_devices                              *)
  Infos,             (* absinfo an axis may have                           *)
  Samples,           (* the values an axis may report                      *)
  Sticks,            (* the values a stick may report                      *)
  Buttons            (* the buttons a report may have set                  *)

Nodes == Event \cup Hidraw
Scanners == {Event, Hidraw}

ASSUME WatchAssumption ==
  /\ Event \cap Hidraw = {} /\ Event # {}
  /\ Samples \subseteq I32 /\ Sticks \subseteq I16
  /\ \A info \in Infos : {info.min, info.max, info.flat} \subseteq I32

VARIABLES
  node,      (* per node: "absent" or what is plugged there                *)
  todo,      (* per rescan: the nodes it has still to visit                *)
  opened,    (* devices enumerate() has opened and the loop has not judged *)
  watched,   (* both watched sets                                          *)
  tasks,     (* watch_device and watch_hidraw, one record each             *)
  channel,   (* the activity channel holds a message                       *)
  banned     (* history: the paths inserted for their name                 *)

vars == <<node, todo, opened, watched, tasks, channel, banned>>

(* A pad (or keyboard), a device without input, and a "Video Bus"; for     *)
(* hidraw a controller with a profile or any other device.                 *)
Kinds(n) == IF n \in Event THEN {"pad", "lid", "video"} ELSE {"pad", "lid"}

Reports == [type : {"report", "other"}, buttons : SUBSET Buttons, stick : Sticks]
AxisEvents == [type : {"key", "abs", "other"}, value : Samples]

-----------------------------------------------------------------------------
(* The rescan tasks. *)

StartScan(c) ==
  /\ todo[c] = {} /\ \A d \in opened : d.node \notin c
  /\ todo' = [todo EXCEPT ![c] = IF c = Event THEN c ELSE {n \in c : node[n] # "absent"}]
  /\ todo'[c] # {}
  /\ UNCHANGED <<node, opened, watched, tasks, channel, banned>>

(* evdev::enumerate yields what it can open, one device at a time.         *)
Enumerate(n) ==
  /\ n \in todo[Event] /\ opened = {}
  /\ todo' = [todo EXCEPT ![Event] = @ \ {n}]
  /\ opened' = IF node[n] = "absent" THEN {}
               ELSE {[node |-> n, kind |-> node[n], live |-> TRUE]}
  /\ UNCHANGED <<node, watched, tasks, channel, banned>>

Task(n, live) ==
  [node |-> n, stage |-> "start", live |-> live, threshold |-> 1, last |-> {}, seen |-> {}]

(* A slip: the path is not listed before the task runs.                    *)
AttachUnlisted(n, live) ==
  /\ tasks' = tasks \cup {Task(n, live)}
  /\ UNCHANGED <<watched, banned>>

Attach(n, live) ==
  /\ watched' = watched \cup {n}
  /\ tasks' = tasks \cup {Task(n, live)}
  /\ UNCHANGED banned

(* The body of input.rs's rescan loop. *)
Judge(d) ==
  /\ d \in opened
  /\ opened' = {}
  /\ IF d.node \in watched \cup Ignored \/ d.kind = "lid"
       THEN UNCHANGED <<watched, tasks, banned>>
     ELSE IF d.kind = "video"
       THEN /\ watched' = watched \cup {d.node} /\ banned' = banned \cup {d.node}
            /\ UNCHANGED tasks
     ELSE Attach(d.node, d.live)
  /\ UNCHANGED <<node, todo, channel>>

(* The body of hid.rs's, which reads the profile and opens later.          *)
Match(n) ==
  /\ n \in todo[Hidraw]
  /\ todo' = [todo EXCEPT ![Hidraw] = @ \ {n}]
  /\ IF n \notin watched /\ node[n] = "pad" THEN Attach(n, FALSE)
     ELSE UNCHANGED <<watched, tasks, banned>>
  /\ UNCHANGED <<node, opened, channel>>

-----------------------------------------------------------------------------
(* The device tasks. *)

Become(t, u) == tasks' = (tasks \ {t}) \cup {u}

(* into_event_stream succeeds; the axis is described, or unreadable.       *)
Stream(t) ==
  /\ t.stage = "start" /\ t.node \in Event
  /\ \E threshold \in {Threshold(info) : info \in Infos} \cup {1} :
       Become(t, [t EXCEPT !.stage = "read", !.threshold = threshold])
  /\ UNCHANGED <<node, todo, opened, watched, channel, banned>>

(* read_loop opens whatever is at the path by now.                         *)
OpenPath(t) ==
  /\ t.stage = "start" /\ t.node \in Hidraw /\ node[t.node] # "absent"
  /\ Become(t, [t EXCEPT !.stage = "read", !.live = TRUE])
  /\ UNCHANGED <<node, todo, opened, watched, channel, banned>>

(* A slip: the path stays listed, so the next device there is unwatched.   *)
EndKeepsPath(t) ==
  /\ \/ t.stage = "start" \/ ~t.live
  /\ tasks' = tasks \ {t}
  /\ UNCHANGED <<node, todo, opened, watched, channel, banned>>

(* The stream or the path cannot be opened, or the device is gone.         *)
End(t) ==
  /\ t.stage = "start" \/ ~t.live
  /\ tasks' = tasks \ {t}
  /\ watched' = watched \ {t.node}
  /\ UNCHANGED <<node, todo, opened, channel, banned>>

(* try_send, when the event or report counts; a full channel is enough.    *)
Signal(active) == channel' = (channel \/ active)

ReadEvent(t, e) ==
  /\ t.stage = "read" /\ t.live /\ t.node \in Event
  /\ Signal(is_activity(e, t.threshold, t.last))
  /\ IF e.type # "abs" THEN UNCHANGED tasks
     ELSE Become(t, [t EXCEPT !.last = {e.value},
                       !.seen = {e.value} \cup
                         IF Moved(t.last, e.value, t.threshold) THEN {} ELSE @])
  /\ UNCHANGED <<node, todo, opened, watched, banned>>

(* A report that is too short or has another id is skipped.                *)
ReadReport(t, r) ==
  /\ t.stage = "read" /\ t.live /\ t.node \in Hidraw
  /\ Signal(r.type = "report" /\ ReportActive(r, t.last))
  /\ IF r.type # "report" THEN UNCHANGED tasks ELSE Become(t, [t EXCEPT !.last = {r}])
  /\ UNCHANGED <<node, todo, opened, watched, banned>>

-----------------------------------------------------------------------------
(* The world: the kernel's device nodes, and the daemon at the channel.    *)

Unplug(n) ==
  /\ node[n] # "absent"
  /\ node' = [node EXCEPT ![n] = "absent"]
  /\ opened' = {[d EXCEPT !.live = @ /\ d.node # n] : d \in opened}
  /\ tasks' = {[t EXCEPT !.live = @ /\ t.node # n] : t \in tasks}
  /\ UNCHANGED <<todo, watched, channel, banned>>

Plug(n) ==
  /\ node[n] = "absent"
  /\ \E kind \in Kinds(n) : node' = [node EXCEPT ![n] = kind]
  /\ UNCHANGED <<todo, opened, watched, tasks, channel, banned>>

Recv ==
  /\ channel
  /\ channel' = FALSE
  /\ UNCHANGED <<node, todo, opened, watched, tasks, banned>>

Init ==
  /\ node = [n \in Nodes |-> "absent"]
  /\ todo = [c \in Scanners |-> {}]
  /\ opened = {} /\ watched = {} /\ tasks = {} /\ banned = {}
  /\ channel = FALSE

Scan(c) ==
  \/ StartScan(c)
  \/ c = Event /\ ((\E n \in Event : Enumerate(n)) \/ \E d \in opened : Judge(d))
  \/ c = Hidraw /\ \E n \in Hidraw : Match(n)

Begin(n) == \E t \in tasks : t.node = n /\ (Stream(t) \/ OpenPath(t))
Ends(n)  == \E t \in tasks : t.node = n /\ End(t)

Read ==
  \/ \E t \in tasks, e \in AxisEvents : ReadEvent(t, e)
  \/ \E t \in tasks, r \in Reports : ReadReport(t, r)

Next ==
  \/ \E c \in Scanners : Scan(c)
  \/ \E n \in Nodes : Begin(n) \/ Ends(n) \/ Plug(n) \/ Unplug(n)
  \/ Read \/ Recv

Spec == Init /\ [][Next]_vars

(* The runtime polls every task that can go on, and an open that can       *)
(* succeed again and again does in the end.                                *)
FairSpec ==
  /\ Spec
  /\ \A c \in Scanners : WF_vars(Scan(c))
  /\ \A n \in Nodes : SF_vars(Begin(n)) /\ WF_vars(Ends(n))
-----------------------------------------------------------------------------
(* Properties. *)

TaskOf(c, memory) ==
  [node : c, stage : {"start", "read"}, live : BOOLEAN, threshold : 1 .. Top,
   last : SUBSET memory, seen : SUBSET Samples]

(* Every variable holds a value of its kind; no threshold is 0, with which *)
(* a resting axis would count.                                             *)
TypeOK ==
  /\ node \in [Nodes -> {"absent", "pad", "lid", "video"}]
  /\ todo \in [Scanners -> SUBSET Nodes] /\ \A c \in Scanners : todo[c] \subseteq c
  /\ opened \subseteq [node : Event, kind : {"pad", "lid", "video"}, live : BOOLEAN]
  /\ watched \subseteq Nodes /\ banned \subseteq Nodes
  /\ channel \in BOOLEAN
  /\ \A t \in tasks : t.node \in Nodes
  /\ {t \in tasks : t.node \in Event} \subseteq TaskOf(Event, Samples)
  /\ {t \in tasks : t.node \in Hidraw} \subseteq TaskOf(Hidraw, Reports)

(* However devices come and go under the rescan, no node is ever read by   *)
(* two tasks (each would count the same event), and a path is listed       *)
(* exactly as long as a task stands for it, or for its name.               *)
OneReader ==
  /\ \A t, u \in tasks : t.node = u.node => t = u
  /\ watched = banned \cup {t.node : t \in tasks}

Far(p, v, threshold) == v - p >= threshold \/ p - v >= threshold

(* What a user would call a touch: a key; an axis that has left by the     *)
(* threshold some place it was at since the last signal; a button or a     *)
(* click, not a finger resting on a pad; a stick beyond its deadzone.      *)
Genuine(t, e) ==
  IF t.node \in Event
    THEN e.type = "key" \/ (e.type = "abs" /\ \E p \in t.seen : Far(p, e.value, t.threshold))
  ELSE /\ e.type = "report"
       /\ \/ \E prev \in t.last, b \in Buttons \ Touch : (b \in e.buttons) # (b \in prev.buttons)
          \/ Far(0, e.stick, Deadzone + 1)

(* Nothing else reaches the daemon: neither the first sample of a device,  *)
(* nor jitter, nor drift within the threshold, nor a difference that the   *)
(* 32 bits wrapped, nor a controller that is merely held.  Of a report the *)
(* converse holds too: every click and every stick beyond its deadzone     *)
(* counts, one that is pushed to the very end of its way included.         *)
OnlyRealInput ==
  [][~channel =>
       \A t \in tasks :
         /\ \A e \in AxisEvents : ReadEvent(t, e) /\ channel' => Genuine(t, e)
         /\ \A r \in Reports : ReadReport(t, r) => (channel' <=> Genuine(t, r))]_vars

(* A pad that stays plugged is read in the end, whatever was at its node   *)
(* before and whichever task had still to notice that it is gone, unless   *)
(* a device with a blocked name was there once: such a path stays listed.  *)
EventuallyWatched ==
  \A n \in Nodes \ Ignored :
    <>[](node[n] = "pad")
      => <>[](n \in banned \/ \E t \in tasks : t.node = n /\ t.stage = "read" /\ t.live)

(* README and input.rs: real stick pushes count.  A stick that was at its  *)
(* centre since the last signal and is now at the end of its axis has been *)
(* pushed, however many samples it took to get there.                      *)
PushesCount ==
  \A t \in tasks : \A v \in Samples :
    /\ t.node \in Event /\ t.stage = "read" /\ 0 \in t.seen
    /\ \A s \in Samples : s <= v
    /\ Far(0, v, t.threshold)
    => is_activity([type |-> "abs", value |-> v], t.threshold, t.last)
=============================================================================
