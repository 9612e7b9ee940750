------------------------- MODULE DeviceWatchProofs -------------------------
(***************************************************************************)
(* Proofs about DeviceWatch, for any number of nodes and devices and any   *)
(* samples and buttons.                                                    *)
(***************************************************************************)
EXTENDS DeviceWatch, ActivityProofs, TLAPS

(* OneReader, strengthened: a task is a record with the six fields it was  *)
(* given, and a path listed for its name has no task, so that no end of a  *)
(* task can take it off the list.                                          *)
IsTask(t) ==
  t = [node |-> t.node, stage |-> t.stage, live |-> t.live, threshold |-> t.threshold,
       last |-> t.last, seen |-> t.seen]

ReaderInv ==
  /\ OneReader
  /\ \A t \in tasks : IsTask(t) /\ t.node \notin banned

(* A step of a task that leaves its node alone keeps the invariant.        *)
LEMMA Becoming ==
  ASSUME ReaderInv, UNCHANGED <<watched, banned>>,
         NEW t \in tasks, NEW u, IsTask(u), u.node = t.node, Become(t, u)
  PROVE  ReaderInv'
<1> USE DEF ReaderInv, OneReader, IsTask
<1>1. \A v \in tasks' : v = u \/ (v \in tasks /\ v # t)
  BY DEF Become
<1>2. u \in tasks'
  BY DEF Become
<1>3. \A v \in tasks : v # t => v \in tasks' /\ v.node # t.node
  BY DEF Become
<1>4. {v.node : v \in tasks'} = {v.node : v \in tasks}
  BY <1>1, <1>2, <1>3
<1>5. \A v, w \in tasks' : v.node = w.node => v = w
  BY <1>1, <1>3
<1>6. \A v \in tasks' : v = [node |-> v.node, stage |-> v.stage, live |-> v.live,
                             threshold |-> v.threshold, last |-> v.last, seen |-> v.seen]
                        /\ v.node \notin banned
  BY <1>1
<1>7. QED
  BY <1>4, <1>5, <1>6

(* What EXCEPT leaves of a task: one field at a time, and two of them.     *)
LEMMA AlteredField ==
  ASSUME NEW t, IsTask(t), NEW x
  PROVE  /\ IsTask([t EXCEPT !.stage = x]) /\ [t EXCEPT !.stage = x].node = t.node
         /\ IsTask([t EXCEPT !.threshold = x]) /\ [t EXCEPT !.threshold = x].node = t.node
         /\ IsTask([t EXCEPT !.live = x]) /\ [t EXCEPT !.live = x].node = t.node
         /\ IsTask([t EXCEPT !.last = x]) /\ [t EXCEPT !.last = x].node = t.node
         /\ IsTask([t EXCEPT !.seen = x]) /\ [t EXCEPT !.seen = x].node = t.node
  BY DEF IsTask

LEMMA Altered ==
  ASSUME NEW t, IsTask(t), NEW x, NEW y
  PROVE  /\ IsTask([t EXCEPT !.stage = x, !.threshold = y])
         /\ [t EXCEPT !.stage = x, !.threshold = y].node = t.node
         /\ IsTask([t EXCEPT !.stage = x, !.live = y])
         /\ [t EXCEPT !.stage = x, !.live = y].node = t.node
         /\ IsTask([t EXCEPT !.last = x, !.seen = y])
         /\ [t EXCEPT !.last = x, !.seen = y].node = t.node
<1>1. /\ [t EXCEPT !.stage = x, !.threshold = y] = [[t EXCEPT !.stage = x] EXCEPT !.threshold = y]
      /\ [t EXCEPT !.stage = x, !.live = y] = [[t EXCEPT !.stage = x] EXCEPT !.live = y]
      /\ [t EXCEPT !.last = x, !.seen = y] = [[t EXCEPT !.last = x] EXCEPT !.seen = y]
  OBVIOUS
<1>2. /\ IsTask([t EXCEPT !.stage = x]) /\ [t EXCEPT !.stage = x].node = t.node
      /\ IsTask([t EXCEPT !.last = x]) /\ [t EXCEPT !.last = x].node = t.node
  BY AlteredField
<1> DEFINE f == [t EXCEPT !.stage = x]
<1> DEFINE g == [t EXCEPT !.last = x]
<1>3. IsTask(f) /\ f.node = t.node /\ IsTask(g) /\ g.node = t.node
  BY <1>2
<1> HIDE DEF f, g
<1>4. ASSUME NEW u, IsTask(u), u.node = t.node
      PROVE  IsTask([u EXCEPT !.threshold = y]) /\ [u EXCEPT !.threshold = y].node = t.node
  BY <1>4, AlteredField
<1>5. ASSUME NEW u, IsTask(u), u.node = t.node
      PROVE  IsTask([u EXCEPT !.live = y]) /\ [u EXCEPT !.live = y].node = t.node
  BY <1>5, AlteredField
<1>6. IsTask([f EXCEPT !.threshold = y]) /\ [f EXCEPT !.threshold = y].node = t.node
  BY <1>3, <1>4
<1>7. IsTask([f EXCEPT !.live = y]) /\ [f EXCEPT !.live = y].node = t.node
  BY <1>3, <1>5
<1>8. IsTask([g EXCEPT !.seen = y]) /\ [g EXCEPT !.seen = y].node = t.node
  BY <1>3, AlteredField
<1>9. QED
  BY <1>1, <1>6, <1>7, <1>8 DEF f, g

(* A task that is new at its node.                                         *)
LEMMA Attaching ==
  ASSUME ReaderInv, NEW n, n \notin watched, NEW live, Attach(n, live)
  PROVE  ReaderInv'
<1> USE DEF ReaderInv, OneReader, Attach
<1>1. Task(n, live).node = n /\ IsTask(Task(n, live))
  BY DEF Task, IsTask
<1> DEFINE u == Task(n, live)
<1>2. tasks' = tasks \cup {u} /\ u.node = n /\ IsTask(u)
  BY <1>1
<1> HIDE DEF u
<1>3. \A t \in tasks : t.node # n
  OBVIOUS
<1>4. n \notin banned
  OBVIOUS
<1>5. watched' = banned' \cup {t.node : t \in tasks'}
  BY <1>2
<1>6. \A t, v \in tasks' : t.node = v.node => t = v
  BY <1>2, <1>3
<1>7. \A t \in tasks' : IsTask(t) /\ t.node \notin banned'
  BY <1>2, <1>4
<1>8. QED
  BY <1>5, <1>6, <1>7 DEF IsTask

LEMMA ReaderStep == ReaderInv /\ [Next]_vars => ReaderInv'
<1> SUFFICES ASSUME ReaderInv, [Next]_vars PROVE ReaderInv'
  OBVIOUS
<1>1. ASSUME NEW c \in Scanners, Scan(c) PROVE ReaderInv'
  <2>1. CASE StartScan(c)
    BY <2>1 DEF StartScan, ReaderInv, OneReader, IsTask
  <2>2. ASSUME NEW n \in Event, Enumerate(n) PROVE ReaderInv'
    BY <2>2 DEF Enumerate, ReaderInv, OneReader, IsTask
  <2>3. ASSUME NEW d \in opened, Judge(d) PROVE ReaderInv'
    <3>1. CASE d.node \in watched \cup Ignored \/ d.kind = "lid"
      BY <2>3, <3>1 DEF Judge, ReaderInv, OneReader, IsTask
    <3>2. CASE d.node \notin watched \cup Ignored /\ d.kind # "lid" /\ d.kind = "video"
      <4>1. tasks' = tasks /\ watched' = watched \cup {d.node}
            /\ banned' = banned \cup {d.node}
        BY <2>3, <3>2 DEF Judge
      <4>2. \A t \in tasks : t.node # d.node
        BY <3>2 DEF ReaderInv, OneReader
      <4>3. QED  BY <4>1, <4>2 DEF ReaderInv, OneReader, IsTask
    <3>3. CASE d.node \notin watched \cup Ignored /\ d.kind # "lid" /\ d.kind # "video"
      <4>1. Attach(d.node, d.live)
        BY <2>3, <3>3 DEF Judge
      <4>2. QED  BY <3>3, <4>1, Attaching
    <3>4. QED  BY <3>1, <3>2, <3>3
  <2>4. ASSUME NEW n \in Hidraw, Match(n) PROVE ReaderInv'
    <3>1. CASE n \notin watched /\ node[n] = "pad"
      <4>1. Attach(n, FALSE)
        BY <2>4, <3>1 DEF Match
      <4>2. QED  BY <3>1, <4>1, Attaching
    <3>2. CASE ~(n \notin watched /\ node[n] = "pad")
      <4>1. UNCHANGED <<watched, tasks, banned>>
        BY <2>4, <3>2 DEF Match
      <4>2. QED  BY <4>1 DEF ReaderInv, OneReader, IsTask
    <3>3. QED  BY <3>1, <3>2
  <2>5. QED  BY <1>1, <2>1, <2>2, <2>3, <2>4 DEF Scan
<1>2. ASSUME NEW t \in tasks, Stream(t) \/ OpenPath(t) PROVE ReaderInv'
  <2>1. IsTask(t)
    BY DEF ReaderInv
  <2>2. CASE Stream(t)
    <3>1. PICK threshold : Become(t, [t EXCEPT !.stage = "read", !.threshold = threshold])
      BY <2>2 DEF Stream
    <3>2. UNCHANGED <<watched, banned>>
      BY <2>2 DEF Stream
    <3>3. QED  BY <2>1, <3>1, <3>2, Altered, Becoming
  <2>3. CASE OpenPath(t)
    <3>1. Become(t, [t EXCEPT !.stage = "read", !.live = TRUE]) /\ UNCHANGED <<watched, banned>>
      BY <2>3 DEF OpenPath
    <3>2. QED  BY <2>1, <3>1, Altered, Becoming
  <2>4. QED  BY <1>2, <2>2, <2>3
<1>3. ASSUME NEW t \in tasks, End(t) PROVE ReaderInv'
  <2>1. tasks' = tasks \ {t} /\ watched' = watched \ {t.node} /\ banned' = banned
    BY <1>3 DEF End
  <2>2. \A u \in tasks' : u \in tasks /\ u.node # t.node
    BY <2>1 DEF ReaderInv, OneReader
  <2>3. QED  BY <2>1, <2>2 DEF ReaderInv, OneReader, IsTask
<1>4. ASSUME NEW t \in tasks, NEW e, ReadEvent(t, e) PROVE ReaderInv'
  <2>1. IsTask(t) /\ UNCHANGED <<watched, banned>>
    BY <1>4 DEF ReaderInv, ReadEvent
  <2>2. CASE e.type # "abs"
    BY <1>4, <2>1, <2>2 DEF ReadEvent, ReaderInv, OneReader, IsTask
  <2>3. CASE e.type = "abs"
    <3>1. PICK x, y : Become(t, [t EXCEPT !.last = x, !.seen = y])
      BY <1>4, <2>3 DEF ReadEvent
    <3>2. QED  BY <2>1, <3>1, Altered, Becoming
  <2>4. QED  BY <2>2, <2>3
<1>5. ASSUME NEW t \in tasks, NEW r, ReadReport(t, r) PROVE ReaderInv'
  <2>1. IsTask(t) /\ UNCHANGED <<watched, banned>>
    BY <1>5 DEF ReaderInv, ReadReport
  <2>2. CASE r.type # "report"
    BY <1>5, <2>1, <2>2 DEF ReadReport, ReaderInv, OneReader, IsTask
  <2>3. CASE r.type = "report"
    <3>1. Become(t, [t EXCEPT !.last = {r}])
      BY <1>5, <2>3 DEF ReadReport
    <3>2. QED  BY <2>1, <3>1, AlteredField, Becoming
  <2>4. QED  BY <2>2, <2>3
<1>6. ASSUME NEW n \in Nodes, Unplug(n) PROVE ReaderInv'
  <2> DEFINE After(t) == [t EXCEPT !.live = @ /\ t.node # n]
  <2>1. tasks' = {After(t) : t \in tasks} /\ UNCHANGED <<watched, banned>>
    BY <1>6 DEF Unplug
  <2>2. \A t \in tasks : IsTask(After(t)) /\ After(t).node = t.node
    BY AlteredField DEF ReaderInv
  <2> HIDE DEF After
  <2>3. {t.node : t \in tasks'} = {t.node : t \in tasks}
    BY <2>1, <2>2
  <2>4. \A t, u \in tasks' : t.node = u.node => t = u
    BY <2>1, <2>2 DEF ReaderInv, OneReader
  <2>5. \A t \in tasks' : IsTask(t) /\ t.node \notin banned
    BY <2>1, <2>2 DEF ReaderInv
  <2>6. QED  BY <2>1, <2>3, <2>4, <2>5 DEF ReaderInv, OneReader, IsTask
<1>7. CASE \/ \E n \in Nodes : Plug(n)
           \/ Recv
           \/ UNCHANGED vars
  BY <1>7 DEF Plug, Recv, vars, ReaderInv, OneReader, IsTask
<1>8. QED
  BY <1>1, <1>2, <1>3, <1>4, <1>5, <1>6, <1>7 DEF Next, Begin, Ends, Read

(* However many devices come and go and wherever the rescan is, no node    *)
(* has two readers and no path is listed for nothing.                      *)
THEOREM NodesReadOnce == Spec => []OneReader
<1>1. Init => ReaderInv
  BY DEF Init, ReaderInv, OneReader
<1>2. ReaderInv => OneReader
  BY DEF ReaderInv
<1>3. QED
  BY <1>1, <1>2, ReaderStep, PTL DEF Spec
-----------------------------------------------------------------------------
(* TypeOK, strengthened: where an axis is now is one of the places it was  *)
(* at since the last signal.                                               *)
WellFormed(t) ==
  \/ t.node \in Event /\ t \in TaskOf(Event, Samples) /\ t.last \subseteq t.seen
  \/ t.node \in Hidraw /\ t \in TaskOf(Hidraw, Reports)

TasksOK == \A t \in tasks : WellFormed(t)

RestOK ==
  /\ node \in [Nodes -> {"absent", "pad", "lid", "video"}]
  /\ todo \in [Scanners -> SUBSET Nodes] /\ \A c \in Scanners : todo[c] \subseteq c
  /\ opened \subseteq [node : Event, kind : {"pad", "lid", "video"}, live : BOOLEAN]
  /\ watched \subseteq Nodes /\ banned \subseteq Nodes
  /\ channel \in BOOLEAN

LEMMA TypesTogether == TasksOK /\ RestOK => TypeOK
<1> SUFFICES ASSUME TasksOK, RestOK PROVE TypeOK
  OBVIOUS
<1>1. \A n \in Event : n \notin Hidraw
  BY WatchAssumption DEF WatchAssumption
<1>2. \A t \in tasks : t.node \in Nodes
  BY DEF TasksOK, WellFormed, Nodes
<1>3. {t \in tasks : t.node \in Event} \subseteq TaskOf(Event, Samples)
  BY <1>1 DEF TasksOK, WellFormed
<1>4. {t \in tasks : t.node \in Hidraw} \subseteq TaskOf(Hidraw, Reports)
  BY <1>1 DEF TasksOK, WellFormed
<1>5. QED
  BY <1>2, <1>3, <1>4 DEF RestOK, TypeOK

(* A new task, and one that opened its device, read a sample or lost it.   *)
LEMMA NewTask ==
  ASSUME NEW n \in Nodes, NEW live \in BOOLEAN
  PROVE  WellFormed(Task(n, live))
<1>1. 1 \in 1 .. Top
  BY ActivityAssumption DEF ActivityAssumption
<1>2. QED
  BY <1>1 DEF WellFormed, Task, TaskOf, Nodes

LEMMA OpenedTask ==
  ASSUME NEW t, WellFormed(t), NEW threshold \in 1 .. Top
  PROVE  /\ WellFormed([t EXCEPT !.stage = "read", !.threshold = threshold])
         /\ WellFormed([t EXCEPT !.stage = "read", !.live = TRUE])
  BY DEF WellFormed, TaskOf

LEMMA MovedTask ==
  ASSUME NEW t, WellFormed(t), t.node \in Event, NEW v \in Samples, NEW b \in BOOLEAN
  PROVE  WellFormed([t EXCEPT !.last = {v}, !.seen = {v} \cup IF b THEN {} ELSE @])
  BY WatchAssumption DEF WatchAssumption, WellFormed, TaskOf

LEMMA ReportedTask ==
  ASSUME NEW t, WellFormed(t), t.node \in Hidraw, NEW r \in Reports
  PROVE  WellFormed([t EXCEPT !.last = {r}])
  BY WatchAssumption DEF WatchAssumption, WellFormed, TaskOf

LEMMA LostTask ==
  ASSUME NEW t, WellFormed(t), NEW n
  PROVE  WellFormed([t EXCEPT !.live = @ /\ t.node # n])
  BY DEF WellFormed, TaskOf

LEMMA TasksStep == TasksOK /\ RestOK /\ [Next]_vars => TasksOK'
<1> SUFFICES ASSUME TasksOK, RestOK, [Next]_vars PROVE TasksOK'
  OBVIOUS
<1>1. ASSUME NEW u, WellFormed(u), NEW t \in tasks, Become(t, u) PROVE TasksOK'
  BY <1>1 DEF Become, TasksOK
<1>2. ASSUME UNCHANGED tasks PROVE TasksOK'
  BY <1>2 DEF TasksOK
<1>3. ASSUME NEW n \in Nodes, NEW live \in BOOLEAN, Attach(n, live) PROVE TasksOK'
  BY <1>3, NewTask DEF Attach, TasksOK
<1>4. ASSUME NEW c \in Scanners, Scan(c) PROVE TasksOK'
  <2>1. CASE StartScan(c)  BY <1>2, <2>1 DEF StartScan
  <2>2. ASSUME NEW n \in Event, Enumerate(n) PROVE TasksOK'
    BY <1>2, <2>2 DEF Enumerate
  <2>3. ASSUME NEW d \in opened, Judge(d) PROVE TasksOK'
    <3>1. d.node \in Nodes /\ d.live \in BOOLEAN
      BY DEF RestOK, Nodes
    <3>2. UNCHANGED tasks \/ Attach(d.node, d.live)
      BY <2>3 DEF Judge
    <3>3. QED  BY <1>2, <1>3, <3>1, <3>2
  <2>4. ASSUME NEW n \in Hidraw, Match(n) PROVE TasksOK'
    <3>1. UNCHANGED tasks \/ Attach(n, FALSE)
      BY <2>4 DEF Match
    <3>2. QED  BY <1>2, <1>3, <3>1 DEF Nodes
  <2>5. QED  BY <1>4, <2>1, <2>2, <2>3, <2>4 DEF Scan
<1>5. ASSUME NEW t \in tasks, Stream(t) \/ OpenPath(t) PROVE TasksOK'
  <2>1. WellFormed(t)
    BY DEF TasksOK
  <2>2. CASE Stream(t)
    <3>1. PICK threshold \in {Threshold(info) : info \in Infos} \cup {1} :
            Become(t, [t EXCEPT !.stage = "read", !.threshold = threshold])
      BY <2>2 DEF Stream
    <3>2. \A info \in Infos : Threshold(info) \in 1 .. Top
      BY ThresholdBounded, WatchAssumption DEF WatchAssumption
    <3>3. threshold \in 1 .. Top
      BY <3>1, <3>2, ActivityAssumption DEF ActivityAssumption
    <3>4. QED  BY <1>1, <2>1, <3>1, <3>3, OpenedTask
  <2>3. CASE OpenPath(t)
    <3>1. Become(t, [t EXCEPT !.stage = "read", !.live = TRUE])
      BY <2>3 DEF OpenPath
    <3>2. 1 \in 1 .. Top
      BY ActivityAssumption DEF ActivityAssumption
    <3>3. QED  BY <1>1, <2>1, <3>1, <3>2, OpenedTask
  <2>4. QED  BY <1>5, <2>2, <2>3
<1>6. ASSUME NEW t \in tasks, End(t) PROVE TasksOK'
  BY <1>6 DEF End, TasksOK
<1>7. ASSUME NEW t \in tasks, NEW e \in AxisEvents, ReadEvent(t, e) PROVE TasksOK'
  <2> DEFINE b == Moved(t.last, e.value, t.threshold)
             u == [t EXCEPT !.last = {e.value},
                            !.seen = {e.value} \cup IF b THEN {} ELSE @]
  <2>1. UNCHANGED tasks \/ Become(t, u)
    BY <1>7 DEF ReadEvent
  <2>2. WellFormed(t) /\ t.node \in Event /\ e.value \in Samples /\ b \in BOOLEAN
    BY <1>7 DEF TasksOK, ReadEvent, AxisEvents, Moved
  <2>3. WellFormed(u)
    BY <2>2, MovedTask
  <2>4. QED  BY <1>1, <1>2, <2>1, <2>3
<1>8. ASSUME NEW t \in tasks, NEW r \in Reports, ReadReport(t, r) PROVE TasksOK'
  <2>1. UNCHANGED tasks \/ Become(t, [t EXCEPT !.last = {r}])
    BY <1>8 DEF ReadReport
  <2>2. WellFormed([t EXCEPT !.last = {r}])
    BY <1>8, ReportedTask DEF TasksOK, ReadReport
  <2>3. QED  BY <1>1, <1>2, <2>1, <2>2
<1>9. ASSUME NEW n \in Nodes, Unplug(n) PROVE TasksOK'
  <2>1. tasks' = {[t EXCEPT !.live = @ /\ t.node # n] : t \in tasks}
    BY <1>9 DEF Unplug
  <2>2. \A t \in tasks : WellFormed([t EXCEPT !.live = @ /\ t.node # n])
    BY LostTask DEF TasksOK
  <2>3. QED  BY <2>1, <2>2 DEF TasksOK
<1>10. CASE (\E n \in Nodes : Plug(n)) \/ Recv \/ UNCHANGED vars
  BY <1>2, <1>10 DEF Plug, Recv, vars
<1>11. QED
  BY <1>4, <1>5, <1>6, <1>7, <1>8, <1>9, <1>10 DEF Next, Begin, Ends, Read

LEMMA RestStep == TasksOK /\ RestOK /\ [Next]_vars => RestOK'
<1> SUFFICES ASSUME TasksOK, RestOK, [Next]_vars PROVE RestOK'
  OBVIOUS
<1> USE DEF RestOK
<1>1. ASSUME NEW c \in Scanners, Scan(c) PROVE RestOK'
  <2>1. CASE StartScan(c)
    <3>1. c \subseteq Nodes
      BY DEF Scanners, Nodes
    <3>2. QED  BY <2>1, <3>1 DEF StartScan
  <2>2. ASSUME NEW n \in Event, Enumerate(n) PROVE RestOK'
    <3>1. opened' \subseteq [node : Event, kind : {"pad", "lid", "video"}, live : BOOLEAN]
      <4>1. node[n] \in {"absent", "pad", "lid", "video"}
        BY DEF Nodes
      <4>2. CASE node[n] = "absent"
        BY <2>2, <4>2 DEF Enumerate
      <4>3. CASE node[n] # "absent"
        BY <2>2, <4>1, <4>3 DEF Enumerate
      <4>4. QED  BY <4>2, <4>3
    <3>2. QED  BY <2>2, <3>1 DEF Enumerate, Scanners
  <2>3. ASSUME NEW d \in opened, Judge(d) PROVE RestOK'
    <3>1. d.node \in Nodes
      BY DEF Nodes
    <3>2. watched' \subseteq Nodes /\ banned' \subseteq Nodes
      BY <2>3, <3>1 DEF Judge, Attach
    <3>3. QED  BY <2>3, <3>2 DEF Judge
  <2>4. ASSUME NEW n \in Hidraw, Match(n) PROVE RestOK'
    <3>1. watched' \subseteq Nodes /\ banned' \subseteq Nodes
      BY <2>4 DEF Match, Attach, Nodes
    <3>2. QED  BY <2>4, <3>1 DEF Match, Scanners
  <2>5. QED  BY <1>1, <2>1, <2>2, <2>3, <2>4 DEF Scan
<1>2. ASSUME NEW t \in tasks, Stream(t) \/ OpenPath(t) \/ End(t) PROVE RestOK'
  BY <1>2 DEF Stream, OpenPath, End
<1>3. ASSUME NEW t \in tasks, NEW e \in AxisEvents, ReadEvent(t, e) PROVE RestOK'
  <2>1. channel' \in BOOLEAN
    BY <1>3, Zenon DEF ReadEvent, Signal
  <2>2. QED  BY <1>3, <2>1 DEF ReadEvent
<1>4. ASSUME NEW t \in tasks, NEW r \in Reports, ReadReport(t, r) PROVE RestOK'
  <2>1. channel' \in BOOLEAN
    BY <1>4, Zenon DEF ReadReport, Signal
  <2>2. QED  BY <1>4, <2>1 DEF ReadReport
<1>5. ASSUME NEW n \in Nodes, Unplug(n) PROVE RestOK'
  <2>1. \A d \in opened : [d EXCEPT !.live = @ /\ d.node # n]
                            \in [node : Event, kind : {"pad", "lid", "video"}, live : BOOLEAN]
    OBVIOUS
  <2>2. QED  BY <1>5, <2>1 DEF Unplug
<1>6. ASSUME NEW n \in Nodes, Plug(n) PROVE RestOK'
  BY <1>6 DEF Plug, Kinds
<1>7. CASE Recv \/ UNCHANGED vars
  BY <1>7 DEF Recv, vars
<1>8. QED
  BY <1>1, <1>2, <1>3, <1>4, <1>5, <1>6, <1>7 DEF Next, Begin, Ends, Read

LEMMA TypesAlways == Spec => [](TasksOK /\ RestOK)
<1>1. Init => TasksOK /\ RestOK
  BY DEF Init, TasksOK, RestOK
<1>2. TasksOK /\ RestOK /\ [Next]_vars => TasksOK' /\ RestOK'
  BY TasksStep, RestStep
<1>3. QED
  BY <1>1, <1>2, PTL DEF Spec

(* Whatever absinfo a device reports and whichever samples follow, what a  *)
(* task remembers is of its kind and its threshold is at least 1.          *)
THEOREM DeviceTypes == Spec => []TypeOK
  BY TypesAlways, TypesTogether, PTL
-----------------------------------------------------------------------------
(* What a task takes for activity is genuine. *)
LEMMA GenuineEvent ==
  ASSUME NEW t, WellFormed(t), t.node \in Event, NEW e \in AxisEvents,
         is_activity(e, t.threshold, t.last)
  PROVE  Genuine(t, e)
<1>1. CASE e.type = "key"
  BY <1>1 DEF Genuine
<1>2. CASE e.type = "abs" /\ Moved(t.last, e.value, t.threshold)
  <2>1. PICK p \in t.last : Magnitude(Signed(e.value - p)) >= t.threshold
    BY <1>2 DEF Moved
  <2>2. /\ p \in t.seen /\ p \in I32 /\ e.value \in I32 /\ t.threshold \in 1 .. Top
    BY WatchAssumption DEF WatchAssumption, WellFormed, TaskOf, AxisEvents
  <2>3. Moved({p}, e.value, t.threshold)
    BY <2>1 DEF Moved
  <2>4. Far(p, e.value, t.threshold)
    BY <2>2, <2>3, MovedInTruth DEF Far
  <2>5. QED
    BY <1>2, <2>2, <2>4 DEF Genuine
<1>3. QED
  BY <1>1, <1>2 DEF is_activity

LEMMA GenuineReport ==
  ASSUME NEW t, WellFormed(t), t.node \in Hidraw, NEW r \in Reports
  PROVE  r.type = "report" /\ ReportActive(r, t.last) <=> Genuine(t, r)
<1>1. t.node \notin Event /\ t.last \subseteq Reports
  BY WatchAssumption DEF WatchAssumption, WellFormed, TaskOf
<1>2. ASSUME NEW prev \in t.last
      PROVE  masked_buttons(r) # masked_buttons(prev)
               <=> \E b \in Buttons \ Touch : (b \in r.buttons) # (b \in prev.buttons)
  <2>1. r.buttons \subseteq Buttons /\ prev.buttons \subseteq Buttons
    BY <1>1 DEF Reports
  <2>2. ASSUME masked_buttons(r) # masked_buttons(prev)
        PROVE  \E b \in Buttons \ Touch : (b \in r.buttons) # (b \in prev.buttons)
    <3>1. PICK b : (b \in r.buttons \ Touch) # (b \in prev.buttons \ Touch)
      BY <2>2 DEF masked_buttons
    <3>2. QED
      BY <2>1, <3>1
  <2>3. ASSUME NEW b \in Buttons \ Touch, (b \in r.buttons) # (b \in prev.buttons)
        PROVE  masked_buttons(r) # masked_buttons(prev)
    BY <2>3 DEF masked_buttons
  <2>4. QED
    BY <2>2, <2>3
<1>3. stick_deflected(r) <=> Far(0, r.stick, Deadzone + 1)
  <2>1. r.stick \in I16
    BY WatchAssumption DEF WatchAssumption, Reports
  <2>2. stick_deflected(r) <=> r.stick >= Deadzone + 1 \/ -r.stick >= Deadzone + 1
    BY <2>1, DeflectedInTruth
  <2>3. QED
    BY <2>1, <2>2, ActivityAssumption DEF ActivityAssumption, I16, Far
<1>4. ReportActive(r, t.last)
        <=> \/ \E prev \in t.last, b \in Buttons \ Touch :
                 (b \in r.buttons) # (b \in prev.buttons)
            \/ Far(0, r.stick, Deadzone + 1)
  BY <1>2, <1>3 DEF ReportActive
<1>5. QED
  BY <1>1, <1>4 DEF Genuine

(* Nothing that a user would not call a touch reaches the daemon, and each *)
(* report of a touch does, for any width of the words, absinfo, deadzone,  *)
(* mask and sequence of samples.                                           *)
THEOREM OnlyTouchesReported == Spec => OnlyRealInput
<1>1. ASSUME TasksOK, ~channel, NEW t \in tasks
      PROVE  /\ \A e \in AxisEvents : ReadEvent(t, e) /\ channel' => Genuine(t, e)
             /\ \A r \in Reports : ReadReport(t, r) => (channel' <=> Genuine(t, r))
  <2>1. WellFormed(t)
    BY <1>1 DEF TasksOK
  <2>2. ASSUME NEW e \in AxisEvents, ReadEvent(t, e), channel' PROVE Genuine(t, e)
    BY <1>1, <2>1, <2>2, GenuineEvent DEF ReadEvent, Signal
  <2>3. ASSUME NEW r \in Reports, ReadReport(t, r) PROVE channel' <=> Genuine(t, r)
    <3>1. t.node \in Hidraw
      BY <2>3 DEF ReadReport
    <3>2. channel' <=> r.type = "report" /\ ReportActive(r, t.last)
      BY <1>1, <2>3, Zenon DEF ReadReport, Signal
    <3>3. r.type = "report" /\ ReportActive(r, t.last) <=> Genuine(t, r)
      BY <2>1, <3>1, GenuineReport
    <3>4. QED
      BY <3>2, <3>3
  <2>4. QED
    BY <2>2, <2>3
<1>2. TasksOK =>
        [~channel =>
           \A t \in tasks :
             /\ \A e \in AxisEvents : ReadEvent(t, e) /\ channel' => Genuine(t, e)
             /\ \A r \in Reports : ReadReport(t, r) => (channel' <=> Genuine(t, r))]_vars
  BY <1>1
<1>3. QED
  BY <1>2, TypesAlways, PTL DEF OnlyRealInput
=============================================================================
