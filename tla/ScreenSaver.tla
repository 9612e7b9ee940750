---------------------------- MODULE ScreenSaver ----------------------------
(***************************************************************************)
(* screensaver.rs: the org.freedesktop.ScreenSaver service, which hands    *)
(* out cookies to applications that want the screen kept on, and the task  *)
(* that takes back the cookies of applications that left the bus.          *)
(*                                                                         *)
(* spawn() is a task of the daemon; zbus runs the methods, and            *)
(* tokio::spawn the reaper, in tasks of their own.  They share State, each *)
(* critical section of its mutex being one action here.  A method call     *)
(* that has arrived waits in calls until its task runs; a NameOwnerChanged *)
(* signal waits in changes.                                                *)
(*                                                                         *)
(* An application has a unique bus name, never used again once it is gone. *)
(***************************************************************************)
EXTENDS Naturals, FiniteSets, Functions

CONSTANTS
  Apps,        (* unique bus names of applications                         *)
  CookieMax,   (* the largest u32                                          *)
  MaxCalls     (* no call of Inhibit is made after so many were answered   *)

ASSUME ServiceAssumption ==
  /\ CookieMax \in Nat \ {0}
  /\ MaxCalls \in Nat

VARIABLES
  phase,         (* how far spawn() is                                     *)
  next_cookie,   (* State.next_cookie                                      *)
  holders,       (* State.holders: cookie -> the sender of its Holder      *)
  calls,         (* method calls that arrived and did not run yet          *)
  changes,       (* names in the reaper's stream whose owner is gone       *)
  app,           (* per application: not on the bus yet, on it, or gone    *)
  held,          (* per application: cookies it was given and not released *)
  given,         (* how many calls of Inhibit were answered                *)
  stray,         (* history: cookies in the table whose owner left with    *)
                 (* nobody watching, or before its Inhibit ran             *)
  reused         (* history: cookies given again while still in play       *)

service == <<phase, next_cookie, holders>>
bus     == <<calls, changes>>
clients == <<app, held, given>>
history == <<stray, reused>>
vars    == <<service, bus, clients, history>>

Cookies == 1..CookieMax
Call == [from : Apps, op : {"Inhibit"}]
          \cup [from : Apps, op : {"UnInhibit"}, cookie : Cookies]

Named == phase \in {"named", "watching"}
Without(c) == Restrict(holders, DOMAIN holders \ {c})
HeldBy(a) == {c \in DOMAIN holders : holders[c] = a}

(* Cookie c is held, or its release waits to run. *)
InPlay(c) ==
  \/ \E a \in Apps : c \in held[a]
  \/ \E a \in Apps : [from |-> a, op |-> "UnInhibit", cookie |-> c] \in calls

-----------------------------------------------------------------------------
(* spawn: objects are served before the name is claimed, the reaper        *)
(* subscribes after.                                                       *)

RequestName ==
  /\ phase = "serving"
  /\ phase' \in {"named", "failed"}
  /\ UNCHANGED <<next_cookie, holders, bus, clients, history>>

Subscribe ==
  /\ phase = "named"
  /\ phase' = "watching"
  /\ UNCHANGED <<next_cookie, holders, bus, clients, history>>

(* spawn returns an error: the connection, the name and the state with it. *)
SubscribeFails ==
  /\ phase = "named"
  /\ phase' = "failed"
  /\ calls' = {}
  /\ holders' = Restrict(holders, {})
  /\ stray' = {} /\ reused' = {}
  /\ UNCHANGED <<next_cookie, changes, clients>>

-----------------------------------------------------------------------------
(* The methods, each under the lock of State. *)

(* Slips: 0 is handed out at the wrap; the cookie is the number of holders. *)
NextCookieNoSkip == (next_cookie + 1) % (CookieMax + 1)
NextCookieByCount == Cardinality(DOMAIN holders) + 1

(* wrapping_add, then 0 is skipped. *)
NextCookie == LET n == (next_cookie + 1) % (CookieMax + 1) IN IF n = 0 THEN 1 ELSE n

(* The reaper has been told of a already, or never will be: whatever a is  *)
(* given stays.                                                            *)
Missed(a) == app[a] = "gone" /\ a \notin changes

inhibit(a) ==
  /\ [from |-> a, op |-> "Inhibit"] \in calls
  /\ calls' = calls \ {[from |-> a, op |-> "Inhibit"]}
  /\ next_cookie' = NextCookie
  /\ holders' = [c \in DOMAIN holders \cup {NextCookie} |->
                   IF c = NextCookie THEN a ELSE holders[c]]
  /\ held' = IF app[a] = "on" THEN [held EXCEPT ![a] = @ \cup {NextCookie}] ELSE held
  /\ given' = given + 1
  /\ stray' = IF Missed(a) THEN stray \cup {NextCookie} ELSE stray \ {NextCookie}
  /\ reused' = IF InPlay(NextCookie) THEN reused \cup {NextCookie}
               ELSE reused \ {NextCookie}
  /\ UNCHANGED <<phase, changes, app>>

(* A slip: the call is answered and the cookie stays. *)
un_inhibit_forgets(a, c) ==
  /\ [from |-> a, op |-> "UnInhibit", cookie |-> c] \in calls
  /\ calls' = calls \ {[from |-> a, op |-> "UnInhibit", cookie |-> c]}
  /\ UNCHANGED <<service, changes, clients, history>>

(* Whoever calls: the sender is not looked at. *)
un_inhibit(a, c) ==
  /\ [from |-> a, op |-> "UnInhibit", cookie |-> c] \in calls
  /\ calls' = calls \ {[from |-> a, op |-> "UnInhibit", cookie |-> c]}
  /\ holders' = Without(c)
  /\ stray' = stray \ {c}
  /\ UNCHANGED <<phase, next_cookie, changes, clients, reused>>

(* A slip: one cookie per vanished application. *)
ReapedOne(a) ==
  IF HeldBy(a) = {} THEN holders
  ELSE Without(CHOOSE c \in HeldBy(a) : TRUE)

(* The reaper: retain every cookie but those of the name that is gone.     *)
Reaped(a) == Restrict(holders, DOMAIN holders \ HeldBy(a))

Reap(a) ==
  /\ phase = "watching" /\ a \in changes
  /\ changes' = changes \ {a}
  /\ holders' = Reaped(a)
  /\ UNCHANGED <<phase, next_cookie, calls, clients, history>>

(* ScreenSaverWatch::inhibited, what the daemon asks. *)
inhibited == holders # << >>

-----------------------------------------------------------------------------
(* Applications.  A cookie is released by whom it was given to.            *)

Appear(a) ==
  /\ app[a] = "off"
  /\ app' = [app EXCEPT ![a] = "on"]
  /\ UNCHANGED <<service, bus, held, given, history>>

CallInhibit(a) ==
  /\ Named /\ app[a] = "on" /\ given < MaxCalls
  /\ [from |-> a, op |-> "Inhibit"] \notin calls
  /\ calls' = calls \cup {[from |-> a, op |-> "Inhibit"]}
  /\ UNCHANGED <<service, changes, clients, history>>

CallUnInhibit(a, c) ==
  /\ Named /\ app[a] = "on" /\ c \in held[a]
  /\ calls' = calls \cup {[from |-> a, op |-> "UnInhibit", cookie |-> c]}
  /\ held' = [held EXCEPT ![a] = @ \ {c}]
  /\ UNCHANGED <<service, changes, app, given, history>>

(* An exit or a crash, at any time: the bus announces it to those who have *)
(* subscribed, and delivers the calls of the application that it has.      *)
Vanish(a) ==
  /\ app[a] = "on"
  /\ app' = [app EXCEPT ![a] = "gone"]
  /\ held' = [held EXCEPT ![a] = {}]
  /\ IF phase = "watching"
       THEN changes' = changes \cup {a} /\ UNCHANGED stray
       ELSE stray' = stray \cup HeldBy(a) /\ UNCHANGED changes
  /\ UNCHANGED <<service, calls, given, reused>>

-----------------------------------------------------------------------------

Init ==
  /\ phase = "serving"
  /\ next_cookie = 0 /\ holders = [c \in {} |-> c]
  /\ calls = {} /\ changes = {}
  /\ app = [a \in Apps |-> "off"]
  /\ held = [a \in Apps |-> {}]
  /\ given = 0
  /\ stray = {} /\ reused = {}

Spawn == RequestName \/ Subscribe \/ SubscribeFails

Service ==
  \/ \E a \in Apps : inhibit(a) \/ Reap(a)
  \/ \E a \in Apps, c \in Cookies : un_inhibit(a, c)

World ==
  \/ \E a \in Apps : Appear(a) \/ CallInhibit(a) \/ Vanish(a)
  \/ \E a \in Apps, c \in Cookies : CallUnInhibit(a, c)

Next == Spawn \/ Service \/ World

Spec == Init /\ [][Next]_vars

(* Every task that can run does in the end: spawn is awaited by the daemon *)
(* and tokio polls the others when their messages are there.               *)
FairSpec ==
  /\ Spec
  /\ WF_vars(RequestName) /\ WF_vars(Subscribe \/ SubscribeFails)
  /\ \A a \in Apps : WF_vars(inhibit(a)) /\ WF_vars(Reap(a))
  /\ \A a \in Apps, c \in Cookies : WF_vars(un_inhibit(a, c))
-----------------------------------------------------------------------------
(* Properties. *)

(* Every variable holds a value of its kind; cookie 0 is never handed out. *)
TypeOK ==
  /\ phase \in {"serving", "named", "watching", "failed"}
  /\ next_cookie \in 0..CookieMax
  /\ DOMAIN holders \subseteq Cookies
  /\ holders \in [DOMAIN holders -> Apps]
  /\ calls \subseteq Call
  /\ changes \subseteq Apps
  /\ app \in [Apps -> {"off", "on", "gone"}]
  /\ held \in [Apps -> SUBSET Cookies]
  /\ given \in Nat
  /\ stray \subseteq Cookies /\ reused \subseteq Cookies

(* While an application holds a cookie, the daemon sees an inhibitor of    *)
(* that application, whatever other applications take, release or leave,   *)
(* and in whatever order the tasks run (screensaver.rs, lines 10 to 12).   *)
(* The one exception is a cookie that the wrap of next_cookie gave out     *)
(* again while somebody still held it, or was releasing it, which none of  *)
(* the first 2^32 - 1 calls does.                                          *)
HonoursHeld ==
  /\ phase # "failed" =>
       \A a \in Apps : \A c \in held[a] \ reused : c \in DOMAIN holders /\ holders[c] = a
  /\ given <= CookieMax => reused = {}

(* Nothing else keeps the screen on: every cookie in the table is held, is *)
(* about to be released, or belongs to an application that is gone.        *)
OnlyRealHolders ==
  \A c \in DOMAIN holders :
    \/ c \in held[holders[c]]
    \/ [from |-> holders[c], op |-> "UnInhibit", cookie |-> c] \in calls
    \/ app[holders[c]] = "gone"

(* A cookie of an application that is gone is in the table only as long as *)
(* its NameOwnerChanged is on its way to the reaper, but for the two ways  *)
(* to get stranded: the application left between the claim of the name and *)
(* the subscription, or its own Inhibit ran after the reaper's visit.      *)
NothingPinned ==
  \A a \in Apps : app[a] = "gone" => a \in changes \/ HeldBy(a) \subseteq stray

(* The cookies of an application that is gone are taken back for good,     *)
(* "otherwise a crash would pin the screen on forever".                    *)
GoneReleased == \A a \in Apps : app[a] = "gone" ~> [](HeldBy(a) = {})

(* The reaper takes back for good what is not stranded.                    *)
GoneReaped == \A a \in Apps : app[a] = "gone" ~> [](HeldBy(a) \subseteq stray)

(* When every video has stopped, nothing keeps the screen from blanking,   *)
(* in the end, but what is stranded.                                       *)
ReleasedInTheEnd ==
  <>[](\A a \in Apps : held[a] = {}) => <>[](DOMAIN holders \subseteq stray)
-----------------------------------------------------------------------------
(* Inductive strengthenings, proved in ScreenSaverProofs (NothingPinned is  *)
(* inductive as it stands).                                                *)

(* Before the first wrap every cookie in play is one given before, a       *)
(* cookie that is being released is nobody's any more, and the reaper only *)
(* visits applications that hold nothing.                                  *)
CookieInv ==
  /\ given <= CookieMax =>
       next_cookie = given /\ \A c \in Cookies : InPlay(c) => c <= next_cookie
  /\ \A m \in calls : m.op = "UnInhibit" /\ m.cookie \notin reused =>
       \A a \in Apps : m.cookie \notin held[a]
  /\ \A a \in Apps : app[a] # "on" => held[a] = {}
  /\ \A a \in changes : app[a] = "gone"
  /\ HonoursHeld

RealInv ==
  /\ \A m \in calls : app[m.from] # "off"
  /\ OnlyRealHolders
=============================================================================
