------------------------- MODULE ScreenSaverProofs -------------------------
(***************************************************************************)
(* Proofs about ScreenSaver, for every number of applications and every    *)
(* cookie width.                                                           *)
(***************************************************************************)
EXTENDS ScreenSaver, TLAPS

LEMMA NextCookieType ==
  ASSUME next_cookie \in 0..CookieMax PROVE NextCookie \in Cookies
  BY ServiceAssumption DEF ServiceAssumption, NextCookie, Cookies

(* Before the first wrap cookies are simply counted.                       *)
LEMMA NextCookieCounts ==
  ASSUME next_cookie \in 0..CookieMax, next_cookie < CookieMax
  PROVE  NextCookie = next_cookie + 1
  BY ServiceAssumption DEF ServiceAssumption, NextCookie

LEMMA TypeInit == Init => TypeOK
  BY ServiceAssumption DEF ServiceAssumption, Init, TypeOK

LEMMA TypeStep == TypeOK /\ [Next]_vars => TypeOK'
<1> SUFFICES ASSUME TypeOK, [Next]_vars PROVE TypeOK'
  OBVIOUS
<1> USE DEF TypeOK, service, bus, clients, history
<1>1. CASE Spawn
  BY <1>1 DEF Spawn, RequestName, Subscribe, SubscribeFails, Restrict
<1>2. ASSUME NEW a \in Apps, inhibit(a) PROVE TypeOK'
  <2>1. NextCookie \in Cookies /\ NextCookie \in 0..CookieMax
    BY NextCookieType DEF Cookies
  <2>2. DOMAIN holders' = DOMAIN holders \cup {NextCookie}
        /\ holders' \in [DOMAIN holders' -> Apps]
    BY <1>2 DEF inhibit
  <2>3. held' \in [Apps -> SUBSET Cookies]
    BY <1>2, <2>1 DEF inhibit
  <2>4. stray' \subseteq Cookies /\ reused' \subseteq Cookies
    BY <1>2, <2>1 DEF inhibit
  <2>5. QED
    BY <1>2, <2>1, <2>2, <2>3, <2>4 DEF inhibit
<1>3. ASSUME NEW a \in Apps, Reap(a) PROVE TypeOK'
  BY <1>3 DEF Reap, Reaped, HeldBy, Restrict
<1>4. ASSUME NEW a \in Apps, NEW c \in Cookies, un_inhibit(a, c) PROVE TypeOK'
  BY <1>4 DEF un_inhibit, Without, Restrict
<1>5. ASSUME NEW a \in Apps, Appear(a) PROVE TypeOK'
  BY <1>5 DEF Appear
<1>6. ASSUME NEW a \in Apps, CallInhibit(a) PROVE TypeOK'
  BY <1>6 DEF CallInhibit, Call
<1>7. ASSUME NEW a \in Apps, Vanish(a) PROVE TypeOK'
  <2>1. HeldBy(a) \subseteq Cookies
    BY DEF HeldBy
  <2>2. changes' \subseteq Apps /\ stray' \subseteq Cookies
    BY <1>7, <2>1 DEF Vanish
  <2>3. QED
    BY <1>7, <2>2 DEF Vanish
<1>8. ASSUME NEW a \in Apps, NEW c \in Cookies, CallUnInhibit(a, c) PROVE TypeOK'
  BY <1>8 DEF CallUnInhibit, Call
<1>9. CASE UNCHANGED vars
  BY <1>9 DEF vars
<1>10. QED
  BY <1>1, <1>2, <1>3, <1>4, <1>5, <1>6, <1>7, <1>8, <1>9 DEF Next, Service, World

(* The service's table, cookies and calls always have their types; in      *)
(* particular no application is ever given cookie 0.                       *)
THEOREM TypeCorrect == Spec => []TypeOK
  BY TypeInit, TypeStep, PTL DEF Spec
-----------------------------------------------------------------------------
(* Every action keeps the cookies of live applications theirs.             *)
LEMMA CookieStep == TypeOK /\ CookieInv /\ [Next]_vars => CookieInv'
<1> SUFFICES ASSUME TypeOK, CookieInv, [Next]_vars PROVE CookieInv'
  OBVIOUS
<1> USE ServiceAssumption DEF ServiceAssumption, TypeOK, CookieInv, HonoursHeld, service,
    bus, clients, history
<1>1. CASE RequestName \/ Subscribe
  <2>1. UNCHANGED <<next_cookie, holders, bus, clients, history>> /\ phase # "failed"
    BY <1>1 DEF RequestName, Subscribe
  <2>2. \A c \in Cookies : InPlay(c)' => InPlay(c)
    BY <2>1 DEF InPlay
  <2>3. QED
    BY <2>1, <2>2
<1>2. CASE SubscribeFails
  BY <1>2 DEF SubscribeFails, InPlay
<1>3. ASSUME NEW a \in Apps, inhibit(a) PROVE CookieInv'
  <2> DEFINE n == NextCookie
  <2>1. n \in Cookies /\ given' = given + 1 /\ next_cookie' = n
        /\ UNCHANGED <<phase, changes, app>>
    BY <1>3, NextCookieType DEF inhibit
  <2>2. reused' = IF InPlay(n) THEN reused \cup {n} ELSE reused \ {n}
    BY <1>3 DEF inhibit
  <2>3. /\ \A b \in Apps : \A c \in held'[b] : c \in held[b] \/ (c = n /\ b = a)
        /\ \A b \in Apps : app[b] # "on" => held'[b] = held[b]
    BY <1>3 DEF inhibit
  <2>4. /\ \A c \in DOMAIN holders : c # n => c \in DOMAIN holders' /\ holders'[c] = holders[c]
        /\ n \in DOMAIN holders' /\ holders'[n] = a
    BY <1>3 DEF inhibit
  <2>5. calls' \subseteq calls
    BY <1>3 DEF inhibit
  <2>6. \A c \in Cookies : InPlay(c)' => InPlay(c) \/ c = n
    BY <2>3, <2>5 DEF InPlay
  <2>7. given' <= CookieMax => given <= CookieMax /\ n = next_cookie + 1
    BY <2>1, NextCookieCounts DEF n
  <2> HIDE DEF n
  <2>8. given' <= CookieMax => next_cookie' = given' /\ ~InPlay(n) /\ reused' = {}
    BY <2>1, <2>2, <2>7
  <2>9. given' <= CookieMax => \A c \in Cookies : InPlay(c)' => c <= next_cookie'
    BY <2>1, <2>6, <2>7 DEF Cookies
  <2>10. ASSUME NEW m \in calls', m.op = "UnInhibit", m.cookie \notin reused', NEW b \in Apps
         PROVE  m.cookie \notin held'[b]
    <3>1. m \in calls /\ m.cookie \in Cookies
          /\ \E d \in Apps : m = [from |-> d, op |-> "UnInhibit", cookie |-> m.cookie]
      BY <2>5, <2>10 DEF Call
    <3>2. InPlay(m.cookie)
      BY <3>1 DEF InPlay
    <3>3. m.cookie # n /\ m.cookie \notin reused
      BY <2>2, <2>10, <3>2
    <3>4. m.cookie \notin held[b]
      BY <2>10, <3>1, <3>3
    <3>5. QED
      BY <2>3, <3>3, <3>4
  <2>11. ASSUME phase # "failed", NEW b \in Apps, NEW c \in held'[b], c \notin reused'
         PROVE  c \in DOMAIN holders' /\ holders'[c] = b
    <3>1. CASE c = n
      <4>1. ~InPlay(n)
        BY <2>2, <2>11, <3>1
      <4>2. b = a
        BY <2>3, <2>11, <3>1, <4>1 DEF InPlay
      <4>3. QED
        BY <2>4, <3>1, <4>2
    <3>2. CASE c # n
      <4>1. c \in held[b] /\ c \notin reused
        BY <2>2, <2>3, <2>11, <3>2
      <4>2. QED
        BY <2>4, <2>11, <3>2, <4>1
    <3>3. QED
      BY <3>1, <3>2
  <2>12. QED
    BY <2>1, <2>3, <2>8, <2>9, <2>10, <2>11
<1>4. ASSUME NEW a \in Apps, Reap(a) PROVE CookieInv'
  BY <1>4 DEF Reap, Reaped, HeldBy, Restrict, InPlay
<1>5. ASSUME NEW a \in Apps, NEW k \in Cookies, un_inhibit(a, k) PROVE CookieInv'
  <2>1. k \notin reused => \A b \in Apps : k \notin held[b]
    BY <1>5 DEF un_inhibit
  <2>2. /\ UNCHANGED <<phase, next_cookie, changes, app, held, given, reused>>
        /\ calls' \subseteq calls
        /\ \A c \in DOMAIN holders : c # k => c \in DOMAIN holders' /\ holders'[c] = holders[c]
    BY <1>5 DEF un_inhibit, Without, Restrict
  <2>3. \A c \in Cookies : InPlay(c)' => InPlay(c)
    BY <2>2 DEF InPlay
  <2>4. QED
    BY <2>1, <2>2, <2>3
<1>6. ASSUME NEW a \in Apps, Appear(a) PROVE CookieInv'
  BY <1>6 DEF Appear, InPlay
<1>7. ASSUME NEW a \in Apps, CallInhibit(a) PROVE CookieInv'
  <2>1. UNCHANGED <<service, changes, clients, history>>
    BY <1>7 DEF CallInhibit
  <2>2. \A m \in calls' : m.op = "UnInhibit" => m \in calls
    BY <1>7 DEF CallInhibit
  <2>3. \A c \in Cookies : InPlay(c)' => InPlay(c)
    <3>1. SUFFICES ASSUME NEW c \in Cookies, NEW b \in Apps,
                          [from |-> b, op |-> "UnInhibit", cookie |-> c] \in calls'
                   PROVE  [from |-> b, op |-> "UnInhibit", cookie |-> c] \in calls
      BY <2>1 DEF InPlay
    <3>2. [from |-> b, op |-> "UnInhibit", cookie |-> c].op = "UnInhibit"
      OBVIOUS
    <3>3. QED
      BY <2>2, <3>1, <3>2, Zenon
  <2>4. QED
    BY <2>1, <2>2, <2>3
<1>8. ASSUME NEW a \in Apps, Vanish(a) PROVE CookieInv'
  <2>1. /\ UNCHANGED <<phase, next_cookie, holders, calls, given, reused>>
        /\ app' = [app EXCEPT ![a] = "gone"] /\ held' = [held EXCEPT ![a] = {}]
        /\ changes' \subseteq changes \cup {a}
    BY <1>8 DEF Vanish
  <2>2. \A b \in Apps : held'[b] \subseteq held[b]
    BY <2>1
  <2>3. \A c \in Cookies : InPlay(c)' => InPlay(c)
    BY <2>1, <2>2 DEF InPlay
  <2>4. QED
    BY <2>1, <2>2, <2>3
<1>9. ASSUME NEW a \in Apps, NEW k \in Cookies, CallUnInhibit(a, k) PROVE CookieInv'
  <2>1. \A b \in Apps : held'[b] \subseteq held[b] /\ (b # a => held'[b] = held[b])
    BY <1>9 DEF CallUnInhibit
  <2>2. k \notin held'[a] /\ k \in held[a] /\ app[a] = "on" /\ phase # "failed"
    BY <1>9 DEF CallUnInhibit, Named
  <2>3. UNCHANGED <<service, changes, app, given, history>>
    BY <1>9 DEF CallUnInhibit
  <2>4. k \notin reused => \A b \in Apps : k \notin held'[b]
    BY <2>1, <2>2
  <2>5. \A m \in calls' : m \in calls \/ (m.op = "UnInhibit" /\ m.cookie = k)
    BY <1>9 DEF CallUnInhibit
  <2>6. \A c \in Cookies : InPlay(c)' => InPlay(c)
    <3>1. SUFFICES ASSUME NEW c \in Cookies, NEW b \in Apps,
                          [from |-> b, op |-> "UnInhibit", cookie |-> c] \in calls'
                   PROVE  InPlay(c)
      BY <2>1 DEF InPlay
    <3>2. [from |-> b, op |-> "UnInhibit", cookie |-> c].cookie = c
      OBVIOUS
    <3>3. [from |-> b, op |-> "UnInhibit", cookie |-> c] \in calls \/ c = k
      BY <2>5, <3>1, <3>2, Zenon
    <3>4. QED
      BY <2>2, <3>3 DEF InPlay
  <2>7. QED
    BY <2>1, <2>2, <2>3, <2>4, <2>5, <2>6
<1>10. CASE UNCHANGED vars
  BY <1>10 DEF vars, InPlay
<1>11. QED
  BY <1>1, <1>2, <1>3, <1>4, <1>5, <1>6, <1>7, <1>8, <1>9, <1>10
     DEF Next, Spawn, Service, World

(* The inhibitor of an application that holds a cookie is lost only when   *)
(* the wrap gave its cookie out again, which no call does before there     *)
(* were as many as there are cookies.                                      *)
THEOREM HeldIsHonoured == Spec => []HonoursHeld
<1>1. Init => CookieInv
  BY ServiceAssumption DEF ServiceAssumption, Init, CookieInv, HonoursHeld, InPlay
<1>2. CookieInv => HonoursHeld
  BY DEF CookieInv
<1>3. QED
  BY <1>1, <1>2, TypeCorrect, CookieStep, PTL DEF Spec
-----------------------------------------------------------------------------
(* Every action leaves a reason for every cookie in the table.             *)
LEMMA RealStep == TypeOK /\ RealInv /\ [Next]_vars => RealInv'
<1> SUFFICES ASSUME TypeOK, RealInv, [Next]_vars PROVE RealInv'
  OBVIOUS
<1> USE DEF TypeOK, RealInv, OnlyRealHolders, service, bus, clients, history
<1>1. CASE Spawn
  BY <1>1 DEF Spawn, RequestName, Subscribe, SubscribeFails, Restrict
<1>2. ASSUME NEW a \in Apps, inhibit(a) PROVE RealInv'
  <2>1. NextCookie \in Cookies
    BY NextCookieType DEF Cookies
  <2>2. app[a] # "off" /\ (app[a] = "on" \/ app[a] = "gone")
    BY <1>2 DEF inhibit
  <2>3. \A m \in calls' : m \in calls
    BY <1>2 DEF inhibit
  <2>4. \A m \in calls : m.op = "UnInhibit" => m \in calls'
    BY <1>2 DEF inhibit
  <2>5. \A b \in Apps : held[b] \subseteq held'[b]
    BY <1>2, <2>1 DEF inhibit
  <2>6. app[a] = "on" => NextCookie \in held'[a]
    BY <1>2, <2>1 DEF inhibit
  <2>7. \A c \in DOMAIN holders' :
          IF c = NextCookie THEN holders'[c] = a
          ELSE c \in DOMAIN holders /\ holders'[c] = holders[c]
    BY <1>2 DEF inhibit
  <2>8. app' = app
    BY <1>2 DEF inhibit
  <2>9. OnlyRealHolders'
    BY <2>2, <2>4, <2>5, <2>6, <2>7, <2>8
  <2>10. QED
    BY <2>3, <2>8, <2>9
<1>3. ASSUME NEW a \in Apps, Reap(a) PROVE RealInv'
  BY <1>3 DEF Reap, Reaped, HeldBy, Restrict
<1>4. ASSUME NEW a \in Apps, NEW k \in Cookies, un_inhibit(a, k) PROVE RealInv'
  BY <1>4 DEF un_inhibit, Without, Restrict
<1>5. ASSUME NEW a \in Apps, Appear(a) PROVE RealInv'
  BY <1>5 DEF Appear, Call
<1>6. ASSUME NEW a \in Apps, CallInhibit(a) PROVE RealInv'
  BY <1>6 DEF CallInhibit
<1>7. ASSUME NEW a \in Apps, Vanish(a) PROVE RealInv'
  BY <1>7 DEF Vanish, Call
<1>8. ASSUME NEW a \in Apps, NEW k \in Cookies, CallUnInhibit(a, k) PROVE RealInv'
  BY <1>8 DEF CallUnInhibit
<1>9. CASE UNCHANGED vars
  BY <1>9 DEF vars
<1>10. QED
  BY <1>1, <1>2, <1>3, <1>4, <1>5, <1>6, <1>7, <1>8, <1>9 DEF Next, Service, World

(* The daemon is kept awake only on behalf of applications that hold a     *)
(* cookie, are just releasing it, or are gone.                             *)
THEOREM HoldersAreReal == Spec => []OnlyRealHolders
<1>1. Init => RealInv
  BY DEF Init, RealInv, OnlyRealHolders
<1>2. RealInv => OnlyRealHolders
  BY DEF RealInv
<1>3. QED
  BY <1>1, <1>2, TypeCorrect, RealStep, PTL DEF Spec
-----------------------------------------------------------------------------
(* What each step leaves in the table for an application that is gone.     *)
LEMMA PinStep == TypeOK /\ NothingPinned /\ [Next]_vars => NothingPinned'
<1> SUFFICES ASSUME TypeOK, NothingPinned, [Next]_vars, NEW b \in Apps, app'[b] = "gone"
             PROVE  b \in changes' \/ HeldBy(b)' \subseteq stray'
  BY DEF NothingPinned
<1>1. app[b] = "gone" => b \in changes \/ HeldBy(b) \subseteq stray
  BY DEF NothingPinned
<1> USE DEF TypeOK, HeldBy, service, bus, clients, history
<1>2. CASE RequestName \/ Subscribe
  BY <1>1, <1>2 DEF RequestName, Subscribe
<1>3. CASE SubscribeFails
  BY <1>3 DEF SubscribeFails, Restrict
<1>4. ASSUME NEW a \in Apps, inhibit(a) PROVE b \in changes' \/ HeldBy(b)' \subseteq stray'
  <2>1. /\ UNCHANGED <<changes, app>>
        /\ stray' = IF Missed(a) THEN stray \cup {NextCookie} ELSE stray \ {NextCookie}
        /\ \A c \in DOMAIN holders' :
             IF c = NextCookie THEN holders'[c] = a
             ELSE c \in DOMAIN holders /\ holders'[c] = holders[c]
    BY <1>4 DEF inhibit
  <2>2. CASE b \in changes
    BY <2>1, <2>2
  <2>3. CASE b \notin changes /\ b = a
    <3>1. stray' = stray \cup {NextCookie}
      BY <2>1, <2>3 DEF Missed
    <3>2. QED
      BY <1>1, <2>1, <2>3, <3>1
  <2>4. CASE b \notin changes /\ b # a
    <3>1. HeldBy(b)' \subseteq HeldBy(b) \ {NextCookie}
      BY <2>1, <2>4
    <3>2. HeldBy(b) \subseteq stray /\ stray \ {NextCookie} \subseteq stray'
      BY <1>1, <2>1, <2>4
    <3> HIDE DEF HeldBy
    <3>3. QED
      BY <3>1, <3>2
  <2>5. QED
    BY <2>2, <2>3, <2>4
<1>5. ASSUME NEW a \in Apps, Reap(a) PROVE b \in changes' \/ HeldBy(b)' \subseteq stray'
  <2>1. DOMAIN holders' = DOMAIN holders \ HeldBy(a)
        /\ \A c \in DOMAIN holders' : holders'[c] = holders[c]
    BY <1>5 DEF Reap, Reaped, Restrict
  <2>2. HeldBy(a)' = {} /\ HeldBy(b)' \subseteq HeldBy(b)
    BY <2>1
  <2>3. UNCHANGED <<app, stray>> /\ changes' = changes \ {a}
    BY <1>5 DEF Reap
  <2> HIDE DEF HeldBy
  <2>4. QED
    BY <1>1, <2>2, <2>3
<1>6. ASSUME NEW a \in Apps, NEW k \in Cookies, un_inhibit(a, k)
      PROVE  b \in changes' \/ HeldBy(b)' \subseteq stray'
  <2>1. HeldBy(b)' \subseteq HeldBy(b) \ {k}
    BY <1>6 DEF un_inhibit, Without, Restrict
  <2>2. UNCHANGED <<changes, app>> /\ stray' = stray \ {k}
    BY <1>6 DEF un_inhibit
  <2> HIDE DEF HeldBy
  <2>3. QED
    BY <1>1, <2>1, <2>2
<1>7. ASSUME NEW a \in Apps, Appear(a) PROVE b \in changes' \/ HeldBy(b)' \subseteq stray'
  BY <1>1, <1>7 DEF Appear
<1>8. ASSUME NEW a \in Apps, CallInhibit(a)
      PROVE  b \in changes' \/ HeldBy(b)' \subseteq stray'
  BY <1>1, <1>8 DEF CallInhibit
<1>9. ASSUME NEW a \in Apps, Vanish(a) PROVE b \in changes' \/ HeldBy(b)' \subseteq stray'
  <2>1. /\ UNCHANGED service
        /\ b # a => app'[b] = app[b]
        /\ IF phase = "watching" THEN changes' = changes \cup {a} /\ stray' = stray
           ELSE changes' = changes /\ stray' = stray \cup HeldBy(a)
    BY <1>9 DEF Vanish
  <2>2. HeldBy(b)' = HeldBy(b)
    BY <2>1
  <2> HIDE DEF HeldBy
  <2>3. QED
    BY <1>1, <2>1, <2>2
<1>10. ASSUME NEW a \in Apps, NEW k \in Cookies, CallUnInhibit(a, k)
       PROVE  b \in changes' \/ HeldBy(b)' \subseteq stray'
  BY <1>1, <1>10 DEF CallUnInhibit
<1>11. CASE UNCHANGED vars
  BY <1>1, <1>11 DEF vars
<1>12. QED
  BY <1>2, <1>3, <1>4, <1>5, <1>6, <1>7, <1>8, <1>9, <1>10, <1>11
     DEF Next, Spawn, Service, World

(* Whenever an application leaves, whatever it had asked for by then: its  *)
(* cookies are in the table no longer than until the reaper has read of    *)
(* it, unless nobody was subscribed when it left or its Inhibit ran later. *)
THEOREM GoneAreReaped == Spec => []NothingPinned
<1>1. Init => NothingPinned
  BY DEF Init, NothingPinned
<1>2. QED
  BY <1>1, TypeCorrect, PinStep, PTL DEF Spec
=============================================================================
