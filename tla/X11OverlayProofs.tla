-------------------------- MODULE X11OverlayProofs --------------------------
(***************************************************************************)
(* Proofs about X11Overlay, for every set of opacities, any length of the  *)
(* queue and any number of outages.                                        *)
(***************************************************************************)
EXTENDS X11Overlay, QueueLemmas, TLAPS

LEMMA TypeInit == Init => TypeOK
<1> SUFFICES ASSUME Init PROVE TypeOK
  OBVIOUS
<1>1. quit \in BOOLEAN /\ linked \in BOOLEAN /\ mapped \in BOOLEAN /\ raised \in BOOLEAN
      /\ broken \in BOOLEAN
  BY Zenon DEF Init
<1>2. queue \in Seq(Opacities \cup {Quit})
  BY DEF Init
<1>3. QED
  BY <1>1, <1>2, X11Assumption DEF X11Assumption, Init, TypeOK, InLoop

LEMMA TypeStep == TypeOK /\ [Next]_vars => TypeOK'
<1> SUFFICES ASSUME TypeOK, [Next]_vars PROVE TypeOK'
  OBVIOUS
<1> USE X11Assumption DEF X11Assumption, TypeOK, Running, InLoop, handle, link, window, server
<1>1. ASSUME NEW a \in Opacities, SetAlpha(a) PROVE TypeOK'
  BY <1>1 DEF SetAlpha
<1>2. CASE StoreQuit  BY <1>2 DEF StoreQuit
<1>3. CASE HandleReturns
  <2>1. queue' \in Seq(Opacities \cup {Quit})
    BY <1>3, LastOfAppend DEF HandleReturns, SendAlpha, SendQuit, Send
  <2>2. QED  BY <1>3, <2>1 DEF HandleReturns, SendAlpha, SendQuit, Send
<1>4. CASE CheckQuit  BY <1>4 DEF CheckQuit
<1>5. CASE Connect  BY <1>5 DEF Connect
<1>6. CASE Recheck  BY <1>6 DEF Recheck
<1>7. CASE Publish  BY <1>7 DEF Publish
<1>8. CASE Unlink
  <2>1. linked' \in BOOLEAN /\ linked' = FALSE
    BY <1>8, Zenon DEF Unlink
  <2>2. queue' \in Seq(Opacities \cup {Quit})
    BY <1>8 DEF Unlink
  <2>3. QED  BY <1>8, <2>1, <2>2 DEF Unlink
<1>9. CASE Setup
  <2>1. mapped' \in BOOLEAN /\ raised' \in BOOLEAN /\ thread' = "loop"
    BY <1>9, Zenon DEF Setup, ShowWindow
  <2>2. QED  BY <1>9, <2>1 DEF Setup, ShowWindow
<1>10. CASE ConnectionLost \/ NoVisual
  <2>1. mapped' \in BOOLEAN /\ thread' = "unlink"
    BY <1>10, Zenon DEF ConnectionLost, NoVisual, RunReturns
  <2>2. QED  BY <1>10, <2>1 DEF ConnectionLost, NoVisual, RunReturns
<1>11. CASE OnShow
  <2>1. Head(queue) \in Opacities /\ queue' \in Seq(Opacities \cup {Quit})
    BY <1>11 DEF OnShow
  <2>2. mapped' \in BOOLEAN /\ raised' \in BOOLEAN
    BY <1>11, Zenon DEF OnShow, ShowWindow
  <2>3. QED  BY <1>11, <2>1, <2>2 DEF OnShow, ShowWindow
<1>12. CASE OnHide
  <2>1. queue' \in Seq(Opacities \cup {Quit})
    BY <1>12 DEF OnHide
  <2>2. QED  BY <1>12, <2>1 DEF OnHide
<1>13. CASE Lower
  <2>1. raised' \in BOOLEAN
    BY <1>13, Zenon DEF Lower
  <2>2. QED  BY <1>13, <2>1 DEF Lower
<1>14. CASE OnQuit
  <2>1. queue' \in Seq(Opacities \cup {Quit})
    BY <1>14 DEF OnQuit
  <2>2. mapped' \in BOOLEAN /\ thread' = "unlink"
    BY <1>14, Zenon DEF OnQuit, RunReturns
  <2>3. QED  BY <1>14, <2>1, <2>2 DEF OnQuit, RunReturns
<1>15. CASE Compositor
  <2>1. CASE Recomposite  BY <2>1 DEF Recomposite
  <2>2. CASE GoAway
    <3>1. up' \in BOOLEAN /\ broken' \in BOOLEAN
      BY <2>2, Zenon DEF GoAway
    <3>2. QED  BY <2>2, <3>1 DEF GoAway
  <2>3. CASE ComeBack  BY <2>3 DEF ComeBack
  <2>4. CASE WriteEnvironment  BY <2>4 DEF WriteEnvironment
  <2>5. QED  BY <1>15, <2>1, <2>2, <2>3, <2>4 DEF Compositor
<1>16. CASE UNCHANGED vars
  BY <1>16 DEF vars
<1>17. QED
  BY <1>1, <1>2, <1>3, <1>4, <1>5, <1>6, <1>7, <1>8, <1>9, <1>10, <1>11, <1>12, <1>13,
     <1>14, <1>15, <1>16 DEF Next, Thread

(* Types, and a sender exactly while a connection is being used.           *)
THEOREM TypeCorrect == Spec => []TypeOK
  BY TypeInit, TypeStep, PTL DEF Spec
-----------------------------------------------------------------------------
(* No step makes the thread settle on another opacity than the desired one, *)
(* a hide that meets an unmapped window included.                           *)
LEMMA WordStep == TypeOK /\ WordInv /\ [Next]_vars => WordInv'
<1> SUFFICES ASSUME TypeOK, WordInv, [Next]_vars PROVE WordInv'
  OBVIOUS
<1> USE DEF TypeOK, WordInv, HearsTheLastWord, LastWord, Running, InLoop, handle, link,
            window, server
<1>1. ASSUME NEW a \in Opacities, SetAlpha(a) PROVE WordInv'
  BY <1>1 DEF SetAlpha
<1>2. CASE StoreQuit  BY <1>2 DEF StoreQuit
<1>3. CASE SendAlpha
  <2>1. InLoop \/ thread = "setup" =>
          queue' # << >> /\ queue'[Len(queue')] = desired
    BY <1>3, LastOfAppend DEF SendAlpha, Send
  <2>2. QED  BY <1>3, <2>1 DEF SendAlpha
<1>4. CASE SendQuit  BY <1>4 DEF SendQuit
<1>5. CASE CheckQuit \/ Connect \/ Recheck
  BY <1>5 DEF CheckQuit, Connect, Recheck
<1>6. CASE Publish \/ Unlink
  BY <1>6 DEF Publish, Unlink
<1>7. CASE Setup
  BY <1>7 DEF Setup, ShowWindow
<1>8. CASE ConnectionLost \/ NoVisual
  BY <1>8 DEF ConnectionLost, NoVisual, RunReturns
<1>9. CASE OnShow \/ OnHide
  <2>1. /\ queue' = << >> => pixel' = queue[Len(queue)]
        /\ queue' # << >> => queue'[Len(queue')] = queue[Len(queue)]
    BY <1>9, LastOfTail DEF OnShow, OnHide, ShowWindow
  <2>2. QED  BY <1>9, <2>1 DEF OnShow, OnHide, ShowWindow
<1>10. CASE Lower
  BY <1>10 DEF Lower
<1>11. CASE OnQuit
  BY <1>11 DEF OnQuit, RunReturns
<1>12. CASE Compositor
  BY <1>12 DEF Compositor, Recomposite, GoAway, ComeBack, WriteEnvironment
<1>13. CASE UNCHANGED vars
  BY <1>13 DEF vars
<1>14. QED
  BY <1>1, <1>2, <1>3, <1>4, <1>5, <1>6, <1>7, <1>8, <1>9, <1>10, <1>11, <1>12, <1>13
  DEF Next, HandleReturns, Thread

(* However show, hide and reconnects interleave, the last opacity that was *)
(* asked for is the one the window settles on.                             *)
THEOREM LastWordHeard == Spec => []HearsTheLastWord
<1>1. Init => WordInv
  BY DEF Init, WordInv, HearsTheLastWord, InLoop
<1>2. WordInv => HearsTheLastWord
  BY DEF WordInv
<1>3. QED
  BY <1>1, <1>2, TypeCorrect, WordStep, PTL DEF Spec
-----------------------------------------------------------------------------
LEMMA FrameStep == TypeOK /\ NoStaleFrame /\ [Next]_vars => NoStaleFrame'
<1> SUFFICES ASSUME TypeOK, NoStaleFrame, [Next]_vars PROVE NoStaleFrame'
  OBVIOUS
<1> USE DEF TypeOK, NoStaleFrame, Running, InLoop, handle, link, window, server
<1>1. ASSUME NEW a \in Opacities, SetAlpha(a) PROVE NoStaleFrame'
  BY <1>1 DEF SetAlpha
<1>2. CASE StoreQuit \/ HandleReturns
  BY <1>2 DEF StoreQuit, HandleReturns, SendAlpha, SendQuit
<1>3. CASE CheckQuit \/ Connect \/ Recheck \/ Publish \/ Unlink
  BY <1>3 DEF CheckQuit, Connect, Recheck, Publish, Unlink
<1>4. CASE Setup
  BY <1>4 DEF Setup, ShowWindow
<1>5. CASE ConnectionLost \/ NoVisual \/ OnQuit
  BY <1>5 DEF ConnectionLost, NoVisual, OnQuit, RunReturns
<1>6. CASE OnShow
  BY <1>6 DEF OnShow, ShowWindow
<1>7. CASE OnHide
  BY <1>7 DEF OnHide
<1>8. CASE Lower
  BY <1>8 DEF Lower
<1>9. CASE Compositor
  <2>1. CASE Recomposite
    <3>1. CASE raised  BY <2>1, <3>1 DEF Recomposite
    <3>2. CASE ~raised  BY <2>1, <3>2 DEF Recomposite
    <3>3. QED  BY <3>1, <3>2
  <2>2. CASE GoAway  BY <2>2 DEF GoAway
  <2>3. CASE ComeBack  BY <2>3 DEF ComeBack
  <2>4. CASE WriteEnvironment  BY <2>4 DEF WriteEnvironment
  <2>5. QED  BY <1>9, <2>1, <2>2, <2>3, <2>4 DEF Compositor
<1>10. CASE UNCHANGED vars
  BY <1>10 DEF vars
<1>11. QED
  BY <1>1, <1>2, <1>3, <1>4, <1>5, <1>6, <1>7, <1>8, <1>9, <1>10 DEF Next, Thread

(* Whatever was shown and hidden before, the frame on the screen is what   *)
(* the mapped window holds, and a hidden window leaves mangoapp its slot.  *)
THEOREM FramesFresh == Spec => []NoStaleFrame
<1>1. Init => NoStaleFrame
  BY DEF Init, NoStaleFrame, InLoop
<1>2. QED
  BY <1>1, TypeCorrect, FrameStep, PTL DEF Spec
-----------------------------------------------------------------------------
(* The refinement of OverlayRegister.  Quit is sent once, by the last call. *)
NoQuitYet == caller # "done" => \A i \in 1 .. Len(queue) : queue[i] # Quit

LEMMA NoQuitStep == TypeOK /\ NoQuitYet /\ [Next]_vars => NoQuitYet'
<1> SUFFICES ASSUME TypeOK, NoQuitYet, [Next]_vars PROVE NoQuitYet'
  OBVIOUS
<1> USE DEF TypeOK, NoQuitYet, handle, link, window, server
<1> Quit \notin Opacities
  BY X11Assumption DEF X11Assumption, Quit
<1>1. ASSUME NEW a \in Opacities, SetAlpha(a) PROVE NoQuitYet'
  BY <1>1 DEF SetAlpha
<1>2. CASE StoreQuit \/ HandleReturns
  BY <1>2 DEF StoreQuit, HandleReturns, SendAlpha, SendQuit, Send
<1>3. CASE CheckQuit \/ Connect \/ Publish \/ Setup \/ Unlink \/ Recheck \/ Lower
  BY <1>3 DEF CheckQuit, Connect, Publish, Setup, Unlink, Recheck, Lower
<1>4. CASE ConnectionLost \/ NoVisual
  BY <1>4 DEF ConnectionLost, NoVisual, RunReturns
<1>5. CASE OnShow \/ OnHide \/ OnQuit
  <2>1. \A i \in 1 .. Len(queue') : queue'[i] = queue[i + 1] /\ i + 1 \in 1 .. Len(queue)
    BY <1>5 DEF OnShow, OnHide, OnQuit
  <2>2. caller' = caller
    BY <1>5 DEF OnShow, OnHide, OnQuit, RunReturns
  <2>3. QED  BY <2>1, <2>2
<1>6. CASE Compositor
  BY <1>6 DEF Compositor, Recomposite, GoAway, ComeBack, WriteEnvironment
<1>7. CASE UNCHANGED vars
  BY <1>7 DEF vars
<1>8. QED
  BY <1>1, <1>2, <1>3, <1>4, <1>5, <1>6, <1>7 DEF Next, Thread

(* A step that leaves the caller and what it can tell apart alone, and one *)
(* that ends the service.                                                  *)
LEMMA Unseen ==
  ASSUME desired' = desired, caller' = caller, Serving' = Serving,
         Serving => LastWord' = LastWord
  PROVE  UNCHANGED Register!registerVars
  BY DEF Register!registerVars

LEMMA Lost ==
  ASSUME desired' = desired, (caller # "idle")' = (caller # "idle"), ~Serving'
  PROVE  [Register!RegisterNext]_Register!registerVars
<1>1. CASE Serving
  BY <1>1 DEF Register!RegisterNext, Register!Lose
<1>2. CASE ~Serving
  <2>1. Serving' = Serving
    BY <1>2 DEF Serving
  <2>2. QED  BY <1>2, <2>1 DEF Register!registerVars
<1>3. QED
  BY <1>1, <1>2

LEMMA RegisterStep ==
  TypeOK /\ WordInv /\ NoQuitYet /\ [Next]_vars
    => [Register!RegisterNext]_Register!registerVars
<1> SUFFICES ASSUME TypeOK, WordInv, NoQuitYet, [Next]_vars
             PROVE  [Register!RegisterNext]_Register!registerVars
  OBVIOUS
<1> USE DEF TypeOK, Serving, Running, InLoop, LastWord, handle, link, window, server
<1>1. ASSUME NEW a \in Opacities, SetAlpha(a)
      PROVE  [Register!RegisterNext]_Register!registerVars
  <2>1. Register!Ask(a)
    BY <1>1 DEF SetAlpha, Register!Ask
  <2>2. QED  BY <2>1 DEF Register!RegisterNext
<1>2. CASE SendAlpha
  <2>1. Serving => LastWord' = desired
    BY <1>2, LastOfAppend DEF SendAlpha, Send
  <2>2. Register!Answer
    BY <1>2, <2>1 DEF SendAlpha, Register!Answer
  <2>3. QED  BY <2>2 DEF Register!RegisterNext
<1>3. CASE StoreQuit
  <2>1. Register!Ask(desired)
    BY <1>3 DEF StoreQuit, Register!Ask
  <2>2. QED  BY <2>1 DEF Register!RegisterNext
<1>4. CASE SendQuit
  BY <1>4, Lost DEF SendQuit
<1>5. CASE CheckQuit \/ Connect \/ Publish \/ Unlink \/ Recheck \/ Lower
  BY <1>5, Unseen DEF CheckQuit, Connect, Publish, Unlink, Recheck, Lower
<1>6. CASE Setup
  <2>1. CASE caller = "done"
    BY <1>6, <2>1, Unseen DEF Setup
  <2>2. CASE caller # "done"
    <3>1. queue # << >> => queue[Len(queue)] \in Opacities
      BY <2>2 DEF NoQuitYet
    <3>2. pixel' = desired
      BY <1>6 DEF Setup, ShowWindow
    <3>3. LastWord' \in IF caller # "idle" THEN Opacities ELSE {desired}
      BY <1>6, <3>1, <3>2 DEF Setup, WordInv
    <3>4. Register!Begin
      BY <1>6, <2>2, <3>3 DEF Setup, Register!Begin
    <3>5. QED  BY <3>4 DEF Register!RegisterNext
  <2>3. QED  BY <2>1, <2>2
<1>7. CASE ConnectionLost \/ NoVisual
  BY <1>7, Lost DEF ConnectionLost, NoVisual, RunReturns
<1>8. CASE OnShow \/ OnHide
  <2>1. LastWord' = LastWord
    BY <1>8, LastOfTail DEF OnShow, OnHide, ShowWindow, WordInv
  <2>2. QED  BY <1>8, <2>1, Unseen DEF OnShow, OnHide
<1>9. CASE OnQuit
  BY <1>9, Lost DEF OnQuit, RunReturns
<1>10. CASE Compositor
  BY <1>10, Unseen DEF Compositor, Recomposite, GoAway, ComeBack, WriteEnvironment
<1>11. CASE UNCHANGED vars
  BY <1>11, Unseen DEF vars
<1>12. QED
  BY <1>1, <1>2, <1>3, <1>4, <1>5, <1>6, <1>7, <1>8, <1>9, <1>10, <1>11
  DEF Next, HandleReturns, Thread

(* The X11 overlay, too, is a register to its caller, while gamescope comes *)
(* and goes and whichever window it draws.                                 *)
THEOREM RegisterImplemented == Spec => ImplementsRegister
<1>1. Init => Register!RegisterInit
  BY DEF Init, Register!RegisterInit, Serving, InLoop
<1>2. Init => WordInv /\ NoQuitYet
  BY DEF Init, WordInv, HearsTheLastWord, InLoop, NoQuitYet
<1>3. QED
  BY <1>1, <1>2, TypeCorrect, WordStep, NoQuitStep, RegisterStep, PTL
  DEF Spec, ImplementsRegister, Register!RegisterSpec
=============================================================================
