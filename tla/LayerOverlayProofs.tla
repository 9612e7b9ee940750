------------------------- MODULE LayerOverlayProofs -------------------------
(***************************************************************************)
(* Proofs about LayerOverlay, for every set of opacities and any number of *)
(* calls and outages.                                                      *)
(***************************************************************************)
EXTENDS LayerOverlay, QueueLemmas, TLAPS

LEMMA TypeInit == Init => TypeOK
<1> SUFFICES ASSUME Init PROVE TypeOK
  OBVIOUS
<1>1. /\ quit \in BOOLEAN /\ linked \in BOOLEAN /\ sized \in BOOLEAN /\ exit \in BOOLEAN
      /\ spoiled \in BOOLEAN /\ broken \in BOOLEAN
  BY Zenon DEF Init
<1>2. queue \in Seq(Opacities \cup {Quit})
  BY DEF Init
<1>3. QED
  BY <1>1, <1>2, OverlayAssumption DEF OverlayAssumption, Init, TypeOK

LEMMA TypeStep == TypeOK /\ [Next]_vars => TypeOK'
<1> SUFFICES ASSUME TypeOK, [Next]_vars PROVE TypeOK'
  OBVIOUS
<1> USE OverlayAssumption
    DEF OverlayAssumption, TypeOK, Running, handle, link, app, server
<1>1. ASSUME NEW a \in Opacities, SetAlpha(a) PROVE TypeOK'
  BY <1>1 DEF SetAlpha
<1>2. CASE SendAlpha
  <2>1. queue' \in Seq(Opacities \cup {Quit})
    BY <1>2, LastOfAppend DEF SendAlpha, Send
  <2>2. QED  BY <1>2, <2>1 DEF SendAlpha, Send
<1>3. CASE StoreQuit  BY <1>3 DEF StoreQuit
<1>4. CASE SendQuit
  <2>1. queue' \in Seq(Opacities \cup {Quit})
    BY <1>4, LastOfAppend DEF SendQuit, Send
  <2>2. QED  BY <1>4, <2>1 DEF SendQuit, Send
<1>5. CASE CheckQuit \/ Connect \/ Recheck
  <2>1. CASE CheckQuit  BY <2>1 DEF CheckQuit
  <2>2. CASE Connect  BY <2>2 DEF Connect
  <2>3. CASE Recheck  BY <2>3 DEF Recheck
  <2>4. QED  BY <1>5, <2>1, <2>2, <2>3
<1>6. CASE Publish \/ Unlink
  <2>1. CASE Publish  BY <2>1 DEF Publish
  <2>2. CASE Unlink
    <3>1. linked' \in BOOLEAN /\ linked' = FALSE
      BY <2>2, Zenon DEF Unlink
    <3>2. queue' \in Seq(Opacities \cup {Quit})
      BY <2>2 DEF Unlink
    <3>3. QED  BY <2>2, <3>1, <3>2 DEF Unlink
  <2>3. QED  BY <1>6, <2>1, <2>2
<1>7. CASE Setup  BY <1>7 DEF Setup
<1>8. CASE ConnectionLost \/ GlobalsMissing \/ RunEnds
  <2>1. CASE ConnectionLost  BY <2>1 DEF ConnectionLost, RunReturns
  <2>2. CASE GlobalsMissing
    <3>1. sized' \in BOOLEAN
      BY <2>2, Zenon DEF GlobalsMissing, RunReturns
    <3>2. QED  BY <2>2, <3>1 DEF GlobalsMissing, RunReturns
  <2>3. CASE RunEnds  BY <2>3 DEF RunEnds, RunReturns
  <2>4. QED  BY <1>8, <2>1, <2>2, <2>3
<1>9. CASE OnShow
  <2>1. Head(queue) \in Opacities /\ queue' \in Seq(Opacities \cup {Quit})
    BY <1>9 DEF OnShow
  <2>2. QED  BY <1>9, <2>1 DEF OnShow, Draw
<1>10. CASE OnQuit
  <2>1. queue' \in Seq(Opacities \cup {Quit})
    BY <1>10 DEF OnQuit
  <2>2. QED  BY <1>10, <2>1 DEF OnQuit
<1>11. CASE Configure \/ Closed
  BY <1>11 DEF Configure, Closed, Draw
<1>12. CASE GoAway \/ ComeBack
  <2>1. CASE GoAway
    <3>1. up' \in BOOLEAN /\ broken' \in BOOLEAN
      BY <2>1, Zenon DEF GoAway
    <3>2. QED  BY <2>1, <3>1 DEF GoAway
  <2>2. CASE ComeBack  BY <2>2 DEF ComeBack
  <2>3. QED  BY <1>12, <2>1, <2>2
<1>13. CASE UNCHANGED vars
  BY <1>13 DEF vars
<1>14. QED
  BY <1>1, <1>2, <1>3, <1>4, <1>5, <1>6, <1>7, <1>8, <1>9, <1>10, <1>11, <1>12, <1>13
  DEF Next, Handle, Thread, Compositor

(* Types, and a sender exactly while a connection is being used.           *)
THEOREM TypeCorrect == Spec => []TypeOK
  BY TypeInit, TypeStep, PTL DEF Spec
-----------------------------------------------------------------------------
(* No step makes the thread settle on another opacity than the desired one. *)
LEMMA WordStep == TypeOK /\ WordInv /\ [Next]_vars => WordInv'
<1> SUFFICES ASSUME TypeOK, WordInv, [Next]_vars PROVE WordInv'
  OBVIOUS
<1> USE DEF TypeOK, WordInv, HearsTheLastWord, LastWord, Running, handle, link, app, server
<1>1. ASSUME NEW a \in Opacities, SetAlpha(a) PROVE WordInv'
  BY <1>1 DEF SetAlpha
<1>2. CASE SendAlpha
  <2>1. thread \in {"setup", "loop"} =>
          queue' # << >> /\ queue'[Len(queue')] = desired
    BY <1>2, LastOfAppend DEF SendAlpha, Send
  <2>2. QED  BY <1>2, <2>1 DEF SendAlpha
<1>3. CASE StoreQuit \/ SendQuit
  BY <1>3 DEF StoreQuit, SendQuit
<1>4. CASE CheckQuit \/ Connect \/ Recheck
  BY <1>4 DEF CheckQuit, Connect, Recheck
<1>5. CASE Publish \/ Unlink
  BY <1>5 DEF Publish, Unlink
<1>6. CASE Setup
  BY <1>6 DEF Setup
<1>7. CASE ConnectionLost \/ GlobalsMissing \/ RunEnds
  BY <1>7 DEF ConnectionLost, GlobalsMissing, RunEnds, RunReturns
<1>8. CASE OnShow
  <2>1. /\ queue' = << >> => opacity' = queue[Len(queue)]
        /\ queue' # << >> => queue'[Len(queue')] = queue[Len(queue)]
    BY <1>8, LastOfTail DEF OnShow
  <2>2. QED  BY <1>8, <2>1 DEF OnShow
<1>9. CASE OnQuit
  BY <1>9 DEF OnQuit
<1>10. CASE Configure \/ Closed
  BY <1>10 DEF Configure, Closed
<1>11. CASE GoAway \/ ComeBack
  BY <1>11 DEF GoAway, ComeBack
<1>12. CASE UNCHANGED vars
  BY <1>12 DEF vars
<1>13. QED
  BY <1>1, <1>2, <1>3, <1>4, <1>5, <1>6, <1>7, <1>8, <1>9, <1>10, <1>11, <1>12
  DEF Next, Handle, Thread, Compositor

(* However calls of set() and reconnects interleave, the last opacity that *)
(* was asked for is the one the thread settles on.                         *)
THEOREM LastWordHeard == Spec => []HearsTheLastWord
<1>1. Init => WordInv
  BY DEF Init, WordInv, HearsTheLastWord, Running
<1>2. WordInv => HearsTheLastWord
  BY DEF WordInv
<1>3. QED
  BY <1>1, <1>2, TypeCorrect, WordStep, PTL DEF Spec
-----------------------------------------------------------------------------
(* The size is known only of a surface that was configured.                *)
SizeInv ==
  /\ NoEarlyBuffer
  /\ sized => layer = "configured" \/ exit
  /\ thread # "loop" => layer = "none" /\ ~sized

LEMMA SizeStep == TypeOK /\ SizeInv /\ [Next]_vars => SizeInv'
<1> SUFFICES ASSUME TypeOK, SizeInv, [Next]_vars PROVE SizeInv'
  OBVIOUS
<1> USE DEF TypeOK, SizeInv, NoEarlyBuffer, Running, handle, link, app, server
<1>1. CASE Handle
  BY <1>1 DEF Handle, SetAlpha, SendAlpha, StoreQuit, SendQuit
<1>2. CASE CheckQuit \/ Connect \/ Publish \/ Setup \/ Unlink \/ Recheck
  <2>1. CASE CheckQuit \/ Connect  BY <2>1 DEF CheckQuit, Connect
  <2>2. CASE Publish \/ Unlink  BY <2>2 DEF Publish, Unlink
  <2>3. CASE Setup  BY <2>3 DEF Setup
  <2>4. CASE Recheck  BY <2>4 DEF Recheck
  <2>5. QED  BY <1>2, <2>1, <2>2, <2>3, <2>4
<1>3. CASE ConnectionLost \/ GlobalsMissing \/ RunEnds
  BY <1>3 DEF ConnectionLost, GlobalsMissing, RunEnds, RunReturns
<1>4. CASE OnShow
  BY <1>4 DEF OnShow, Draw
<1>5. CASE OnQuit
  BY <1>5 DEF OnQuit
<1>6. CASE Configure \/ Closed
  BY <1>6 DEF Configure, Closed, Draw
<1>7. CASE GoAway \/ ComeBack
  BY <1>7 DEF GoAway, ComeBack
<1>8. CASE UNCHANGED vars
  BY <1>8 DEF vars
<1>9. QED
  BY <1>1, <1>2, <1>3, <1>4, <1>5, <1>6, <1>7, <1>8 DEF Next, Thread, Compositor

(* No buffer is ever attached to a surface that was not configured.        *)
THEOREM BuffersInTime == Spec => []NoEarlyBuffer
<1>1. Init => SizeInv
  BY DEF Init, SizeInv, NoEarlyBuffer
<1>2. SizeInv => NoEarlyBuffer
  BY DEF SizeInv
<1>3. QED
  BY <1>1, <1>2, TypeCorrect, SizeStep, PTL DEF Spec
-----------------------------------------------------------------------------
(* Each drawing leaves the opacity of the thread on the screen.            *)
LEMMA PaintStep == TypeOK /\ SizeInv /\ PaintInv /\ [Next]_vars => PaintInv'
<1> SUFFICES ASSUME TypeOK, SizeInv, PaintInv, [Next]_vars PROVE PaintInv'
  OBVIOUS
<1> USE OverlayAssumption
    DEF OverlayAssumption, TypeOK, SizeInv, NoEarlyBuffer, PaintInv, Visible, Running, handle,
        link, app, server
<1>1. CASE Handle
  BY <1>1 DEF Handle, SetAlpha, SendAlpha, StoreQuit, SendQuit
<1>2. CASE CheckQuit \/ Connect \/ Publish \/ Unlink \/ Recheck
  BY <1>2 DEF CheckQuit, Connect, Publish, Unlink, Recheck
<1>3. CASE Setup
  BY <1>3 DEF Setup
<1>4. CASE ConnectionLost \/ GlobalsMissing \/ RunEnds
  BY <1>4 DEF ConnectionLost, GlobalsMissing, RunEnds, RunReturns
<1>5. CASE OnShow
  <2>1. Head(queue) \in Opacities
    BY <1>5 DEF OnShow
  <2>2. CASE layer = "none"
    BY <1>5, <2>1, <2>2 DEF OnShow
  <2>3. CASE layer = "created"
    BY <1>5, <2>1, <2>3 DEF OnShow
  <2>4. CASE layer = "configured"
    BY <1>5, <2>1, <2>4 DEF OnShow, Draw
  <2>5. QED
    BY <2>2, <2>3, <2>4
<1>6. CASE OnQuit
  BY <1>6 DEF OnQuit
<1>7. CASE Configure
  BY <1>7 DEF Configure, Draw
<1>8. CASE Closed
  BY <1>8 DEF Closed
<1>9. CASE GoAway \/ ComeBack
  BY <1>9 DEF GoAway, ComeBack
<1>10. CASE UNCHANGED vars
  BY <1>10 DEF vars
<1>11. QED
  BY <1>1, <1>2, <1>3, <1>4, <1>5, <1>6, <1>7, <1>8, <1>9, <1>10
  DEF Next, Thread, Compositor

(* Whichever of command, configure and reconnect comes first, the picture  *)
(* they leave behind is the one the daemon asked for.                      *)
THEOREM LastWordShown == Spec => []ShowsTheLastWord
<1>1. Init => PaintInv
  BY DEF Init, PaintInv, Running
<1>2. Init => WordInv /\ SizeInv
  BY DEF Init, WordInv, HearsTheLastWord, Running, SizeInv, NoEarlyBuffer
<1>3. WordInv /\ PaintInv => ShowsTheLastWord
  BY DEF WordInv, HearsTheLastWord, LastWord, PaintInv, ShowsTheLastWord
<1>4. QED
  BY <1>1, <1>2, <1>3, TypeCorrect, WordStep, SizeStep, PaintStep, PTL DEF Spec
-----------------------------------------------------------------------------
(* The refinement of OverlayRegister.  Quit is sent once, by the last call. *)
NoQuitYet == caller # "done" => \A i \in 1 .. Len(queue) : queue[i] # Quit

LEMMA QuitStep == TypeOK /\ NoQuitYet /\ [Next]_vars => NoQuitYet'
<1> SUFFICES ASSUME TypeOK, NoQuitYet, [Next]_vars PROVE NoQuitYet'
  OBVIOUS
<1> USE DEF TypeOK, NoQuitYet, handle, link, app, server
<1> Quit \notin Opacities
  BY OverlayAssumption DEF OverlayAssumption, Quit
<1>1. CASE Handle
  <2>1. ASSUME NEW a \in Opacities, SetAlpha(a) PROVE NoQuitYet'
    BY <2>1 DEF SetAlpha
  <2>2. CASE SendAlpha  BY <2>2 DEF SendAlpha, Send
  <2>3. CASE StoreQuit \/ SendQuit  BY <2>3 DEF StoreQuit, SendQuit
  <2>4. QED  BY <1>1, <2>1, <2>2, <2>3 DEF Handle
<1>2. CASE CheckQuit \/ Connect \/ Publish \/ Setup \/ Unlink \/ Recheck
  BY <1>2 DEF CheckQuit, Connect, Publish, Setup, Unlink, Recheck
<1>3. CASE ConnectionLost \/ GlobalsMissing \/ RunEnds
  BY <1>3 DEF ConnectionLost, GlobalsMissing, RunEnds, RunReturns
<1>4. CASE OnShow \/ OnQuit
  <2>1. \A i \in 1 .. Len(queue') : queue'[i] = queue[i + 1] /\ i + 1 \in 1 .. Len(queue)
    BY <1>4 DEF OnShow, OnQuit
  <2>2. caller' = caller
    BY <1>4 DEF OnShow, OnQuit
  <2>3. QED  BY <2>1, <2>2
<1>5. CASE Compositor
  BY <1>5 DEF Compositor, Configure, Closed, GoAway, ComeBack
<1>6. CASE UNCHANGED vars
  BY <1>6 DEF vars
<1>7. QED
  BY <1>1, <1>2, <1>3, <1>4, <1>5, <1>6 DEF Next, Thread

(* A step that leaves the caller and what it can tell apart alone.         *)
LEMMA Unseen ==
  ASSUME desired' = desired, caller' = caller, Serving' = Serving,
         Serving => LastWord' = LastWord
  PROVE  UNCHANGED Register!registerVars
  BY DEF Register!registerVars

LEMMA Lost ==
  ASSUME desired' = desired, (caller # "idle")' = (caller # "idle"), ~Serving'
  PROVE  [Register!RegisterNext]_Register!registerVars
<1>1. CASE Serving
  BY <1>1 DEF Register!RegisterNext, Register!Lose
<1>2. CASE ~Serving
  <2>1. Serving' = Serving
    BY <1>2 DEF Serving
  <2>2. QED  BY <1>2, <2>1 DEF Register!registerVars
<1>3. QED
  BY <1>1, <1>2

LEMMA RegisterStep ==
  TypeOK /\ WordInv /\ NoQuitYet /\ [Next]_vars
    => [Register!RegisterNext]_Register!registerVars
<1> SUFFICES ASSUME TypeOK, WordInv, NoQuitYet, [Next]_vars
             PROVE  [Register!RegisterNext]_Register!registerVars
  OBVIOUS
<1> USE DEF TypeOK, Serving, Running, LastWord, handle, link, app, server
<1>1. ASSUME NEW a \in Opacities, SetAlpha(a)
      PROVE  [Register!RegisterNext]_Register!registerVars
  <2>1. Register!Ask(a)
    BY <1>1 DEF SetAlpha, Register!Ask
  <2>2. QED  BY <2>1 DEF Register!RegisterNext
<1>2. CASE SendAlpha
  <2>1. Serving => LastWord' = desired
    BY <1>2, LastOfAppend DEF SendAlpha, Send
  <2>2. Register!Answer
    BY <1>2, <2>1 DEF SendAlpha, Register!Answer
  <2>3. QED  BY <2>2 DEF Register!RegisterNext
<1>3. CASE StoreQuit
  <2>1. Register!Ask(desired)
    BY <1>3 DEF StoreQuit, Register!Ask
  <2>2. QED  BY <2>1 DEF Register!RegisterNext
<1>4. CASE SendQuit
  BY <1>4, Lost DEF SendQuit
<1>5. CASE CheckQuit \/ Connect \/ Publish \/ Unlink \/ Recheck
  BY <1>5, Unseen DEF CheckQuit, Connect, Publish, Unlink, Recheck
<1>6. CASE Setup
  <2>1. CASE caller = "done"
    BY <1>6, <2>1, Unseen DEF Setup
  <2>2. CASE caller # "done"
    <3>1. queue # << >> => queue[Len(queue)] \in Opacities
      BY <2>2 DEF NoQuitYet
    <3>2. LastWord' \in IF caller # "idle" THEN Opacities ELSE {desired}
      BY <1>6, <3>1 DEF Setup, WordInv
    <3>3. Register!Begin
      BY <1>6, <2>2, <3>2 DEF Setup, Register!Begin
    <3>4. QED  BY <3>3 DEF Register!RegisterNext
  <2>3. QED  BY <2>1, <2>2
<1>7. CASE ConnectionLost \/ GlobalsMissing \/ RunEnds
  BY <1>7, Lost DEF ConnectionLost, GlobalsMissing, RunEnds, RunReturns
<1>8. CASE OnShow
  <2>1. LastWord' = LastWord
    BY <1>8, LastOfTail DEF OnShow
  <2>2. QED  BY <1>8, <2>1, Unseen DEF OnShow
<1>9. CASE OnQuit
  <2>1. queue[1] = Quit /\ 1 \in 1 .. Len(queue)
    BY <1>9 DEF OnQuit
  <2>2. QED  BY <1>9, <2>1, Lost DEF OnQuit, NoQuitYet
<1>10. CASE Compositor
  BY <1>10, Unseen DEF Compositor, Configure, Closed, GoAway, ComeBack
<1>11. CASE UNCHANGED vars
  BY <1>11, Unseen DEF vars
<1>12. QED
  BY <1>1, <1>2, <1>3, <1>4, <1>5, <1>6, <1>7, <1>8, <1>9, <1>10, <1>11
  DEF Next, Handle, Thread

(* The layer-shell overlay is a register to its caller: whatever is lost,  *)
(* delayed or found again, the last opacity asked for is the one that stays. *)
THEOREM RegisterImplemented == Spec => ImplementsRegister
<1>1. Init => Register!RegisterInit
  BY DEF Init, Register!RegisterInit, Serving, Running
<1>2. Init => WordInv /\ NoQuitYet
  BY DEF Init, WordInv, HearsTheLastWord, Running, NoQuitYet
<1>3. QED
  BY <1>1, <1>2, TypeCorrect, WordStep, QuitStep, RegisterStep, PTL
  DEF Spec, ImplementsRegister, Register!RegisterSpec
=============================================================================
