-------------------------- MODULE OverlayRegister --------------------------
(***************************************************************************)
(* What the daemon may rely on when it calls an overlay, of either kind:   *)
(* behind the handle, its channel, the thread and the reconnects there is  *)
(* a register that holds the last opacity asked for.  Commands on their    *)
(* way are not seen: obeying one changes nothing, and word changes only    *)
(* when a call returns or a connection begins.  A connection that begins   *)
(* in the middle of a call may miss it; the return of the call makes up.   *)
(***************************************************************************)
CONSTANTS Opacities, Clear

VARIABLES
  asked,     (* the opacity asked for last                                 *)
  calling,   (* a call is under way; that of quit never ends               *)
  live,      (* a connection serves the daemon                             *)
  word       (* what that connection has shown when all is done            *)

registerVars == <<asked, calling, live, word>>

RegisterInit == asked = Clear /\ ~calling /\ ~live /\ word = Clear

Ask(a) ==
  /\ ~calling
  /\ asked' = a /\ calling' = TRUE
  /\ UNCHANGED <<live, word>>

Answer ==
  /\ calling
  /\ calling' = FALSE
  /\ word' = IF live THEN asked ELSE Clear
  /\ UNCHANGED <<asked, live>>

Begin ==
  /\ ~live
  /\ live' = TRUE
  /\ word' \in IF calling THEN Opacities ELSE {asked}
  /\ UNCHANGED <<asked, calling>>

Lose ==
  /\ live
  /\ live' = FALSE /\ word' = Clear
  /\ UNCHANGED <<asked, calling>>

(* The process is killed, or another one starts. *)
Reset ==
  /\ asked' = Clear /\ calling' \in BOOLEAN
  /\ live' = FALSE /\ word' = Clear

RegisterNext == (\E a \in Opacities : Ask(a)) \/ Answer \/ Begin \/ Lose

(* One life of the process, and one life after the other. *)
RegisterSpec == RegisterInit /\ [][RegisterNext]_registerVars
LivesSpec    == RegisterInit /\ [][RegisterNext \/ Reset]_registerVars
=============================================================================
