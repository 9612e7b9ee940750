---------------------------- MODULE QueueLemmas ----------------------------
(***************************************************************************)
(* Lemmas about the command queues of the overlays.                        *)
(***************************************************************************)
EXTENDS Sequences, SequenceTheorems, TLAPS

(* What Append and Tail do to the last element of a queue.                 *)
LEMMA LastOfAppend ==
  ASSUME NEW S, NEW q \in Seq(S), NEW x \in S
  PROVE  /\ Append(q, x) \in Seq(S) /\ Append(q, x) # << >>
         /\ Append(q, x)[Len(Append(q, x))] = x
  BY AppendProperties

LEMMA LastOfTail ==
  ASSUME NEW S, NEW q \in Seq(S), q # << >>
  PROVE  /\ Tail(q) \in Seq(S)
         /\ Tail(q) = << >> => Head(q) = q[Len(q)]
         /\ Tail(q) # << >> => Tail(q)[Len(Tail(q))] = q[Len(q)]
<1>1. Tail(q) \in Seq(S) /\ Len(Tail(q)) = Len(q) - 1
  BY HeadTailProperties
<1>2. Tail(q) = << >> => Head(q) = q[Len(q)]
  <2>1. SUFFICES ASSUME Tail(q) = << >> PROVE Head(q) = q[Len(q)]
    OBVIOUS
  <2> DEFINE n == Len(q)
  <2>2. n = 1
    <3>1. 0 = n - 1
      BY <1>1, <2>1, EmptySeq
    <3>2. n \in Nat
      BY LenProperties
    <3> HIDE DEF n
    <3>3. QED  BY <3>1, <3>2
  <2>3. QED
    BY <2>2
<1>3. Tail(q) # << >> => Tail(q)[Len(Tail(q))] = q[Len(q)]
  <2>1. SUFFICES ASSUME Tail(q) # << >> PROVE Tail(q)[Len(Tail(q))] = q[Len(q)]
    OBVIOUS
  <2>2. Len(Tail(q)) \in 1..Len(Tail(q))
    BY <1>1, <2>1, EmptySeq
  <2>3. QED
    BY <1>1, <2>2, HeadTailProperties
<1>4. QED
  BY <1>1, <1>2, <1>3
=============================================================================
