------------------------- MODULE ThreadQueueProofs -------------------------
(* Theorems about the queue of util.c, for any number of poppers, any data *)
(* and any number of calls.                                                *)
EXTENDS ThreadQueue, FiniteSetTheorems, SequenceTheorems, TLAPS

LEMMA TypeInit == Init => TypeOK
<1> SUFFICES ASSUME Init PROVE TypeOK
  OBVIOUS
<1>1. <<>> \in Seq(Entry)
  BY EmptySeq
<1>2. NULL \in Entry
  BY DEF Entry
<1> QED
  BY <1>1, <1>2 DEF Init, tq_new, TypeOK

LEMMA TypeNext == TypeOK /\ [Next]_vars => TypeOK'
<1> SUFFICES ASSUME TypeOK, [Next]_vars PROVE TypeOK'
  OBVIOUS
<1> USE DEF TypeOK
<1>0. q # <<>> => /\ Head(q) \in Entry
                  /\ Tail(q) \in Seq(Entry)
                  /\ Append(delivered, Head(q)) \in Seq(Entry)
  BY HeadTailProperties, AppendProperties
<1>1. ASSUME NEW d \in Entry, tq_push(d) PROVE TypeOK'
  <2>1. Append(q, d) \in Seq(Entry) /\ Append(accepted, d) \in Seq(Entry)
    BY <1>1, AppendProperties
  <2>2. q' \in Seq(Entry) /\ accepted' \in Seq(Entry)
    BY <1>1, <2>1 DEF tq_push, list_add_tail
  <2>3. pc' \in [Poppers -> {"idle", "waiting", "woken"}]
    BY <1>1 DEF tq_push, Signal, Waiting
  <2> QED
    BY <1>1, <2>2, <2>3 DEF tq_push
<1>2. ASSUME NEW b \in BOOLEAN, tq_freezethaw(b) PROVE TypeOK'
  BY <1>2 DEF tq_freezethaw, Signal, Waiting
<1>3. ASSUME NEW p \in Poppers, tq_pop(p) PROVE TypeOK'
  BY <1>0, <1>3 DEF tq_pop, TakeHead
<1>4. ASSUME NEW p \in Poppers, tq_pop_wait(p) PROVE TypeOK'
  BY <1>4 DEF tq_pop_wait
<1>5. ASSUME NEW p \in Poppers, tq_pop_resume(p) PROVE TypeOK'
  <2>1. NULL \in Entry
    BY DEF Entry
  <2> QED
    BY <1>0, <1>5, <2>1 DEF tq_pop_resume, TakeHead, TakeNothing
<1>6. ASSUME NEW p \in Poppers, SpuriousWakeup(p) PROVE TypeOK'
  BY <1>6 DEF SpuriousWakeup
<1>7. CASE UNCHANGED vars
  BY <1>7 DEF vars
<1> QED
  BY <1>1, <1>2, <1>3, <1>4, <1>5, <1>6, <1>7 DEF Next, PopStep

(* The queue keeps its types. *)
THEOREM TypeCorrect == Spec => []TypeOK
BY TypeInit, TypeNext, PTL DEF Spec

-----------------------------------------------------------------------------
(* tq_push and tq_pop deliver every accepted entry once and in order. *)
LEMMA FifoNext == TypeOK /\ FifoOrder /\ [Next]_vars => FifoOrder'
<1> SUFFICES ASSUME TypeOK, FifoOrder, [Next]_vars PROVE FifoOrder'
  OBVIOUS
<1> USE DEF TypeOK, FifoOrder
<1>0. ASSUME q # <<>>
      PROVE  Append(delivered, Head(q)) \o Tail(q) = delivered \o q
  BY <1>0
<1>1. ASSUME NEW d \in Entry, tq_push(d) PROVE FifoOrder'
  <2>1. CASE frozen
    BY <1>1, <2>1 DEF tq_push
  <2>2. CASE ~frozen
    <3>1. Append(delivered \o q, d) = delivered \o Append(q, d)
      <4> DEFINE e == <<d>>
      <4>1. delivered \o q \in Seq(Entry) /\ e \in Seq(Entry)
        BY <1>1, ConcatProperties
      <4>2. Append(delivered \o q, d) = (delivered \o q) \o e
        BY <1>1, <4>1, AppendIsConcat
      <4>3. Append(q, d) = q \o e
        BY <1>1, AppendIsConcat
      <4> QED
        BY <4>1, <4>2, <4>3, ConcatAssociative
    <3> QED
      BY <1>1, <2>2, <3>1 DEF tq_push, list_add_tail
  <2> QED
    BY <2>1, <2>2
<1>2. ASSUME NEW b \in BOOLEAN, tq_freezethaw(b) PROVE FifoOrder'
  BY <1>2 DEF tq_freezethaw
<1>3. ASSUME NEW p \in Poppers, PopStep(p) \/ SpuriousWakeup(p)
      PROVE  FifoOrder'
  BY <1>0, <1>3 DEF PopStep, tq_pop, tq_pop_wait, tq_pop_resume, TakeHead,
                    TakeNothing, SpuriousWakeup
<1>4. CASE UNCHANGED vars
  BY <1>4 DEF vars
<1> QED
  BY <1>1, <1>2, <1>3, <1>4 DEF Next

(* Everything tq_push accepts is delivered exactly once and in order,      *)
(* whatever is interleaved.                                                *)
THEOREM FifoCorrect == Spec => []FifoOrder
<1>1. Init => FifoOrder
  BY DEF Init, tq_new, FifoOrder
<1> QED
  BY <1>1, FifoNext, TypeCorrect, PTL DEF Spec

-----------------------------------------------------------------------------
(* How the set of woken poppers, and its size, changes when one popper     *)
(* changes state.                                                          *)
LEMMA WokenFinite == IsFiniteSet(Woken) /\ Cardinality(Woken) \in Nat
<1>1. Woken \subseteq Poppers
  BY DEF Woken
<1>2. IsFiniteSet(Woken)
  BY <1>1, QueueAssumption, FS_Subset
<1> QED
  BY <1>2, FS_CardinalityType

LEMMA WokenGrows ==
  ASSUME TypeOK, NEW p \in Waiting, pc' = [pc EXCEPT ![p] = "woken"]
  PROVE  Cardinality(Woken') = Cardinality(Woken) + 1
<1>1. Woken' = Woken \cup {p} /\ p \notin Woken
  BY DEF Woken, Waiting, TypeOK
<1> QED
  BY <1>1, WokenFinite, FS_AddElement

LEMMA WokenShrinks ==
  ASSUME TypeOK, NEW p \in Woken, pc' = [pc EXCEPT ![p] = "idle"]
  PROVE  Cardinality(Woken') = Cardinality(Woken) - 1
<1>1. Woken' = Woken \ {p}
  BY DEF Woken, TypeOK
<1> QED
  BY <1>1, WokenFinite, FS_RemoveElement

(* A pthread_cond_signal pays for one more entry on the list. *)
LEMMA SignalPays ==
  ASSUME TypeOK, NoLostWakeup, Signal, Len(q') \in Nat, Len(q') <= Len(q) + 1
  PROVE  NoLostWakeup'
<1> USE WokenFinite DEF NoLostWakeup
<1>1. CASE Waiting = {} /\ UNCHANGED pc
  BY <1>1 DEF Waiting
<1>2. ASSUME NEW p \in Waiting, pc' = [pc EXCEPT ![p] = "woken"]
      PROVE  NoLostWakeup'
  <2>1. Cardinality(Woken') = Cardinality(Woken) + 1
    BY <1>2, WokenGrows
  <2>2. Len(q) <= Cardinality(Woken) /\ Len(q) \in Nat
    BY <1>2 DEF TypeOK
  <2> QED
    BY <2>1, <2>2
<1> QED
  BY <1>1, <1>2 DEF Signal

LEMMA WakeupNext == TypeOK /\ NoLostWakeup /\ [Next]_vars => NoLostWakeup'
<1> SUFFICES ASSUME TypeOK, NoLostWakeup, [Next]_vars PROVE NoLostWakeup'
  OBVIOUS
<1> USE WokenFinite
<1>0. Len(q) \in Nat /\ (q # <<>> => Len(Tail(q)) = Len(q) - 1)
                     /\ (q = <<>> => Len(q) = 0)
  BY DEF TypeOK
<1>1. ASSUME NEW d \in Entry, tq_push(d) PROVE NoLostWakeup'
  <2>1. Len(q') \in Nat /\ Len(q') <= Len(q) + 1
    BY <1>0, <1>1 DEF tq_push, list_add_tail, TypeOK
  <2> QED
    BY <1>1, <2>1, SignalPays DEF tq_push
<1>2. ASSUME NEW b \in BOOLEAN, tq_freezethaw(b) PROVE NoLostWakeup'
  BY <1>0, <1>2, SignalPays DEF tq_freezethaw
<1>3. ASSUME NEW p \in Poppers, tq_pop(p) PROVE NoLostWakeup'
  BY <1>0, <1>3 DEF tq_pop, TakeHead, NoLostWakeup, Waiting, Woken
<1>4. ASSUME NEW p \in Poppers, tq_pop_wait(p) PROVE NoLostWakeup'
  <2>1. Woken' = Woken
    BY <1>4 DEF tq_pop_wait, Woken, TypeOK
  <2> QED
    BY <1>0, <1>4, <2>1 DEF tq_pop_wait, NoLostWakeup
<1>5. ASSUME NEW p \in Poppers, tq_pop_resume(p) PROVE NoLostWakeup'
  <2>1. Cardinality(Woken') = Cardinality(Woken) - 1
    BY <1>5, WokenShrinks DEF tq_pop_resume, Woken
  <2>2. Waiting' = Waiting
    BY <1>5 DEF tq_pop_resume, Waiting, TypeOK
  <2>3. CASE q = <<>>
    <3>1. p \in Woken /\ Cardinality(Woken) # 0
      <4>1. p \in Woken
        BY <1>5 DEF tq_pop_resume, Woken
      <4> QED
        BY <4>1, FS_EmptySet
    <3> QED
      BY <1>0, <1>5, <2>1, <2>3, <3>1
         DEF tq_pop_resume, TakeNothing, NoLostWakeup
  <2>4. CASE q # <<>>
    BY <1>0, <1>5, <2>1, <2>2, <2>4 DEF tq_pop_resume, TakeHead, NoLostWakeup
  <2> QED
    BY <2>3, <2>4
<1>6. ASSUME NEW p \in Poppers, SpuriousWakeup(p) PROVE NoLostWakeup'
  <2>1. p \in Waiting /\ Cardinality(Woken') = Cardinality(Woken) + 1
    BY <1>6, WokenGrows DEF SpuriousWakeup, Waiting
  <2> QED
    BY <1>0, <1>6, <2>1 DEF SpuriousWakeup, NoLostWakeup
<1>7. CASE UNCHANGED vars
  BY <1>7 DEF vars, NoLostWakeup, Waiting, Woken
<1> QED
  BY <1>1, <1>2, <1>3, <1>4, <1>5, <1>6, <1>7 DEF Next, PopStep

(* pthread_cond_signal instead of a broadcast strands no entry, with any   *)
(* number of poppers and with spurious wake-ups.                           *)
THEOREM WakeupCorrect == Spec => []NoLostWakeup
<1>1. Init => NoLostWakeup
  BY DEF Init, Waiting, NoLostWakeup
<1> QED
  BY <1>1, WakeupNext, TypeCorrect, PTL DEF Spec

-----------------------------------------------------------------------------
(* With one popper: a woken popper finds an entry unless the queue has     *)
(* been frozen or thawed, or a wait has returned without a signal.         *)
WokenForAReason ==
  /\ frozen => excused
  /\ \A p \in Poppers : (pc[p] = "woken" /\ q = <<>>) => excused

LEMMA ReasonNext ==
  ASSUME \A p1, p2 \in Poppers : p1 = p2
  PROVE  TypeOK /\ WokenForAReason /\ [Next]_vars => WokenForAReason'
<1> SUFFICES ASSUME TypeOK, WokenForAReason, [Next]_vars PROVE WokenForAReason'
  OBVIOUS
<1> USE DEF TypeOK, WokenForAReason
<1>1. ASSUME NEW d \in Entry, tq_push(d) PROVE WokenForAReason'
  BY <1>1 DEF tq_push, Signal, list_add_tail, Waiting
<1>2. ASSUME NEW b \in BOOLEAN, tq_freezethaw(b) PROVE WokenForAReason'
  BY <1>2 DEF tq_freezethaw
<1>3. ASSUME NEW p \in Poppers, PopStep(p) PROVE WokenForAReason'
  <2>1. \A r \in Poppers : r = p
    OBVIOUS
  <2> QED
    BY <1>3, <2>1 DEF PopStep, tq_pop, tq_pop_wait, tq_pop_resume, TakeHead,
                    TakeNothing
<1>4. ASSUME NEW p \in Poppers, SpuriousWakeup(p) PROVE WokenForAReason'
  BY <1>4 DEF SpuriousWakeup
<1>5. CASE UNCHANGED vars
  BY <1>5 DEF vars
<1> QED
  BY <1>1, <1>2, <1>3, <1>4, <1>5 DEF Next

(* As the miner uses its queues (one thread pops each): tq_pop returns a   *)
(* NULL that was not pushed only after a freeze or thaw, or a return of    *)
(* pthread_cond_wait without a signal.                                     *)
THEOREM NullCorrect ==
  ASSUME \A p1, p2 \in Poppers : p1 = p2
  PROVE  Spec => NullHasReason
<1>1. Init => WokenForAReason
  BY DEF Init, tq_new, WokenForAReason
<1>2. WokenForAReason /\ [Next]_vars =>
        [\A p \in Poppers : (tq_pop_resume(p) /\ q = <<>>) => excused]_vars
  BY DEF WokenForAReason, tq_pop_resume
<1> QED
  BY <1>1, <1>2, ReasonNext, TypeCorrect, PTL DEF Spec, NullHasReason

=============================================================================
