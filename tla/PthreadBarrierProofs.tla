----------------------- MODULE PthreadBarrierProofs ------------------------
(* pthread_barrier.c is a barrier, for any number of threads and any width *)
(* of the phase counter.                                                   *)
EXTENDS PthreadBarrier, FiniteSetTheorems, TLAPS

(* The threads held at the barrier in the current phase. *)
Held == {t \in Threads : pc[t] # "out" /\ myphase[t] = phase}

(* The rounds completed, as far as thread t shows: those it has passed,    *)
(* and the one it has been released from.                                  *)
Rounds(t) == passed[t] + IF state[t] = "released" THEN 1 ELSE 0

(* `count' counts the held threads, and only held threads sleep. *)
CountInv ==
  /\ count = Cardinality(Held)
  /\ \A t \in Threads : pc[t] = "asleep" => myphase[t] = phase

(* All threads agree on the number of completed rounds. *)
RoundInv ==
  /\ \A t, u \in Threads : Rounds(t) = Rounds(u)
  /\ \A t \in Threads :
       entered[t] = Rounds(t) + IF state[t] = "waiting" THEN 1 ELSE 0

IInv == TypeOK /\ CountInv /\ RoundInv

-----------------------------------------------------------------------------
LEMMA LimitType == limit \in Nat \ {0}
BY BarrierAssumption, FS_CardinalityType, FS_EmptySet DEF limit

LEMMA HeldFinite == IsFiniteSet(Held) /\ Cardinality(Held) \in Nat
<1>1. Held \subseteq Threads
  BY DEF Held
<1>2. IsFiniteSet(Held)
  BY <1>1, BarrierAssumption, FS_Subset
<1> QED
  BY <1>2, FS_CardinalityType

(* The phase after a wrap-around is never the phase before. *)
LEMMA NextPhase ==
  ASSUME NEW p \in 0 .. PhaseMod - 1
  PROVE  (p + 1) % PhaseMod \in 0 .. PhaseMod - 1 /\ (p + 1) % PhaseMod # p
<1> USE BarrierAssumption
<1>1. CASE p + 1 = PhaseMod
  <2>1. (p + 1) % PhaseMod = 0
    BY <1>1
  <2> QED
    BY <2>1, <1>1
<1>2. CASE p + 1 < PhaseMod
  <2>1. (p + 1) % PhaseMod = p + 1
    BY <1>2
  <2> QED
    BY <2>1, <1>2
<1> QED
  BY <1>1, <1>2

(* IsLast is exact: it holds for a thread outside if and only if all the   *)
(* others are held.                                                        *)
LEMMA LastExact ==
  ASSUME TypeOK, CountInv, NEW t \in Threads, pc[t] = "out"
  PROVE  IsLast(t) <=> Held = Threads \ {t}
<1>1. IsFiniteSet(Threads \ {t}) /\ Cardinality(Threads \ {t}) = limit - 1
  BY BarrierAssumption, FS_RemoveElement DEF limit
<1>2. Held \subseteq Threads \ {t}
  BY DEF Held
<1>3. /\ Cardinality(Held) <= limit - 1
      /\ Cardinality(Held) = limit - 1 => Held = Threads \ {t}
  BY <1>1, <1>2, FS_Subset
<1>4. Held = Threads \ {t} => Cardinality(Held) = limit - 1
  BY <1>1
<1>5. count = Cardinality(Held) /\ count \in Nat /\ limit \in Nat
  BY HeldFinite, LimitType DEF CountInv
<1>6. IsLast(t) <=> count = limit - 1
  BY <1>3, <1>5 DEF IsLast
<1> QED
  BY <1>3, <1>4, <1>5, <1>6

-----------------------------------------------------------------------------
(* What each step does to the barrier as its callers see it. *)
LEMMA LastStep ==
  ASSUME IInv, NEW t \in Threads, pthread_barrier_wait_last(t)
  PROVE  /\ \A u \in Threads \ {t} : state[u] = "waiting"
         /\ state[t] = "out"
         /\ state' = [u \in Threads |-> IF u = t THEN "out" ELSE "released"]
         /\ \A u \in Threads : pc'[u] # "asleep"
         /\ Held' = {}
<1> USE DEF IInv
<1>1. pc[t] = "out" /\ Held = Threads \ {t}
  BY LastExact DEF pthread_barrier_wait_last
<1>2. \A u \in Threads \ {t} : pc[u] # "out" /\ myphase[u] = phase
  BY <1>1 DEF Held
<1>3. phase' # phase
  BY NextPhase DEF TypeOK, pthread_barrier_wait_last
<1>4. pc' = [u \in Threads |-> IF pc[u] = "asleep" THEN "awake" ELSE pc[u]]
      /\ myphase' = myphase
  BY DEF pthread_barrier_wait_last, broadcast
<1>5. pc'[t] = "out" /\ \A u \in Threads \ {t} : pc'[u] = "awake"
  BY <1>1, <1>2, <1>4 DEF TypeOK
<1>6. \A u \in Threads \ {t} : myphase'[u] # phase'
  BY <1>2, <1>3, <1>4
<1> QED
  BY <1>1, <1>2, <1>5, <1>6 DEF state, Held

LEMMA WaitStep ==
  ASSUME IInv, NEW t \in Threads, pthread_barrier_wait(t)
  PROVE  /\ state[t] = "out"
         /\ ~ \A u \in Threads \ {t} : state[u] = "waiting"
         /\ state' = [state EXCEPT ![t] = "waiting"]
         /\ Held' = Held \cup {t} /\ t \notin Held
<1> USE DEF IInv
<1>1. pc[t] = "out" /\ Held # Threads \ {t}
  BY LastExact DEF pthread_barrier_wait
<1>2. ~ \A u \in Threads \ {t} : state[u] = "waiting"
  BY <1>1 DEF Held, state
<1>3. pc' = [pc EXCEPT ![t] = "asleep"] /\ phase' = phase
      /\ myphase' = [myphase EXCEPT ![t] = phase]
  BY DEF pthread_barrier_wait
<1>4. Held' = Held \cup {t} /\ t \notin Held
  BY <1>1, <1>3 DEF Held, TypeOK
<1>5. state' = [state EXCEPT ![t] = "waiting"]
  BY <1>3 DEF state, TypeOK
<1> QED
  BY <1>1, <1>2, <1>4, <1>5 DEF state

LEMMA GoOnStep ==
  ASSUME IInv, NEW t \in Threads, go_on(t)
  PROVE  /\ state[t] = "released"
         /\ state' = [state EXCEPT ![t] = "out"]
         /\ Held' = Held
BY DEF IInv, TypeOK, go_on, state, Held

LEMMA SleepStep ==
  ASSUME IInv, NEW t \in Threads, wait_again(t) \/ SpuriousWakeup(t)
  PROVE  state' = state /\ Held' = Held
BY DEF IInv, TypeOK, wait_again, SpuriousWakeup, state, Held

-----------------------------------------------------------------------------
LEMMA InvInit == Init => IInv
<1> SUFFICES ASSUME Init PROVE IInv
  OBVIOUS
<1> USE DEF Init, pthread_barrier_init
<1>1. TypeOK
  BY LimitType, BarrierAssumption DEF TypeOK
<1>2. Held = {}
  BY DEF Held
<1>3. CountInv
  BY <1>2, FS_EmptySet DEF CountInv
<1>4. RoundInv
  BY DEF RoundInv, Rounds, state
<1> QED
  BY <1>1, <1>3, <1>4 DEF IInv

LEMMA InvNext == IInv /\ [Next]_vars => IInv'
<1> SUFFICES ASSUME IInv, [Next]_vars PROVE IInv'
  OBVIOUS
<1> USE DEF IInv
<1>1. ASSUME NEW t \in Threads, pthread_barrier_wait_last(t) PROVE IInv'
  <2>1. TypeOK'
    BY <1>1, LimitType, NextPhase
       DEF TypeOK, pthread_barrier_wait_last, broadcast
  <2>2. CountInv'
    BY <1>1, LastStep, FS_EmptySet DEF CountInv, pthread_barrier_wait_last
  <2>a. /\ state[t] = "out" /\ state'[t] = "out"
        /\ \A u \in Threads \ {t} :
             state[u] = "waiting" /\ state'[u] = "released"
    BY <1>1, LastStep
  <2>b. /\ passed'[t] = passed[t] + 1 /\ entered'[t] = entered[t] + 1
        /\ \A u \in Threads \ {t} :
             passed'[u] = passed[u] /\ entered'[u] = entered[u]
    BY <1>1 DEF pthread_barrier_wait_last, TypeOK
  <2>3. \A u \in Threads : Rounds(u)' = Rounds(u) + 1
    BY <2>a, <2>b DEF Rounds, TypeOK
  <2>4. \A u \in Threads : Rounds(u) \in Nat
    BY DEF Rounds, TypeOK
  <2>5. \A u \in Threads : entered'[u] = Rounds(u)'
    <3>1. entered[t] = Rounds(t) + 0
      BY <2>a DEF RoundInv
    <3>2. \A u \in Threads \ {t} : entered[u] = Rounds(u) + 1
      BY <2>a DEF RoundInv
    <3> QED
      BY <3>1, <3>2, <2>3, <2>4, <2>b
  <2>6. \A u \in Threads : state'[u] # "waiting"
    BY <2>a
  <2>7. RoundInv'
    BY <2>3, <2>4, <2>5, <2>6 DEF RoundInv
  <2> QED
    BY <2>1, <2>2, <2>7
<1>2. ASSUME NEW t \in Threads, pthread_barrier_wait(t) PROVE IInv'
  <2>1. TypeOK'
    BY <1>2, LimitType DEF TypeOK, pthread_barrier_wait, IsLast
  <2>2. Cardinality(Held') = Cardinality(Held) + 1
    BY <1>2, WaitStep, HeldFinite, FS_AddElement
  <2>3. CountInv'
    BY <1>2, <2>2 DEF CountInv, pthread_barrier_wait, TypeOK
  <2>4. RoundInv'
    BY <1>2, WaitStep DEF RoundInv, Rounds, pthread_barrier_wait, TypeOK, state
  <2> QED
    BY <2>1, <2>3, <2>4
<1>3. ASSUME NEW t \in Threads, go_on(t) PROVE IInv'
  <2>1. TypeOK'
    BY <1>3 DEF TypeOK, go_on
  <2>2. CountInv'
    BY <1>3, GoOnStep DEF CountInv, go_on, TypeOK
  <2>3. RoundInv'
    BY <1>3, GoOnStep DEF RoundInv, Rounds, go_on, TypeOK, state
  <2> QED
    BY <2>1, <2>2, <2>3
<1>4. ASSUME NEW t \in Threads, wait_again(t) \/ SpuriousWakeup(t) PROVE IInv'
  <2>1. TypeOK'
    BY <1>4 DEF TypeOK, wait_again, SpuriousWakeup
  <2>2. CountInv'
    BY <1>4, SleepStep DEF CountInv, wait_again, SpuriousWakeup, TypeOK
  <2>3. RoundInv'
    BY <1>4, SleepStep DEF RoundInv, Rounds, wait_again, SpuriousWakeup
  <2> QED
    BY <2>1, <2>2, <2>3
<1>5. CASE UNCHANGED vars
  BY <1>5 DEF vars, TypeOK, CountInv, RoundInv, Rounds, state, Held
<1> QED
  BY <1>1, <1>2, <1>3, <1>4, <1>5 DEF Next, Step

(* The strengthened invariant: `count' counts the held threads, sleepers   *)
(* are held, and all threads agree on the number of completed rounds.      *)
THEOREM Invariance == Spec => []IInv
BY InvInit, InvNext, PTL DEF Spec

(* The barrier keeps its types, `count' below the limit included. *)
THEOREM TypeCorrect == Spec => []TypeOK
<1>1. IInv => TypeOK
  BY DEF IInv
<1> QED
  BY <1>1, Invariance, PTL

(* No thread passes the barrier for the n-th time before every thread has  *)
(* reached it n times, although the phase counter wraps.                   *)
THEOREM NobodyEarlyCorrect == Spec => []NobodyEarly
<1>1. IInv => NobodyEarly
  BY DEF IInv, RoundInv, Rounds, NobodyEarly, TypeOK
<1> QED
  BY <1>1, Invariance, PTL

(* pthread_barrier.c implements the abstract barrier. *)
THEOREM Refinement == Spec => IsABarrier
<1>1. Init => Abstract!Init
  BY DEF Init, Abstract!Init, state
<1>2. IInv /\ [Next]_vars => [Abstract!Next]_state
  <2> SUFFICES ASSUME IInv, [Next]_vars PROVE [Abstract!Next]_state
    OBVIOUS
  <2>1. ASSUME NEW t \in Threads, pthread_barrier_wait_last(t)
        PROVE  Abstract!Arrive(t)
    BY <2>1, LastStep DEF Abstract!Arrive, Abstract!Last
  <2>2. ASSUME NEW t \in Threads, pthread_barrier_wait(t)
        PROVE  Abstract!Arrive(t)
    BY <2>2, WaitStep DEF Abstract!Arrive, Abstract!Last
  <2>3. ASSUME NEW t \in Threads, go_on(t) PROVE Abstract!Leave(t)
    BY <2>3, GoOnStep DEF Abstract!Leave
  <2>4. ASSUME NEW t \in Threads, wait_again(t) \/ SpuriousWakeup(t)
        PROVE  state' = state
    BY <2>4, SleepStep
  <2>5. CASE UNCHANGED vars
    BY <2>5 DEF vars, state
  <2> QED
    BY <2>1, <2>2, <2>3, <2>4, <2>5 DEF Next, Step, Abstract!Next
<1> QED
  BY <1>1, <1>2, Invariance, PTL DEF Spec, IsABarrier, Abstract!Spec

=============================================================================
