--------------------------- MODULE PthreadBarrier --------------------------
(***************************************************************************)
(* pthread_barrier.c: the barrier the miner brings along for systems       *)
(* without one.  `count' threads have arrived in the current phase; the    *)
(* last one starts the next phase and broadcasts; the others sleep until   *)
(* they see a phase different from the one they arrived in.                *)
(*                                                                         *)
(* `phase' is an unsigned int and wraps; PhaseMod stands for 2^32.  A      *)
(* thread is "out", "asleep" in pthread_cond_wait, or "awake": woken, by   *)
(* the broadcast or spuriously, and about to get the mutex back.           *)
(***************************************************************************)
EXTENDS Naturals, FiniteSets

CONSTANTS
  Threads,    \* the threads that share the barrier
  PhaseMod,   \* number of values of an unsigned int
  MaxRounds   \* bound on the calls of pthread_barrier_wait by each thread

ASSUME BarrierAssumption ==
  /\ IsFiniteSet(Threads) /\ Threads # {}
  /\ PhaseMod \in Nat /\ PhaseMod >= 2
  /\ MaxRounds \in Nat

limit == Cardinality(Threads)

VARIABLES
  count,     \* barrier->count
  phase,     \* barrier->phase
  pc,        \* where each thread is in pthread_barrier_wait
  myphase,   \* each thread's local `phase'
  entered,   \* history: how often each thread has called pthread_barrier_wait
  passed     \* history: how often it has returned from it

vars == <<count, phase, pc, myphase, entered, passed>>

pthread_barrier_init ==
  /\ count = 0
  /\ phase = 0

Init ==
  /\ pthread_barrier_init
  /\ pc = [t \in Threads |-> "out"]
  /\ myphase = [t \in Threads |-> 0]
  /\ entered = [t \in Threads |-> 0]
  /\ passed = [t \in Threads |-> 0]

-----------------------------------------------------------------------------
(* Mutant: only one sleeper is woken. *)
signal_one(t) ==
  \E u \in Threads :
    pc' = [pc EXCEPT ![u] = IF @ = "asleep" THEN "awake" ELSE @]

(* pthread_cond_broadcast by t: every sleeper is woken. *)
broadcast(t) ==
  pc' = [u \in Threads |-> IF pc[u] = "asleep" THEN "awake" ELSE pc[u]]

(* Mutant: the limit is off by one. *)
IsLastEarly(t) == count + 2 >= limit

(* The arrival that fills the barrier. *)
IsLast(t) == count + 1 >= limit

(* Called by the last thread: it never waits. *)
pthread_barrier_wait_last(t) ==
  /\ pc[t] = "out"
  /\ entered[t] < MaxRounds
  /\ IsLast(t)
  /\ phase' = (phase + 1) % PhaseMod
  /\ count' = 0
  /\ broadcast(t)
  /\ entered' = [entered EXCEPT ![t] = @ + 1]
  /\ passed' = [passed EXCEPT ![t] = @ + 1]
  /\ UNCHANGED myphase

(* Called by any other thread, up to its pthread_cond_wait. *)
pthread_barrier_wait(t) ==
  /\ pc[t] = "out"
  /\ entered[t] < MaxRounds
  /\ ~ IsLast(t)
  /\ count' = count + 1
  /\ myphase' = [myphase EXCEPT ![t] = phase]
  /\ pc' = [pc EXCEPT ![t] = "asleep"]
  /\ entered' = [entered EXCEPT ![t] = @ + 1]
  /\ UNCHANGED <<phase, passed>>

(* pthread_cond_wait returns to t in a new phase: t goes on. *)
go_on(t) ==
  /\ pc[t] = "awake"
  /\ myphase[t] # phase
  /\ pc' = [pc EXCEPT ![t] = "out"]
  /\ passed' = [passed EXCEPT ![t] = @ + 1]
  /\ UNCHANGED <<count, phase, myphase, entered>>

(* Mutant: the condition is not checked again after the wait. *)
wait_again_not(t) ==
  /\ pc[t] = "awake"
  /\ myphase[t] = phase
  /\ pc' = [pc EXCEPT ![t] = "out"]
  /\ passed' = [passed EXCEPT ![t] = @ + 1]
  /\ UNCHANGED <<count, phase, myphase, entered>>

(* pthread_cond_wait returns to t in the same phase: it waits again. *)
wait_again(t) ==
  /\ pc[t] = "awake"
  /\ myphase[t] = phase
  /\ pc' = [pc EXCEPT ![t] = "asleep"]
  /\ UNCHANGED <<count, phase, myphase, entered, passed>>

(* pthread_cond_wait may return without a broadcast. *)
SpuriousWakeup(t) ==
  /\ pc[t] = "asleep"
  /\ pc' = [pc EXCEPT ![t] = "awake"]
  /\ UNCHANGED <<count, phase, myphase, entered, passed>>

Step(t) ==
  \/ pthread_barrier_wait_last(t)
  \/ pthread_barrier_wait(t)
  \/ go_on(t)
  \/ wait_again(t)
  \/ SpuriousWakeup(t)

Next == \E t \in Threads : Step(t)

(* A woken thread eventually gets the mutex back.  Whether threads arrive  *)
(* at the barrier at all is up to their caller.                            *)
Fairness == \A t \in Threads : WF_vars(go_on(t))

Spec == Init /\ [][Next]_vars

FairSpec == Spec /\ Fairness

-----------------------------------------------------------------------------
(* The state keeps its types; `count' stays below the limit. *)
TypeOK ==
  /\ count \in 0 .. limit - 1
  /\ phase \in 0 .. PhaseMod - 1
  /\ pc \in [Threads -> {"out", "asleep", "awake"}]
  /\ myphase \in [Threads -> 0 .. PhaseMod - 1]
  /\ entered \in [Threads -> Nat]
  /\ passed \in [Threads -> Nat]

(* The barrier as its callers see it: a thread inside is held while its    *)
(* phase is the current one and released afterwards.                       *)
state ==
  [t \in Threads |->
     IF pc[t] = "out" THEN "out"
     ELSE IF myphase[t] = phase THEN "waiting" ELSE "released"]

Abstract == INSTANCE AbstractBarrier WITH st <- state

(* pthread_barrier.c implements the abstract barrier. *)
IsABarrier == Abstract!Spec

(* No thread gets past its n-th pthread_barrier_wait before every thread   *)
(* has called it n times, even though `phase' wraps and a thread that has  *)
(* been released may be overtaken by faster ones.                          *)
NobodyEarly == \A t, u \in Threads : passed[t] <= entered[u]

(* A released thread does get out: the broadcast reaches every sleeper,    *)
(* and the next phase cannot end before it is out.                         *)
ReleasedLeaves ==
  \A t \in Threads : (state[t] = "released") ~> (state[t] = "out")
=============================================================================
