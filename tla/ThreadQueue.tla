---------------------------- MODULE ThreadQueue ----------------------------
(***************************************************************************)
(* The inter-thread queue of util.c (struct thread_q): a FIFO list         *)
(* guarded by a mutex, with one condition variable and a `frozen' flag.    *)
(*                                                                         *)
(* Every access to the list happens inside the mutex, so a critical        *)
(* section is one step; tq_pop is cut where pthread_cond_wait releases the *)
(* mutex.  A popper is "idle" (outside tq_pop), "waiting" (blocked in      *)
(* pthread_cond_wait) or "woken" (signalled, has not yet got the mutex     *)
(* back).  POSIX lets pthread_cond_wait return without a signal; the       *)
(* constant Spurious says whether it does.                                 *)
(***************************************************************************)
EXTENDS Naturals, Sequences, FiniteSets

CONSTANTS
  Poppers,    \* threads that call tq_pop on this queue
  Data,       \* what callers push, the NULL pointer left out
  NULL,       \* the NULL pointer: pushed as "terminate", returned for "nothing"
  Spurious,   \* TRUE if pthread_cond_wait may return without a signal
  MaxPush     \* bound on the number of tq_push and tq_freezethaw calls

ASSUME QueueAssumption ==
  /\ IsFiniteSet(Poppers)
  /\ NULL \notin Data
  /\ Spurious \in BOOLEAN
  /\ MaxPush \in Nat

Entry == Data \cup {NULL}

VARIABLES
  q,          \* tq->q, the list, head first
  frozen,     \* tq->frozen
  pc,         \* where each popper is in tq_pop
  ret,        \* rval of each popper's last tq_pop
  accepted,   \* history: the entries tq_push has put on the list, in order
  delivered,  \* history: the entries tq_pop has taken off the list, in order
  excused,    \* history: tq_freeze or tq_thaw was called, or a wait returned early
  calls       \* number of tq_push and tq_freezethaw calls so far

vars == <<q, frozen, pc, ret, accepted, delivered, excused, calls>>

Waiting == {p \in Poppers : pc[p] = "waiting"}
Woken   == {p \in Poppers : pc[p] = "woken"}

tq_new ==
  /\ q = <<>>
  /\ frozen = FALSE

Init ==
  /\ tq_new
  /\ pc = [p \in Poppers |-> "idle"]
  /\ ret = [p \in Poppers |-> NULL]
  /\ accepted = <<>>
  /\ delivered = <<>>
  /\ excused = FALSE
  /\ calls = 0

-----------------------------------------------------------------------------
(* Mutant: list_add puts the entry at the head. *)
list_add(s, d) == <<d>> \o s

(* elist.h: a new entry goes in before the list head, that is, at the tail. *)
list_add_tail(s, d) == Append(s, d)

(* Mutant: the signal is forgotten. *)
NoSignal == UNCHANGED pc

(* pthread_cond_signal: wakes one waiter, if there is one. *)
Signal ==
  \/ /\ Waiting = {}
     /\ UNCHANGED pc
  \/ \E p \in Waiting : pc' = [pc EXCEPT ![p] = "woken"]

(* tq_push: appended at the tail unless the queue is frozen; the condition *)
(* is signalled either way.                                                *)
tq_push(d) ==
  /\ calls < MaxPush
  /\ calls' = calls + 1
  /\ IF frozen
     THEN UNCHANGED <<q, accepted>>
     ELSE /\ q' = list_add_tail(q, d)
          /\ accepted' = Append(accepted, d)
  /\ Signal
  /\ UNCHANGED <<frozen, ret, delivered, excused>>

(* tq_freeze and tq_thaw: the flag is set, the condition signalled. *)
tq_freezethaw(b) ==
  /\ calls < MaxPush
  /\ calls' = calls + 1
  /\ frozen' = b
  /\ excused' = TRUE
  /\ Signal
  /\ UNCHANGED <<q, ret, accepted, delivered>>

(* Mutant: the list node is returned in place of its data. *)
TakeNode(p) ==
  /\ ret' = [ret EXCEPT ![p] = <<Head(q)>>]
  /\ delivered' = Append(delivered, Head(q))
  /\ q' = Tail(q)

(* The `pop' label: the head entry is unlinked and its data returned. *)
TakeHead(p) ==
  /\ ret' = [ret EXCEPT ![p] = Head(q)]
  /\ delivered' = Append(delivered, Head(q))
  /\ q' = Tail(q)

(* The `out' label reached with nothing on the list: rval stays NULL. *)
TakeNothing(p) ==
  /\ ret' = [ret EXCEPT ![p] = NULL]
  /\ UNCHANGED <<q, delivered>>

(* tq_pop, entered with an entry on the list. *)
tq_pop(p) ==
  /\ pc[p] = "idle"
  /\ q # <<>>
  /\ TakeHead(p)
  /\ UNCHANGED <<frozen, pc, accepted, excused, calls>>

(* Mutant: a pop on an empty list gives up at once instead of blocking. *)
tq_pop_nowait(p) ==
  /\ pc[p] = "idle"
  /\ q = <<>>
  /\ pc' = [pc EXCEPT ![p] = "woken"]
  /\ UNCHANGED <<q, frozen, ret, accepted, delivered, excused, calls>>

(* tq_pop, entered with an empty list: blocks, frozen or not. *)
tq_pop_wait(p) ==
  /\ pc[p] = "idle"
  /\ q = <<>>
  /\ pc' = [pc EXCEPT ![p] = "waiting"]
  /\ UNCHANGED <<q, frozen, ret, accepted, delivered, excused, calls>>

(* The second half of tq_pop: the list is looked at once, not in a loop. *)
tq_pop_resume(p) ==
  /\ pc[p] = "woken"
  /\ pc' = [pc EXCEPT ![p] = "idle"]
  /\ IF q = <<>> THEN TakeNothing(p) ELSE TakeHead(p)
  /\ UNCHANGED <<frozen, accepted, excused, calls>>

(* pthread_cond_wait returns although nobody signalled. *)
SpuriousWakeup(p) ==
  /\ Spurious
  /\ pc[p] = "waiting"
  /\ pc' = [pc EXCEPT ![p] = "woken"]
  /\ excused' = TRUE
  /\ UNCHANGED <<q, frozen, ret, accepted, delivered, calls>>

PopStep(p) == tq_pop(p) \/ tq_pop_wait(p) \/ tq_pop_resume(p)

Next ==
  \/ \E d \in Entry : tq_push(d)
  \/ \E b \in BOOLEAN : tq_freezethaw(b)
  \/ \E p \in Poppers : PopStep(p) \/ SpuriousWakeup(p)

Spec == Init /\ [][Next]_vars

-----------------------------------------------------------------------------
(* The state keeps its types. *)
TypeOK ==
  /\ q \in Seq(Entry)
  /\ frozen \in BOOLEAN
  /\ pc \in [Poppers -> {"idle", "waiting", "woken"}]
  /\ ret \in [Poppers -> Entry]
  /\ accepted \in Seq(Entry)
  /\ delivered \in Seq(Entry)
  /\ excused \in BOOLEAN
  /\ calls \in Nat

(* What tq_push accepted is handed out in the same order and exactly once, *)
(* whatever freezes, wake-ups and poppers are interleaved with it.         *)
FifoOrder == accepted = delivered \o q

(* tq_push and tq_freezethaw signal and do not broadcast.  That is enough: *)
(* while somebody is still blocked in pthread_cond_wait, there are at      *)
(* least as many woken poppers on their way as entries on the list, so no  *)
(* entry can be stranded behind a sleeping popper.                         *)
NoLostWakeup == Waiting # {} => Len(q) <= Cardinality(Woken)

(* Callers read NULL as "terminate".  A tq_pop by the only popper returns  *)
(* a NULL that was not pushed only after a freeze or a thaw, or a return   *)
(* of pthread_cond_wait without a signal, which the code does not loop on. *)
NullHasReason ==
  [][\A p \in Poppers : (tq_pop_resume(p) /\ q = <<>>) => excused]_vars

=============================================================================
