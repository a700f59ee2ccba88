-------------------------- MODULE AbstractBarrier --------------------------
(***************************************************************************)
(* What a barrier promises to the threads that share it: a thread that     *)
(* arrives is held until every other one is held too; the last arrival     *)
(* releases them all and goes on itself without waiting.                   *)
(***************************************************************************)
CONSTANT Threads

VARIABLE st   \* "out", "waiting" (held) or "released" (free to go on)

Init == st = [t \in Threads |-> "out"]

Last(t) == \A u \in Threads \ {t} : st[u] = "waiting"

Arrive(t) ==
  /\ st[t] = "out"
  /\ st' = IF Last(t)
           THEN [u \in Threads |-> IF u = t THEN "out" ELSE "released"]
           ELSE [st EXCEPT ![t] = "waiting"]

Leave(t) ==
  /\ st[t] = "released"
  /\ st' = [st EXCEPT ![t] = "out"]

Next == \E t \in Threads : Arrive(t) \/ Leave(t)

Spec == Init /\ [][Next]_st
=============================================================================
