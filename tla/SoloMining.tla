----------------------------- MODULE SoloMining ----------------------------
(***************************************************************************)
(* How work is distributed when mining over HTTP (getblocktemplate, with   *)
(* the fallback to getwork): the miner threads, the workio thread that     *)
(* makes their HTTP calls, the long-polling thread and the node they call. *)
(*                                                                         *)
(* Miners share one unit of work, g_work, under g_work_lock.  A miner that *)
(* finds it too old asks workio for another, HOLDING the lock until the    *)
(* answer is in its own queue.  The long-polling thread replaces g_work    *)
(* whenever the node pushes something, and restart_threads interrupts the  *)
(* scans.  Solutions go to workio through the same queue as the requests.  *)
(*                                                                         *)
(* A step is what a thread does between two accesses to state another      *)
(* thread may change meanwhile; a section under g_work_lock that does not  *)
(* wait is one step.  The queues are those of module ThreadQueue, without  *)
(* spurious wake-ups.  Work is reduced to the block it builds on (`prev'), *)
(* a variant (`var', the rest of the 76 header bytes that are compared)    *)
(* and whether it came from getblocktemplate (`gbt': work.txs is not       *)
(* NULL).  Time since g_work_time is counted in steps of opt_scantime.     *)
(* Stratum is never switched on.                                           *)
(***************************************************************************)
EXTENDS Integers, Sequences, FiniteSets

CONSTANTS
  Miners,          \* the miner threads
  Vars,            \* templates the node offers on top of one block
  MaxTip,          \* bound: number of blocks found in a behaviour
  MaxQueue,        \* bound: length of workio's queue when a nonce is found
  OptRetries,      \* opt_retries; -1 is "retry indefinitely"
  WantLongpoll,    \* want_longpoll, and the node's templates have a longpollid
  AllowGetwork,    \* allow_getwork
  LongpollDecodes  \* every long-poll answer of the node can be decoded

ASSUME SoloAssumption ==
  /\ IsFiniteSet(Miners) /\ Miners # {}
  /\ Vars # {}
  /\ MaxTip \in Nat /\ MaxQueue \in Nat
  /\ OptRetries \in Int /\ OptRetries >= -1
  /\ {WantLongpoll, AllowGetwork, LongpollDecodes} \subseteq BOOLEAN
  /\ "free" \notin Miners /\ "nobody" \notin Miners

Blocks == -1 .. MaxTip              \* -1: the zeroed work of the start
Works  == [prev : Blocks, var : Vars, gbt : BOOLEAN]

(* opt_scantime and LP_SCANTIME, and the age at which counting stops. *)
SCANTIME    == 1
LP_SCANTIME == 2

VARIABLES
  gwork,         \* g_work
  gfreed,        \* g_work's pointers have been freed and not replaced
  age,           \* time(NULL) - g_work_time
  glock,         \* holder of g_work_lock across steps, or "free"
  have_gbt, have_longpoll, submit_old,
  lp_id,         \* the block lp_id names; -1 is NULL
  restart,       \* work_restart[].restart
  pc,            \* where each miner is in miner_thread
  scantime,      \* each miner's min_scantime
  exhausted,     \* work.data[19] >= end_nonce
  work,          \* each miner's own copy of the work
  told,          \* history: restarted between copying work and scanning it
  reply,         \* each miner's queue
  workq,         \* workio's queue
  wpc,           \* where workio is
  wcur,          \* the command workio is processing
  wtpl,          \* the work in the node's answer to workio
  failures,      \* of the current command
  lpq,           \* length of the long-polling thread's queue
  lpc,           \* where the long-polling thread is
  lpreq,         \* the id in its request; -1 for a getwork request
  lptpl,         \* the work in the node's answer
  tip            \* the node's best block

minerVars == <<pc, scantime, exhausted, work, told>>
gVars     == <<gwork, gfreed, age, glock>>
modeVars  == <<have_gbt, have_longpoll, submit_old, lp_id>>
wVars     == <<wpc, wcur, wtpl, failures>>
lpVars    == <<lpc, lpreq, lptpl>>
vars == <<gVars, modeVars, restart, minerVars, reply, workq, wVars, lpq,
          lpVars, tip>>

NoVar == CHOOSE v \in Vars : TRUE
Zero  == [prev |-> -1, var |-> NoVar, gbt |-> FALSE]
NoCmd == [cmd |-> "none", thr |-> "nobody", work |-> Zero, swapped |-> FALSE]

Init ==
  /\ gwork = Zero /\ gfreed = FALSE /\ age = LP_SCANTIME /\ glock = "free"
  /\ have_gbt = TRUE /\ have_longpoll = FALSE /\ submit_old = FALSE
  /\ lp_id = -1
  /\ restart = [m \in Miners |-> FALSE]
  /\ pc = [m \in Miners |-> "top"]
  /\ scantime = [m \in Miners |-> SCANTIME]
  /\ exhausted = [m \in Miners |-> FALSE]
  /\ work = [m \in Miners |-> Zero]
  /\ told = [m \in Miners |-> FALSE]
  /\ reply = [m \in Miners |-> <<>>]
  /\ workq = <<>> /\ wpc = "pop" /\ wcur = NoCmd /\ wtpl = Zero
  /\ failures = 0
  /\ lpq = 0 /\ lpc = "pop" /\ lpreq = -1 /\ lptpl = Zero
  /\ tip = 0

-----------------------------------------------------------------------------
(* Shared operations.                                                      *)

(* Mutant: the loop runs one index too far. *)
restart_threads_too_far ==
  /\ restart' = [m \in Miners \cup {"nobody"} |-> TRUE]
  /\ told' = [m \in Miners |-> told[m] \/ pc[m] = "clear"]

(* Mutant: the loop ends one index early. *)
restart_threads_short ==
  /\ restart' = [m \in Miners |->
                   restart[m] \/ m # CHOOSE n \in Miners : TRUE]
  /\ told' = [m \in Miners |-> told[m] \/ pc[m] = "clear"]

restart_threads ==
  /\ restart' = [m \in Miners |-> TRUE]
  /\ told' = [m \in Miners |-> told[m] \/ pc[m] = "clear"]

(* The 76 compared bytes of two units of work are equal. *)
SameData(v, w) == v.prev = w.prev /\ v.var = w.var

(* Mutant: long polling is activated again and again. *)
activate_longpoll_always ==
  /\ have_longpoll' = WantLongpoll
  /\ lpq' = IF WantLongpoll THEN lpq + 1 ELSE lpq

(* Hand a long-polling URI to the long-polling thread, unless it has one. *)
activate_longpoll ==
  IF WantLongpoll /\ ~ have_longpoll
  THEN have_longpoll' = TRUE /\ lpq' = lpq + 1
  ELSE UNCHANGED <<have_longpoll, lpq>>

(* Mutant: the id of the new work is not kept. *)
keep_no_longpollid(w) == UNCHANGED lp_id

(* gbt_work_decode: keep the id of the template just decoded. *)
keep_longpollid(w) == lp_id' = IF WantLongpoll THEN w.prev ELSE lp_id

(* json_rpc_call: an X-Long-Polling header counts in getwork mode only. *)
longpoll_header ==
  \/ UNCHANGED <<have_longpoll, lpq>>
  \/ /\ ~ have_gbt
     /\ AllowGetwork
     /\ activate_longpoll

-----------------------------------------------------------------------------
(* miner_thread                                                            *)

(* Top of the loop: min_scantime is chosen before the lock is taken. *)
MinerTop(m) ==
  /\ pc[m] = "top"
  /\ scantime' = [scantime EXCEPT ![m] =
                    IF have_longpoll THEN LP_SCANTIME ELSE SCANTIME]
  /\ pc' = [pc EXCEPT ![m] = "lock"]
  /\ UNCHANGED <<gVars, modeVars, restart, exhausted, work, told, reply, workq,
                 wVars, lpq, lpVars, tip>>

(* Mutant: work is only replaced when a miner has run out of nonces. *)
NeedsWorkIfExhausted(m) == exhausted[m]

NeedsWork(m) == age >= scantime[m] \/ exhausted[m]

(* Mutant: g_work_lock is given up while workio fetches the work. *)
drop_lock(m) == glock' = "free"

(* g_work_lock stays locked while workio fetches the work. *)
keep_lock(m) == glock' = m

(* get_work, first half: g_work is freed, then the request is queued. *)
get_work(m) ==
  /\ pc[m] = "lock" /\ glock = "free"
  /\ NeedsWork(m)
  /\ wpc # "dead"
  /\ gfreed' = gwork.gbt
  /\ workq' = Append(workq, [NoCmd EXCEPT !.cmd = "get", !.thr = m])
  /\ keep_lock(m)
  /\ pc' = [pc EXCEPT ![m] = "await"]
  /\ UNCHANGED <<gwork, age, modeVars, restart, scantime, exhausted, work, told,
                 reply, wVars, lpq, lpVars, tip>>

(* get_work when workio's queue is frozen: the miner thread ends. *)
get_work_fails(m) ==
  /\ pc[m] = "lock" /\ glock = "free"
  /\ NeedsWork(m)
  /\ wpc = "dead"
  /\ gfreed' = gwork.gbt
  /\ pc' = [pc EXCEPT ![m] = "exit"]
  /\ UNCHANGED <<gwork, age, glock, modeVars, restart, scantime, exhausted,
                 work, told, reply, workq, wVars, lpq, lpVars, tip>>

(* The miner takes g (the new g_work) over, from its first nonce, unless   *)
(* it already has it.                                                      *)
take_over(m, g) ==
  /\ pc' = [pc EXCEPT ![m] = "clear"]
  /\ scantime' = [scantime EXCEPT ![m] = SCANTIME]   \* out of scope
  /\ IF SameData(work[m], g)
     THEN UNCHANGED <<work, exhausted>>
     ELSE /\ work' = [work EXCEPT ![m] = g]
          /\ exhausted' = [exhausted EXCEPT ![m] = FALSE]

(* get_work, second half: g_work is overwritten and the lock released. *)
got_work(m) ==
  /\ pc[m] = "await"
  /\ reply[m] # <<>>
  /\ gwork' = Head(reply[m]) /\ gfreed' = FALSE /\ age' = 0
  /\ reply' = [reply EXCEPT ![m] = Tail(@)]
  /\ take_over(m, Head(reply[m]))
  /\ glock' = "free"
  /\ UNCHANGED <<modeVars, restart, told, workq, wVars, lpq, lpVars, tip>>

(* g_work is young enough: it is taken as it is. *)
reuse_work(m) ==
  /\ pc[m] = "lock" /\ glock = "free"
  /\ ~ NeedsWork(m)
  /\ take_over(m, gwork)
  /\ UNCHANGED <<gVars, modeVars, restart, told, reply, workq, wVars, lpq,
                 lpVars, tip>>

(* The restart flag is cleared, after the lock has been released. *)
MinerClear(m) ==
  /\ pc[m] = "clear"
  /\ restart' = [restart EXCEPT ![m] = FALSE]
  /\ pc' = [pc EXCEPT ![m] = "scan"]
  /\ UNCHANGED <<gVars, modeVars, scantime, exhausted, work, told, reply, workq,
                 wVars, lpq, lpVars, tip>>

(* scanhash returns without a nonce: restarted, or through with its range. *)
ScanEnds(m) ==
  /\ pc[m] = "scan"
  /\ \E b \in {exhausted[m], TRUE} : exhausted' = [exhausted EXCEPT ![m] = b]
  /\ told' = [told EXCEPT ![m] = FALSE]
  /\ pc' = [pc EXCEPT ![m] = "top"]
  /\ UNCHANGED <<gVars, modeVars, restart, scantime, work, reply, workq, wVars,
                 lpq, lpVars, tip>>

(* scanhash finds a nonce; submit_work queues a copy of the work.          *)
(* work.data[19] now holds the nonce byte-swapped, which may be on either  *)
(* side of end_nonce.  The last block is never built upon: that bounds the *)
(* chain.                                                                  *)
submit_work(m) ==
  /\ pc[m] = "scan"
  /\ work[m].prev < MaxTip
  /\ Len(workq) < MaxQueue
  /\ told' = [told EXCEPT ![m] = FALSE]
  /\ \E b \in BOOLEAN : exhausted' = [exhausted EXCEPT ![m] = b]
  /\ IF wpc = "dead"
     THEN pc' = [pc EXCEPT ![m] = "exit"] /\ UNCHANGED workq
     ELSE /\ pc' = [pc EXCEPT ![m] = "top"]
          /\ workq' = Append(workq, [NoCmd EXCEPT !.cmd = "submit", !.thr = m,
                                                  !.work = work[m]])
  /\ UNCHANGED <<gVars, modeVars, restart, scantime, work, reply, wVars, lpq,
                 lpVars, tip>>

Miner(m) ==
  \/ MinerTop(m) \/ get_work(m) \/ get_work_fails(m) \/ got_work(m)
  \/ reuse_work(m) \/ MinerClear(m) \/ ScanEnds(m) \/ submit_work(m)

-----------------------------------------------------------------------------
(* workio_thread                                                           *)

workio_pop ==
  /\ wpc = "pop"
  /\ workq # <<>>
  /\ wcur' = Head(workq)
  /\ workq' = Tail(workq)
  /\ wpc' = Head(workq).cmd
  /\ UNCHANGED <<gVars, modeVars, restart, minerVars, reply, wtpl, failures,
                 lpq, lpVars, tip>>

(* A call failed: try again from wpc = again, or give up and freeze the    *)
(* queue.  With opt_retries < 0 failures are not even counted.             *)
retry(again) ==
  IF OptRetries < 0
  THEN wpc' = again /\ UNCHANGED failures
  ELSE /\ failures' = failures + 1
       /\ wpc' = IF failures + 1 > OptRetries THEN "dead" ELSE again

(* The node answers a request for work with a template on its best block. *)
NodeTemplate ==
  /\ wpc = "get"
  /\ \E v \in Vars : wtpl' = [prev |-> tip, var |-> v, gbt |-> have_gbt]
  /\ wpc' = "decode"
  /\ UNCHANGED <<gVars, modeVars, restart, minerVars, reply, workq, wcur,
                 failures, lpq, lpVars, tip>>

(* The answer is decoded and handed to the miner that asked; a template    *)
(* with a longpollid activates long polling.  It is decoded as what        *)
(* have_gbt says now.                                                      *)
workio_get_work ==
  /\ wpc = "decode"
  /\ wtpl.gbt = have_gbt
  /\ reply' = [reply EXCEPT ![wcur.thr] = Append(@, wtpl)]
  /\ IF wtpl.gbt
     THEN keep_longpollid(wtpl) /\ activate_longpoll
     ELSE longpoll_header /\ UNCHANGED lp_id
  /\ wpc' = "pop" /\ wcur' = NoCmd /\ wtpl' = Zero /\ failures' = 0
  /\ UNCHANGED <<gVars, have_gbt, submit_old, restart, minerVars, workq, lpVars,
                 tip>>

(* The call for work fails, or its answer cannot be decoded. *)
get_upstream_work_fails ==
  /\ wpc \in {"get", "decode"}
  /\ retry("get") /\ wtpl' = Zero
  /\ longpoll_header
  /\ UNCHANGED <<gVars, have_gbt, submit_old, lp_id, restart, minerVars, reply,
                 workq, wcur, lpVars, tip>>

(* The node answers getblocktemplate with an error (or there is no payout  *)
(* address for its template): getwork is used from now on.                 *)
fall_back_to_getwork ==
  /\ wpc \in {"get", "decode"}
  /\ have_gbt /\ AllowGetwork
  /\ have_gbt' = FALSE
  /\ wpc' = "get" /\ wtpl' = Zero
  /\ UNCHANGED <<gVars, have_longpoll, submit_old, lp_id, restart, minerVars,
                 reply, workq, wcur, failures, lpq, lpVars, tip>>

(* The previous hash of the solution, as it stands in memory, is not the   *)
(* one of g_work; g_work is read without the lock.                         *)
Stale == ~ submit_old /\ (wcur.swapped \/ wcur.work.prev # gwork.prev)

(* The end of a WC_SUBMIT_WORK command, when all is well. *)
submitted ==
  /\ wpc' = "pop" /\ wcur' = NoCmd /\ failures' = 0
  /\ IF have_longpoll' THEN UNCHANGED <<restart, told>> ELSE restart_threads

(* submit_upstream_work passes over a stale solution. *)
discard_stale ==
  /\ wpc = "submit"
  /\ Stale
  /\ UNCHANGED modeVars
  /\ submitted
  /\ UNCHANGED <<gVars, pc, scantime, exhausted, work, reply, workq, wtpl, lpq,
                 lpVars, tip>>

(* submit_upstream_work sends the request.  For submitblock the words of   *)
(* work.data are put in wire order in place: a second call undoes it.      *)
send_solution ==
  /\ wpc = "submit"
  /\ ~ Stale
  /\ wcur' = [wcur EXCEPT !.swapped = IF wcur.work.gbt THEN ~ @ ELSE @]
  /\ wpc' = "sent"
  /\ UNCHANGED <<gVars, modeVars, restart, minerVars, reply, workq, wtpl,
                 failures, lpq, lpVars, tip>>

(* The node gets the solution and takes it as its best block if it builds  *)
(* on the present one and is in wire order.                                *)
NodeSubmit ==
  /\ wpc = "sent"
  /\ tip' = IF wcur.work.prev = tip /\ (wcur.work.gbt => wcur.swapped)
            THEN tip + 1 ELSE tip
  /\ wpc' = "answered"
  /\ UNCHANGED <<gVars, modeVars, restart, minerVars, reply, workq, wcur, wtpl,
                 failures, lpq, lpVars>>

(* The node's answer, good or bad, arrives (share_result). *)
solution_answered ==
  /\ wpc = "answered"
  /\ longpoll_header
  /\ submitted
  /\ UNCHANGED <<gVars, have_gbt, submit_old, lp_id, pc, scantime, exhausted,
                 work, reply, workq, wtpl, lpVars, tip>>

(* The call fails, before or after the node has seen it. *)
submit_upstream_work_fails ==
  /\ wpc \in {"sent", "answered"}
  /\ retry("submit")
  /\ longpoll_header
  /\ UNCHANGED <<gVars, have_gbt, submit_old, lp_id, restart, minerVars, reply,
                 workq, wcur, wtpl, lpVars, tip>>

Workio ==
  \/ workio_pop \/ workio_get_work \/ get_upstream_work_fails
  \/ fall_back_to_getwork \/ discard_stale \/ send_solution
  \/ solution_answered \/ submit_upstream_work_fails

-----------------------------------------------------------------------------
(* longpoll_thread                                                         *)

(* The request and its answer go out of scope. *)
lp_loop(next) == lpc' = next /\ lpreq' = -1 /\ lptpl' = Zero

lp_pop ==
  /\ lpc = "pop"
  /\ lpq > 0
  /\ lpq' = lpq - 1
  /\ lpc' = "call"
  /\ UNCHANGED <<gVars, modeVars, restart, minerVars, reply, workq, wVars,
                 lpreq, lptpl, tip>>

lp_call ==
  /\ lpc = "call"
  /\ lpreq' = IF have_gbt THEN lp_id ELSE -1
  /\ lpc' = "poll"
  /\ UNCHANGED <<gVars, modeVars, restart, minerVars, reply, workq, wVars, lpq,
                 lptpl, tip>>

(* The node answers once it has something other than lpreq to offer. *)
NodePush ==
  /\ lpc = "poll"
  /\ lpreq # tip \/ Cardinality(Vars) > 1
  /\ \E v \in Vars : lptpl' = [prev |-> tip, var |-> v, gbt |-> lpreq # -1]
  /\ lpc' = "pushed"
  /\ UNCHANGED <<gVars, modeVars, restart, minerVars, reply, workq, wVars, lpq,
                 lpreq, tip>>

(* submitold is taken from the answer before g_work_lock is taken. *)
lp_submit_old ==
  /\ lpc = "pushed"
  /\ submit_old' \in BOOLEAN
  /\ lpc' = "apply"
  /\ UNCHANGED <<gVars, have_gbt, have_longpoll, lp_id, restart, minerVars,
                 reply, workq, wVars, lpq, lpreq, lptpl, tip>>

(* Mutant: the answer is decoded and then dropped. *)
replace_gwork_not == UNCHANGED <<gwork, gfreed>>

(* The answer becomes g_work.  work_decode leaves the freed pointers of    *)
(* g_work in place, gbt_work_decode does not.                              *)
replace_gwork ==
  /\ gwork' = [lptpl EXCEPT !.gbt = have_gbt \/ gwork.gbt]
  /\ gfreed' = (gwork.gbt /\ ~ have_gbt)

(* g_work is replaced and the miners are restarted. *)
lp_apply ==
  /\ lpc = "apply" /\ glock = "free"
  /\ have_gbt = lptpl.gbt
  /\ replace_gwork
  /\ age' = 0
  /\ IF have_gbt
     THEN keep_longpollid(lptpl) /\ activate_longpoll
     ELSE UNCHANGED <<lp_id, have_longpoll, lpq>>
  /\ restart_threads
  /\ lp_loop("call")
  /\ UNCHANGED <<glock, have_gbt, submit_old, pc, scantime, exhausted, work,
                 reply, workq, wVars, tip>>

(* The answer cannot be decoded: g_work has been freed all the same, and   *)
(* may have been replaced in part.  A template without a payout address to *)
(* use makes getwork the protocol from now on.                             *)
lp_apply_fails ==
  /\ lpc = "apply" /\ glock = "free"
  /\ have_gbt # lptpl.gbt \/ ~ LongpollDecodes
  /\ \/ UNCHANGED <<gwork, have_gbt>> /\ gfreed' = gwork.gbt
     \/ /\ have_gbt /\ lptpl.gbt /\ AllowGetwork
        /\ have_gbt' = FALSE
        /\ UNCHANGED gwork /\ gfreed' = gwork.gbt
     \/ /\ have_gbt /\ lptpl.gbt              \* txs was already replaced
        /\ gwork' = [gwork EXCEPT !.gbt = TRUE] /\ gfreed' = FALSE
        /\ UNCHANGED have_gbt
     \/ /\ have_gbt = lptpl.gbt               \* data was already replaced
        /\ replace_gwork
        /\ UNCHANGED have_gbt
  /\ lp_loop("call")
  /\ UNCHANGED <<age, glock, have_longpoll, submit_old, lp_id, restart,
                 minerVars, reply, workq, wVars, lpq, tip>>

(* The long poll fails or times out: g_work is made to look old. *)
lp_expire(failed) ==
  /\ lpc = "poll" /\ glock = "free"
  /\ age' = LP_SCANTIME
  /\ lp_loop(IF failed THEN "failed" ELSE "timeout")
  /\ UNCHANGED <<gwork, gfreed, glock, modeVars, restart, minerVars, reply,
                 workq, wVars, lpq, tip>>

lp_timeout ==
  /\ lpc = "timeout"
  /\ restart_threads
  /\ lpc' = "call"
  /\ UNCHANGED <<gVars, modeVars, pc, scantime, exhausted, work, reply, workq,
                 wVars, lpq, lpreq, lptpl, tip>>

(* After any other error the thread waits to be given a URI again. *)
lp_failed ==
  /\ lpc = "failed"
  /\ have_longpoll' = FALSE
  /\ restart_threads
  /\ lpc' = "pop"
  /\ UNCHANGED <<gVars, have_gbt, submit_old, lp_id, pc, scantime, exhausted,
                 work, reply, workq, wVars, lpq, lpreq, lptpl, tip>>

Longpoll ==
  \/ lp_pop \/ lp_call \/ lp_submit_old \/ lp_apply \/ lp_apply_fails
  \/ (\E failed \in BOOLEAN : lp_expire(failed))
  \/ lp_timeout \/ lp_failed

-----------------------------------------------------------------------------
(* The node gets a block from somebody else. *)
NodeBlock ==
  /\ tip < MaxTip
  /\ tip' = tip + 1
  /\ UNCHANGED <<gVars, modeVars, restart, minerVars, reply, workq, wVars, lpq,
                 lpVars>>

(* Time passes. *)
Tick ==
  /\ age < LP_SCANTIME
  /\ age' = age + 1
  /\ UNCHANGED <<gwork, gfreed, glock, modeVars, restart, minerVars, reply,
                 workq, wVars, lpq, lpVars, tip>>

Node == NodeTemplate \/ NodeSubmit \/ NodePush \/ NodeBlock

Next == (\E m \in Miners : Miner(m)) \/ Workio \/ Longpoll \/ Node \/ Tick

Spec == Init /\ [][Next]_vars

(* Threads run, scans end, time passes, a mutex that is free again and     *)
(* again is eventually obtained, and a node that is called again and again *)
(* eventually answers.  Nothing is assumed of the long-polling thread or   *)
(* of the node's pushes.                                                   *)
Fairness ==
  /\ \A m \in Miners :
       /\ WF_vars(MinerTop(m)) /\ WF_vars(got_work(m))
       /\ WF_vars(MinerClear(m)) /\ WF_vars(ScanEnds(m))
       /\ SF_vars(get_work(m) \/ reuse_work(m))
  /\ WF_vars(workio_pop) /\ WF_vars(discard_stale) /\ WF_vars(send_solution)
  /\ SF_vars(NodeTemplate) /\ SF_vars(workio_get_work)
  /\ SF_vars(NodeSubmit) /\ SF_vars(solution_answered)
  /\ WF_vars(Tick)

FairSpec == Spec /\ Fairness

-----------------------------------------------------------------------------
(* Properties.                                                             *)

Cmds == [cmd : {"none", "get", "submit"}, thr : Miners \cup {"nobody"},
         work : Works, swapped : BOOLEAN]

TypeShared ==
  /\ gwork \in Works /\ gfreed \in BOOLEAN /\ age \in 0 .. LP_SCANTIME
  /\ glock \in Miners \cup {"free"}
  /\ have_gbt \in BOOLEAN /\ have_longpoll \in BOOLEAN
  /\ submit_old \in BOOLEAN /\ lp_id \in Blocks
  /\ tip \in 0 .. MaxTip

TypeMiners ==
  /\ restart \in [Miners -> BOOLEAN]
  /\ pc \in [Miners -> {"top", "lock", "await", "clear", "scan", "exit"}]
  /\ scantime \in [Miners -> {SCANTIME, LP_SCANTIME}]
  /\ exhausted \in [Miners -> BOOLEAN]
  /\ work \in [Miners -> Works]
  /\ told \in [Miners -> BOOLEAN]

TypeWorkio ==
  /\ reply \in [Miners -> Seq(Works)]
  /\ workq \in Seq(Cmds)
  /\ wpc \in {"pop", "get", "decode", "submit", "sent", "answered", "dead"}
  /\ wcur \in Cmds /\ wtpl \in Works /\ failures \in Nat

TypeLongpoll ==
  /\ lpq \in Nat
  /\ lpc \in {"pop", "call", "poll", "pushed", "apply", "failed", "timeout"}
  /\ lpreq \in Blocks /\ lptpl \in Works

(* The state keeps its types. *)
TypeOK == TypeShared /\ TypeMiners /\ TypeWorkio /\ TypeLongpoll

(* Where a request for work by m can be: in workio's queue, in workio's    *)
(* hands, or answered in m's own queue.                                    *)
Queued(m) ==
  {i \in 1 .. Len(workq) : workq[i].cmd = "get" /\ workq[i].thr = m}
InHand(m) == wcur.cmd = "get" /\ wcur.thr = m

Requested(m) ==
  \/ /\ Queued(m) # {} /\ \A i, j \in Queued(m) : i = j
     /\ ~ InHand(m) /\ reply[m] = <<>>
  \/ Queued(m) = {} /\ InHand(m) /\ reply[m] = <<>>
  \/ Queued(m) = {} /\ ~ InHand(m) /\ Len(reply[m]) = 1

(* A miner waits for work exactly while it holds g_work_lock, and then its *)
(* request is in exactly one place: there is one request for work at a     *)
(* time, no answer goes to a miner that is not waiting for one, and no     *)
(* waiting miner has been forgotten.                                       *)
OneRequest ==
  \A m \in Miners :
    IF pc[m] = "await"
    THEN glock = m /\ Requested(m)
    ELSE glock # m /\ Queued(m) = {} /\ ~ InHand(m) /\ reply[m] = <<>>

(* have_longpoll says that the long-polling thread has a URI: it is at     *)
(* work, or its only URI is in its queue.                                  *)
LongpollHandshake ==
  IF have_longpoll
  THEN IF lpc = "pop" THEN lpq = 1 ELSE lpq = 0
  ELSE lpc = "pop" /\ lpq = 0

(* The long-polling thread never builds a getblocktemplate request from a  *)
(* NULL lp_id.                                                             *)
LongpollIdKnown == lpc = "call" /\ have_gbt => lp_id # -1

(* While the long poll rests at the node with the id of the node's best    *)
(* block, it is not going to be answered; then g_work does build on that   *)
(* block (unless a miner is just replacing it).  An answer to an earlier   *)
(* poll that is applied late, over newer work from workio, is made up for  *)
(* by the next poll.                                                       *)
NoMissedBlock ==
  lpc = "poll" /\ lpreq = tip /\ glock = "free" => gwork.prev = tip

(* Freed pointers stay in g_work only while the miner that freed them      *)
(* holds the lock and waits for the work that replaces them: nobody copies *)
(* or frees them again.                                                    *)
NoDanglingWork == gfreed => \E m \in Miners : glock = m /\ pc[m] = "await"

(* Work fetched through workio never takes g_work back to an older block;  *)
(* only a late long-poll answer can.                                       *)
FetchNeverRegresses ==
  [][gwork'.prev < gwork.prev => lpc = "apply" /\ lpc' = "call"]_vars

(* When no more blocks come, every miner goes on scanning, and from some   *)
(* time on only work that builds on the node's best block: with or without *)
(* long polling, whatever calls fail.                                      *)
KeepsUp ==
  \A m \in Miners :
    /\ []<>(pc[m] = "scan")
    /\ <>[](pc[m] = "scan" => work[m].prev = tip)

(* submit_upstream_work passes over a solution only if its previous hash   *)
(* is not the current one.                                                 *)
StaleDiscardSound == [][discard_stale => wcur.work.prev # gwork.prev]_vars

(* A miner scans work that is no longer g_work only until it looks at its  *)
(* restart flag, unless another miner fetched the replacement (nobody is   *)
(* restarted then) or the restart fell between this miner's unlock and its *)
(* clearing of the flag, where it is lost.                                 *)
OldScanInterrupted ==
  \A m \in Miners :
    pc[m] = "scan" /\ ~ SameData(work[m], gwork)
      => \/ restart[m]
         \/ told[m]
         \/ \E n \in Miners \ {m} : SameData(work[n], gwork)
=============================================================================
