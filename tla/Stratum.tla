------------------------------- MODULE Stratum ------------------------------
(***************************************************************************)
(* Pooled mining over stratum: the stratum thread with its connection,     *)
(* session and job, the miner threads that draw work from the job, the     *)
(* workio thread that sends their shares, and the pool.                    *)
(*                                                                         *)
(* A step is what a thread does between two accesses to state another      *)
(* thread may change meanwhile.  A line travels whole, except that one     *)
(* that trickles in for a minute is read as two pieces, "torn".  The pool  *)
(* handles a line when it is sent, and its lines wait in `rx', which       *)
(* stands for the socket and sockbuf.  A job is its id and the block it    *)
(* builds on; an extranonce1 is a number, 0 for none, and the session id   *)
(* the pool hands out with it is the same number.                          *)
(* Time since g_work_time is "zero" (never), "fresh" or "old" (120         *)
(* seconds).  A scan may end at any time, so the restart flags, which only *)
(* end scans (module SoloMining), are left out.  Long polling is not used  *)
(* beside stratum.                                                         *)
(*                                                                         *)
(* `budget' counts what a behaviour holds of faults and of lines the pool  *)
(* sends unasked: it bounds them and nothing else.                         *)
(***************************************************************************)
EXTENDS Integers, Sequences, FiniteSets

CONSTANTS
  Miners,      \* the miner threads
  OptRetries,  \* opt_retries, not negative here
  MaxX1,       \* bound: extranonce1 values; the last is handed out again
  MaxJob,      \* bound: jobs of the pool
  MaxX2,       \* bound: extranonce2 wraps after it
  MaxRx,       \* bound: lines under way when the pool adds one unasked
  MaxShares,   \* bound: shares found
  Budget       \* bound: faults and unasked lines

ASSUME StratumAssumption ==
  /\ IsFiniteSet(Miners) /\ Miners # {}
  /\ {OptRetries, MaxX1, MaxJob, MaxX2, MaxRx, MaxShares, Budget} \subseteq Nat
  /\ "free" \notin Miners

VARIABLES
  link,          \* curl: "none" (NULL), "up", or "gone" (closed by the peer)
  rx, cut,       \* lines to the miner; the last line sent broke off
  px1, pauth,    \* extranonce1 of the connection; it is authorised
  announced,     \* the pool's job was sent on this connection
  crossed,       \* history: a share reached the pool during the handshake
  lost,          \* history: a notify was torn
  given, pjob,   \* the pool: extranonce1 values handed out, and the job
  budget, shares,
  spc, retry, failures,             \* stratum_thread
  x1, session_id, next_diff, job,   \* struct stratum_ctx
  have_stratum, gtime, glock,
  gwork, gdiff,  \* g_work, and the difficulty of its target
  gasked,        \* history: the difficulty of the job g_work was made from
  pc, work,                         \* miner_thread
  usedup,        \* work.data is g_work.data and its nonces are used up
  workq, dead, wfailures            \* workio_thread

connVars   == <<link, rx, cut, px1, pauth, announced, crossed, lost>>
poolVars   == <<connVars, given, pjob, budget>>
threadVars == <<spc, retry, failures>>
sctxVars   == <<x1, session_id, next_diff, job>>
gVars      == <<gwork, gdiff, gasked, gtime, glock>>
minerVars  == <<pc, work, usedup>>
workioVars == <<workq, dead, wfailures>>
vars == <<poolVars, shares, threadVars, sctxVars, have_stratum, gVars, minerVars,
          workioVars>>

(* What stratum_gen_work puts into a struct work. *)
Unit(j, x, s) == [id |-> j.id, prev |-> j.prev, x2 |-> x, ses |-> s]
NoJob  == [id |-> 0, prev |-> 0]
NoUnit == Unit(NoJob, 0, 0)
NoCmd  == [cmd |-> "none", prev |-> 0, ses |-> 0]

Line(k, v) == [kind |-> k, val |-> v]
Torn == Line("torn", 0)

Init ==
  /\ link = "none" /\ rx = <<>> /\ cut = FALSE
  /\ px1 = 0 /\ pauth = FALSE /\ announced = FALSE
  /\ crossed = FALSE /\ lost = FALSE
  /\ given = 0 /\ pjob = [id |-> 1, prev |-> 1] /\ budget = 0
  /\ shares = 0
  /\ have_stratum \in BOOLEAN
  /\ spc = "pop" /\ retry = FALSE /\ failures = 0
  /\ x1 = 0 /\ session_id = 0 /\ next_diff = 0
  /\ job = [job |-> NoJob, x2 |-> 0, ses |-> 0, diff |-> 0, again |-> FALSE,
            wrapped |-> FALSE]
  /\ gwork = NoUnit /\ gdiff = 0 /\ gasked = 0 /\ gtime = "zero" /\ glock = "free"
  /\ pc = [m \in Miners |-> "top"]
  /\ work = [m \in Miners |-> NoUnit]
  /\ usedup = [m \in Miners |-> FALSE]
  /\ workq = <<>> /\ dead = FALSE /\ wfailures = 0

(* workio has ended; main was waiting for it and returns. *)
Ended == dead
Spend == budget < Budget /\ budget' = budget + 1

-----------------------------------------------------------------------------
(* The pool, and the lines sent to it.                                     *)

(* The connection is closed on the miner's side. *)
Hangup ==
  /\ link' = "none" /\ rx' = <<>> /\ cut' = FALSE
  /\ px1' = 0 /\ pauth' = FALSE /\ announced' = FALSE
  /\ crossed' = FALSE /\ lost' = FALSE
  /\ UNCHANGED <<given, pjob>>

Handshake == {"subscribe", "subscribed", "authorize", "authorized"}

(* mining.subscribe with session id s: the session is resumed, a new one   *)
(* is made (with or without an id), or the request is refused.             *)
PoolSubscribe(s) ==
  LET Answer(x, sid) ==
        /\ px1' = x
        /\ rx' = Append(rx, Line("subscribed", [x1 |-> x, sid |-> sid]))
  IN
  /\ \/ /\ s # 0
        /\ Answer(s, s)
        /\ UNCHANGED <<given, budget>>
     \/ /\ given' = IF given < MaxX1 THEN given + 1 ELSE MaxX1
        /\ \/ Answer(given', given')
           \/ given' < MaxX1 /\ Answer(given', 0)
        /\ UNCHANGED budget
     \/ /\ Spend
        /\ rx' = Append(rx, Line("error", 0))
        /\ UNCHANGED <<px1, given>>
  /\ announced' = FALSE
  /\ UNCHANGED <<pauth, pjob, crossed, lost>>

PoolAuthorize ==
  /\ \/ /\ px1 # 0
        /\ pauth' = TRUE /\ rx' = Append(rx, Line("true", "auth"))
        /\ UNCHANGED budget
     \/ /\ Spend
        /\ rx' = Append(rx, Line("false", "auth")) /\ UNCHANGED pauth
  /\ UNCHANGED <<px1, given, pjob, announced, crossed, lost>>

(* A share counts if it belongs to the connection's session. *)
PoolShare(w) ==
  /\ \E ok \in {FALSE, pauth /\ w.ses = px1} :
       rx' = Append(rx, IF ok THEN Line("true", "share") ELSE Line("error", 0))
  /\ crossed' = (crossed \/ spc \in Handshake)
  /\ UNCHANGED <<px1, pauth, announced, lost, given, pjob, budget>>

(* The pool sees nothing of the line. *)
PoolIdle == UNCHANGED <<rx, px1, pauth, announced, crossed, lost, given,
                        pjob, budget>>

(* send_line: the line is sent and the pool acts on it.  A line that       *)
(* follows one that broke off cannot be read, and no line reaches a pool   *)
(* that has hung up, but send_line cannot tell.                            *)
send_line(effect) ==
  /\ \/ link = "up" /\ ~ cut /\ effect
     \/ link = "gone" /\ PoolIdle
     \/ link = "up" /\ cut /\ PoolIdle
  /\ cut' = FALSE
  /\ UNCHANGED link

(* send_line fails: no connection, or the socket takes no more, possibly   *)
(* in mid-line.                                                            *)
send_line_fails ==
  /\ \/ link # "up" /\ UNCHANGED <<cut, budget>>
     \/ link = "up" /\ Spend /\ cut' \in {cut, TRUE}
  /\ UNCHANGED <<link, rx, px1, pauth, announced, crossed, lost, given,
                 pjob>>

(* The pool moves on to another job, on the same block or a new one. *)
PoolJob ==
  /\ pjob.id < MaxJob
  /\ \E p \in {pjob.prev, pjob.id + 1} : pjob' = [id |-> pjob.id + 1, prev |-> p]
  /\ announced' = FALSE
  /\ UNCHANGED <<link, rx, cut, px1, pauth, crossed, lost, given, budget>>

(* The job is sent to a subscribed connection. *)
PoolAnnounce ==
  /\ link = "up" /\ px1 # 0 /\ ~ announced
  /\ Len(rx) < MaxRx
  /\ rx' = Append(rx, Line("notify", pjob))
  /\ announced' = TRUE
  /\ UNCHANGED <<link, cut, px1, pauth, crossed, lost, given, pjob, budget>>

(* Another difficulty, a request that wants an answer, or a redirection. *)
PoolExtra ==
  /\ link = "up" /\ px1 # 0
  /\ Len(rx) < MaxRx
  /\ Spend
  /\ \/ rx' = Append(rx, Line("diff", 2))
     \/ rx' = Append(rx, Line("request", 0))
     \/ rx' = Append(rx, Line("reconnect", 0))
  /\ UNCHANGED <<link, cut, px1, pauth, announced, crossed, lost, given, pjob>>

(* The connection is lost; of the lines under way some arrive. *)
Drop ==
  /\ link = "up"
  /\ Spend
  /\ link' = "gone"
  /\ \E n \in 0 .. Len(rx) : rx' = SubSeq(rx, 1, n)
  /\ UNCHANGED <<cut, px1, pauth, announced, crossed, lost, given, pjob>>

(* A line trickles in: stratum_recv_line returns it in two pieces. *)
Trickle ==
  /\ rx # <<>> /\ Head(rx) # Torn
  /\ Spend
  /\ rx' = <<Torn, Torn>> \o Tail(rx)
  /\ lost' = (lost \/ Head(rx).kind = "notify")
  /\ UNCHANGED <<link, cut, px1, pauth, announced, crossed, given, pjob>>

(* The pool and the network act while the thread waits for a line: what    *)
(* they do earlier nobody sees earlier.                                    *)
Reading == spc \in {"subscribed", "authorized", "recv"}

Pool ==
  /\ Reading
  /\ PoolJob \/ PoolAnnounce \/ PoolExtra \/ Drop \/ Trickle
  /\ UNCHANGED <<threadVars, sctxVars, have_stratum, gVars, minerVars, workioVars,
                 shares>>

-----------------------------------------------------------------------------
(* The stratum context: what the lines of the pool do to it.               *)

(* sctx->work_lock is not held by a miner. *)
WorkLockFree == \A m \in Miners : pc[m] # "fill"

(* Increment extranonce2: the count of units drawn from the job wraps. *)
NextX2(j) ==
  IF j.x2 < MaxX2 THEN [j EXCEPT !.x2 = @ + 1]
                  ELSE [j EXCEPT !.x2 = 0, !.wrapped = TRUE]

(* Mutant: extranonce2 starts over with every notify. *)
stratum_notify_resets(j) ==
  /\ WorkLockFree
  /\ job' = [job |-> j, ses |-> x1, diff |-> next_diff, x2 |-> 0,
             again |-> job.job.id = j.id, wrapped |-> FALSE]
  /\ UNCHANGED <<x1, session_id, next_diff>>

(* The coinbase is rebuilt with the extranonce1 of the session; when the   *)
(* job is announced again extranonce2 keeps counting.                      *)
stratum_notify(j) ==
  LET again == job.job.id = j.id IN
  /\ WorkLockFree
  /\ job' = [job |-> j, ses |-> x1, diff |-> next_diff, again |-> again,
             x2 |-> IF again THEN job.x2 ELSE 0,
             wrapped |-> again /\ job.wrapped]
  /\ UNCHANGED <<x1, session_id, next_diff>>

(* Mutant: the difficulty of the current job changes at once. *)
stratum_set_difficulty_at_once(d) ==
  /\ WorkLockFree
  /\ next_diff' = d /\ job' = [job EXCEPT !.diff = d]
  /\ UNCHANGED <<x1, session_id>>

(* A new difficulty counts from the next job on. *)
stratum_set_difficulty(d) ==
  /\ WorkLockFree
  /\ next_diff' = d
  /\ UNCHANGED <<x1, session_id, job>>

(* The next line leaves the buffer and does nothing to the connection. *)
TakeLine ==
  /\ rx' = Tail(rx)
  /\ UNCHANGED <<link, px1, pauth, announced, crossed, lost, given, pjob>>

(* stratum_handle_method returns true: the line is a method and was        *)
(* handled.  A request is answered; client.reconnect closes the            *)
(* connection.                                                             *)
stratum_handle_method(l) ==
  \/ /\ l.kind = "notify"
     /\ stratum_notify(l.val)
     /\ TakeLine /\ UNCHANGED <<cut, budget>>
  \/ /\ l.kind = "diff"
     /\ stratum_set_difficulty(l.val)
     /\ TakeLine /\ UNCHANGED <<cut, budget>>
  \/ /\ l.kind = "reconnect"
     /\ Hangup
     /\ UNCHANGED <<sctxVars, budget>>
  \/ /\ l.kind = "request"
     /\ TakeLine /\ cut' = FALSE
     /\ UNCHANGED <<sctxVars, budget>>

(* It returns false: the line is no method, or its answer cannot be sent. *)
not_a_method(l) ==
  /\ \/ /\ l.kind \in {"subscribed", "true", "false", "error", "torn"}
        /\ UNCHANGED <<cut, budget>>
     \/ /\ l.kind = "request"
        /\ Spend
        /\ cut' \in {cut, TRUE}
  /\ TakeLine
  /\ UNCHANGED sctxVars

-----------------------------------------------------------------------------
(* stratum_thread                                                          *)

outside == <<shares, have_stratum, pc, work, dead, wfailures>>

StratumPop ==
  /\ spc = "pop" /\ have_stratum
  /\ spc' = "reset"
  /\ UNCHANGED <<poolVars, retry, failures, sctxVars, gVars, outside, usedup, workq>>

(* No connection: the work is declared missing. *)
StratumReset ==
  /\ spc = "reset"
  /\ glock = "free"
  /\ gtime' = "zero"
  /\ spc' = "connect" /\ retry' = FALSE
  /\ UNCHANGED <<poolVars, failures, sctxVars, gwork, gdiff, gasked, glock, outside,
                 usedup, workq>>

stratum_connect ==
  /\ spc = "connect"
  /\ link' = "up" /\ rx' = <<>> /\ cut' = FALSE
  /\ spc' = "subscribe"
  /\ UNCHANGED <<px1, pauth, announced, crossed, lost, given, pjob, budget,
                 retry, failures, sctxVars, gVars, outside, usedup, workq>>

(* Connecting or the handshake failed: the connection is closed, and the   *)
(* thread tries again or gives up and tells workio to end.                 *)
stratum_disconnect ==
  /\ Hangup
  /\ IF failures + 1 > OptRetries
     THEN /\ workq' = Append(workq, [NoCmd EXCEPT !.cmd = "quit"])
          /\ spc' = "out" /\ UNCHANGED failures
     ELSE /\ spc' = "reset"
          /\ failures' = failures + 1 /\ UNCHANGED workq
  /\ UNCHANGED <<retry, sctxVars, gVars, outside, usedup>>

stratum_connect_fails ==
  /\ spc = "connect"
  /\ Spend
  /\ stratum_disconnect

(* stratum_subscribe: the retry does not mention a session. *)
stratum_subscribe ==
  /\ spc = "subscribe"
  /\ send_line(PoolSubscribe(IF retry THEN 0 ELSE session_id))
  /\ spc' = "subscribed"
  /\ UNCHANGED <<retry, failures, sctxVars, gVars, outside, usedup, workq>>

(* The next line is taken as the answer. *)
stratum_subscribed ==
  /\ spc = "subscribed"
  /\ rx # <<>> /\ Head(rx).kind = "subscribed"
  /\ WorkLockFree
  /\ x1' = Head(rx).val.x1 /\ session_id' = Head(rx).val.sid
  /\ next_diff' = 1
  /\ TakeLine
  /\ spc' = "authorize" /\ retry' = FALSE
  /\ UNCHANGED <<cut, budget, failures, job, gVars, outside, usedup, workq>>

(* It is not one: subscribe once more. *)
stratum_subscribe_again ==
  /\ spc = "subscribed" /\ ~ retry
  /\ rx # <<>> /\ Head(rx).kind # "subscribed"
  /\ TakeLine
  /\ spc' = "subscribe" /\ retry' = TRUE
  /\ UNCHANGED <<cut, budget, failures, sctxVars, gVars, outside, usedup, workq>>

(* Mutant: the answer is not waited for. *)
stratum_authorize_and_go_on ==
  /\ spc = "authorize"
  /\ send_line(PoolAuthorize)
  /\ spc' = "work" /\ failures' = 0
  /\ UNCHANGED <<retry, sctxVars, gVars, outside, usedup, workq>>

stratum_authorize ==
  /\ spc = "authorize"
  /\ send_line(PoolAuthorize)
  /\ spc' = "authorized"
  /\ UNCHANGED <<retry, failures, sctxVars, gVars, outside, usedup, workq>>

(* Methods are handled until the answer comes, *)
stratum_authorize_method ==
  /\ spc = "authorized"
  /\ rx # <<>> /\ stratum_handle_method(Head(rx))
  /\ UNCHANGED <<threadVars, gVars, outside, usedup, workq>>

(* which is the first line that is not one.                                *)
(* Mutant: it may say anything. *)
Granted_whatever(l) == l.kind \in {"subscribed", "true", "false"}

(* Any result but false will do, an array too. *)
Granted(l) == l.kind \in {"subscribed", "true"}

stratum_authorized ==
  /\ spc = "authorized"
  /\ rx # <<>> /\ Granted(Head(rx))
  /\ not_a_method(Head(rx))
  /\ spc' = "work" /\ failures' = 0
  /\ UNCHANGED <<retry, gVars, outside, usedup, workq>>

(* The handshake fails: a line cannot be sent, no line comes, or it says   *)
(* no.                                                                     *)
handshake_fails ==
  /\ \/ /\ spc \in {"subscribe", "authorize"}
        /\ \/ link = "gone" /\ UNCHANGED budget
           \/ link = "up" /\ Spend
     \/ /\ spc \in {"subscribed", "authorized"} /\ rx = <<>>
        /\ UNCHANGED budget
     \/ /\ spc = "subscribed" /\ retry
        /\ rx # <<>> /\ Head(rx).kind # "subscribed"
        /\ UNCHANGED budget
     \/ /\ spc = "authorized"
        /\ rx # <<>>
        /\ \/ Head(rx).kind \in {"false", "error", "torn"} /\ UNCHANGED budget
           \/ Head(rx).kind = "request" /\ Spend
  /\ stratum_disconnect

(* Mutant: a change of job is noticed only after a reconnection. *)
needs_work_once == job.job.id # 0 /\ gtime = "zero"

(* Is there a job that g_work is not made from?  Asked without the lock:   *)
(* while a miner rebuilds g_work its job_id is a freed pointer, and the    *)
(* answer may be either.                                                   *)
needs_work ==
  /\ job.job.id # 0
  /\ gtime = "zero" \/ job.job.id # gwork.id

StratumCheck ==
  /\ spc = "work"
  /\ \/ needs_work /\ spc' = "generate"
     \/ (~ needs_work \/ gwork.id = -1) /\ spc' = "recv"
  /\ UNCHANGED <<poolVars, retry, failures, sctxVars, gVars, outside, usedup, workq>>

(* stratum_gen_work: a unit of the job; the job is left with the next      *)
(* extranonce2.                                                            *)
gen_unit == Unit(job.job, job.x2, job.ses)

StratumGenerate ==
  /\ spc = "generate"
  /\ glock = "free"
  /\ gwork' = gen_unit /\ gdiff' = job.diff /\ gasked' = job.diff
  /\ job' = NextX2(job)
  /\ gtime' = "fresh" /\ usedup' = [m \in Miners |-> FALSE]
  /\ spc' = "recv"
  /\ UNCHANGED <<poolVars, retry, failures, x1, session_id, next_diff, glock,
                 outside, workq>>

(* The main loop: a method, *)
StratumMethod ==
  /\ spc = "recv"
  /\ rx # <<>> /\ stratum_handle_method(Head(rx))
  /\ spc' = IF link' = "none" THEN "reset" ELSE "work"
  /\ UNCHANGED <<retry, failures, gVars, outside, usedup, workq>>

(* the answer to a share (or any other answer), or something else,         *)
stratum_handle_response ==
  /\ spc = "recv"
  /\ rx # <<>> /\ not_a_method(Head(rx))
  /\ spc' = "work"
  /\ UNCHANGED <<retry, failures, gVars, outside, usedup, workq>>

(* Mutant: a silent pool is waited for for ever. *)
StratumInterrupted_by_end ==
  /\ spc = "recv"
  /\ rx = <<>>
  /\ link = "gone"
  /\ Hangup
  /\ spc' = "reset"
  /\ UNCHANGED <<budget, retry, failures, sctxVars, gVars, outside, usedup, workq>>

(* or nothing for two minutes, or the end of the connection.               *)
StratumInterrupted ==
  /\ spc = "recv"
  /\ rx = <<>>
  /\ link = "gone" \/ (announced /\ gtime # "fresh")
  /\ Hangup
  /\ spc' = "reset"
  /\ UNCHANGED <<budget, retry, failures, sctxVars, gVars, outside, usedup, workq>>

StratumThread ==
  \/ StratumPop \/ StratumReset \/ stratum_connect \/ stratum_connect_fails
  \/ stratum_subscribe \/ stratum_subscribed \/ stratum_subscribe_again
  \/ stratum_authorize \/ stratum_authorize_method \/ stratum_authorized
  \/ handshake_fails
  \/ StratumCheck \/ StratumGenerate
  \/ StratumMethod \/ stratum_handle_response \/ StratumInterrupted

-----------------------------------------------------------------------------
(* miner_thread                                                            *)

inside == <<poolVars, threadVars, x1, session_id, next_diff, have_stratum, dead,
            wfailures>>

(* Before stratum is known of, work is asked for over HTTP. *)
get_work(m) ==
  /\ pc[m] = "top" /\ ~ have_stratum
  /\ glock = "free" /\ glock' = m
  /\ workq' = Append(workq, [NoCmd EXCEPT !.cmd = "get"])
  /\ pc' = [pc EXCEPT ![m] = "await"]
  /\ UNCHANGED <<inside, shares, job, gwork, gdiff, gasked, gtime, work, usedup>>

(* The answer came with a stratum URL: there is no work in it. *)
got_work(m) ==
  /\ pc[m] = "answered"
  /\ gwork' = NoUnit /\ gdiff' = 0 /\ gasked' = 0
  /\ gtime' = "zero" /\ glock' = "free"
  /\ pc' = [pc EXCEPT ![m] = "top"]
  /\ UNCHANGED <<inside, shares, job, work, usedup, workq>>

(* The miner is through with g_work's nonces and draws the next unit of    *)
(* the job; g_work is invalid meanwhile, and work_lock keeps job as it is. *)
GenStart(m) ==
  /\ pc[m] = "top" /\ have_stratum /\ gtime = "fresh"
  /\ glock = "free"
  /\ usedup[m]
  /\ glock' = m
  /\ gwork' = [gwork EXCEPT !.id = -1, !.prev = 0]
  /\ usedup' = [n \in Miners |-> FALSE]
  /\ pc' = [pc EXCEPT ![m] = "fill"]
  /\ UNCHANGED <<inside, shares, job, gdiff, gasked, gtime, work, workq>>

GenFill(m) ==
  /\ pc[m] = "fill"
  /\ gwork' = gen_unit /\ gasked' = job.diff /\ job' = NextX2(job)
  /\ pc' = [pc EXCEPT ![m] = "target"]
  /\ UNCHANGED <<inside, shares, gdiff, gtime, glock, work, usedup, workq>>

(* g_work is taken over, from its first nonce unless the miner has it. *)
take_over(m) ==
  /\ pc' = [pc EXCEPT ![m] = "scan"]
  /\ work' = [work EXCEPT ![m] = gwork]

(* The target is computed from job.diff after work_lock was released. *)
GenTarget(m) ==
  /\ pc[m] = "target"
  /\ gdiff' = job.diff /\ glock' = "free"
  /\ take_over(m)
  /\ UNCHANGED <<inside, shares, job, gwork, gasked, gtime, usedup, workq>>

TakeWork(m) ==
  /\ pc[m] = "top" /\ have_stratum /\ gtime = "fresh"
  /\ glock = "free"
  /\ ~ usedup[m]
  /\ take_over(m)
  /\ UNCHANGED <<inside, shares, job, gVars, usedup, workq>>

(* The scan ends: interrupted, or out of nonces.  Of the old copy only     *)
(* this is looked at again: is it g_work, and used up?                     *)
ScanEnds(m) ==
  /\ pc[m] = "scan"
  /\ \E u \in {FALSE, work[m] = gwork} : usedup' = [usedup EXCEPT ![m] = u]
  /\ work' = [work EXCEPT ![m] = NoUnit]
  /\ pc' = [pc EXCEPT ![m] = "top"]
  /\ UNCHANGED <<inside, shares, job, gVars, workq>>

(* or with a share, which goes to workio.                                  *)
submit_work(m) ==
  /\ pc[m] = "scan"
  /\ shares < MaxShares /\ shares' = shares + 1
  /\ workq' = Append(workq, [cmd |-> "submit", prev |-> work[m].prev,
                             ses |-> work[m].ses])
  /\ work' = [work EXCEPT ![m] = NoUnit]
  /\ pc' = [pc EXCEPT ![m] = "top"]
  /\ UNCHANGED <<inside, job, gVars, usedup>>

(* Two minutes pass: every miner that could use g_work has looked. *)
Tick ==
  /\ gtime = "fresh"
  /\ \A m \in Miners : pc[m] # "top"
  /\ gtime' = "old"
  /\ UNCHANGED <<inside, shares, job, gwork, gdiff, gasked, glock, minerVars, workq>>

Miner(m) ==
  \/ get_work(m) \/ got_work(m) \/ GenStart(m) \/ GenFill(m)
  \/ GenTarget(m) \/ TakeWork(m) \/ ScanEnds(m) \/ submit_work(m)

-----------------------------------------------------------------------------
(* workio_thread                                                           *)

beside == <<shares, threadVars, sctxVars, gVars, work, usedup>>

(* The command at the head of the queue is the one being processed. *)
Command == workq[1]
Done    == workq' = Tail(workq) /\ wfailures' = 0

(* The stratum thread gave up. *)
workio_quit ==
  /\ workq # <<>> /\ Command.cmd = "quit"
  /\ dead' = TRUE
  /\ Done
  /\ UNCHANGED <<poolVars, beside, have_stratum, pc>>

(* json_rpc_call finds an X-Stratum header: the stratum thread gets its    *)
(* URL, and get_upstream_work returns at once.                             *)
stratum_header ==
  /\ workq # <<>> /\ Command.cmd = "get"
  /\ have_stratum' = TRUE
  /\ pc' = [m \in Miners |-> IF pc[m] = "await" THEN "answered" ELSE pc[m]]
  /\ Done
  /\ UNCHANGED <<poolVars, beside, dead>>

(* g_work is read without the lock. *)
Stale == Command.prev # gwork.prev

(* The share is passed over, or sent. *)
submit_upstream_work ==
  /\ workq # <<>> /\ Command.cmd = "submit"
  /\ \/ Stale /\ UNCHANGED poolVars
     \/ ~ Stale /\ send_line(PoolShare(Command))
  /\ Done
  /\ UNCHANGED <<beside, have_stratum, pc, dead>>

(* It cannot be sent: it is sent again, or workio ends. *)
submit_fails ==
  /\ workq # <<>> /\ Command.cmd = "submit"
  /\ ~ Stale
  /\ send_line_fails
  /\ wfailures' = wfailures + 1
  /\ dead' = (wfailures + 1 > OptRetries)
  /\ UNCHANGED <<beside, have_stratum, pc, workq>>

Workio == workio_quit \/ stratum_header \/ submit_upstream_work \/ submit_fails

Next ==
  /\ ~ Ended
  /\ Pool \/ StratumThread \/ Workio \/ Tick \/ \E m \in Miners : Miner(m)

Spec == Init /\ [][Next]_vars

(* Threads are scheduled, two minutes pass whenever they may again and     *)
(* again, and the pool announces its job.                                  *)
Fairness ==
  /\ WF_vars(~ Ended /\ StratumThread) /\ WF_vars(~ Ended /\ Workio)
  /\ SF_vars(~ Ended /\ Tick) /\ WF_vars(~ Ended /\ Pool /\ PoolAnnounce)
  /\ \A m \in Miners : WF_vars(~ Ended /\ Miner(m))

FairSpec == Spec /\ Fairness

-----------------------------------------------------------------------------
(* Properties                                                              *)

UnitsInUse == {gwork} \cup {work[m] : m \in Miners}

(* Two units of work never have the same coinbase: the extranonce2 that    *)
(* stratum_gen_work takes next is beyond that of every unit in use of the  *)
(* same job and extranonce1, across reconnections and repeated notifies,   *)
(* until it wraps.                                                         *)
UnitsDistinct ==
  \A w \in UnitsInUse :
    w.id = job.job.id /\ w.ses = job.ses /\ w.id # 0 /\ ~ job.wrapped
      => w.x2 < job.x2

(* The stratum thread is about to renew g_work, before it reads a line. *)
RenewalDue == spc \in {"work", "generate"} /\ gwork.id # job.job.id

(* A unit that miners can take has the target its job asked for, although  *)
(* set_difficulty may come at any time and the target is computed after    *)
(* work_lock was released.  A notify that comes in between does give the   *)
(* old job's unit the target of the new one: but another job's only until  *)
(* the stratum thread renews g_work, which is what it does next; the same  *)
(* job's (announced again, with another difficulty) until a unit is drawn. *)
TargetOfJob ==
  glock = "free" /\ gtime # "zero"
    => \/ gdiff = gasked
       \/ RenewalDue
       \/ job.again /\ gwork.id = job.job.id

(* stratum_thread reaches its main loop only on a connection the pool has  *)
(* authorised, with the extranonce1 of that connection, although it takes  *)
(* the next line for the answer to what it sent; unless a share of the old *)
(* connection was sent before the handshake was over.                      *)
HandshakePaired ==
  spc \in {"work", "generate", "recv"} /\ link = "up" /\ ~ crossed
    => pauth /\ x1 = px1

(* When every line of the pool has been handled, the job is the pool's     *)
(* with the session's extranonce1, and g_work is made (or being made) from *)
(* it; unless a notify was torn.  A job announced again may leave g_work   *)
(* with the extranonce1 of the old session: its id has not changed.        *)
AgreesWhenQuiet ==
  spc = "recv" /\ link = "up" /\ rx = <<>> /\ announced /\ ~ crossed /\ ~ lost
    => /\ job.job = pjob /\ job.ses = px1
       /\ gwork.id \in {-1, pjob.id}
       /\ job.again \/ gwork.id = -1 \/ gwork.ses = px1

(* What stratum_handle_response counts as an accepted share is the answer  *)
(* to a share, though it does not look at the id; with the exception of    *)
(* HandshakePaired.                                                        *)
CountsShares ==
  spc = "recv" /\ rx # <<>> /\ Head(rx).kind = "true" /\ ~ crossed
    => Head(rx).val = "share"

(* Again and again every miner scans a unit of the pool's job with the     *)
(* extranonce1 of the connection, or the process has ended: whatever was   *)
(* lost or crossed is made up for, by the next job or by the reconnection  *)
(* after two silent minutes.                                               *)
KeepsUp ==
  \A m \in Miners :
    []<>(Ended \/ (pc[m] = "scan" /\ work[m].id = pjob.id /\ work[m].ses = px1))
=============================================================================
