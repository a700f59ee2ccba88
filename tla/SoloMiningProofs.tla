-------------------------- MODULE SoloMiningProofs -------------------------
(* Theorems about work distribution over HTTP, for any number of miners,   *)
(* templates, blocks, retries and any configuration.                       *)
EXTENDS SoloMining, SequenceTheorems, TLAPS

(* A solution queued or sent builds on a block below the bound. *)
Bounded ==
  /\ \A i \in 1 .. Len(workq) :
       workq[i].cmd = "submit" => workq[i].work.prev < MaxTip
  /\ wpc \in {"submit", "sent", "answered"} => wcur.work.prev < MaxTip

(* workio's place in its loop agrees with the command it holds, and every  *)
(* command comes from a miner.                                             *)
CmdInv ==
  /\ \A i \in 1 .. Len(workq) :
       workq[i].cmd \in {"get", "submit"} /\ workq[i].thr \in Miners
  /\ wpc = "pop" => wcur = NoCmd
  /\ wpc \in {"get", "decode"} => wcur.cmd = "get" /\ wcur.thr \in Miners
  /\ wpc \in {"submit", "sent", "answered"} => wcur.cmd = "submit"

TypeInv == TypeOK /\ Bounded /\ CmdInv

-----------------------------------------------------------------------------
LEMMA Constants ==
  /\ Zero \in Works /\ NoCmd \in Cmds
  /\ 0 \in 0 .. MaxTip /\ -1 \in Blocks
  /\ 0 .. MaxTip \subseteq Blocks
<1>1. NoVar \in Vars
  BY SoloAssumption DEF NoVar
<1> QED
  BY <1>1, SoloAssumption DEF Zero, NoCmd, Works, Cmds, Blocks

LEMMA TypeInit == Init => TypeInv
<1> SUFFICES ASSUME Init PROVE TypeInv
  OBVIOUS
<1>1. <<>> \in Seq(Works) /\ <<>> \in Seq(Cmds) /\ Len(<<>>) = 0
  BY EmptySeq
<1>2. TypeOK
  <2>1. TypeShared
    <3>1. gwork \in Works /\ lp_id \in Blocks /\ tip \in 0 .. MaxTip
      BY Constants DEF Init
    <3>2. age \in 0 .. LP_SCANTIME
      BY DEF Init, LP_SCANTIME
    <3> QED
      BY <3>1, <3>2 DEF Init, TypeShared
  <2>2. TypeMiners
    BY Constants DEF Init, TypeMiners
  <2>3. TypeWorkio
    BY <1>1, Constants DEF Init, TypeWorkio
  <2>4. TypeLongpoll
    BY Constants DEF Init, TypeLongpoll
  <2> QED
    BY <2>1, <2>2, <2>3, <2>4 DEF TypeOK
<1>3. Bounded /\ CmdInv
  BY <1>1 DEF Init, Bounded, CmdInv
<1> QED
  BY <1>2, <1>3 DEF TypeInv

(* What popping and pushing do to workio's queue. *)
LEMMA PushFacts ==
  ASSUME NEW c \in Cmds, workq \in Seq(Cmds), workq' = Append(workq, c)
  PROVE  /\ workq' \in Seq(Cmds)
         /\ Len(workq') = Len(workq) + 1 /\ Len(workq) \in Nat
         /\ workq'[Len(workq) + 1] = c
         /\ \A i \in 1 .. Len(workq) : workq'[i] = workq[i]
         /\ 1 .. Len(workq') = (1 .. Len(workq)) \cup {Len(workq) + 1}
BY AppendProperties, LenProperties

LEMMA PopFacts ==
  ASSUME workq \in Seq(Cmds), workq # <<>>, workq' = Tail(workq)
  PROVE  /\ workq' \in Seq(Cmds)
         /\ Head(workq) \in Cmds /\ Head(workq) = workq[1]
         /\ Len(workq') = Len(workq) - 1
         /\ Len(workq) \in Nat /\ 1 \in 1 .. Len(workq)
         /\ \A i \in 1 .. Len(workq') :
              i + 1 \in 1 .. Len(workq) /\ workq'[i] = workq[i + 1]
<1>1. Len(workq) \in Nat \ {0}
  BY EmptySeq
<1>2. Head(workq) = workq[1]
  BY <1>1
<1> QED
  BY <1>1, <1>2, HeadTailProperties

-----------------------------------------------------------------------------
LEMMA MinerType ==
  ASSUME TypeInv, NEW m \in Miners, Miner(m)
  PROVE  TypeInv'
<1> USE DEF TypeInv, TypeOK, gVars, modeVars, minerVars, wVars, lpVars
<1>1. CASE MinerTop(m)
  <2>1. TypeShared' /\ TypeWorkio' /\ TypeLongpoll' /\ Bounded' /\ CmdInv'
    BY <1>1 DEF MinerTop, TypeShared, TypeWorkio, TypeLongpoll, Bounded, CmdInv
  <2>2. TypeMiners'
    BY <1>1 DEF MinerTop, SCANTIME, LP_SCANTIME, TypeMiners
  <2> QED
    BY <2>1, <2>2
<1>2. CASE get_work(m)
  <2>1. [NoCmd EXCEPT !.cmd = "get", !.thr = m] \in Cmds
    BY Constants DEF Cmds
  <2>2. TypeLongpoll'
    BY <1>2 DEF get_work, TypeLongpoll
  <2>3. TypeShared'
    BY <1>2, <2>1 DEF get_work, keep_lock, Works, TypeShared
  <2>4. TypeMiners'
    BY <1>2, <2>1 DEF get_work, TypeMiners
  <2>5. TypeWorkio'
    BY <1>2, <2>1, PushFacts DEF get_work, TypeWorkio
  <2>6. Bounded'
    BY <1>2, <2>1, PushFacts, Constants DEF get_work, TypeWorkio, NoCmd,
       Bounded
  <2>7. CmdInv'
    BY <1>2, <2>1, PushFacts, Constants DEF get_work, TypeWorkio, NoCmd, CmdInv
  <2> QED
    BY <2>2, <2>3, <2>4, <2>5, <2>6, <2>7
<1>3. CASE get_work_fails(m)
  <2>1. TypeWorkio' /\ TypeLongpoll' /\ Bounded' /\ CmdInv'
    BY <1>3 DEF get_work_fails, TypeWorkio, TypeLongpoll, Bounded, CmdInv
  <2>2. TypeShared'
    BY <1>3 DEF get_work_fails, Works, TypeShared
  <2>3. TypeMiners'
    BY <1>3 DEF get_work_fails, TypeMiners
  <2> QED
    BY <2>1, <2>2, <2>3
<1>4. CASE got_work(m)
  <2>1. age' \in 0 .. LP_SCANTIME
    BY <1>4 DEF got_work, LP_SCANTIME
  <2>2. Head(reply[m]) \in Works /\ Tail(reply[m]) \in Seq(Works)
    BY <1>4, HeadTailProperties DEF got_work, TypeWorkio
  <2>3. TypeLongpoll' /\ Bounded' /\ CmdInv'
    BY <1>4 DEF got_work, TypeLongpoll, Bounded, CmdInv
  <2>4. TypeShared'
    BY <1>4, <2>1, <2>2 DEF got_work, TypeShared
  <2>5. TypeMiners'
    BY <1>4, <2>1, <2>2 DEF got_work, take_over, SCANTIME, LP_SCANTIME,
       TypeMiners
  <2>6. TypeWorkio'
    BY <1>4, <2>1, <2>2 DEF got_work, TypeWorkio
  <2> QED
    BY <2>3, <2>4, <2>5, <2>6
<1>5. CASE reuse_work(m)
  <2>1. TypeShared' /\ TypeWorkio' /\ TypeLongpoll' /\ Bounded' /\ CmdInv'
    BY <1>5 DEF reuse_work, TypeShared, TypeWorkio, TypeLongpoll, Bounded,
       CmdInv
  <2>2. TypeMiners'
    BY <1>5 DEF reuse_work, take_over, TypeShared, SCANTIME, LP_SCANTIME,
       TypeMiners
  <2> QED
    BY <2>1, <2>2
<1>6. CASE MinerClear(m)
  <2>1. TypeShared' /\ TypeWorkio' /\ TypeLongpoll' /\ Bounded' /\ CmdInv'
    BY <1>6 DEF MinerClear, TypeShared, TypeWorkio, TypeLongpoll, Bounded,
       CmdInv
  <2>2. TypeMiners'
    BY <1>6 DEF MinerClear, TypeMiners
  <2> QED
    BY <2>1, <2>2
<1>7. CASE ScanEnds(m)
  <2>1. TypeShared' /\ TypeWorkio' /\ TypeLongpoll' /\ Bounded' /\ CmdInv'
    BY <1>7 DEF ScanEnds, TypeShared, TypeWorkio, TypeLongpoll, Bounded, CmdInv
  <2>2. TypeMiners'
    BY <1>7 DEF ScanEnds, TypeMiners
  <2> QED
    BY <2>1, <2>2
<1>8. CASE submit_work(m)
  <2> DEFINE c == [NoCmd EXCEPT !.cmd = "submit", !.thr = m, !.work = work[m]]
  <2>1. c \in Cmds /\ c.cmd = "submit" /\ c.thr = m /\ c.work = work[m]
    BY Constants DEF NoCmd, Cmds, TypeMiners
  <2>2. TypeShared' /\ TypeLongpoll'
    BY <1>8 DEF submit_work, TypeShared, TypeLongpoll
  <2>3. TypeMiners'
    BY <1>8 DEF submit_work, TypeMiners
  <2>4. CASE wpc = "dead"
    <3>1. UNCHANGED <<workq, wpc, wcur, reply, wtpl, failures>>
      BY <1>8, <2>4 DEF submit_work
    <3> QED
      BY <2>2, <2>3, <3>1 DEF TypeWorkio, Bounded, CmdInv
  <2>5. CASE wpc # "dead"
    <3>1. /\ UNCHANGED <<wpc, wcur, reply, wtpl, failures>>
          /\ workq' = Append(workq, c) /\ work[m].prev < MaxTip
      BY <1>8, <2>5 DEF submit_work
    <3> HIDE DEF c
    <3>2. TypeWorkio'
      BY <2>1, <3>1, PushFacts DEF TypeWorkio
    <3>3. Bounded' /\ CmdInv'
      BY <2>1, <3>1, PushFacts DEF TypeWorkio, Bounded, CmdInv
    <3> QED
      BY <2>2, <2>3, <3>2, <3>3
  <2> QED
    BY <2>4, <2>5
<1> QED
  BY <1>1, <1>2, <1>3, <1>4, <1>5, <1>6, <1>7, <1>8 DEF Miner

LEMMA WorkioType ==
  ASSUME TypeInv, Workio
  PROVE  TypeInv'
<1> USE DEF TypeInv, TypeOK, gVars, modeVars, minerVars, wVars, lpVars
<1>1. CASE workio_pop
  <2>1. TypeShared' /\ TypeMiners' /\ TypeLongpoll'
    BY <1>1 DEF workio_pop, TypeShared, TypeMiners, TypeLongpoll
  <2>2. TypeWorkio'
    BY <1>1, PopFacts DEF workio_pop, CmdInv, TypeWorkio
  <2>3. Bounded'
    BY <1>1, PopFacts DEF workio_pop, TypeWorkio, CmdInv, Bounded
  <2>4. CmdInv'
    BY <1>1, PopFacts DEF workio_pop, TypeWorkio, CmdInv
  <2> QED
    BY <2>1, <2>2, <2>3, <2>4
<1>2. CASE workio_get_work
  <2>1. wcur.thr \in Miners /\ Append(reply[wcur.thr], wtpl) \in Seq(Works)
    BY <1>2, AppendProperties DEF workio_get_work, TypeWorkio, CmdInv
  <2>2. TypeMiners'
    BY <1>2 DEF workio_get_work, TypeMiners
  <2>3. TypeShared'
    BY <1>2, <2>1 DEF workio_get_work, keep_longpollid, activate_longpoll,
       longpoll_header, TypeWorkio, Works, TypeShared
  <2>4. TypeWorkio'
    BY <1>2, <2>1, Constants DEF workio_get_work, TypeWorkio
  <2>5. TypeLongpoll'
    BY <1>2, <2>1 DEF workio_get_work, activate_longpoll, longpoll_header,
       TypeLongpoll
  <2>6. Bounded'
    BY <1>2, <2>1 DEF workio_get_work, Bounded
  <2>7. CmdInv'
    BY <1>2, <2>1 DEF workio_get_work, CmdInv
  <2> QED
    BY <2>2, <2>3, <2>4, <2>5, <2>6, <2>7
<1>3. CASE get_upstream_work_fails
  <2>1. TypeMiners'
    BY <1>3 DEF get_upstream_work_fails, TypeMiners
  <2>2. TypeShared'
    BY <1>3 DEF get_upstream_work_fails, activate_longpoll, longpoll_header,
       TypeShared
  <2>3. TypeWorkio'
    BY <1>3, Constants DEF get_upstream_work_fails, retry, TypeWorkio
  <2>4. TypeLongpoll'
    BY <1>3 DEF get_upstream_work_fails, activate_longpoll, longpoll_header,
       TypeLongpoll
  <2>5. Bounded'
    BY <1>3 DEF get_upstream_work_fails, retry, Bounded
  <2>6. CmdInv'
    BY <1>3 DEF get_upstream_work_fails, retry, CmdInv
  <2> QED
    BY <2>1, <2>2, <2>3, <2>4, <2>5, <2>6
<1>4. CASE fall_back_to_getwork
  <2>1. TypeMiners' /\ TypeLongpoll'
    BY <1>4 DEF fall_back_to_getwork, TypeMiners, TypeLongpoll
  <2>2. TypeShared'
    BY <1>4 DEF fall_back_to_getwork, TypeShared
  <2>3. TypeWorkio'
    BY <1>4, Constants DEF fall_back_to_getwork, TypeWorkio
  <2>4. Bounded'
    BY <1>4 DEF fall_back_to_getwork, Bounded
  <2>5. CmdInv'
    BY <1>4 DEF fall_back_to_getwork, CmdInv
  <2> QED
    BY <2>1, <2>2, <2>3, <2>4, <2>5
<1>5. CASE discard_stale
  <2>1. TypeShared' /\ TypeLongpoll'
    BY <1>5 DEF discard_stale, TypeShared, TypeLongpoll
  <2>2. TypeMiners'
    BY <1>5 DEF discard_stale, submitted, restart_threads, TypeMiners
  <2>3. TypeWorkio'
    BY <1>5, Constants DEF discard_stale, submitted, TypeWorkio
  <2>4. Bounded'
    BY <1>5 DEF discard_stale, submitted, Bounded
  <2>5. CmdInv'
    BY <1>5 DEF discard_stale, submitted, CmdInv
  <2> QED
    BY <2>1, <2>2, <2>3, <2>4, <2>5
<1>6. CASE send_solution
  <2>1. TypeShared' /\ TypeMiners' /\ TypeLongpoll'
    BY <1>6 DEF send_solution, TypeShared, TypeMiners, TypeLongpoll
  <2>2. TypeWorkio'
    BY <1>6 DEF send_solution, Cmds, Works, TypeWorkio
  <2>3. Bounded'
    BY <1>6 DEF send_solution, TypeWorkio, Cmds, Bounded
  <2>4. CmdInv'
    BY <1>6 DEF send_solution, TypeWorkio, Cmds, CmdInv
  <2> QED
    BY <2>1, <2>2, <2>3, <2>4
<1>7. CASE solution_answered
  <2>1. TypeShared'
    BY <1>7 DEF solution_answered, activate_longpoll, longpoll_header,
       TypeShared
  <2>2. TypeMiners'
    BY <1>7 DEF solution_answered, submitted, restart_threads, TypeMiners
  <2>3. TypeWorkio'
    BY <1>7, Constants DEF solution_answered, submitted, TypeWorkio
  <2>4. TypeLongpoll'
    BY <1>7 DEF solution_answered, activate_longpoll, longpoll_header,
       TypeLongpoll
  <2>5. Bounded'
    BY <1>7 DEF solution_answered, submitted, Bounded
  <2>6. CmdInv'
    BY <1>7 DEF solution_answered, submitted, CmdInv
  <2> QED
    BY <2>1, <2>2, <2>3, <2>4, <2>5, <2>6
<1>8. CASE submit_upstream_work_fails
  <2>1. TypeMiners'
    BY <1>8 DEF submit_upstream_work_fails, TypeMiners
  <2>2. TypeShared'
    BY <1>8 DEF submit_upstream_work_fails, activate_longpoll, longpoll_header,
       TypeShared
  <2>3. TypeWorkio'
    BY <1>8 DEF submit_upstream_work_fails, retry, TypeWorkio
  <2>4. TypeLongpoll'
    BY <1>8 DEF submit_upstream_work_fails, activate_longpoll, longpoll_header,
       TypeLongpoll
  <2>5. Bounded'
    BY <1>8 DEF submit_upstream_work_fails, retry, Bounded
  <2>6. CmdInv'
    BY <1>8 DEF submit_upstream_work_fails, retry, CmdInv
  <2> QED
    BY <2>1, <2>2, <2>3, <2>4, <2>5, <2>6
<1> QED
  BY <1>1, <1>2, <1>3, <1>4, <1>5, <1>6, <1>7, <1>8 DEF Workio

LEMMA LongpollType ==
  ASSUME TypeInv, Longpoll
  PROVE  TypeInv'
<1> USE DEF TypeInv, TypeOK, gVars, modeVars, minerVars, wVars, lpVars
<1>1. CASE lp_pop
  <2>1. TypeShared' /\ TypeMiners' /\ TypeWorkio' /\ Bounded' /\ CmdInv'
    BY <1>1 DEF lp_pop, TypeShared, TypeMiners, TypeWorkio, Bounded, CmdInv
  <2>2. TypeLongpoll'
    BY <1>1 DEF lp_pop, TypeLongpoll
  <2> QED
    BY <2>1, <2>2
<1>2. CASE lp_call
  <2>1. TypeShared' /\ TypeMiners' /\ TypeWorkio' /\ Bounded' /\ CmdInv'
    BY <1>2 DEF lp_call, TypeShared, TypeMiners, TypeWorkio, Bounded, CmdInv
  <2>2. TypeLongpoll'
    BY <1>2, Constants DEF lp_call, TypeShared, TypeLongpoll
  <2> QED
    BY <2>1, <2>2
<1>3. CASE lp_submit_old
  <2>1. TypeMiners' /\ TypeWorkio' /\ Bounded' /\ CmdInv'
    BY <1>3 DEF lp_submit_old, TypeMiners, TypeWorkio, Bounded, CmdInv
  <2>2. TypeShared'
    BY <1>3 DEF lp_submit_old, TypeShared
  <2>3. TypeLongpoll'
    BY <1>3 DEF lp_submit_old, TypeLongpoll
  <2> QED
    BY <2>1, <2>2, <2>3
<1>4. CASE lp_apply
  <2>1. age' \in 0 .. LP_SCANTIME
    BY <1>4 DEF lp_apply, LP_SCANTIME
  <2>2. gwork' \in Works /\ gfreed' \in BOOLEAN /\ lptpl.prev \in Blocks
    BY <1>4 DEF lp_apply, replace_gwork, TypeShared, TypeLongpoll, Works
  <2>3. TypeWorkio' /\ Bounded' /\ CmdInv'
    BY <1>4 DEF lp_apply, TypeWorkio, Bounded, CmdInv
  <2>4. TypeShared'
    BY <1>4, <2>1, <2>2 DEF lp_apply, replace_gwork, keep_longpollid,
       activate_longpoll, TypeLongpoll, TypeShared
  <2>5. TypeMiners'
    BY <1>4, <2>1, <2>2 DEF lp_apply, restart_threads, TypeMiners
  <2>6. TypeLongpoll'
    BY <1>4, <2>1, <2>2, Constants DEF lp_apply, lp_loop, activate_longpoll,
       TypeLongpoll
  <2> QED
    BY <2>3, <2>4, <2>5, <2>6
<1>5. CASE lp_apply_fails
  <2>1. TypeMiners' /\ TypeWorkio' /\ Bounded' /\ CmdInv'
    BY <1>5 DEF lp_apply_fails, TypeMiners, TypeWorkio, Bounded, CmdInv
  <2>2. TypeShared'
    BY <1>5 DEF lp_apply_fails, replace_gwork, TypeLongpoll, Works, TypeShared
  <2>3. TypeLongpoll'
    BY <1>5, Constants DEF lp_apply_fails, lp_loop, TypeLongpoll
  <2> QED
    BY <2>1, <2>2, <2>3
<1>6. ASSUME NEW failed \in BOOLEAN, lp_expire(failed) PROVE TypeInv'
  <2>1. TypeMiners' /\ TypeWorkio' /\ Bounded' /\ CmdInv'
    BY <1>6 DEF lp_expire, TypeMiners, TypeWorkio, Bounded, CmdInv
  <2>2. TypeShared'
    BY <1>6 DEF lp_expire, LP_SCANTIME, TypeShared
  <2>3. TypeLongpoll'
    BY <1>6, Constants DEF lp_expire, lp_loop, TypeLongpoll
  <2> QED
    BY <2>1, <2>2, <2>3
<1>7. CASE lp_timeout
  <2>1. TypeShared' /\ TypeWorkio' /\ Bounded' /\ CmdInv'
    BY <1>7 DEF lp_timeout, TypeShared, TypeWorkio, Bounded, CmdInv
  <2>2. TypeMiners'
    BY <1>7 DEF lp_timeout, restart_threads, TypeMiners
  <2>3. TypeLongpoll'
    BY <1>7 DEF lp_timeout, TypeLongpoll
  <2> QED
    BY <2>1, <2>2, <2>3
<1>8. CASE lp_failed
  <2>1. TypeWorkio' /\ Bounded' /\ CmdInv'
    BY <1>8 DEF lp_failed, TypeWorkio, Bounded, CmdInv
  <2>2. TypeShared'
    BY <1>8 DEF lp_failed, TypeShared
  <2>3. TypeMiners'
    BY <1>8 DEF lp_failed, restart_threads, TypeMiners
  <2>4. TypeLongpoll'
    BY <1>8 DEF lp_failed, TypeLongpoll
  <2> QED
    BY <2>1, <2>2, <2>3, <2>4
<1> QED
  BY <1>1, <1>2, <1>3, <1>4, <1>5, <1>6, <1>7, <1>8 DEF Longpoll

LEMMA NodeType ==
  ASSUME TypeInv, Node \/ Tick
  PROVE  TypeInv'
<1> USE DEF TypeInv, TypeOK, gVars, modeVars, minerVars, wVars, lpVars
<1>1. CASE NodeTemplate
  <2>1. wtpl' \in Works
    BY <1>1, Constants DEF NodeTemplate, TypeShared, Works
  <2>2. TypeShared' /\ TypeMiners' /\ TypeLongpoll'
    BY <1>1 DEF NodeTemplate, TypeShared, TypeMiners, TypeLongpoll
  <2>3. TypeWorkio'
    BY <1>1, <2>1 DEF NodeTemplate, TypeWorkio
  <2>4. Bounded'
    BY <1>1, <2>1 DEF NodeTemplate, Bounded
  <2>5. CmdInv'
    BY <1>1, <2>1 DEF NodeTemplate, CmdInv
  <2> QED
    BY <2>2, <2>3, <2>4, <2>5
<1>2. CASE NodeSubmit
  <2>1. TypeMiners' /\ TypeLongpoll'
    BY <1>2 DEF NodeSubmit, TypeMiners, TypeLongpoll
  <2>2. TypeShared'
    BY <1>2, SoloAssumption DEF NodeSubmit, Bounded, TypeWorkio, Cmds, Works,
       Blocks, TypeShared
  <2>3. TypeWorkio'
    BY <1>2 DEF NodeSubmit, TypeWorkio
  <2>4. Bounded'
    BY <1>2 DEF NodeSubmit, Bounded
  <2>5. CmdInv'
    BY <1>2 DEF NodeSubmit, CmdInv
  <2> QED
    BY <2>1, <2>2, <2>3, <2>4, <2>5
<1>3. CASE NodePush
  <2>1. TypeShared' /\ TypeMiners' /\ TypeWorkio' /\ Bounded' /\ CmdInv'
    BY <1>3 DEF NodePush, TypeShared, TypeMiners, TypeWorkio, Bounded, CmdInv
  <2>2. TypeLongpoll'
    BY <1>3, Constants DEF NodePush, TypeShared, Works, TypeLongpoll
  <2> QED
    BY <2>1, <2>2
<1>4. CASE NodeBlock
  <2>1. TypeMiners' /\ TypeWorkio' /\ TypeLongpoll' /\ Bounded' /\ CmdInv'
    BY <1>4 DEF NodeBlock, TypeMiners, TypeWorkio, TypeLongpoll, Bounded,
       CmdInv
  <2>2. TypeShared'
    BY <1>4, SoloAssumption DEF NodeBlock, TypeShared
  <2> QED
    BY <2>1, <2>2
<1>5. CASE Tick
  <2>1. TypeMiners' /\ TypeWorkio' /\ TypeLongpoll' /\ Bounded' /\ CmdInv'
    BY <1>5 DEF Tick, TypeMiners, TypeWorkio, TypeLongpoll, Bounded, CmdInv
  <2>2. TypeShared'
    BY <1>5 DEF Tick, LP_SCANTIME, TypeShared
  <2> QED
    BY <2>1, <2>2
<1> QED
  BY <1>1, <1>2, <1>3, <1>4, <1>5 DEF Node

LEMMA TypeNext == TypeInv /\ [Next]_vars => TypeInv'
<1> SUFFICES ASSUME TypeInv, [Next]_vars PROVE TypeInv'
  OBVIOUS
<1>1. CASE UNCHANGED vars
  BY <1>1 DEF vars, gVars, modeVars, minerVars, wVars, lpVars, TypeInv, TypeOK,
     TypeShared, TypeMiners, TypeWorkio, TypeLongpoll, Bounded, CmdInv
<1> QED
  BY <1>1, MinerType, WorkioType, LongpollType, NodeType DEF Next

(* The state of every thread keeps its type, and workio's place in its     *)
(* loop always agrees with the command it holds.                           *)
THEOREM TypeCorrect == Spec => []TypeOK
<1>1. TypeInv => TypeOK
  BY DEF TypeInv
<1> QED
  BY <1>1, TypeInit, TypeNext, PTL DEF Spec

-----------------------------------------------------------------------------
(* Long polling.  Answers of the node name a block, and once long polling  *)
(* is active in getblocktemplate mode, so does lp_id.                      *)
IdInv ==
  /\ have_gbt /\ have_longpoll => lp_id # -1
  /\ wpc = "decode" => wtpl.prev # -1
  /\ lpc \in {"pushed", "apply"} => lptpl.prev # -1

LEMMA ActivateHands ==
  ASSUME TypeInv, LongpollHandshake, activate_longpoll, UNCHANGED lpc
  PROVE  LongpollHandshake'
BY DEF TypeInv, TypeOK, TypeShared, TypeLongpoll, LongpollHandshake,
   activate_longpoll

LEMMA HeaderHands ==
  ASSUME TypeInv, LongpollHandshake, longpoll_header, UNCHANGED lpc
  PROVE  LongpollHandshake'
BY ActivateHands DEF LongpollHandshake, longpoll_header

LEMMA HandsNext ==
  TypeInv /\ LongpollHandshake /\ [Next]_vars => LongpollHandshake'
<1> SUFFICES ASSUME TypeInv, LongpollHandshake, [Next]_vars
             PROVE  LongpollHandshake'
  OBVIOUS
<1> USE DEF gVars, modeVars, minerVars, wVars, lpVars
<1>1. ASSUME NEW m \in Miners, Miner(m) PROVE LongpollHandshake'
  BY <1>1 DEF Miner, MinerTop, get_work, get_work_fails, got_work, reuse_work,
     MinerClear, ScanEnds, submit_work, LongpollHandshake
<1>2. CASE Workio
  <2>1. CASE workio_get_work
    BY <2>1, ActivateHands, HeaderHands DEF workio_get_work
  <2>2. CASE get_upstream_work_fails
    BY <2>2, HeaderHands DEF get_upstream_work_fails
  <2>3. CASE solution_answered
    BY <2>3, HeaderHands DEF solution_answered
  <2>4. CASE submit_upstream_work_fails
    BY <2>4, HeaderHands DEF submit_upstream_work_fails
  <2>5. CASE workio_pop \/ fall_back_to_getwork \/ discard_stale \/ send_solution
    BY <2>5 DEF workio_pop, fall_back_to_getwork, discard_stale, send_solution,
       LongpollHandshake
  <2> QED
    BY <1>2, <2>1, <2>2, <2>3, <2>4, <2>5 DEF Workio
<1>3. CASE Longpoll
  <2> USE DEF LongpollHandshake
  <2>1. CASE lp_pop
    BY <2>1 DEF lp_pop, TypeInv, TypeOK, TypeShared, TypeLongpoll
  <2>2. CASE lp_apply
    <3>1. have_longpoll = TRUE /\ lpq = 0
      BY <2>2 DEF lp_apply, TypeInv, TypeOK, TypeShared
    <3>2. UNCHANGED <<have_longpoll, lpq>> /\ lpc' = "call"
      BY <2>2, <3>1 DEF lp_apply, activate_longpoll, lp_loop
    <3> QED
      BY <3>1, <3>2
  <2>3. CASE lp_failed
    BY <2>3 DEF lp_failed
  <2>4. CASE lp_call \/ lp_submit_old \/ lp_apply_fails \/ lp_timeout
    BY <2>4 DEF lp_call, lp_submit_old, lp_apply_fails, lp_timeout, lp_loop
  <2>5. ASSUME NEW failed \in BOOLEAN, lp_expire(failed)
        PROVE  LongpollHandshake'
    BY <2>5 DEF lp_expire, lp_loop
  <2> QED
    BY <1>3, <2>1, <2>2, <2>3, <2>4, <2>5 DEF Longpoll
<1>4. CASE Node \/ Tick
  BY <1>4 DEF Node, NodeTemplate, NodeSubmit, NodePush, NodeBlock, Tick,
     LongpollHandshake
<1>5. CASE UNCHANGED vars
  BY <1>5 DEF vars, LongpollHandshake
<1> QED
  BY <1>1, <1>2, <1>3, <1>4, <1>5 DEF Next

(* The flag have_longpoll and the long-polling thread agree, whichever     *)
(* thread activates long polling and however often it fails.               *)
THEOREM HandshakeCorrect == Spec => []LongpollHandshake
<1>1. Init => LongpollHandshake
  BY DEF Init, LongpollHandshake
<1> QED
  BY <1>1, TypeInit, TypeNext, HandsNext, PTL DEF Spec

LEMMA IdNext ==
  TypeInv /\ LongpollHandshake /\ IdInv /\ [Next]_vars => IdInv'
<1> SUFFICES ASSUME TypeInv, LongpollHandshake, IdInv, [Next]_vars PROVE IdInv'
  OBVIOUS
<1> USE DEF gVars, modeVars, minerVars, wVars, lpVars, IdInv
<1>0. tip \in Nat
  BY SoloAssumption DEF TypeInv, TypeOK, TypeShared
<1>1. ASSUME NEW m \in Miners, Miner(m) PROVE IdInv'
  BY <1>1 DEF Miner, MinerTop, get_work, get_work_fails, got_work, reuse_work,
     MinerClear, ScanEnds, submit_work
<1>2. CASE Workio
  <2>1. CASE workio_get_work
    BY <2>1 DEF workio_get_work, keep_longpollid, activate_longpoll,
       longpoll_header
  <2>2. CASE get_upstream_work_fails
    BY <2>2 DEF get_upstream_work_fails, retry, activate_longpoll,
       longpoll_header
  <2>3. CASE solution_answered
    BY <2>3 DEF solution_answered, submitted, activate_longpoll,
       longpoll_header
  <2>4. CASE submit_upstream_work_fails
    BY <2>4 DEF submit_upstream_work_fails, retry, activate_longpoll,
       longpoll_header
  <2>5. CASE workio_pop
    <3>1. wpc' # "decode"
      BY <2>5, PopFacts
         DEF workio_pop, TypeInv, TypeOK, TypeWorkio, CmdInv
    <3> QED
      BY <2>5, <3>1 DEF workio_pop
  <2>6. CASE fall_back_to_getwork \/ discard_stale \/ send_solution
    BY <2>6 DEF fall_back_to_getwork, discard_stale, submitted, send_solution
  <2> QED
    BY <1>2, <2>1, <2>2, <2>3, <2>4, <2>5, <2>6 DEF Workio
<1>3. CASE Longpoll
  <2>1. CASE lp_apply
    BY <2>1 DEF lp_apply, keep_longpollid, activate_longpoll, lp_loop
  <2>2. CASE lp_pop \/ lp_call \/ lp_submit_old \/ lp_timeout \/ lp_failed
    BY <2>2 DEF lp_pop, lp_call, lp_submit_old, lp_timeout, lp_failed
  <2>3. CASE lp_apply_fails
    BY <2>3 DEF lp_apply_fails, lp_loop
  <2>4. ASSUME NEW failed \in BOOLEAN, lp_expire(failed) PROVE IdInv'
    BY <2>4 DEF lp_expire, lp_loop
  <2> QED
    BY <1>3, <2>1, <2>2, <2>3, <2>4 DEF Longpoll
<1>4. CASE Node \/ Tick
  BY <1>0, <1>4 DEF Node, NodeTemplate, NodeSubmit, NodePush, NodeBlock, Tick
<1>5. CASE UNCHANGED vars
  BY <1>5 DEF vars
<1> QED
  BY <1>1, <1>2, <1>3, <1>4, <1>5 DEF Next

(* strlen(lp_id) and sprintf(..., lp_id) in longpoll_thread never get a    *)
(* NULL lp_id.                                                             *)
THEOREM LongpollIdCorrect == Spec => []LongpollIdKnown
<1>1. Init => IdInv
  BY DEF Init, IdInv
<1>2. LongpollHandshake /\ IdInv => LongpollIdKnown
  BY DEF LongpollHandshake, IdInv, LongpollIdKnown
<1> QED
  BY <1>1, <1>2, TypeInit, TypeNext, IdNext, HandshakeCorrect, PTL DEF Spec

-----------------------------------------------------------------------------
(* Requests for work. *)
LEMMA QueuedPush ==
  ASSUME NEW c \in Cmds, workq \in Seq(Cmds), workq' = Append(workq, c),
         NEW m \in Miners
  PROVE  /\ c.cmd = "get" /\ c.thr = m =>
              Queued(m)' = Queued(m) \cup {Len(workq) + 1}
         /\ ~ (c.cmd = "get" /\ c.thr = m) => Queued(m)' = Queued(m)
<1>1. /\ Len(workq) \in Nat /\ Len(workq') = Len(workq) + 1
      /\ workq'[Len(workq) + 1] = c
      /\ \A i \in 1 .. Len(workq) : workq'[i] = workq[i]
  BY PushFacts
<1> QED
  BY <1>1 DEF Queued

LEMMA QueuedPop ==
  ASSUME workq \in Seq(Cmds), workq # <<>>, workq' = Tail(workq),
         NEW m \in Miners
  PROVE  /\ \A i \in Queued(m)' : i \in Nat /\ i + 1 \in Queued(m) /\ i # 0
         /\ \A i \in Queued(m) : i \in Nat /\ (i # 1 => i - 1 \in Queued(m)')
         /\ 1 \in Queued(m) <=> Head(workq).cmd = "get" /\ Head(workq).thr = m
<1>1. /\ Head(workq) = workq[1]
      /\ Len(workq') = Len(workq) - 1
      /\ Len(workq) \in Nat /\ 1 \in 1 .. Len(workq)
      /\ \A i \in 1 .. Len(workq') : workq'[i] = workq[i + 1]
  BY PopFacts
<1> QED
  BY <1>1 DEF Queued

(* A step that moves no request. *)
LEMMA RequestFrame ==
  ASSUME OneRequest, UNCHANGED <<glock, workq, wcur, reply>>,
         \A m \in Miners : pc'[m] = "await" <=> pc[m] = "await"
  PROVE  OneRequest'
BY DEF OneRequest, Requested, Queued, InHand

(* With nobody in the lock, nobody waits; only one miner waits at a time. *)
LEMMA WaitersHoldLock ==
  ASSUME OneRequest
  PROVE  /\ glock = "free" => \A m \in Miners : pc[m] # "await"
         /\ \A m, u \in Miners : pc[m] = "await" /\ pc[u] = "await" => m = u
BY SoloAssumption DEF OneRequest

LEMMA MinerRequest ==
  ASSUME TypeInv, OneRequest, NEW m \in Miners, Miner(m)
  PROVE  OneRequest'
<1> USE DEF TypeInv, TypeOK, gVars, modeVars, minerVars, wVars, lpVars
<1>1. CASE get_work(m)
  <2> DEFINE c == [NoCmd EXCEPT !.cmd = "get", !.thr = m]
  <2>1. c \in Cmds /\ c.cmd = "get" /\ c.thr = m /\ workq' = Append(workq, c)
    BY <1>1, Constants DEF get_work, NoCmd, Cmds
  <2>2. /\ glock = "free" /\ glock' = m /\ pc[m] = "lock"
        /\ pc' = [pc EXCEPT ![m] = "await"] /\ UNCHANGED <<wcur, reply>>
    BY <1>1 DEF get_work, keep_lock
  <2> HIDE DEF c
  <2>3. /\ Queued(m)' = Queued(m) \cup {Len(workq) + 1}
        /\ \A u \in Miners \ {m} : Queued(u)' = Queued(u)
    BY <2>1, QueuedPush DEF TypeWorkio
  <2>4. Queued(m) = {} /\ ~ InHand(m) /\ reply[m] = <<>>
    BY <2>2 DEF OneRequest
  <2>5. pc'[m] = "await" /\ \A u \in Miners \ {m} : pc'[u] = pc[u]
    BY <2>2 DEF TypeMiners
  <2>6. Requested(m)'
    BY <2>2, <2>3, <2>4 DEF Requested, InHand
  <2>7. \A u \in Miners \ {m} :
          /\ pc'[u] # "await" /\ glock' # u
          /\ Queued(u)' = {} /\ ~ InHand(u)' /\ reply'[u] = <<>>
    BY <2>2, <2>3, <2>5, WaitersHoldLock DEF OneRequest, InHand
  <2> QED
    BY <2>2, <2>5, <2>6, <2>7 DEF OneRequest
<1>2. CASE got_work(m)
  <2>1. /\ pc[m] = "await" /\ reply[m] # <<>> /\ glock' = "free"
        /\ reply' = [reply EXCEPT ![m] = Tail(@)]
        /\ pc' = [pc EXCEPT ![m] = "clear"] /\ UNCHANGED <<workq, wcur>>
    BY <1>2 DEF got_work, take_over
  <2>2. Queued(m) = {} /\ ~ InHand(m) /\ Len(reply[m]) = 1
    BY <2>1 DEF OneRequest, Requested
  <2>3. Tail(reply[m]) = <<>>
    BY <2>1, <2>2, HeadTailProperties, EmptySeq DEF TypeWorkio
  <2>4. /\ reply'[m] = <<>> /\ \A u \in Miners \ {m} : reply'[u] = reply[u]
        /\ pc'[m] = "clear" /\ \A u \in Miners \ {m} : pc'[u] = pc[u]
    BY <2>1, <2>3 DEF TypeWorkio, TypeMiners
  <2>5. \A u \in Miners : Queued(u)' = Queued(u) /\ InHand(u)' = InHand(u)
    BY <2>1 DEF Queued, InHand
  <2>6. \A u \in Miners : glock' # u
    BY <2>1, SoloAssumption
  <2>7. \A u \in Miners \ {m} : pc[u] # "await"
    BY <2>1, WaitersHoldLock
  <2> QED
    BY <2>2, <2>4, <2>5, <2>6, <2>7 DEF OneRequest
<1>3. CASE submit_work(m)
  <2> DEFINE c == [NoCmd EXCEPT !.cmd = "submit", !.thr = m, !.work = work[m]]
  <2>1. c \in Cmds /\ c.cmd = "submit"
    BY Constants DEF NoCmd, Cmds, TypeMiners
  <2>2. /\ UNCHANGED <<glock, wcur, reply>>
        /\ \A u \in Miners : pc'[u] = "await" <=> pc[u] = "await"
        /\ workq' = workq \/ workq' = Append(workq, c)
    BY <1>3 DEF submit_work, TypeMiners
  <2> HIDE DEF c
  <2>3. \A u \in Miners : Queued(u)' = Queued(u)
    BY <2>1, <2>2, QueuedPush DEF TypeWorkio, Queued
  <2> QED
    BY <2>2, <2>3 DEF OneRequest, Requested, InHand
<1>4. CASE MinerTop(m) \/ get_work_fails(m) \/ reuse_work(m)
  BY <1>4, RequestFrame
     DEF MinerTop, get_work_fails, reuse_work, take_over, TypeMiners
<1>5. CASE MinerClear(m) \/ ScanEnds(m)
  BY <1>5, RequestFrame DEF MinerClear, ScanEnds, TypeMiners
<1> QED
  BY <1>1, <1>2, <1>3, <1>4, <1>5 DEF Miner

(* A step of workio that neither takes nor answers a request. *)
LEMMA SubmitRequest ==
  ASSUME OneRequest, UNCHANGED <<glock, pc, workq, reply>>,
         wcur.cmd # "get", wcur'.cmd # "get"
  PROVE  OneRequest'
BY DEF OneRequest, Requested, Queued, InHand

LEMMA WorkioRequest ==
  ASSUME TypeInv, OneRequest, Workio
  PROVE  OneRequest'
<1> USE DEF TypeInv, TypeOK, gVars, modeVars, minerVars, wVars, lpVars
<1>0. NoCmd.cmd = "none"
  BY DEF NoCmd
<1>1. CASE workio_pop
  <2>1. /\ wcur = NoCmd /\ wcur' = Head(workq) /\ workq # <<>>
        /\ workq' = Tail(workq) /\ UNCHANGED <<glock, pc, reply>>
        /\ workq \in Seq(Cmds)
    BY <1>1 DEF workio_pop, CmdInv, TypeWorkio
  <2>2. \A m \in Miners : ~ InHand(m) /\ (InHand(m)' <=> 1 \in Queued(m))
    BY <1>0, <2>1, QueuedPop DEF InHand
  <2>3. ASSUME NEW m \in Miners, pc[m] = "await"
        PROVE  glock' = m /\ Requested(m)'
    <3>1. Requested(m) /\ glock = m
      BY <2>3 DEF OneRequest
    <3>2. CASE 1 \in Queued(m)
      <4>1. Queued(m)' = {}
        BY <3>1, <3>2, <2>1, QueuedPop DEF Requested
      <4> QED
        BY <2>1, <2>2, <3>1, <3>2, <4>1 DEF Requested
    <3>3. CASE 1 \notin Queued(m) /\ Queued(m) # {}
      <4>1. Queued(m)' # {}
        BY <2>1, <3>3, QueuedPop
      <4>2. \A i, j \in Queued(m)' : i = j
        BY <2>1, <3>1, <3>3, QueuedPop DEF Requested
      <4> QED
        BY <2>1, <2>2, <3>1, <3>3, <4>1, <4>2 DEF Requested
    <3>4. CASE Queued(m) = {}
      <4>1. Queued(m)' = {}
        BY <2>1, <3>4, QueuedPop
      <4> QED
        BY <2>1, <2>2, <3>1, <3>4, <4>1 DEF Requested
    <3> QED
      BY <3>2, <3>3, <3>4
  <2>4. ASSUME NEW m \in Miners, pc[m] # "await"
        PROVE  glock' # m /\ Queued(m)' = {} /\ ~ InHand(m)' /\ reply'[m] = <<>>
    <3>1. glock # m /\ Queued(m) = {} /\ reply[m] = <<>>
      BY <2>4 DEF OneRequest
    <3>2. Queued(m)' = {}
      BY <2>1, <3>1, QueuedPop
    <3> QED
      BY <2>1, <2>2, <3>1, <3>2
  <2> QED
    BY <2>1, <2>3, <2>4 DEF OneRequest
<1>2. CASE workio_get_work
  <2>1. PICK t \in Miners : t = wcur.thr /\ InHand(t)
    BY <1>2 DEF workio_get_work, CmdInv, InHand
  <2>2. pc[t] = "await" /\ glock = t /\ Queued(t) = {} /\ reply[t] = <<>>
    BY <2>1 DEF OneRequest, Requested
  <2>3. /\ reply' = [reply EXCEPT ![t] = Append(@, wtpl)] /\ wcur' = NoCmd
        /\ UNCHANGED <<glock, pc, workq>>
    BY <1>2, <2>1 DEF workio_get_work
  <2>4. Len(reply'[t]) = 1 /\ \A u \in Miners \ {t} : reply'[u] = reply[u]
    <3>1. Len(Append(reply[t], wtpl)) = Len(reply[t]) + 1 /\ Len(reply[t]) = 0
      BY <2>1, <2>2, AppendProperties, EmptySeq DEF TypeWorkio
    <3> QED
      BY <2>1, <2>3, <3>1 DEF TypeWorkio
  <2>5. \A u \in Miners : Queued(u)' = Queued(u) /\ ~ InHand(u)'
    BY <1>0, <2>3 DEF Queued, InHand
  <2>6. Requested(t)'
    BY <2>1, <2>2, <2>4, <2>5 DEF Requested
  <2>7. \A u \in Miners \ {t} : pc[u] # "await"
    BY <2>1, <2>2, WaitersHoldLock
  <2> QED
    BY <2>1, <2>2, <2>3, <2>4, <2>5, <2>6, <2>7 DEF OneRequest
<1>3. CASE get_upstream_work_fails \/ fall_back_to_getwork
           \/ submit_upstream_work_fails
  BY <1>3, RequestFrame DEF get_upstream_work_fails, fall_back_to_getwork,
     submit_upstream_work_fails
<1>4. CASE discard_stale \/ solution_answered
  BY <1>0, <1>4, SubmitRequest
     DEF discard_stale, solution_answered, submitted, CmdInv
<1>5. CASE send_solution
  <2>1. wcur.cmd # "get" /\ wcur'.cmd # "get"
    BY <1>5 DEF send_solution, CmdInv, TypeWorkio, Cmds
  <2> QED
    BY <1>5, <2>1, SubmitRequest DEF send_solution
<1> QED
  BY <1>1, <1>2, <1>3, <1>4, <1>5 DEF Workio

LEMMA RequestNext == TypeInv /\ OneRequest /\ [Next]_vars => OneRequest'
<1> SUFFICES ASSUME TypeInv, OneRequest, [Next]_vars PROVE OneRequest'
  OBVIOUS
<1> USE DEF gVars, modeVars, minerVars, wVars, lpVars
<1>1. CASE Longpoll
  BY <1>1, RequestFrame
     DEF Longpoll, lp_pop, lp_call, lp_submit_old, lp_apply, lp_apply_fails,
         lp_expire, lp_timeout, lp_failed
<1>2. CASE Node \/ Tick
  BY <1>2, RequestFrame
     DEF Node, NodeTemplate, NodeSubmit, NodePush, NodeBlock, Tick
<1>3. CASE UNCHANGED vars
  BY <1>3, RequestFrame DEF vars
<1> QED
  BY <1>1, <1>2, <1>3, MinerRequest, WorkioRequest DEF Next

(* However miners, workio and failing calls interleave, there is one       *)
(* request for work at a time, it is never lost or doubled, and its answer *)
(* goes to the miner that waits for it holding g_work_lock.                *)
THEOREM OneRequestCorrect == Spec => []OneRequest
<1>1. Init => OneRequest
  <2> SUFFICES ASSUME Init PROVE OneRequest
    OBVIOUS
  <2>1. Len(<<>>) = 0
    BY EmptySeq
  <2>2. \A m \in Miners : Queued(m) = {} /\ ~ InHand(m)
    BY <2>1 DEF Init, Queued, InHand, NoCmd
  <2> QED
    BY <2>2, SoloAssumption DEF Init, OneRequest
<1> QED
  BY <1>1, TypeInit, TypeNext, RequestNext, PTL DEF Spec

-----------------------------------------------------------------------------
(* What follows is about the unit of work the miners share.  It holds       *)
(* where the code means it to: the node speaks getblocktemplate and its     *)
(* long-poll answers decode.                                                *)

(* No retry limit (the default), no getwork, long-poll answers decode. *)
Plain == OptRetries < 0 /\ AllowGetwork = FALSE /\ LongpollDecodes = TRUE

(* Then getblocktemplate is spoken throughout, workio never gives up, and  *)
(* what the long-polling thread asks for and gets are templates.           *)
PlainInv ==
  /\ have_gbt = TRUE
  /\ wpc # "dead"
  /\ lpc = "poll" => lpreq # -1
  /\ lpc \in {"pushed", "apply"} => lptpl.gbt = TRUE

LEMMA PlainInit == Init => PlainInv
BY DEF Init, PlainInv

LEMMA PlainNext ==
  ASSUME Plain, TypeInv, LongpollIdKnown, PlainInv, [Next]_vars
  PROVE  PlainInv'
<1> USE DEF gVars, modeVars, minerVars, wVars, lpVars, PlainInv
<1>1. ASSUME NEW m \in Miners, Miner(m) PROVE PlainInv'
  BY <1>1 DEF Miner, MinerTop, get_work, get_work_fails, got_work, reuse_work,
     MinerClear, ScanEnds, submit_work
<1>2. CASE Workio
  <2>1. CASE workio_pop
    <3>1. wpc' # "dead"
      BY <2>1, PopFacts DEF workio_pop, TypeInv, TypeOK, TypeWorkio, CmdInv
    <3> QED
      BY <2>1, <3>1 DEF workio_pop
  <2>2. CASE workio_get_work \/ solution_answered \/ discard_stale
    BY <2>2 DEF workio_get_work, solution_answered, discard_stale, submitted
  <2>3. CASE get_upstream_work_fails \/ submit_upstream_work_fails
    BY <2>3 DEF get_upstream_work_fails, submit_upstream_work_fails, retry,
       Plain
  <2>4. CASE fall_back_to_getwork
    BY <2>4 DEF fall_back_to_getwork, Plain
  <2>5. CASE send_solution
    BY <2>5 DEF send_solution
  <2> QED
    BY <1>2, <2>1, <2>2, <2>3, <2>4, <2>5 DEF Workio
<1>3. CASE Longpoll
  <2>1. CASE lp_call
    BY <2>1 DEF lp_call, LongpollIdKnown
  <2>2. CASE lp_apply_fails
    BY <2>2 DEF lp_apply_fails, Plain
  <2>3. CASE lp_pop \/ lp_submit_old \/ lp_apply \/ lp_timeout \/ lp_failed
    BY <2>3 DEF lp_pop, lp_submit_old, lp_apply, lp_timeout, lp_failed, lp_loop
  <2>4. ASSUME NEW failed \in BOOLEAN, lp_expire(failed) PROVE PlainInv'
    BY <2>4 DEF lp_expire, lp_loop
  <2> QED
    BY <1>3, <2>1, <2>2, <2>3, <2>4 DEF Longpoll
<1>4. CASE NodePush
  <2>1. lpreq # -1 /\ lpc' = "pushed" /\ UNCHANGED <<have_gbt, wpc>>
    BY <1>4 DEF NodePush
  <2>2. lptpl'.gbt = (lpreq # -1)
    BY <1>4 DEF NodePush
  <2> QED
    BY <2>1, <2>2
<1>5. CASE NodeTemplate \/ NodeSubmit \/ NodeBlock \/ Tick
  BY <1>5 DEF NodeTemplate, NodeSubmit, NodeBlock, Tick
<1>6. CASE UNCHANGED vars
  BY <1>6 DEF vars
<1> QED
  BY <1>1, <1>2, <1>3, <1>4, <1>5, <1>6 DEF Next, Node

(* In a plain configuration no thread gives up and no push is refused. *)
LEMMA PlainSteps ==
  ASSUME Plain, PlainInv
  PROVE  ~ lp_apply_fails /\ \A m \in Miners : ~ get_work_fails(m)
BY DEF Plain, PlainInv, lp_apply_fails, get_work_fails

-----------------------------------------------------------------------------
(* Freed pointers. *)

LEMMA DanglingNext ==
  ASSUME Plain, TypeInv, PlainInv, NoDanglingWork, [Next]_vars
  PROVE  NoDanglingWork'
<1> USE DEF gVars, modeVars, minerVars, wVars, lpVars
<1>0. pc \in [Miners -> {"top", "lock", "await", "clear", "scan", "exit"}]
  BY DEF TypeInv, TypeOK, TypeMiners
<1>1. ASSUME UNCHANGED <<gfreed, glock, pc>> PROVE NoDanglingWork'
  BY <1>1 DEF NoDanglingWork
<1>2. ASSUME NEW m \in Miners, Miner(m) PROVE NoDanglingWork'
  <2>1. CASE get_work(m)
    <3>1. glock' = m /\ pc'[m] = "await"
      BY <1>0, <2>1 DEF get_work, keep_lock
    <3> QED
      BY <3>1 DEF NoDanglingWork
  <2>2. CASE got_work(m)
    BY <2>2 DEF got_work, NoDanglingWork
  <2>3. CASE MinerTop(m) \/ reuse_work(m) \/ MinerClear(m) \/ ScanEnds(m)
             \/ submit_work(m)
    <3>1. UNCHANGED <<gfreed, glock>> /\ pc[m] # "await"
      BY <2>3 DEF MinerTop, reuse_work, MinerClear, ScanEnds, submit_work
    <3>2. \A n \in Miners \ {m} : pc'[n] = pc[n]
      BY <1>0, <2>3 DEF MinerTop, reuse_work, take_over, MinerClear, ScanEnds,
         submit_work
    <3> QED
      BY <3>1, <3>2 DEF NoDanglingWork
  <2> QED
    BY <1>2, <2>1, <2>2, <2>3, PlainSteps DEF Miner
<1>3. CASE Workio
  BY <1>1, <1>3 DEF Workio, workio_pop, workio_get_work,
     get_upstream_work_fails, fall_back_to_getwork, discard_stale,
     send_solution, solution_answered, submit_upstream_work_fails
<1>4. CASE Longpoll
  <2>1. CASE lp_apply
    BY <2>1 DEF lp_apply, replace_gwork, PlainInv, NoDanglingWork
  <2>2. CASE lp_pop \/ lp_call \/ lp_submit_old \/ lp_timeout \/ lp_failed
    BY <1>1, <2>2 DEF lp_pop, lp_call, lp_submit_old, lp_timeout, lp_failed
  <2>3. ASSUME NEW failed \in BOOLEAN, lp_expire(failed) PROVE NoDanglingWork'
    BY <1>1, <2>3 DEF lp_expire
  <2> QED
    BY <1>4, <2>1, <2>2, <2>3, PlainSteps DEF Longpoll
<1>5. CASE Node \/ Tick
  BY <1>1, <1>5 DEF Node, NodeTemplate, NodeSubmit, NodePush, NodeBlock, Tick
<1>6. CASE UNCHANGED vars
  BY <1>1, <1>6 DEF vars
<1> QED
  BY <1>2, <1>3, <1>4, <1>5, <1>6 DEF Next

(* get_work frees g_work before it waits for its replacement; nobody       *)
(* copies or frees it in between, however many miners contend for it.      *)
THEOREM DanglingCorrect == Plain /\ Spec => []NoDanglingWork
<1> SUFFICES ASSUME Plain PROVE Spec => []NoDanglingWork
  OBVIOUS
<1>1. Init => NoDanglingWork
  BY DEF Init, NoDanglingWork
<1>2. /\ TypeInv /\ LongpollIdKnown /\ PlainInv /\ NoDanglingWork
      /\ [Next]_vars
      => PlainInv' /\ NoDanglingWork'
  BY PlainNext, DanglingNext
<1> QED
  BY <1>1, <1>2, PlainInit, TypeInit, TypeNext, LongpollIdCorrect, PTL DEF Spec

-----------------------------------------------------------------------------
(* Scans of old work.  A miner about to clear its restart flag holds       *)
(* g_work, or a restart or another miner's fetch came in between.          *)

Elsewhere(m) == \E n \in Miners \ {m} : SameData(work[n], gwork)

OldInv ==
  \A m \in Miners :
    ~ SameData(work[m], gwork) =>
      /\ pc[m] = "clear" => told[m] \/ Elsewhere(m)
      /\ pc[m] = "scan" => restart[m] \/ told[m] \/ Elsewhere(m)

(* A step that leaves work, g_work and the flags alone and puts nobody     *)
(* before the scan.                                                        *)
LEMMA OldFrame ==
  ASSUME OldInv, UNCHANGED <<gwork, work>>,
         \A m \in Miners :
           /\ restart[m] => restart'[m]
           /\ pc'[m] \in {"clear", "scan"} =>
                pc'[m] = pc[m] /\ (told[m] => told'[m])
  PROVE  OldInv'
<1>1. \A m \in Miners : Elsewhere(m)' <=> Elsewhere(m)
  BY DEF Elsewhere, SameData
<1> QED
  BY <1>1 DEF OldInv, SameData

(* A miner that takes g over has it; whoever had it before still does. *)
LEMMA TakeOver ==
  ASSUME TypeInv, NEW m \in Miners, NEW g \in Works, take_over(m, g)
  PROVE  /\ SameData(work'[m], g)
         /\ \A n \in Miners \ {m} : work'[n] = work[n] /\ pc'[n] = pc[n]
         /\ pc'[m] = "clear"
BY DEF TypeInv, TypeOK, TypeMiners, take_over, SameData

LEMMA OldMiner ==
  ASSUME Plain, TypeInv, PlainInv, OldInv, NEW m \in Miners, Miner(m)
  PROVE  OldInv'
<1> USE DEF gVars, modeVars, minerVars, wVars, lpVars
<1>0. /\ pc \in [Miners -> {"top", "lock", "await", "clear", "scan", "exit"}]
      /\ restart \in [Miners -> BOOLEAN] /\ told \in [Miners -> BOOLEAN]
      /\ gwork \in Works
  BY DEF TypeInv, TypeOK, TypeMiners, TypeShared
<1>1. CASE MinerTop(m) \/ get_work(m)
  BY <1>0, <1>1, OldFrame DEF MinerTop, get_work
<1>2. CASE ScanEnds(m) \/ submit_work(m)
  <2>1. UNCHANGED <<gwork, work, restart>> /\ pc'[m] \notin {"clear", "scan"}
    BY <1>0, <1>2 DEF ScanEnds, submit_work
  <2>2. \A n \in Miners \ {m} : pc'[n] = pc[n] /\ told'[n] = told[n]
    BY <1>0, <1>2 DEF ScanEnds, submit_work
  <2> QED
    BY <2>1, <2>2, OldFrame
<1>3. CASE got_work(m)
  <2>1. Head(reply[m]) \in Works
    BY <1>3, HeadTailProperties
       DEF got_work, TypeInv, TypeOK, TypeWorkio
  <2>2. SameData(work'[m], gwork')
    BY <1>3, <2>1, TakeOver DEF got_work
  <2> QED
    BY <2>2 DEF OldInv, Elsewhere
<1>4. CASE reuse_work(m)
  <2>1. SameData(work'[m], gwork') /\ UNCHANGED <<gwork, restart, told>>
    BY <1>0, <1>4, TakeOver DEF reuse_work, SameData
  <2> QED
    BY <2>1 DEF OldInv, Elsewhere
<1>5. CASE MinerClear(m)
  <2>1. UNCHANGED <<gwork, work, told>> /\ pc[m] = "clear"
    BY <1>5 DEF MinerClear
  <2>2. \A n \in Miners \ {m} : pc'[n] = pc[n] /\ restart'[n] = restart[n]
    BY <1>0, <1>5 DEF MinerClear
  <2>3. \A n \in Miners : Elsewhere(n)' <=> Elsewhere(n)
    BY <2>1 DEF Elsewhere, SameData
  <2> QED
    BY <1>5, <2>1, <2>2, <2>3 DEF OldInv, SameData
<1> QED
  BY <1>1, <1>2, <1>3, <1>4, <1>5, PlainSteps DEF Miner

LEMMA OldNext ==
  ASSUME Plain, TypeInv, PlainInv, OldInv, [Next]_vars
  PROVE  OldInv'
<1> USE DEF gVars, modeVars, minerVars, wVars, lpVars
<1>1. ASSUME UNCHANGED <<gwork, work, pc>>, restart_threads PROVE OldInv'
  BY <1>1, OldFrame DEF restart_threads
<1>2. ASSUME UNCHANGED <<gwork, work, pc, restart, told>> PROVE OldInv'
  BY <1>2, OldFrame
<1>3. CASE Workio
  BY <1>1, <1>2, <1>3 DEF Workio, workio_pop, workio_get_work,
     get_upstream_work_fails, fall_back_to_getwork, discard_stale,
     send_solution, solution_answered, submit_upstream_work_fails, submitted
<1>4. CASE Longpoll
  <2>1. CASE lp_apply
    <3>1. \A m \in Miners : restart'[m] /\ (pc'[m] = "clear" => told'[m])
      BY <2>1 DEF lp_apply, restart_threads
    <3> QED
      BY <3>1 DEF OldInv
  <2>2. CASE lp_timeout \/ lp_failed
    BY <1>1, <2>2 DEF lp_timeout, lp_failed
  <2>3. CASE lp_pop \/ lp_call \/ lp_submit_old
    BY <1>2, <2>3 DEF lp_pop, lp_call, lp_submit_old
  <2>4. ASSUME NEW failed \in BOOLEAN, lp_expire(failed) PROVE OldInv'
    BY <1>2, <2>4 DEF lp_expire
  <2> QED
    BY <1>4, <2>1, <2>2, <2>3, <2>4, PlainSteps DEF Longpoll
<1>5. CASE Node \/ Tick
  BY <1>2, <1>5 DEF Node, NodeTemplate, NodeSubmit, NodePush, NodeBlock, Tick
<1>6. CASE UNCHANGED vars
  BY <1>2, <1>6 DEF vars
<1> QED
  BY <1>3, <1>4, <1>5, <1>6, OldMiner DEF Next

(* restart_threads reaches every scan of work that has been replaced by a  *)
(* long-poll answer, except in the window in which a miner clears its flag *)
(* after it has released the lock.                                         *)
THEOREM InterruptCorrect == Plain /\ Spec => []OldScanInterrupted
<1> SUFFICES ASSUME Plain PROVE Spec => []OldScanInterrupted
  OBVIOUS
<1>1. Init => OldInv
  BY DEF Init, OldInv
<1>2. OldInv => OldScanInterrupted
  BY DEF OldInv, OldScanInterrupted, Elsewhere
<1>3. /\ TypeInv /\ LongpollIdKnown /\ PlainInv /\ OldInv /\ [Next]_vars
      => PlainInv' /\ OldInv'
  BY PlainNext, OldNext
<1> QED
  BY <1>1, <1>2, <1>3, PlainInit, TypeInit, TypeNext, LongpollIdCorrect, PTL
     DEF Spec

-----------------------------------------------------------------------------
(* The order of blocks.  An answer under way to a miner is no older than   *)
(* what g_work and lp_id named when its request was made, and neither can  *)
(* change before it arrives, because the miner holds g_work_lock.          *)

NoOlder(w) == w.prev <= tip /\ lp_id <= w.prev /\ gwork.prev <= w.prev

OrderInv ==
  /\ WantLongpoll \/ lp_id = -1
  /\ lp_id <= tip /\ gwork.prev <= tip
  /\ lpc \in {"pushed", "apply"} => lptpl.prev <= tip
  /\ lpc = "poll" => lpreq <= lp_id
  /\ glock = "free" => lp_id <= gwork.prev
  /\ wpc = "decode" => NoOlder(wtpl)
  /\ \A m \in Miners : reply[m] # <<>> => NoOlder(Head(reply[m]))

LEMMA Numbers ==
  ASSUME TypeInv
  PROVE  /\ tip \in Int /\ lp_id \in Int /\ lpreq \in Int /\ gwork.prev \in Int
         /\ lptpl.prev \in Int /\ wtpl.prev \in Int
         /\ -1 <= gwork.prev /\ -1 <= lptpl.prev /\ -1 <= wtpl.prev
         /\ \A m \in Miners :
              reply[m] # <<>> =>
                /\ Head(reply[m]) \in Works /\ Head(reply[m]).prev \in Int
                /\ Tail(reply[m]) \in Seq(Works)
<1>1. \A w \in Works : w.prev \in Int /\ -1 <= w.prev
  BY SoloAssumption DEF Works, Blocks
<1>2. \A m \in Miners : reply[m] # <<>> =>
        Head(reply[m]) \in Works /\ Tail(reply[m]) \in Seq(Works)
  BY HeadTailProperties DEF TypeInv, TypeOK, TypeWorkio
<1> QED
  BY <1>1, <1>2, SoloAssumption DEF TypeInv, TypeOK, TypeShared, TypeWorkio,
     TypeLongpoll, Blocks

(* With the lock free, or a request still on its way, nothing is in reply. *)
LEMMA Waiting ==
  ASSUME OneRequest, CmdInv
  PROVE  /\ glock = "free" => \A m \in Miners : reply[m] = <<>>
         /\ glock = "free" => wpc \notin {"get", "decode"}
         /\ wpc = "decode" => /\ wcur.thr \in Miners
                              /\ \A m \in Miners : reply[m] = <<>>
<1>1. \A m \in Miners : reply[m] # <<>> => glock = m /\ ~ InHand(m)
  BY EmptySeq DEF OneRequest, Requested
<1>2. wpc \in {"get", "decode"} =>
        wcur.thr \in Miners /\ glock = wcur.thr /\ reply[wcur.thr] = <<>>
  BY DEF CmdInv, OneRequest, Requested, InHand
<1> QED
  BY <1>1, <1>2, SoloAssumption

LEMMA OrderFrame ==
  ASSUME TypeInv, OrderInv,
         UNCHANGED <<gwork, lp_id, lpc, lpreq, lptpl, reply>>,
         glock' # "free" \/ glock' = glock,
         wpc' = "decode" => wpc = "decode" /\ wtpl' = wtpl,
         tip' \in Int, tip <= tip'
  PROVE  OrderInv'
BY Numbers DEF OrderInv, NoOlder

LEMMA OrderMiner ==
  ASSUME TypeInv, OneRequest, OrderInv, NEW m \in Miners, Miner(m)
  PROVE  OrderInv' /\ gwork.prev <= gwork'.prev
<1> USE DEF gVars, modeVars, minerVars, wVars, lpVars
<1>1. CASE got_work(m)
  <2>1. reply \in [Miners -> Seq(Works)]
    BY DEF TypeInv, TypeOK, TypeWorkio
  <2>2. Len(reply[m]) = 1 /\ glock = m
    BY <1>1, EmptySeq DEF got_work, OneRequest, Requested
  <2>3. \A n \in Miners : reply'[n] = <<>>
    <3>1. reply'[m] = <<>>
      BY <1>1, <2>1, <2>2 DEF got_work
    <3>2. \A n \in Miners \ {m} : reply[n] = <<>> /\ reply'[n] = reply[n]
      BY <1>1, <2>1, <2>2, EmptySeq DEF got_work, OneRequest, Requested
    <3> QED
      BY <3>1, <3>2
  <2>4. wpc # "decode"
    BY <1>1, Waiting DEF got_work, TypeInv
  <2>5. NoOlder(Head(reply[m])) /\ gwork' = Head(reply[m])
    BY <1>1 DEF got_work, OrderInv
  <2>6. UNCHANGED <<lp_id, tip, wpc, lpc, lpreq, lptpl>>
    BY <1>1 DEF got_work
  <2> QED
    BY <2>3, <2>4, <2>5, <2>6 DEF OrderInv, NoOlder
<1>2. CASE get_work(m)
  <2>1. glock' # "free"
    BY <1>2, SoloAssumption DEF get_work, keep_lock
  <2> QED
    BY <1>2, <2>1, OrderFrame, Numbers DEF get_work
<1>3. CASE MinerTop(m) \/ get_work_fails(m) \/ reuse_work(m) \/ MinerClear(m)
           \/ ScanEnds(m) \/ submit_work(m)
  BY <1>3, OrderFrame, Numbers DEF MinerTop, get_work_fails, reuse_work,
     MinerClear, ScanEnds, submit_work
<1> QED
  BY <1>1, <1>2, <1>3 DEF Miner

LEMMA OrderWorkio ==
  ASSUME TypeInv, OneRequest, PlainInv, OrderInv, Workio
  PROVE  OrderInv' /\ gwork' = gwork
<1> USE DEF gVars, modeVars, minerVars, wVars, lpVars
<1>1. CASE workio_get_work
  <2>1. /\ wpc = "decode" /\ wpc' = "pop" /\ wtpl.gbt = TRUE
        /\ reply' = [reply EXCEPT ![wcur.thr] = Append(@, wtpl)]
        /\ UNCHANGED <<gwork, glock, tip, lpc, lpreq, lptpl>>
    BY <1>1 DEF workio_get_work, PlainInv
  <2>2. NoOlder(wtpl) /\ wtpl \in Works
    BY <2>1 DEF OrderInv, TypeInv, TypeOK, TypeWorkio
  <2>3. /\ wcur.thr \in Miners /\ glock # "free"
        /\ \A m \in Miners : reply[m] = <<>>
    BY <2>1, Waiting DEF TypeInv
  <2>4. \A m \in Miners : reply'[m] # <<>> => Head(reply'[m]) = wtpl
    <3>1. Append(<<>>, wtpl) = <<wtpl>> /\ Head(<<wtpl>>) = wtpl
      OBVIOUS
    <3>2. reply \in [Miners -> Seq(Works)]
      BY DEF TypeInv, TypeOK, TypeWorkio
    <3> QED
      BY <2>1, <2>3, <3>1, <3>2
  <2>5. lp_id' = IF WantLongpoll THEN wtpl.prev ELSE lp_id
    BY <1>1, <2>1 DEF workio_get_work, keep_longpollid
  <2>6. lp_id <= lp_id' /\ lp_id' <= wtpl.prev /\ lp_id' \in Int
    BY <2>2, <2>5, Numbers DEF NoOlder
  <2> QED
    BY <2>1, <2>2, <2>3, <2>4, <2>5, <2>6, Numbers DEF OrderInv, NoOlder
<1>2. CASE workio_pop
  <2>1. wpc' # "decode"
    BY <1>2, PopFacts DEF workio_pop, TypeInv, TypeOK, TypeWorkio, CmdInv
  <2> QED
    BY <1>2, <2>1, OrderFrame, Numbers DEF workio_pop
<1>3. CASE get_upstream_work_fails \/ submit_upstream_work_fails
  BY <1>3, OrderFrame, Numbers DEF get_upstream_work_fails,
     submit_upstream_work_fails, retry
<1>4. CASE fall_back_to_getwork \/ discard_stale \/ send_solution
           \/ solution_answered
  BY <1>4, OrderFrame, Numbers DEF fall_back_to_getwork, discard_stale,
     send_solution, solution_answered, submitted
<1> QED
  BY <1>1, <1>2, <1>3, <1>4, OrderFrame DEF Workio

LEMMA OrderLongpoll ==
  ASSUME Plain, TypeInv, OneRequest, PlainInv, OrderInv, Longpoll
  PROVE  /\ OrderInv'
         /\ gwork' = gwork \/ (lpc = "apply" /\ lpc' = "call")
<1> USE DEF gVars, modeVars, minerVars, wVars, lpVars
<1>1. CASE lp_apply
  <2>1. /\ glock = "free" /\ lpc = "apply" /\ lpc' = "call"
        /\ gwork'.prev = lptpl.prev
        /\ lp_id' = IF WantLongpoll THEN lptpl.prev ELSE lp_id
        /\ UNCHANGED <<reply, wpc, tip>>
    BY <1>1 DEF lp_apply, lp_loop, replace_gwork, keep_longpollid, PlainInv,
       TypeInv, TypeOK, TypeLongpoll, Works
  <2>2. wpc # "decode" /\ \A m \in Miners : reply[m] = <<>>
    BY <2>1, Waiting DEF TypeInv
  <2> QED
    BY <2>1, <2>2, Numbers DEF OrderInv
<1>2. CASE lp_call
  <2>1. lpc' = "poll" /\ lpreq' = lp_id
    BY <1>2 DEF lp_call, PlainInv
  <2> QED
    BY <1>2, <2>1, Numbers DEF lp_call, OrderInv, NoOlder
<1>3. CASE lp_pop \/ lp_submit_old \/ lp_timeout \/ lp_failed
  BY <1>3, Numbers DEF lp_pop, lp_submit_old, lp_timeout, lp_failed, OrderInv,
     NoOlder
<1>4. ASSUME NEW failed \in BOOLEAN, lp_expire(failed)
      PROVE  OrderInv' /\ gwork' = gwork
  BY <1>4, Numbers DEF lp_expire, lp_loop, OrderInv, NoOlder
<1> QED
  BY <1>1, <1>2, <1>3, <1>4, PlainSteps DEF Longpoll

LEMMA OrderNode ==
  ASSUME TypeInv, OneRequest, OrderInv, Node \/ Tick
  PROVE  OrderInv' /\ gwork' = gwork
<1> USE DEF gVars, modeVars, minerVars, wVars, lpVars
<1>1. CASE NodeTemplate
  <2>1. wtpl'.prev = tip /\ wpc' = "decode"
    BY <1>1 DEF NodeTemplate
  <2> QED
    BY <1>1, <2>1, Numbers DEF NodeTemplate, OrderInv, NoOlder
<1>2. CASE NodePush
  <2>1. lptpl'.prev = tip /\ lpc' = "pushed"
    BY <1>2 DEF NodePush
  <2> QED
    BY <1>2, <2>1, Numbers DEF NodePush, OrderInv, NoOlder
<1>3. CASE NodeSubmit
  <2>1. tip' \in Int /\ tip <= tip'
    BY <1>3, Numbers DEF NodeSubmit
  <2> QED
    BY <1>3, <2>1, OrderFrame DEF NodeSubmit
<1>4. CASE NodeBlock \/ Tick
  BY <1>4, OrderFrame, Numbers DEF NodeBlock, Tick
<1> QED
  BY <1>1, <1>2, <1>3, <1>4 DEF Node

LEMMA OrderNext ==
  ASSUME Plain, TypeInv, OneRequest, PlainInv, OrderInv, [Next]_vars
  PROVE  /\ OrderInv'
         /\ gwork'.prev < gwork.prev => lpc = "apply" /\ lpc' = "call"
<1>1. CASE UNCHANGED vars
  <2>1. OrderInv'
    BY <1>1 DEF vars, gVars, modeVars, wVars, lpVars, OrderInv, NoOlder
  <2>2. gwork' = gwork
    BY <1>1 DEF vars, gVars
  <2> QED
    BY <2>1, <2>2, Numbers
<1>2. ASSUME NEW m \in Miners, Miner(m)
      PROVE  OrderInv' /\ ~ (gwork'.prev < gwork.prev)
  <2>1. OrderInv' /\ gwork.prev <= gwork'.prev
    BY <1>2, OrderMiner
  <2>2. gwork'.prev \in Int
    BY <1>2, MinerType, SoloAssumption
       DEF TypeInv, TypeOK, TypeShared, Works, Blocks
  <2> QED
    BY <2>1, <2>2, Numbers
<1> QED
  BY <1>1, <1>2, OrderWorkio, OrderLongpoll, OrderNode, Numbers DEF Next

LEMMA OrderAlways == Plain /\ Spec => [](PlainInv /\ OrderInv)
<1> SUFFICES ASSUME Plain PROVE Spec => [](PlainInv /\ OrderInv)
  OBVIOUS
<1>1. Init => OrderInv
  BY DEF Init, OrderInv, Zero
<1>2. /\ TypeInv /\ LongpollIdKnown /\ OneRequest /\ PlainInv /\ OrderInv
      /\ [Next]_vars
      => PlainInv' /\ OrderInv'
  BY PlainNext, OrderNext
<1> QED
  BY <1>1, <1>2, PlainInit, TypeInit, TypeNext, LongpollIdCorrect,
     OneRequestCorrect, PTL DEF Spec

(* A long poll that rests at the node because it names the best block      *)
(* rests beside a g_work that builds on that block, although its answers   *)
(* are applied late and lp_id is written by two threads.                   *)
THEOREM MissedCorrect == Plain /\ Spec => []NoMissedBlock
<1> SUFFICES ASSUME Plain PROVE Spec => []NoMissedBlock
  OBVIOUS
<1>1. TypeInv /\ OrderInv => NoMissedBlock
  BY Numbers DEF OrderInv, NoMissedBlock
<1> QED
  BY <1>1, TypeInit, TypeNext, OrderAlways, PTL DEF Spec

(* Work that a miner fetches never takes g_work back to an older block,    *)
(* however long the answer was under way.                                  *)
THEOREM FetchCorrect == Plain /\ Spec => FetchNeverRegresses
<1> SUFFICES ASSUME Plain PROVE Spec => FetchNeverRegresses
  OBVIOUS
<1>1. TypeInv /\ OneRequest /\ PlainInv /\ OrderInv /\ [Next]_vars =>
        [gwork'.prev < gwork.prev => lpc = "apply" /\ lpc' = "call"]_vars
  BY OrderNext
<1> QED
  BY <1>1, TypeInit, TypeNext, OneRequestCorrect, OrderAlways, PTL
     DEF Spec, FetchNeverRegresses
=============================================================================
