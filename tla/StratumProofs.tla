---------------------------- MODULE StratumProofs ----------------------------
(***************************************************************************)
(* Proofs about module Stratum, for any number of miners and any bounds.   *)
(*                                                                         *)
(* A line is read in the order the lines were sent, so most of what        *)
(* follows is about which lines may be under way, and a step is described  *)
(* by what it brings in (From, Kept, Unnotified).  On that rest, in this   *)
(* order: the types; who holds g_work_lock (LockInv); the order of jobs    *)
(* and the units drawn from them (JobInv); which answer belongs to which   *)
(* request (ConnInv, HandInv); and what the main loop knows when it waits  *)
(* (RecvInv, QuietInv).                                                    *)
(***************************************************************************)
EXTENDS Stratum, TLAPS

(* What a job, a unit of work and a line of the pool look like. *)
Jobs  == [id : Nat, prev : Nat]
Units == [id : Nat \cup {-1}, prev : Nat, x2 : Nat, ses : Nat]
Lines == [kind : {"notify"}, val : Jobs]
         \cup [kind : {"subscribed"}, val : [x1 : Nat, sid : Nat]]
         \cup [kind : {"diff"}, val : Nat]
         \cup [kind : {"true", "false"}, val : {"auth", "share"}]
         \cup [kind : {"error", "torn", "request", "reconnect"}, val : {0}]

(* The lines of kind k in s are lines of r, in the order they have there. *)
From(s, r, k) ==
  \E d \in Int : \A i \in 1 .. Len(s) :
    s[i].kind = k => i + d \in 1 .. Len(r) /\ s[i] = r[i + d]

(* What is sent and read keeps the lines of kind k. *)
LEMMA FromSame ==
  ASSUME NEW r \in Seq(Lines), NEW k
  PROVE  From(r, r, k)
<1>1. 0 \in Int /\ \A i \in 1 .. Len(r) : i + 0 \in 1 .. Len(r) /\ r[i] = r[i + 0]
  OBVIOUS
<1> QED
  BY <1>1 DEF From

(* Of an empty socket nothing is kept. *)
LEMMA FromEmpty ==
  ASSUME NEW r \in Seq(Lines), NEW k
  PROVE  From(<<>>, r, k) /\ <<>> \in Seq(Lines)
<1>1. \A i \in 1 .. Len(<<>>) : FALSE
  OBVIOUS
<1>2. 0 \in Int
  OBVIOUS
<1> QED
  BY <1>1, <1>2 DEF From

(* The thread takes the next line out of sockbuf. *)
LEMMA FromTail ==
  ASSUME NEW r \in Seq(Lines), r # <<>>, NEW k
  PROVE  /\ From(Tail(r), r, k) /\ Tail(r) \in Seq(Lines)
         /\ Len(r) \in Nat /\ Len(r) > 0
         /\ Head(r) = r[1] /\ Head(r) \in Lines
         /\ Len(Tail(r)) = Len(r) - 1
         /\ \A i \in 1 .. Len(Tail(r)) : i + 1 \in 1 .. Len(r) /\ Tail(r)[i] = r[i + 1]
<1>1. /\ Tail(r) \in Seq(Lines) /\ Len(r) \in Nat /\ Len(r) > 0
      /\ Head(r) = r[1] /\ Head(r) \in Lines /\ Len(Tail(r)) = Len(r) - 1
  OBVIOUS
<1>2. \A i \in 1 .. Len(Tail(r)) : i + 1 \in 1 .. Len(r) /\ Tail(r)[i] = r[i + 1]
  BY <1>1
<1>3. From(Tail(r), r, k)
  <2>1. 1 \in Int
    OBVIOUS
  <2> QED
    BY <1>2, <2>1 DEF From
<1> QED
  BY <1>1, <1>2, <1>3

(* The connection is lost and a prefix of the lines arrives. *)
LEMMA FromPrefix ==
  ASSUME NEW r \in Seq(Lines), NEW l \in 0 .. Len(r), NEW k
  PROVE  /\ From(SubSeq(r, 1, l), r, k) /\ SubSeq(r, 1, l) \in Seq(Lines)
<1>1. SubSeq(r, 1, l) \in Seq(Lines) /\ Len(SubSeq(r, 1, l)) = l
  OBVIOUS
<1>2. \A i \in 1 .. l : i + 0 \in 1 .. Len(r) /\ SubSeq(r, 1, l)[i] = r[i + 0]
  OBVIOUS
<1> QED
  BY <1>1, <1>2 DEF From

(* The pool sends a line behind the others. *)
LEMMA FromAppend ==
  ASSUME NEW r \in Seq(Lines), NEW l \in Lines
  PROVE  /\ Append(r, l) \in Seq(Lines) /\ Len(Append(r, l)) = Len(r) + 1 /\ Len(r) \in Nat
         /\ \A i \in 1 .. Len(r) : Append(r, l)[i] = r[i]
         /\ Append(r, l)[Len(r) + 1] = l
         /\ \A k : k # l.kind => From(Append(r, l), r, k)
<1>1. /\ Append(r, l) \in Seq(Lines) /\ Len(Append(r, l)) = Len(r) + 1 /\ Len(r) \in Nat
      /\ \A i \in 1 .. Len(r) : Append(r, l)[i] = r[i]
      /\ Append(r, l)[Len(r) + 1] = l
  OBVIOUS
<1>2. ASSUME NEW k, k # l.kind PROVE From(Append(r, l), r, k)
  <2>1. \A i \in 1 .. Len(Append(r, l)) : Append(r, l)[i].kind = k =>
          i + 0 \in 1 .. Len(r) /\ Append(r, l)[i] = r[i + 0]
    BY <1>1, <1>2
  <2> QED
    BY SMTT(30), <2>1 DEF From
<1> QED
  BY <1>1, <1>2

(* Of the lines of r the first is torn in s. *)
TornFirst(s, r, k) ==
  /\ s \in Seq(Lines) /\ s[1] = Torn /\ s # <<>>
  /\ From(s, r, k)
  /\ \A i \in 1 .. Len(s) : s[i].kind = k => i - 1 \in 2 .. Len(r) /\ s[i] = r[i - 1]

(* The next line comes in two pieces. *)
LEMMA FromTrickle ==
  ASSUME NEW r \in Seq(Lines), r # <<>>, NEW k, k # "torn",
         NEW s, s = <<Torn, Torn>> \o Tail(r)
  PROVE  TornFirst(s, r, k)
<1>1. Torn \in Lines /\ Torn.kind = "torn"
  BY DEF Torn, Line, Lines
<1>2. <<Torn, Torn>> \in Seq(Lines) /\ Len(<<Torn, Torn>>) = 2
  BY <1>1
<1>3. Tail(r) \in Seq(Lines) /\ Len(Tail(r)) = Len(r) - 1 /\ Len(r) \in Nat
  OBVIOUS
<1>4. /\ s \in Seq(Lines) /\ Len(s) = 2 + Len(Tail(r))
      /\ s[1] = Torn /\ s[2] = Torn
      /\ \A i \in 3 .. Len(s) : s[i] = Tail(r)[i - 2]
  BY <1>2, <1>3
<1>5. \A i \in 1 .. Len(s) : s[i].kind = k =>
        i + (-1) \in 1 .. Len(r) /\ s[i] = r[i + (-1)]
  <2> TAKE i \in 1 .. Len(s)
  <2>1. CASE i \in {1, 2}
    BY <1>1, <1>4, <2>1
  <2>2. CASE i \notin {1, 2}
    <3>1. i \in 3 .. Len(s) /\ i - 2 \in 1 .. Len(Tail(r)) /\ i + (-1) \in 1 .. Len(r)
          /\ i - 2 + 1 = i + (-1)
      BY <1>3, <1>4, <2>2
    <3>2. Tail(r)[i - 2] = r[i - 2 + 1]
      BY <1>3, <3>1
    <3> QED
      BY <1>4, <3>1, <3>2
  <2> QED
    BY <2>1, <2>2
<1>6. -1 \in Int
  OBVIOUS
<1>7. \A i \in 1 .. Len(s) : s[i].kind = k => i - 1 \in 2 .. Len(r) /\ s[i] = r[i - 1]
  <2> SUFFICES ASSUME NEW i \in 1 .. Len(s), s[i].kind = k
               PROVE  i - 1 \in 2 .. Len(r) /\ s[i] = r[i - 1]
    OBVIOUS
  <2>1. i # 1 /\ i # 2 /\ i \in Nat
    BY <1>1, <1>4
  <2>2. i + (-1) = i - 1 /\ i - 1 >= 2
    BY <2>1
  <2> QED
    BY <1>5, <2>2
<1>9. s # <<>>
  BY <1>3, <1>4
<1>8. From(s, r, k)
  BY <1>5, <1>6 DEF From
<1> QED
  BY <1>4, <1>7, <1>8, <1>9 DEF TornFirst

-----------------------------------------------------------------------------
(* Lines under way and the extranonce1 and job of the pool, *)
WireTypes ==
  /\ rx \in Seq(Lines) /\ px1 \in Nat /\ given \in Nat /\ pjob \in Jobs

(* struct stratum_ctx, *)
ContextTypes ==
  /\ x1 \in Nat /\ session_id \in Nat /\ next_diff \in Nat
  /\ job \in [job : Jobs, x2 : Nat, ses : Nat, diff : Nat, again : BOOLEAN,
              wrapped : BOOLEAN]

(* and the work of the miners. *)
WorkTypes ==
  /\ gwork \in Units /\ work \in [Miners -> Units]
  /\ gdiff \in Nat /\ glock \in Miners \cup {"free"}
  /\ pc \in [Miners -> {"top", "await", "answered", "fill", "target", "scan"}]

Types == WireTypes /\ ContextTypes /\ WorkTypes

(* No notify, no acceptance and no answer to a subscription comes in. *)
Kept == /\ rx' \in Seq(Lines) /\ px1' \in Nat /\ given' \in Nat /\ pjob' = pjob
        /\ From(rx', rx, "notify") /\ From(rx', rx, "true")
        /\ From(rx', rx, "subscribed")

(* Nothing is sent or read. *)
LEMMA UnchangedKept ==
  ASSUME WireTypes, UNCHANGED <<rx, px1, given, pjob>>
  PROVE  Kept
BY FromSame DEF WireTypes, Kept

(* stratum_disconnect drops what was not read. *)
LEMMA HangupKept ==
  ASSUME WireTypes, Hangup
  PROVE  Kept
<1>1. rx' = <<>> /\ px1' = 0 /\ given' = given /\ pjob' = pjob
  BY DEF Hangup
<1> QED
  BY <1>1, FromEmpty DEF WireTypes, Kept

(* Taking a line brings no line in. *)
LEMMA TakeKept ==
  ASSUME WireTypes, rx # <<>>, TakeLine
  PROVE  Kept
<1>1. rx' = Tail(rx) /\ UNCHANGED <<px1, given, pjob>>
  BY DEF TakeLine
<1> QED
  BY <1>1, FromTail DEF WireTypes, Kept

(* Difficulties, requests, redirections and faults of the network bring in *)
(* nothing of interest.                                                    *)
LEMMA ExtraKept ==
  ASSUME WireTypes, PoolExtra \/ Drop \/ Trickle
  PROVE  Kept
<1>0. rx \in Seq(Lines)
  BY DEF WireTypes
<1>1. UNCHANGED <<px1, given, pjob>>
  BY DEF PoolExtra, Drop, Trickle
<1>2. CASE PoolExtra
  <2>1. \E k \in {"diff", "request", "reconnect"}, v \in {0, 2} :
          rx' = Append(rx, Line(k, v)) /\ Line(k, v) \in Lines /\ Line(k, v).kind = k
    BY <1>2 DEF PoolExtra, Line, Lines
  <2>2. PICK k \in {"diff", "request", "reconnect"}, v \in {0, 2} :
          rx' = Append(rx, Line(k, v)) /\ Line(k, v) \in Lines /\ Line(k, v).kind = k
    BY <2>1
  <2> QED
    BY <1>0, <1>1, <2>2, FromAppend DEF WireTypes, Kept
<1>3. CASE Drop
  <2>1. PICK l \in 0 .. Len(rx) : rx' = SubSeq(rx, 1, l)
    BY <1>3 DEF Drop
  <2> QED
    BY <1>0, <1>1, <2>1, FromPrefix DEF WireTypes, Kept
<1>4. CASE Trickle
  <2>1. rx # <<>> /\ rx' = <<Torn, Torn>> \o Tail(rx)
    BY <1>4 DEF Trickle
  <2>2. ASSUME NEW k, k # "torn" PROVE rx' \in Seq(Lines) /\ From(rx', rx, k)
    BY <1>0, <2>1, <2>2, FromTrickle DEF TornFirst
  <2> QED
    BY <1>1, <2>2 DEF WireTypes, Kept
<1> QED
  BY <1>2, <1>3, <1>4

(* An answer that is not of these kinds. *)
LEMMA AnswerKept ==
  ASSUME WireTypes, NEW k \in {"error", "false"}, NEW v, Line(k, v) \in Lines,
         rx' = Append(rx, Line(k, v)), UNCHANGED <<px1, given, pjob>>
  PROVE  Kept
<1>1. Line(k, v).kind = k
  BY DEF Line
<1> QED
  BY <1>1, FromAppend DEF WireTypes, Kept

(* A refusal is a line. *)
LEMMA ErrorLine == Line("error", 0) \in Lines
BY DEF Line, Lines

(* An answer to a subscription, with the extranonce1 of the connection. *)
Answered == \E x \in Nat, sid \in Nat :
              /\ px1' = x /\ rx' = Append(rx, Line("subscribed", [x1 |-> x, sid |-> sid]))
              /\ Line("subscribed", [x1 |-> x, sid |-> sid]) \in Lines

(* What the pool does to a subscription: an answer with the extranonce1 of *)
(* the connection, or a refusal.                                           *)
LEMMA SubscribeWire ==
  ASSUME WireTypes, NEW s \in Nat, PoolSubscribe(s)
  PROVE  /\ Answered \/ (Kept /\ rx' = Append(rx, Line("error", 0)) /\ px1' = px1)
         /\ given' \in Nat /\ announced' = FALSE
         /\ UNCHANGED <<pauth, pjob, crossed, lost>>
<1>1. announced' = FALSE /\ UNCHANGED <<pauth, pjob, crossed, lost>>
  BY DEF PoolSubscribe
<1>2. \A x \in Nat, sid \in Nat : Line("subscribed", [x1 |-> x, sid |-> sid]) \in Lines
  BY DEF Line, Lines
<1>3. CASE /\ s # 0 /\ px1' = s
           /\ rx' = Append(rx, Line("subscribed", [x1 |-> s, sid |-> s]))
           /\ UNCHANGED <<given, budget>>
  BY <1>1, <1>2, <1>3 DEF Answered, WireTypes
<1>4. ASSUME given' = IF given < MaxX1 THEN given + 1 ELSE MaxX1, NEW sid \in {0, given'},
             px1' = given',
             rx' = Append(rx, Line("subscribed", [x1 |-> given', sid |-> sid]))
      PROVE  Answered /\ given' \in Nat
  <2>1. given' \in Nat
    BY <1>4, StratumAssumption DEF WireTypes
  <2> QED
    BY <1>2, <1>4, <2>1 DEF Answered
<1>5. CASE /\ Spend /\ rx' = Append(rx, Line("error", 0)) /\ UNCHANGED <<px1, given>>
  <2>1. UNCHANGED <<px1, given, pjob>>
    BY <1>1, <1>5
  <2>2. Kept
    BY <1>5, <2>1, AnswerKept, ErrorLine
  <2> QED
    BY <1>1, <1>5, <2>2 DEF WireTypes
<1> QED
  BY <1>1, <1>3, <1>4, <1>5 DEF PoolSubscribe

(* The answer to a request to be authorised. *)
Authorised == /\ rx' = Append(rx, Line("true", "auth")) /\ Line("true", "auth") \in Lines
              /\ pauth' = TRUE /\ px1' = px1

(* What the pool does to a request to be authorised. *)
LEMMA AuthorizeWire ==
  ASSUME WireTypes, PoolAuthorize
  PROVE  /\ Authorised \/ (Kept /\ UNCHANGED <<pauth, px1>>)
         /\ given' \in Nat
         /\ UNCHANGED <<px1, pjob, announced, crossed, lost>>
<1>1. UNCHANGED <<px1, given, pjob, announced, crossed, lost>>
  BY DEF PoolAuthorize
<1>2. Line("true", "auth") \in Lines /\ Line("false", "auth") \in Lines
  BY DEF Line, Lines
<1>3. CASE pauth' = TRUE /\ rx' = Append(rx, Line("true", "auth"))
  BY <1>1, <1>2, <1>3 DEF Authorised, WireTypes
<1>4. CASE rx' = Append(rx, Line("false", "auth")) /\ UNCHANGED pauth
  <2>1. Kept
    BY <1>1, <1>2, <1>4, AnswerKept
  <2> QED
    BY <1>1, <1>4, <2>1 DEF WireTypes
<1> QED
  BY <1>3, <1>4 DEF PoolAuthorize

(* The answer to a share. *)
Accepted == rx' = Append(rx, Line("true", "share")) /\ Line("true", "share") \in Lines

(* What the pool does to a share. *)
LEMMA ShareWire ==
  ASSUME WireTypes, NEW w, PoolShare(w)
  PROVE  /\ Accepted \/ Kept
         /\ given' \in Nat
         /\ crossed' = (crossed \/ spc \in Handshake)
         /\ UNCHANGED <<px1, pauth, announced, lost, pjob>>
<1>1. /\ UNCHANGED <<px1, pauth, announced, lost, given, pjob>>
      /\ crossed' = (crossed \/ spc \in Handshake)
  BY DEF PoolShare
<1>2. Line("true", "share") \in Lines
  BY DEF Line, Lines
<1>3. rx' = Append(rx, Line("true", "share")) \/ rx' = Append(rx, Line("error", 0))
  BY DEF PoolShare
<1>4. CASE rx' = Append(rx, Line("error", 0))
  <2>1. Kept
    BY <1>1, <1>4, AnswerKept, ErrorLine
  <2> QED
    BY <1>1, <2>1 DEF WireTypes
<1> QED
  BY <1>1, <1>2, <1>3, <1>4 DEF Accepted, WireTypes

-----------------------------------------------------------------------------
(* What of the connection and the pool the properties look at. *)
wire == <<link, rx, px1, pauth, announced, crossed, lost, given, pjob>>

(* The miners and the clock do not touch the connection. *)
LEMMA MinerFrame ==
  ASSUME NEW m \in Miners, Miner(m)
  PROVE  UNCHANGED <<wire, spc, retry, x1, session_id, next_diff, have_stratum>>
<1>1. CASE get_work(m)
  BY <1>1 DEF get_work, inside, wire, poolVars, connVars, threadVars
<1>2. CASE got_work(m)
  BY <1>2 DEF got_work, inside, wire, poolVars, connVars, threadVars
<1>3. CASE GenStart(m)
  BY <1>3 DEF GenStart, inside, wire, poolVars, connVars, threadVars
<1>4. CASE GenFill(m)
  BY <1>4 DEF GenFill, inside, wire, poolVars, connVars, threadVars
<1>5. CASE GenTarget(m)
  BY <1>5 DEF GenTarget, inside, wire, poolVars, connVars, threadVars
<1>6. CASE TakeWork(m)
  BY <1>6 DEF TakeWork, inside, wire, poolVars, connVars, threadVars
<1>7. CASE ScanEnds(m)
  BY <1>7 DEF ScanEnds, inside, wire, poolVars, connVars, threadVars
<1>8. CASE submit_work(m)
  BY <1>8 DEF submit_work, inside, wire, poolVars, connVars, threadVars
<1> QED
  BY <1>1, <1>2, <1>3, <1>4, <1>5, <1>6, <1>7, <1>8 DEF Miner

(* Two minutes pass: only g_work_time changes. *)
LEMMA TickFrame ==
  ASSUME Tick
  PROVE  UNCHANGED <<wire, spc, retry, x1, session_id, next_diff, have_stratum,
                     job, gwork, gdiff, gasked, glock, pc, work>>
BY DEF Tick, inside, wire, poolVars, connVars, threadVars, minerVars

(* workio sends shares and starts stratum; nothing else of this is its. *)
LEMMA WorkioFrame ==
  ASSUME Workio
  PROVE  /\ UNCHANGED <<spc, retry, x1, session_id, next_diff, job, gwork, gdiff,
                        gasked, gtime, glock, work>>
         /\ \/ UNCHANGED wire
            \/ link = "up" /\ link' = link /\ PoolShare(Command)
         /\ \/ UNCHANGED <<have_stratum, pc>>
            \/ /\ have_stratum' = TRUE
               /\ pc' = [m \in Miners |-> IF pc[m] = "await" THEN "answered" ELSE pc[m]]
<1>1. CASE workio_quit
  BY <1>1 DEF workio_quit, beside, wire, poolVars, connVars, threadVars, sctxVars, gVars
<1>2. CASE stratum_header
  BY <1>2 DEF stratum_header, beside, wire, poolVars, connVars, threadVars, sctxVars, gVars
<1>3. CASE submit_upstream_work
  <2>1. UNCHANGED <<spc, retry, x1, session_id, next_diff, job, gwork, gdiff, gasked,
                    gtime, glock, work, have_stratum, pc>>
    BY <1>3 DEF submit_upstream_work, beside, threadVars, sctxVars, gVars
  <2>2. UNCHANGED wire \/ (link = "up" /\ link' = link /\ PoolShare(Command))
    BY <1>3 DEF submit_upstream_work, send_line, PoolIdle, wire, poolVars, connVars
  <2> QED
    BY <2>1, <2>2
<1>4. CASE submit_fails
  BY <1>4 DEF submit_fails, send_line_fails, beside, wire, threadVars, sctxVars, gVars
<1> QED
  BY <1>1, <1>2, <1>3, <1>4 DEF Workio

(* The pool and the network act while the thread waits, on the connection  *)
(* only.                                                                   *)
LEMMA PoolFrame ==
  ASSUME Pool
  PROVE  /\ UNCHANGED <<spc, retry, x1, session_id, next_diff, job, have_stratum,
                        gwork, gdiff, gasked, gtime, glock, pc, work>>
         /\ Reading
         /\ PoolJob \/ PoolAnnounce \/ PoolExtra \/ Drop \/ Trickle
BY DEF Pool, threadVars, sctxVars, gVars, minerVars

(* The three things stratum_handle_method does: a job, another line, or    *)
(* the end of the connection.                                              *)
LEMMA MethodWire ==
  ASSUME WireTypes, ContextTypes, rx # <<>>, stratum_handle_method(Head(rx))
  PROVE  \/ /\ Head(rx).kind = "notify" /\ Head(rx) \in Lines
            /\ stratum_notify(Head(rx).val) /\ TakeLine
            /\ Kept
         \/ /\ TakeLine /\ Kept
            /\ Head(rx).kind \in {"diff", "request"}
            /\ UNCHANGED <<x1, session_id, job>> /\ next_diff' \in Nat
         \/ /\ Hangup /\ Kept
            /\ UNCHANGED <<x1, session_id, job, next_diff>>
<1>0. Head(rx) \in Lines
  BY FromTail DEF WireTypes
<1>1. CASE Head(rx).kind = "notify" /\ stratum_notify(Head(rx).val) /\ TakeLine
  BY <1>0, <1>1, TakeKept
<1>2. CASE Head(rx).kind = "diff" /\ stratum_set_difficulty(Head(rx).val) /\ TakeLine
  <2>1. Head(rx).val \in Nat
    BY <1>0, <1>2 DEF Lines
  <2>2. next_diff' = Head(rx).val /\ UNCHANGED <<x1, session_id, job>>
    BY <1>2 DEF stratum_set_difficulty
  <2> QED
    BY <1>2, <2>1, <2>2, TakeKept
<1>3. CASE Hangup /\ UNCHANGED sctxVars
  BY <1>3, HangupKept DEF sctxVars
<1>4. CASE Head(rx).kind = "request" /\ TakeLine /\ UNCHANGED sctxVars
  BY <1>4, TakeKept DEF sctxVars, ContextTypes
<1> QED
  BY <1>1, <1>2, <1>3, <1>4 DEF stratum_handle_method

(* A line that is no method is taken and changes nothing else. *)
LEMMA NotMethodWire ==
  ASSUME WireTypes, rx # <<>>, not_a_method(Head(rx))
  PROVE  /\ TakeLine /\ Kept /\ UNCHANGED <<x1, session_id, next_diff, job>>
         /\ Head(rx).kind # "notify"
<1>1. /\ TakeLine /\ UNCHANGED sctxVars
      /\ Head(rx).kind \in {"subscribed", "true", "false", "error", "torn", "request"}
  BY DEF not_a_method
<1> QED
  BY <1>1, TakeKept DEF sctxVars

(* Hanging up, the thread goes back or gives up. *)
LEMMA DisconnectFrame ==
  ASSUME stratum_disconnect
  PROVE  /\ Hangup /\ spc' \in {"out", "reset"}
         /\ UNCHANGED <<retry, x1, session_id, next_diff, job, have_stratum, gwork,
                        gdiff, gasked, glock, gtime, pc, work>>
BY DEF stratum_disconnect, sctxVars, gVars, outside

(* What each step of the stratum thread leaves alone. *)
LEMMA ThreadFrame ==
  ASSUME StratumThread
  PROVE  /\ UNCHANGED <<have_stratum, pc, work>>
         /\ UNCHANGED <<gwork, gdiff, glock>> \/ StratumGenerate
         /\ UNCHANGED <<gwork, gdiff, gasked, glock, gtime>> \/ StratumReset \/ StratumGenerate
<1>1. CASE StratumPop \/ StratumReset \/ stratum_connect
  BY <1>1 DEF StratumPop, StratumReset, stratum_connect, outside, gVars
<1>2. CASE stratum_connect_fails \/ handshake_fails
  BY <1>2, DisconnectFrame DEF stratum_connect_fails, handshake_fails
<1>3. CASE stratum_subscribe \/ stratum_subscribed \/ stratum_subscribe_again
  BY <1>3 DEF stratum_subscribe, stratum_subscribed, stratum_subscribe_again, outside, gVars
<1>4. CASE stratum_authorize \/ stratum_authorize_method \/ stratum_authorized
  BY <1>4 DEF stratum_authorize, stratum_authorize_method, stratum_authorized, outside, gVars
<1>5. CASE StratumCheck
  BY <1>5 DEF StratumCheck, outside, gVars
<1>6. CASE StratumGenerate
  BY <1>6 DEF StratumGenerate, outside
<1>7. CASE StratumMethod \/ stratum_handle_response \/ StratumInterrupted
  BY <1>7 DEF StratumMethod, stratum_handle_response, StratumInterrupted, outside, gVars
<1> QED
  BY <1>1, <1>2, <1>3, <1>4, <1>5, <1>6, <1>7 DEF StratumThread

-----------------------------------------------------------------------------
(* No notify comes in. *)
Unnotified == /\ rx' \in Seq(Lines) /\ px1' \in Nat /\ given' \in Nat /\ pjob' = pjob
              /\ From(rx', rx, "notify")

(* The next line is a notify and is handled. *)
Notified == /\ rx # <<>> /\ Head(rx).kind = "notify" /\ Head(rx) \in Lines
            /\ stratum_notify(Head(rx).val) /\ rx' = Tail(rx)

(* The session stays well formed. *)
NextContext == x1' \in Nat /\ session_id' \in Nat /\ next_diff' \in Nat

(* Answers are no jobs. *)
LEMMA AnsweredUnnotified ==
  ASSUME WireTypes, given' \in Nat, pjob' = pjob,
         Answered \/ (Authorised /\ px1' = px1) \/ (Accepted /\ px1' = px1)
  PROVE  Unnotified
<1>1. CASE Answered
  <2>1. PICK x \in Nat, sid \in Nat :
          LET l == Line("subscribed", [x1 |-> x, sid |-> sid])
          IN  px1' = x /\ rx' = Append(rx, l) /\ l \in Lines
    BY <1>1 DEF Answered
  <2> DEFINE l == Line("subscribed", [x1 |-> x, sid |-> sid])
  <2>2. l.kind = "subscribed"
    BY DEF Line
  <2> QED
    BY <2>1, <2>2, FromAppend DEF WireTypes, Unnotified
<1>2. CASE rx' = Append(rx, Line("true", "auth")) /\ Line("true", "auth") \in Lines /\ px1' = px1
  <2>1. Line("true", "auth").kind = "true"
    BY DEF Line
  <2> QED
    BY <1>2, <2>1, FromAppend DEF WireTypes, Unnotified
<1>3. CASE rx' = Append(rx, Line("true", "share")) /\ Line("true", "share") \in Lines /\ px1' = px1
  <2>1. Line("true", "share").kind = "true"
    BY DEF Line
  <2> QED
    BY <1>3, <2>1, FromAppend DEF WireTypes, Unnotified
<1> QED
  BY <1>1, <1>2, <1>3 DEF Authorised, Accepted

(* What a method does to the lines, the job and the session. *)
LEMMA MethodStep ==
  ASSUME WireTypes, ContextTypes, rx # <<>>, stratum_handle_method(Head(rx))
  PROVE  /\ (Unnotified /\ UNCHANGED job) \/ (Unnotified /\ Notified)
         /\ NextContext
<1>1. CASE /\ Head(rx).kind = "notify" /\ Head(rx) \in Lines
           /\ stratum_notify(Head(rx).val) /\ TakeLine /\ Kept
  <2>1. UNCHANGED <<x1, session_id, next_diff>>
    BY <1>1 DEF stratum_notify
  <2> QED
    BY <1>1, <2>1 DEF Kept, Unnotified, Notified, TakeLine, ContextTypes, NextContext
<1>2. CASE /\ Kept /\ UNCHANGED <<x1, session_id, job>> /\ next_diff' \in Nat
  BY <1>2 DEF Kept, Unnotified, ContextTypes, NextContext
<1>3. CASE /\ Kept /\ UNCHANGED <<x1, session_id, job, next_diff>>
  BY <1>3 DEF Kept, Unnotified, ContextTypes, NextContext
<1> QED
  BY <1>1, <1>2, <1>3, MethodWire

(* What the steps of the stratum thread do to the lines and the job. *)
LEMMA ThreadStep ==
  ASSUME WireTypes, ContextTypes, StratumThread
  PROVE  /\ \/ Unnotified /\ UNCHANGED job
            \/ Unnotified /\ Notified
            \/ Unnotified /\ StratumGenerate
         /\ NextContext
<1>0. Kept => Unnotified
  BY DEF Kept, Unnotified
<1>1. CASE StratumPop \/ StratumReset \/ StratumCheck
  <2>1. UNCHANGED <<rx, px1, given, pjob, job, x1, session_id, next_diff>>
    BY <1>1 DEF StratumPop, StratumReset, StratumCheck, poolVars, connVars, sctxVars
  <2> QED
    BY <1>0, <2>1, UnchangedKept DEF ContextTypes, NextContext
<1>2. CASE stratum_connect
  <2>1. rx' = <<>> /\ UNCHANGED <<px1, given, pjob, job, x1, session_id, next_diff>>
    BY <1>2 DEF stratum_connect, sctxVars
  <2> QED
    BY <2>1, FromEmpty DEF WireTypes, ContextTypes, NextContext, Unnotified
<1>3. CASE stratum_connect_fails \/ handshake_fails
  <2>1. stratum_disconnect
    BY <1>3 DEF stratum_connect_fails, handshake_fails
  <2> QED
    BY <1>0, <2>1, DisconnectFrame, HangupKept DEF ContextTypes, NextContext
<1>4. CASE stratum_subscribe
  <2> DEFINE s == IF retry THEN 0 ELSE session_id
  <2>1. s \in Nat
    BY DEF ContextTypes
  <2>2. UNCHANGED <<job, x1, session_id, next_diff>>
    BY <1>4 DEF stratum_subscribe, sctxVars
  <2>3. PoolSubscribe(s) \/ PoolIdle
    BY <1>4 DEF stratum_subscribe, send_line
  <2>4. CASE PoolSubscribe(s)
    <3> HIDE DEF s
    <3>1. /\ Answered \/ Kept
          /\ given' \in Nat /\ pjob' = pjob
      BY <2>1, <2>4, SubscribeWire
    <3> QED
      BY <1>0, <2>2, <3>1, AnsweredUnnotified DEF ContextTypes, NextContext
  <2>5. CASE PoolIdle
    BY <1>0, <2>2, <2>5, UnchangedKept DEF PoolIdle, ContextTypes, NextContext
  <2> QED
    BY <2>3, <2>4, <2>5
<1>5. CASE stratum_subscribed
  <2>1. rx # <<>> /\ Head(rx).kind = "subscribed" /\ TakeLine
        /\ x1' = Head(rx).val.x1 /\ session_id' = Head(rx).val.sid /\ next_diff' = 1
        /\ job' = job
    BY <1>5 DEF stratum_subscribed
  <2>2. Head(rx) \in Lines
    BY <2>1, FromTail DEF WireTypes
  <2>3. Head(rx).val \in [x1 : Nat, sid : Nat]
    BY <2>1, <2>2 DEF Lines
  <2> QED
    BY <1>0, <2>1, <2>3, TakeKept DEF NextContext
<1>6. CASE stratum_subscribe_again
  <2>1. rx # <<>> /\ TakeLine /\ UNCHANGED <<job, x1, session_id, next_diff>>
    BY <1>6 DEF stratum_subscribe_again, sctxVars
  <2> QED
    BY <1>0, <2>1, TakeKept DEF ContextTypes, NextContext
<1>7. CASE stratum_authorize
  <2>1. UNCHANGED <<job, x1, session_id, next_diff>>
    BY <1>7 DEF stratum_authorize, sctxVars
  <2>2. PoolAuthorize \/ PoolIdle
    BY <1>7 DEF stratum_authorize, send_line
  <2>3. CASE PoolAuthorize
    <3>1. (Authorised \/ Kept) /\ given' \in Nat /\ pjob' = pjob /\ px1' = px1
      BY <2>3, AuthorizeWire
    <3> QED
      BY <1>0, <2>1, <3>1, AnsweredUnnotified DEF ContextTypes, NextContext
  <2>4. CASE PoolIdle
    BY <1>0, <2>1, <2>4, UnchangedKept DEF PoolIdle, ContextTypes, NextContext
  <2> QED
    BY <2>2, <2>3, <2>4
<1>8. CASE stratum_authorize_method \/ StratumMethod
  <2>1. rx # <<>> /\ stratum_handle_method(Head(rx))
    BY <1>8 DEF stratum_authorize_method, StratumMethod
  <2> QED
    BY <2>1, MethodStep
<1>9. CASE stratum_authorized \/ stratum_handle_response
  <2>1. rx # <<>> /\ not_a_method(Head(rx))
    BY <1>9 DEF stratum_authorized, stratum_handle_response
  <2> QED
    BY <1>0, <2>1, NotMethodWire DEF ContextTypes, NextContext
<1>10. CASE StratumInterrupted
  <2>1. Hangup /\ UNCHANGED <<job, x1, session_id, next_diff>>
    BY <1>10 DEF StratumInterrupted, sctxVars
  <2> QED
    BY <1>0, <2>1, HangupKept DEF ContextTypes, NextContext
<1>11. CASE StratumGenerate
  <2>1. UNCHANGED <<rx, px1, given, pjob, x1, session_id, next_diff>>
    BY <1>11 DEF StratumGenerate, poolVars, connVars
  <2> QED
    BY <1>0, <1>11, <2>1, UnchangedKept DEF ContextTypes, NextContext
<1> QED
  BY <1>1, <1>2, <1>3, <1>4, <1>5, <1>6, <1>7, <1>8, <1>9, <1>10, <1>11 DEF StratumThread

(* What any step does to the lines, the job and the work. *)
LEMMA StepOfJob ==
  ASSUME WireTypes, ContextTypes, [Next]_vars
  PROVE  /\ \/ Unnotified /\ UNCHANGED <<job, gwork, gdiff, glock, work>>
            \/ Unnotified /\ Notified /\ UNCHANGED <<gwork, gdiff, glock, work>>
            \/ Unnotified /\ StratumGenerate /\ UNCHANGED work
            \/ Unnotified /\ \E m \in Miners : Miner(m)
            \/ (PoolJob \/ PoolAnnounce) /\ UNCHANGED <<job, gwork, gdiff, glock, work>>
         /\ NextContext
<1>0. Kept => Unnotified
  BY DEF Kept, Unnotified
<1>1. CASE UNCHANGED vars
  <2>1. UNCHANGED <<rx, px1, given, pjob, x1, session_id, next_diff, job, gwork, gdiff,
                    glock, work>>
    BY <1>1 DEF vars, poolVars, connVars, sctxVars, gVars, minerVars
  <2> QED
    BY <1>0, <2>1, UnchangedKept DEF ContextTypes, NextContext
<1>2. CASE Pool
  <2>1. /\ UNCHANGED <<x1, session_id, next_diff, job, gwork, gdiff, glock, work>>
        /\ PoolJob \/ PoolAnnounce \/ PoolExtra \/ Drop \/ Trickle
    BY <1>2, PoolFrame
  <2> QED
    BY <1>0, <2>1, ExtraKept DEF ContextTypes, NextContext
<1>3. CASE StratumThread
  <2>1. UNCHANGED work /\ (UNCHANGED <<gwork, gdiff, glock>> \/ StratumGenerate)
    BY <1>3, ThreadFrame
  <2>2. StratumGenerate => Unnotified
    <3>1. StratumGenerate => UNCHANGED <<rx, px1, given, pjob>>
      BY DEF StratumGenerate, poolVars, connVars
    <3> QED
      BY <1>0, <3>1, UnchangedKept
  <2> QED
    BY <1>3, <2>1, <2>2, ThreadStep
<1>4. CASE Workio
  <2>1. /\ UNCHANGED <<x1, session_id, next_diff, job, gwork, gdiff, glock, work>>
        /\ UNCHANGED wire \/ PoolShare(Command)
    BY <1>4, WorkioFrame
  <2>2. CASE UNCHANGED wire
    BY <1>0, <2>1, <2>2, UnchangedKept DEF wire, ContextTypes, NextContext
  <2>3. CASE PoolShare(Command)
    <3>1. (Accepted \/ Kept) /\ given' \in Nat /\ pjob' = pjob /\ px1' = px1
      BY <2>3, ShareWire
    <3> QED
      BY <1>0, <2>1, <3>1, AnsweredUnnotified DEF ContextTypes, NextContext
  <2> QED
    BY <2>1, <2>2, <2>3
<1>5. CASE Tick
  <2>1. /\ UNCHANGED <<x1, session_id, next_diff, job, gwork, gdiff, glock, work>>
        /\ UNCHANGED wire
    BY <1>5, TickFrame
  <2> QED
    BY <1>0, <2>1, UnchangedKept DEF wire, ContextTypes, NextContext
<1>6. ASSUME NEW m \in Miners, Miner(m)
      PROVE  Unnotified /\ NextContext
  <2>1. UNCHANGED wire /\ UNCHANGED <<x1, session_id, next_diff>>
    BY <1>6, MinerFrame
  <2> QED
    BY <1>0, <2>1, UnchangedKept DEF wire, ContextTypes, NextContext
<1> QED
  BY <1>1, <1>2, <1>3, <1>4, <1>5, <1>6, Zenon DEF Next

-----------------------------------------------------------------------------
(* What stratum_gen_work takes from the job, and the job it leaves. *)
LEMMA UnitTypes ==
  ASSUME ContextTypes
  PROVE  /\ gen_unit \in Units /\ NextX2(job) \in [job : Jobs, x2 : Nat, ses : Nat,
              diff : Nat, again : BOOLEAN, wrapped : BOOLEAN]
         /\ NextX2(job).job = job.job /\ NextX2(job).ses = job.ses
         /\ NextX2(job).diff = job.diff /\ NextX2(job).again = job.again
         /\ gen_unit.id = job.job.id /\ gen_unit.x2 = job.x2 /\ gen_unit.ses = job.ses
         /\ ~ NextX2(job).wrapped => NextX2(job).x2 = job.x2 + 1 /\ ~ job.wrapped
<1> DEFINE JobType == [job : Jobs, x2 : Nat, ses : Nat, diff : Nat, again : BOOLEAN,
                       wrapped : BOOLEAN]
           inc  == [job EXCEPT !.x2 = job.x2 + 1]
           wrap == [job EXCEPT !.x2 = 0, !.wrapped = TRUE]
<1>1. job \in JobType /\ job.job \in Jobs /\ job.x2 \in Nat /\ job.ses \in Nat
  BY DEF ContextTypes
<1>2. gen_unit \in Units /\ gen_unit.id = job.job.id /\ gen_unit.x2 = job.x2
      /\ gen_unit.ses = job.ses
  BY <1>1 DEF gen_unit, Unit, Units, Jobs
<1>3. NextX2(job) = IF job.x2 < MaxX2 THEN inc ELSE wrap
  BY <1>1 DEF NextX2
<1>4. /\ inc \in JobType /\ inc.job = job.job /\ inc.ses = job.ses /\ inc.diff = job.diff
      /\ inc.again = job.again /\ inc.x2 = job.x2 + 1 /\ inc.wrapped = job.wrapped
  BY <1>1
<1>5. /\ wrap \in JobType /\ wrap.job = job.job /\ wrap.ses = job.ses /\ wrap.diff = job.diff
      /\ wrap.again = job.again /\ wrap.wrapped = TRUE
  BY <1>1
<1> HIDE DEF inc, wrap
<1>6. CASE job.x2 < MaxX2
  <2>1. NextX2(job) = inc
    BY <1>3, <1>6
  <2> QED
    BY <1>2, <1>4, <2>1
<1>7. CASE ~ (job.x2 < MaxX2)
  <2>1. NextX2(job) = wrap
    BY <1>3, <1>7
  <2> QED
    BY <1>2, <1>5, <2>1
<1> QED
  BY <1>6, <1>7

(* The job that stratum_notify leaves, as a record. *)
LEMMA NotifyTypes ==
  ASSUME ContextTypes, NEW j \in Jobs, stratum_notify(j)
  PROVE  job' = [job |-> j, ses |-> x1, diff |-> next_diff, again |-> job.job.id = j.id,
                 x2 |-> IF job.job.id = j.id THEN job.x2 ELSE 0,
                 wrapped |-> job.job.id = j.id /\ job.wrapped]
BY DEF stratum_notify

(* The types hold at the start. *)
LEMMA TypesInit ==
  ASSUME Init
  PROVE  Types
<1>1. WireTypes
  BY DEF Init, WireTypes, Jobs
<1>2. ContextTypes
  BY DEF Init, ContextTypes, Jobs, NoJob
<1>3. WorkTypes
  BY DEF Init, WorkTypes, Units, NoUnit, Unit, NoJob
<1> QED
  BY <1>1, <1>2, <1>3 DEF Types

(* A miner leaves the job, or draws from it. *)
LEMMA MinerJob ==
  ASSUME NEW m \in Miners, Miner(m)
  PROVE  job' \in {job, NextX2(job)}
<1>1. CASE get_work(m) \/ got_work(m) \/ GenStart(m)
  BY <1>1 DEF get_work, got_work, GenStart
<1>2. CASE GenFill(m)
  BY <1>2 DEF GenFill
<1>3. CASE GenTarget(m) \/ TakeWork(m) \/ ScanEnds(m) \/ submit_work(m)
  BY <1>3 DEF GenTarget, TakeWork, ScanEnds, submit_work
<1> QED
  BY <1>1, <1>2, <1>3 DEF Miner

(* struct stratum_ctx keeps its types. *)
LEMMA ContextStep ==
  ASSUME Types, [Next]_vars
  PROVE  ContextTypes'
<1>0. WireTypes /\ ContextTypes
  BY DEF Types
<1> DEFINE JobType == [job : Jobs, x2 : Nat, ses : Nat, diff : Nat, again : BOOLEAN,
                       wrapped : BOOLEAN]
<1>1. NextContext
  BY <1>0, StepOfJob
<1> SUFFICES job' \in JobType
  BY <1>1 DEF NextContext, ContextTypes
<1>2. job \in JobType /\ NextX2(job) \in JobType
  BY <1>0, UnitTypes DEF ContextTypes
<1>3. CASE UNCHANGED job
  BY <1>2, <1>3
<1>4. CASE Notified
  <2>1. Head(rx).val \in Jobs
    BY <1>4 DEF Notified, Lines
  <2> DEFINE j == Head(rx).val
  <2>2. job' = [job |-> j, ses |-> x1, diff |-> next_diff, again |-> job.job.id = j.id,
                x2 |-> IF job.job.id = j.id THEN job.x2 ELSE 0,
                wrapped |-> job.job.id = j.id /\ job.wrapped]
    BY <1>0, <1>4, <2>1, NotifyTypes DEF Notified
  <2> HIDE DEF j
  <2>3. x1 \in Nat /\ next_diff \in Nat /\ job.x2 \in Nat /\ job.wrapped \in BOOLEAN
    BY <1>0 DEF ContextTypes
  <2>4. (IF job.job.id = j.id THEN job.x2 ELSE 0) \in Nat
    BY <2>3
  <2>5. (job.job.id = j.id /\ job.wrapped) \in BOOLEAN /\ (job.job.id = j.id) \in BOOLEAN
    OBVIOUS
  <2> QED
    BY <2>1, <2>2, <2>3, <2>4, <2>5 DEF j
<1>5. CASE StratumGenerate
  BY <1>2, <1>5 DEF StratumGenerate
<1>6. ASSUME NEW m \in Miners, Miner(m) PROVE job' \in {job, NextX2(job)}
  BY <1>6, MinerJob
<1> HIDE DEF JobType
<1> QED
  BY <1>0, <1>2, <1>3, <1>4, <1>5, <1>6, StepOfJob

(* What a miner does to the work. *)
LEMMA MinerTypes ==
  ASSUME Types, NEW m \in Miners, Miner(m)
  PROVE  WorkTypes'
<1>0. ContextTypes /\ WorkTypes
  BY DEF Types
<1>1. gen_unit \in Units /\ NoUnit \in Units /\ job.diff \in Nat
      /\ [gwork EXCEPT !.id = -1, !.prev = 0] \in Units
  <2>1. NoUnit \in Units
    BY DEF NoUnit, Unit, NoJob, Units
  <2>2. [gwork EXCEPT !.id = -1, !.prev = 0] \in Units
    BY <1>0 DEF WorkTypes, Units
  <2>3. job.diff \in Nat
    BY <1>0 DEF ContextTypes
  <2> QED
    BY <1>0, <2>1, <2>2, <2>3, UnitTypes
<1> USE <1>0, <1>1
<1>2. CASE get_work(m)
  BY <1>2 DEF get_work, WorkTypes
<1>3. CASE got_work(m)
  BY <1>3 DEF got_work, WorkTypes
<1>4. CASE GenStart(m)
  BY <1>4 DEF GenStart, WorkTypes
<1>5. CASE GenFill(m)
  BY <1>5 DEF GenFill, WorkTypes
<1>6. CASE GenTarget(m)
  BY <1>6 DEF GenTarget, take_over, WorkTypes
<1>7. CASE TakeWork(m)
  BY <1>7 DEF TakeWork, take_over, WorkTypes, gVars
<1>8. CASE ScanEnds(m)
  BY <1>8 DEF ScanEnds, WorkTypes, gVars
<1>9. CASE submit_work(m)
  BY <1>9 DEF submit_work, WorkTypes, gVars
<1> QED
  BY <1>2, <1>3, <1>4, <1>5, <1>6, <1>7, <1>8, <1>9 DEF Miner

(* Every step keeps the types. *)
LEMMA TypesStep ==
  Types /\ [Next]_vars => Types'
<1> SUFFICES ASSUME Types, [Next]_vars PROVE Types'
  OBVIOUS
<1>0. WireTypes /\ ContextTypes /\ WorkTypes
  BY DEF Types
<1>1. ContextTypes'
  BY ContextStep
<1>2. WireTypes'
  <2>1. CASE Unnotified
    BY <1>0, <2>1 DEF Unnotified, WireTypes
  <2>2. CASE PoolJob
    <3>1. pjob' \in Jobs
      <4>1. pjob \in Jobs
        BY <1>0 DEF WireTypes
      <4>2. PICK p \in {pjob.prev, pjob.id + 1} : pjob' = [id |-> pjob.id + 1, prev |-> p]
        BY <2>2 DEF PoolJob
      <4> QED
        BY <4>1, <4>2 DEF Jobs
    <3>2. UNCHANGED <<rx, px1, given>>
      BY <2>2 DEF PoolJob
    <3> QED
      BY <1>0, <3>1, <3>2 DEF WireTypes
  <2>3. CASE PoolAnnounce
    <3>1. rx' = Append(rx, Line("notify", pjob)) /\ UNCHANGED <<px1, given, pjob>>
      BY <2>3 DEF PoolAnnounce
    <3>2. Line("notify", pjob) \in Lines
      BY <1>0 DEF WireTypes, Line, Lines
    <3> QED
      BY <1>0, <3>1, <3>2, FromAppend DEF WireTypes
  <2> QED
    BY <1>0, <2>1, <2>2, <2>3, StepOfJob
<1>3. WorkTypes'
  <2>1. CASE UNCHANGED vars
    BY <1>0, <2>1 DEF vars, gVars, minerVars, WorkTypes
  <2>2. CASE Pool
    BY <1>0, <2>2, PoolFrame DEF WorkTypes
  <2>3. CASE StratumThread
    <3>1. CASE StratumGenerate
      <4>1. gwork' = gen_unit /\ gdiff' = job.diff /\ glock' = glock /\ UNCHANGED <<pc, work>>
        BY <3>1 DEF StratumGenerate, outside
      <4>2. gen_unit \in Units /\ job.diff \in Nat
        BY <1>0, UnitTypes DEF ContextTypes
      <4> QED
        BY <1>0, <4>1, <4>2 DEF WorkTypes
    <3>2. CASE UNCHANGED <<gwork, gdiff, glock>>
      BY <1>0, <2>3, <3>2, ThreadFrame DEF WorkTypes
    <3> QED
      BY <2>3, <3>1, <3>2, ThreadFrame
  <2>4. CASE Workio
    <3>1. UNCHANGED <<gwork, gdiff, glock, work>>
      BY <2>4, WorkioFrame
    <3>2. pc' \in [Miners -> {"top", "await", "answered", "fill", "target", "scan"}]
      BY <1>0, <2>4, WorkioFrame DEF WorkTypes
    <3> QED
      BY <1>0, <3>1, <3>2 DEF WorkTypes
  <2>5. CASE Tick
    BY <1>0, <2>5, TickFrame DEF WorkTypes
  <2>6. ASSUME NEW m \in Miners, Miner(m) PROVE WorkTypes'
    BY <2>6, MinerTypes
  <2> QED
    BY <2>1, <2>2, <2>3, <2>4, <2>5, <2>6, Zenon DEF Next
<1> QED
  BY <1>1, <1>2, <1>3 DEF Types

-----------------------------------------------------------------------------
(* The miners that hold g_work_lock; before stratum is known of they hold  *)
(* it while they wait for an answer.                                       *)
LockInv ==
  /\ ~ have_stratum => spc = "pop"
  /\ \A m \in Miners :
       /\ pc[m] \in {"await", "answered", "fill", "target"} => glock = m
       /\ pc[m] \in {"await", "answered"} => spc \in {"pop", "reset"}

(* At the start nobody holds g_work_lock. *)
LEMMA LockInit ==
  ASSUME Init
  PROVE  LockInv
BY DEF Init, LockInv

(* Every step keeps the lock with the miner that took it. *)
LEMMA LockStep ==
  Types /\ LockInv /\ [Next]_vars => LockInv'
<1> SUFFICES ASSUME Types, LockInv, [Next]_vars PROVE LockInv'
  OBVIOUS
<1>0. pc \in [Miners -> {"top", "await", "answered", "fill", "target", "scan"}]
  BY DEF Types, WorkTypes
<1>1. CASE UNCHANGED vars
  BY <1>1 DEF vars, threadVars, gVars, minerVars, LockInv
<1>2. CASE Pool
  BY <1>2, PoolFrame DEF LockInv
<1>3. CASE StratumThread
  <2>1. /\ UNCHANGED <<have_stratum, pc>> /\ glock' = glock
    BY <1>3, ThreadFrame DEF StratumGenerate
  <2>2. CASE StratumPop
    <3>1. spc' = "reset" /\ spc = "pop" /\ have_stratum
      BY <2>2 DEF StratumPop
    <3> QED
      BY <2>1, <3>1 DEF LockInv
  <2>3. CASE StratumReset
    <3>1. glock = "free" /\ have_stratum
      BY <2>3 DEF StratumReset, LockInv
    <3>2. \A m \in Miners : pc[m] \notin {"await", "answered"}
      BY <3>1, StratumAssumption DEF LockInv
    <3> QED
      BY <2>1, <3>1, <3>2 DEF LockInv
  <2>4. CASE spc \notin {"pop", "reset"}
    BY <2>1, <2>4 DEF LockInv
  <2>5. StratumPop \/ StratumReset \/ spc \notin {"pop", "reset"}
    <3>1. stratum_connect \/ stratum_connect_fails => spc = "connect"
      BY DEF stratum_connect, stratum_connect_fails
    <3>2. stratum_subscribe \/ stratum_subscribed \/ stratum_subscribe_again
            => spc \in {"subscribe", "subscribed"}
      BY DEF stratum_subscribe, stratum_subscribed, stratum_subscribe_again
    <3>3. stratum_authorize \/ stratum_authorize_method \/ stratum_authorized
            => spc \in {"authorize", "authorized"}
      BY DEF stratum_authorize, stratum_authorize_method, stratum_authorized
    <3>4. handshake_fails => spc \in {"subscribe", "authorize", "subscribed", "authorized"}
      BY DEF handshake_fails
    <3>5. StratumCheck \/ StratumGenerate => spc \in {"work", "generate"}
      BY DEF StratumCheck, StratumGenerate
    <3>6. StratumMethod \/ stratum_handle_response \/ StratumInterrupted => spc = "recv"
      BY DEF StratumMethod, stratum_handle_response, StratumInterrupted
    <3> QED
      BY <1>3, <3>1, <3>2, <3>3, <3>4, <3>5, <3>6 DEF StratumThread
  <2> QED
    BY <2>2, <2>3, <2>4, <2>5
<1>4. CASE Workio
  <2>1. spc' = spc /\ glock' = glock
    BY <1>4, WorkioFrame
  <2>2. CASE UNCHANGED <<have_stratum, pc>>
    BY <2>1, <2>2 DEF LockInv
  <2>3. CASE /\ have_stratum' = TRUE
             /\ pc' = [m \in Miners |-> IF pc[m] = "await" THEN "answered" ELSE pc[m]]
    <3>1. ASSUME NEW m \in Miners
          PROVE  /\ pc'[m] \in {"await", "answered", "fill", "target"} => glock = m
                 /\ pc'[m] \in {"await", "answered"} => spc \in {"pop", "reset"}
      BY <2>3 DEF LockInv
    <3> QED
      BY <2>1, <2>3, <3>1 DEF LockInv
  <2> QED
    BY <1>4, <2>2, <2>3, WorkioFrame
<1>5. CASE Tick
  BY <1>5, TickFrame DEF LockInv
<1>6. ASSUME NEW m \in Miners, Miner(m) PROVE LockInv'
  <2>0. UNCHANGED <<spc, have_stratum>>
    BY <1>6, MinerFrame
  <2>1. CASE get_work(m)
    <3>1. glock = "free" /\ glock' = m /\ pc' = [pc EXCEPT ![m] = "await"] /\ ~ have_stratum
      BY <2>1 DEF get_work
    <3> QED
      BY <1>0, <2>0, <3>1, StratumAssumption DEF LockInv
  <2>2. CASE got_work(m)
    <3>1. pc[m] = "answered" /\ glock' = "free" /\ pc' = [pc EXCEPT ![m] = "top"]
      BY <2>2 DEF got_work
    <3> QED
      BY <1>0, <2>0, <3>1 DEF LockInv
  <2>3. CASE GenStart(m)
    <3>1. glock = "free" /\ glock' = m /\ pc' = [pc EXCEPT ![m] = "fill"]
      BY <2>3 DEF GenStart
    <3> QED
      BY <1>0, <2>0, <3>1, StratumAssumption DEF LockInv
  <2>4. CASE GenFill(m)
    <3>1. pc[m] = "fill" /\ glock' = glock /\ pc' = [pc EXCEPT ![m] = "target"]
      BY <2>4 DEF GenFill
    <3> QED
      BY <1>0, <2>0, <3>1 DEF LockInv
  <2>5. CASE GenTarget(m)
    <3>1. pc[m] = "target" /\ glock' = "free" /\ pc' = [pc EXCEPT ![m] = "scan"]
      BY <2>5 DEF GenTarget, take_over
    <3> QED
      BY <1>0, <2>0, <3>1 DEF LockInv
  <2>6. CASE TakeWork(m) \/ ScanEnds(m) \/ submit_work(m)
    <3>1. glock' = glock /\ \E q \in {"scan", "top"} : pc' = [pc EXCEPT ![m] = q]
      BY <2>6 DEF TakeWork, ScanEnds, submit_work, take_over, gVars
    <3> QED
      BY <1>0, <2>0, <3>1 DEF LockInv
  <2> QED
    BY <1>6, <2>1, <2>2, <2>3, <2>4, <2>5, <2>6 DEF Miner
<1> QED
  BY <1>1, <1>2, <1>3, <1>4, <1>5, <1>6, Zenon DEF Next

-----------------------------------------------------------------------------
(* The jobs under way come in the order the pool made them, none older     *)
(* than the job at hand.                                                   *)
NotifiesInOrder ==
  /\ \A i \in 1 .. Len(rx) : rx[i].kind = "notify" =>
       /\ 1 <= rx[i].val.id /\ job.job.id <= rx[i].val.id /\ rx[i].val.id <= pjob.id
       /\ rx[i].val.id = pjob.id => rx[i].val = pjob
  /\ \A i, k \in 1 .. Len(rx) : i < k /\ rx[i].kind = "notify" /\ rx[k].kind = "notify" =>
       rx[i].val.id <= rx[k].val.id

(* The pool has a job, and the miner has none it has not made. *)
PoolAhead == 1 <= pjob.id /\ job.job.id <= pjob.id

(* The extranonce2 of a unit of the job at hand has been passed. *)
UnitBehind(w) ==
  /\ w.id <= job.job.id
  /\ w.id = job.job.id /\ w.id # 0 /\ ~ job.wrapped => w.x2 < job.x2

(* That of g_work and of what the miners scan. *)
UnitsBehind == UnitBehind(gwork) /\ \A m \in Miners : UnitBehind(work[m])

(* Before the first notify the job is the empty one. *)
NoJobYet == job.job.id = 0 => job.ses = 0

(* g_work has the extranonce1 of the job it was made from. *)
SessionOfJob == gwork.id = job.job.id /\ ~ job.again => gwork.ses = job.ses

(* UnitsBehind is more than UnitsDistinct: a unit of a later job would     *)
(* become one of the present job without being passed.                     *)
JobInv == PoolAhead /\ NotifiesInOrder /\ UnitsBehind /\ NoJobYet /\ SessionOfJob

(* What a notify carries is a job. *)
LEMMA NotifyLine ==
  ASSUME NEW l \in Lines, l.kind = "notify"
  PROVE  l.val \in Jobs /\ l = Line("notify", l.val)
<1>1. l \in [kind : {"notify"}, val : Jobs]
  BY DEF Lines
<1> QED
  BY <1>1 DEF Line

(* At the start there is no job, and g_work is empty. *)
LEMMA JobInit ==
  ASSUME Init
  PROVE  JobInv
<1>1. /\ rx = <<>> /\ pjob = [id |-> 1, prev |-> 1] /\ gwork = NoUnit
      /\ work = [m \in Miners |-> NoUnit]
      /\ job = [job |-> NoJob, x2 |-> 0, ses |-> 0, diff |-> 0, again |-> FALSE,
                wrapped |-> FALSE]
  BY DEF Init
<1>2. NoUnit.id = 0 /\ NoUnit.ses = 0 /\ NoJob.id = 0
  BY DEF NoUnit, Unit, NoJob
<1>3. NotifiesInOrder
  BY <1>1 DEF NotifiesInOrder
<1> QED
  BY <1>1, <1>2, <1>3 DEF JobInv, PoolAhead, UnitsBehind, UnitBehind, NoJobYet, SessionOfJob

(* A step that brings in no notify leaves the order as it is. *)
LEMMA OrderKept ==
  ASSUME WireTypes, NotifiesInOrder, Unnotified, job'.job = job.job
  PROVE  NotifiesInOrder'
<1>1. PICK d \in Int : \A i \in 1 .. Len(rx') :
        rx'[i].kind = "notify" => i + d \in 1 .. Len(rx) /\ rx'[i] = rx[i + d]
  BY DEF Unnotified, From
<1>2. pjob' = pjob
  BY DEF Unnotified
<1>3. ASSUME NEW i \in 1 .. Len(rx'), rx'[i].kind = "notify"
      PROVE  /\ 1 <= rx'[i].val.id /\ job.job.id <= rx'[i].val.id /\ rx'[i].val.id <= pjob.id
             /\ rx'[i].val.id = pjob.id => rx'[i].val = pjob
  BY <1>1, <1>3 DEF NotifiesInOrder
<1>4. ASSUME NEW i \in 1 .. Len(rx'), NEW k \in 1 .. Len(rx'), i < k,
             rx'[i].kind = "notify", rx'[k].kind = "notify"
      PROVE  rx'[i].val.id <= rx'[k].val.id
  <2>1. /\ i + d \in 1 .. Len(rx) /\ rx'[i] = rx[i + d]
        /\ k + d \in 1 .. Len(rx) /\ rx'[k] = rx[k + d]
    BY <1>1, <1>4
  <2>2. i + d < k + d
    BY <1>4
  <2> QED
    BY <1>4, <2>1, <2>2 DEF NotifiesInOrder
<1> QED
  BY <1>2, <1>3, <1>4 DEF NotifiesInOrder

(* After a notify g_work is of another job, or its job was announced       *)
(* again.                                                                  *)
LEMMA NotifiedAgain ==
  ASSUME Types, JobInv, Notified, gwork' = gwork
  PROVE  job'.again \/ gwork'.id # job'.job.id
<1> DEFINE j == Head(rx).val
<1>0. WireTypes /\ ContextTypes /\ WorkTypes
  BY DEF Types
<1>1. /\ rx # <<>> /\ Head(rx) = rx[1] /\ rx[1] \in Lines /\ rx[1].kind = "notify"
      /\ Len(rx) \in Nat /\ Len(rx) > 0
  BY <1>0, FromTail DEF Notified, WireTypes
<1>2. j \in Jobs /\ j = rx[1].val /\ 1 \in 1 .. Len(rx)
  BY <1>1, NotifyLine
<1>3. job.job.id <= j.id
  BY <1>1, <1>2 DEF JobInv, NotifiesInOrder
<1>4. job'.again = (job.job.id = j.id) /\ job'.job.id = j.id
  BY <1>0, <1>2, NotifyTypes DEF Notified
<1>5. job.job.id \in Nat /\ j.id \in Nat
  BY <1>0, <1>2 DEF ContextTypes, Jobs
<1>6. gwork.id <= job.job.id /\ gwork.id \in Int
  BY <1>0 DEF JobInv, UnitsBehind, UnitBehind, WorkTypes, Units
<1> HIDE DEF j
<1>7. CASE job.job.id = j.id
  BY <1>4, <1>7
<1>8. CASE job.job.id # j.id
  BY <1>3, <1>4, <1>5, <1>6, <1>8
<1> QED
  BY <1>7, <1>8

(* stratum_notify replaces the job by a later one or by itself: what was   *)
(* drawn from the old one stays behind the new one.                        *)
LEMMA JobNotified ==
  ASSUME Types, JobInv, Unnotified, Notified, UNCHANGED <<gwork, gdiff, glock, work>>
  PROVE  JobInv'
<1> DEFINE j == Head(rx).val
<1>0. WireTypes /\ ContextTypes /\ WorkTypes
  BY DEF Types
<1>1. /\ rx # <<>> /\ Head(rx) = rx[1] /\ rx[1] \in Lines /\ rx[1].kind = "notify"
      /\ rx' = Tail(rx) /\ Len(rx) \in Nat /\ Len(rx) > 0 /\ Len(rx') = Len(rx) - 1
      /\ \A i \in 1 .. Len(rx') : i + 1 \in 1 .. Len(rx) /\ rx'[i] = rx[i + 1]
  BY <1>0, FromTail DEF Notified, WireTypes
<1>2. j \in Jobs /\ j = rx[1].val /\ 1 \in 1 .. Len(rx)
  BY <1>1, NotifyLine
<1>3. 1 <= j.id /\ job.job.id <= j.id /\ j.id <= pjob.id
  BY <1>1, <1>2 DEF JobInv, NotifiesInOrder
<1>4. job' = [job |-> j, ses |-> x1, diff |-> next_diff, again |-> job.job.id = j.id,
              x2 |-> IF job.job.id = j.id THEN job.x2 ELSE 0,
              wrapped |-> job.job.id = j.id /\ job.wrapped]
  BY <1>0, <1>2, NotifyTypes DEF Notified
<1>5. pjob' = pjob /\ pjob \in Jobs
  BY <1>0 DEF Unnotified, WireTypes
<1>6. \A w \in Units : w.id \in Int
  BY DEF Units
<1>7. job.job.id \in Nat /\ j.id \in Nat
  BY <1>0, <1>2 DEF ContextTypes, Jobs
<1> HIDE DEF j
<1>8. PoolAhead'
  BY <1>3, <1>4, <1>5 DEF JobInv, PoolAhead
<1>9. NotifiesInOrder'
  <2>1. ASSUME NEW i \in 1 .. Len(rx'), rx'[i].kind = "notify"
        PROVE  /\ 1 <= rx'[i].val.id /\ j.id <= rx'[i].val.id /\ rx'[i].val.id <= pjob.id
               /\ rx'[i].val.id = pjob.id => rx'[i].val = pjob
    <3>1. i + 1 \in 1 .. Len(rx) /\ 1 < i + 1 /\ rx'[i] = rx[i + 1]
      BY <1>1, <2>1
    <3> QED
      BY <1>1, <1>2, <2>1, <3>1 DEF JobInv, NotifiesInOrder
  <2>2. ASSUME NEW i \in 1 .. Len(rx'), NEW k \in 1 .. Len(rx'), i < k,
               rx'[i].kind = "notify", rx'[k].kind = "notify"
        PROVE  rx'[i].val.id <= rx'[k].val.id
    <3>1. i + 1 \in 1 .. Len(rx) /\ k + 1 \in 1 .. Len(rx) /\ i + 1 < k + 1
          /\ rx'[i] = rx[i + 1] /\ rx'[k] = rx[k + 1]
      BY <1>1, <2>2
    <3> QED
      BY <2>2, <3>1 DEF JobInv, NotifiesInOrder
  <2> QED
    BY <1>4, <1>5, <2>1, <2>2 DEF NotifiesInOrder
<1>10. ASSUME NEW w \in Units, UnitBehind(w) PROVE UnitBehind(w)'
  <2>1. CASE job.job.id = j.id
    BY <1>4, <1>10, <2>1 DEF UnitBehind
  <2>2. CASE job.job.id # j.id
    BY <1>3, <1>4, <1>6, <1>7, <1>10, <2>2 DEF UnitBehind
  <2> QED
    BY <2>1, <2>2
<1>11. UnitsBehind'
  BY <1>0, <1>10 DEF JobInv, UnitsBehind, WorkTypes, UnitBehind
<1>12. NoJobYet'
  BY <1>3, <1>4, <1>7 DEF NoJobYet
<1>13. job'.again \/ gwork'.id # job'.job.id
  BY NotifiedAgain
<1>14. SessionOfJob'
  BY <1>13 DEF SessionOfJob
<1> QED
  BY <1>8, <1>9, <1>11, <1>12, <1>14 DEF JobInv

(* A new unit is drawn from the job. *)
LEMMA JobDrawn ==
  ASSUME Types, JobInv, Unnotified, gwork' = gen_unit, job' = NextX2(job),
         work' = work
  PROVE  JobInv'
<1>0. WireTypes /\ ContextTypes /\ WorkTypes
  BY DEF Types
<1>1. /\ gen_unit \in Units
      /\ job'.job = job.job /\ job'.ses = job.ses /\ job'.diff = job.diff
      /\ gwork'.id = job.job.id /\ gwork'.x2 = job.x2 /\ gwork'.ses = job.ses
      /\ ~ job'.wrapped => job'.x2 = job.x2 + 1 /\ ~ job.wrapped
  BY <1>0, UnitTypes
<1>2. job.x2 \in Nat /\ job.job.id \in Nat
  BY <1>0 DEF ContextTypes, Jobs
<1>3. NotifiesInOrder'
  BY <1>0, <1>1, OrderKept DEF JobInv
<1>4. UnitBehind(gwork)'
  BY <1>1, <1>2 DEF UnitBehind
<1>5. ASSUME NEW w \in Units, UnitBehind(w) PROVE UnitBehind(w)'
  <2>1. w.x2 \in Nat
    BY DEF Units
  <2> QED
    BY <1>1, <1>2, <1>5, <2>1 DEF UnitBehind
<1>6. UnitsBehind'
  BY <1>0, <1>4, <1>5 DEF JobInv, UnitsBehind, WorkTypes, UnitBehind
<1>7. PoolAhead' /\ NoJobYet' /\ SessionOfJob'
  BY <1>1 DEF JobInv, PoolAhead, NoJobYet, SessionOfJob, Unnotified
<1> QED
  BY <1>3, <1>6, <1>7 DEF JobInv

(* The units in use change without one being drawn. *)
LEMMA JobUndrawn ==
  ASSUME Types, JobInv, Unnotified, job' = job,
         gwork' \in {gwork, NoUnit, [gwork EXCEPT !.id = -1, !.prev = 0]},
         \A m \in Miners : work'[m] \in {work[m], gwork, NoUnit}
  PROVE  JobInv'
<1>0. WireTypes /\ ContextTypes /\ WorkTypes
  BY DEF Types
<1>1. job.job.id \in Nat /\ gwork \in Units
  BY <1>0 DEF ContextTypes, Jobs, WorkTypes
<1>2. NoUnit.id = 0 /\ NoUnit.ses = 0 /\ UnitBehind(NoUnit)
  BY <1>1 DEF NoUnit, Unit, NoJob, UnitBehind
<1> DEFINE invalid == [gwork EXCEPT !.id = -1, !.prev = 0]
<1>3. invalid.id = -1 /\ UnitBehind(invalid)
  BY <1>1 DEF Units, UnitBehind
<1> HIDE DEF invalid
<1>4. NotifiesInOrder'
  BY <1>0, OrderKept DEF JobInv
<1>5. UnitsBehind'
  <2>1. UnitBehind(gwork')
    BY <1>2, <1>3 DEF JobInv, UnitsBehind, invalid
  <2>2. \A m \in Miners : UnitBehind(work'[m])
    BY <1>2 DEF JobInv, UnitsBehind
  <2> QED
    BY <2>1, <2>2 DEF UnitsBehind, UnitBehind
<1>6. PoolAhead' /\ NoJobYet'
  BY DEF JobInv, PoolAhead, NoJobYet, Unnotified
<1>7. SessionOfJob'
  <2>1. CASE gwork' = gwork
    BY <2>1 DEF JobInv, SessionOfJob
  <2>2. CASE gwork' = NoUnit
    BY <1>2, <2>2 DEF JobInv, SessionOfJob, NoJobYet
  <2>3. CASE gwork' = invalid
    BY <1>1, <1>3, <2>3 DEF SessionOfJob
  <2> QED
    BY <2>1, <2>2, <2>3 DEF invalid
<1> QED
  BY <1>4, <1>5, <1>6, <1>7 DEF JobInv

(* The pool makes a job or announces it: it is the last one. *)
LEMMA JobPool ==
  ASSUME Types, JobInv, PoolJob \/ PoolAnnounce, UNCHANGED <<job, gwork, gdiff, glock, work>>
  PROVE  JobInv'
<1>0. WireTypes /\ ContextTypes /\ WorkTypes
  BY DEF Types
<1>1. pjob \in Jobs /\ rx \in Seq(Lines)
  BY <1>0 DEF WireTypes
<1>2. UnitsBehind' /\ NoJobYet' /\ SessionOfJob'
  BY DEF JobInv, UnitsBehind, UnitBehind, NoJobYet, SessionOfJob
<1>3. job.job.id \in Nat
  BY <1>0 DEF ContextTypes, Jobs
<1>4. CASE PoolJob
  <2>1. pjob'.id = pjob.id + 1 /\ rx' = rx
    BY <1>4 DEF PoolJob
  <2>2. pjob.id \in Nat
    BY <1>1 DEF Jobs
  <2>3. \A i \in 1 .. Len(rx) : rx[i].kind = "notify" => rx[i].val.id \in Nat
    BY <1>1, NotifyLine DEF Jobs
  <2>4. PoolAhead'
    BY <1>3, <2>1, <2>2 DEF JobInv, PoolAhead
  <2>5. NotifiesInOrder'
    BY <1>3, <2>1, <2>2, <2>3 DEF JobInv, NotifiesInOrder
  <2> QED
    BY <1>2, <2>4, <2>5 DEF JobInv
<1>5. CASE PoolAnnounce
  <2>1. rx' = Append(rx, Line("notify", pjob)) /\ pjob' = pjob
    BY <1>5 DEF PoolAnnounce
  <2>2. /\ Line("notify", pjob) \in Lines /\ Line("notify", pjob).val = pjob
    BY <1>1 DEF Line, Lines
  <2>3. /\ Len(rx') = Len(rx) + 1 /\ Len(rx) \in Nat
        /\ \A i \in 1 .. Len(rx) : rx'[i] = rx[i]
        /\ rx'[Len(rx) + 1].val = pjob
    BY <1>1, <2>1, <2>2, FromAppend
  <2>4. PoolAhead'
    BY <2>1 DEF JobInv, PoolAhead
  <2>5. pjob.id \in Nat
    BY <1>1 DEF Jobs
  <2>6. ASSUME NEW i \in 1 .. Len(rx'), rx'[i].kind = "notify"
        PROVE  /\ 1 <= rx'[i].val.id /\ job.job.id <= rx'[i].val.id /\ rx'[i].val.id <= pjob.id
               /\ rx'[i].val.id = pjob.id => rx'[i].val = pjob
    <3>1. CASE i = Len(rx) + 1
      BY <2>3, <2>5, <3>1 DEF JobInv, PoolAhead
    <3>2. CASE i \in 1 .. Len(rx)
      BY <2>3, <2>6, <3>2 DEF JobInv, NotifiesInOrder
    <3> QED
      BY <2>3, <3>1, <3>2
  <2>7. ASSUME NEW i \in 1 .. Len(rx'), NEW k \in 1 .. Len(rx'), i < k,
               rx'[i].kind = "notify", rx'[k].kind = "notify"
        PROVE  rx'[i].val.id <= rx'[k].val.id
    <3>1. CASE k = Len(rx) + 1
      BY <2>3, <2>6, <2>7, <3>1
    <3>2. CASE k \in 1 .. Len(rx)
      <4>1. i \in 1 .. Len(rx)
        BY <2>7, <3>2
      <4> QED
        BY <2>3, <2>7, <3>2, <4>1 DEF JobInv, NotifiesInOrder
    <3> QED
      BY <2>3, <3>1, <3>2
  <2>8. NotifiesInOrder'
    BY <2>1, <2>6, <2>7 DEF NotifiesInOrder
  <2> QED
    BY <1>2, <2>4, <2>8 DEF JobInv
<1> QED
  BY <1>4, <1>5

(* A miner draws a unit, copies g_work, or ends its scan. *)
LEMMA JobMiner ==
  ASSUME Types, JobInv, Unnotified, NEW m \in Miners, Miner(m)
  PROVE  JobInv'
<1>0. WorkTypes
  BY DEF Types
<1>1. work \in [Miners -> Units] /\ gwork \in Units
  BY <1>0 DEF WorkTypes
<1> USE <1>0, <1>1
<1>2. CASE get_work(m)
  BY <1>2, JobUndrawn DEF get_work
<1>3. CASE got_work(m)
  BY <1>3, JobUndrawn DEF got_work
<1>4. CASE GenStart(m)
  BY <1>4, JobUndrawn DEF GenStart
<1>5. CASE GenFill(m)
  <2>1. gwork' = gen_unit /\ job' = NextX2(job) /\ work' = work
    BY <1>5 DEF GenFill
  <2> QED
    BY <2>1, JobDrawn
<1>6. CASE GenTarget(m)
  <2>1. work' = [work EXCEPT ![m] = gwork] /\ UNCHANGED <<job, gwork>>
    BY <1>6 DEF GenTarget, take_over
  <2> QED
    BY <2>1, JobUndrawn
<1>7. CASE TakeWork(m)
  <2>1. work' = [work EXCEPT ![m] = gwork] /\ UNCHANGED <<job, gwork>>
    BY <1>7 DEF TakeWork, take_over, gVars
  <2> QED
    BY <2>1, JobUndrawn
<1>8. CASE ScanEnds(m) \/ submit_work(m)
  <2>1. work' = [work EXCEPT ![m] = NoUnit] /\ UNCHANGED <<job, gwork>>
    BY <1>8 DEF ScanEnds, submit_work, gVars
  <2> QED
    BY <2>1, JobUndrawn
<1> QED
  BY <1>2, <1>3, <1>4, <1>5, <1>6, <1>7, <1>8 DEF Miner

(* Every step keeps JobInv. *)
LEMMA JobStep ==
  Types /\ JobInv /\ [Next]_vars => JobInv'
<1> SUFFICES ASSUME Types, JobInv, [Next]_vars PROVE JobInv'
  OBVIOUS
<1>0. WireTypes /\ ContextTypes
  BY DEF Types
<1>1. CASE Unnotified /\ UNCHANGED <<job, gwork, gdiff, glock, work>>
  <2>1. NotifiesInOrder'
    BY <1>0, <1>1, OrderKept DEF JobInv
  <2>2. PoolAhead' /\ UnitsBehind' /\ NoJobYet' /\ SessionOfJob'
    BY <1>1 DEF JobInv, PoolAhead, UnitsBehind, UnitBehind, NoJobYet, SessionOfJob, Unnotified
  <2> QED
    BY <2>1, <2>2 DEF JobInv
<1>2. CASE Unnotified /\ Notified /\ UNCHANGED <<gwork, gdiff, glock, work>>
  BY <1>2, JobNotified
<1>3. CASE Unnotified /\ StratumGenerate /\ UNCHANGED work
  <2>1. gwork' = gen_unit /\ job' = NextX2(job)
    BY <1>3 DEF StratumGenerate
  <2> QED
    BY <1>3, <2>1, JobDrawn
<1>4. CASE Unnotified /\ \E m \in Miners : Miner(m)
  BY <1>4, JobMiner
<1>5. CASE (PoolJob \/ PoolAnnounce) /\ UNCHANGED <<job, gwork, gdiff, glock, work>>
  BY <1>5, JobPool
<1> QED
  BY <1>0, <1>1, <1>2, <1>3, <1>4, <1>5, StepOfJob
-----------------------------------------------------------------------------
(* Where the stratum thread is without a connection, and with an           *)
(* authorised one.                                                         *)
Main == {"work", "generate", "recv"}
Apart == {"pop", "reset", "connect", "out"}

(* There is a connection from stratum_connect to stratum_disconnect, and   *)
(* without one nothing of it is left.                                      *)
ConnInv ==
  /\ spc \in Apart \cup Handshake \cup Main
  /\ spc \in Apart => link = "none"
  /\ link = "none" => rx = <<>> /\ px1 = 0 /\ ~ announced /\ ~ crossed
  /\ spc \in Main => link # "none"

(* No line of kind k is under way; at most one is. *)
None(k) == \A i \in 1 .. Len(rx) : rx[i].kind # k
One(k)  == \A i, j \in 1 .. Len(rx) : rx[i].kind = k /\ rx[j].kind = k => i = j

(* Who answers what, as long as no share crosses the handshake: there is   *)
(* at most one answer to a subscription, for the present extranonce1, and  *)
(* the first time nothing comes before it;                                 *)
Subscribing ==
  /\ spc # "subscribed" => None("subscribed")
  /\ spc = "subscribe" /\ ~ retry => rx = <<>> /\ px1 = 0
  /\ spc = "subscribed" =>
       /\ One("subscribed")
       /\ \A i \in 1 .. Len(rx) : rx[i].kind = "subscribed" =>
            rx[i].val.x1 = px1 /\ (~ retry => i = 1)
       /\ ~ retry => IF rx = <<>> THEN px1 = 0 \/ link # "up"
                     ELSE rx[1].kind \in {"subscribed", "torn", "error"}

(* there is at most one acceptance until the main loop, and it answers the *)
(* request to be authorised.                                               *)
Authorising ==
  /\ spc \in {"subscribe", "subscribed", "authorize"} => None("true")
  /\ spc = "authorized" =>
       /\ One("true")
       /\ \A i \in 1 .. Len(rx) : rx[i].kind = "true" => rx[i].val = "auth" /\ pauth

(* and the main loop is reached with the extranonce1 of the connection,    *)
(* authorised, and only shares are answered from there on.                 *)
Admitted ==
  /\ spc \in {"authorize", "authorized"} \cup Main /\ link # "none" => x1 = px1
  /\ spc \in Main =>
       /\ pauth
       /\ \A i \in 1 .. Len(rx) : rx[i].kind = "true" => rx[i].val = "share"

HandInv == ~ crossed => Subscribing /\ Authorising /\ Admitted

(* At the start there is no connection. *)
LEMMA HandInit ==
  ASSUME Init
  PROVE  ConnInv /\ HandInv
BY DEF Init, ConnInv, HandInv, Subscribing, Authorising, Admitted, None, Main, Apart, Handshake

(* Lines that do not come in cannot answer. *)
LEMMA FromNone ==
  ASSUME NEW k, From(rx', rx, k)
  PROVE  (None(k) => None(k)') /\ (One(k) => One(k)')
<1>1. PICK d \in Int : \A i \in 1 .. Len(rx') :
        rx'[i].kind = k => i + d \in 1 .. Len(rx) /\ rx'[i] = rx[i + d]
  BY DEF From
<1>2. None(k) => None(k)'
  BY <1>1 DEF None
<1>3. ASSUME One(k), NEW i \in 1 .. Len(rx'), NEW j \in 1 .. Len(rx'),
             rx'[i].kind = k, rx'[j].kind = k
      PROVE  i = j
  <2>1. i + d \in 1 .. Len(rx) /\ rx'[i] = rx[i + d] /\ j + d \in 1 .. Len(rx) /\ rx'[j] = rx[j + d]
    BY <1>1, <1>3
  <2>2. i + d = j + d
    BY <1>3, <2>1 DEF One
  <2> QED
    BY <2>2
<1> QED
  BY <1>2, <1>3 DEF One

(* The connection is closed. *)
LEMMA HandHangup ==
  ASSUME Hangup, spc' \in {"reset", "out", "authorized"}
  PROVE  ConnInv' /\ HandInv'
<1>1. link' = "none" /\ rx' = <<>> /\ px1' = 0 /\ ~ announced' /\ ~ crossed'
  BY DEF Hangup
<1> QED
  BY <1>1 DEF ConnInv, HandInv, Subscribing, Authorising, Admitted, None, One, Main, Apart,
              Handshake

(* Nothing of interest comes in, and the thread stays where it is or in    *)
(* its main loop.                                                          *)
LEMMA HandKept ==
  ASSUME ConnInv, HandInv, From(rx', rx, "true"), From(rx', rx, "subscribed"),
         UNCHANGED <<retry, x1, px1, pauth>>, ~ crossed' => ~ crossed,
         link = "none" => ~ announced' /\ ~ crossed',
         link' = link \/ (link = "up" /\ link' = "gone"),
         spc' = spc \/ (spc \in Main /\ spc' \in Main),
         link = "none" => rx' = rx,
         spc \in {"subscribe", "subscribed"} /\ ~ retry => rx' = rx
  PROVE  ConnInv' /\ HandInv'
<1>1. ConnInv'
  BY DEF ConnInv, Main, Apart, Handshake
<1>2. ASSUME ~ crossed' PROVE Subscribing' /\ Authorising' /\ Admitted'
  <2>0. Subscribing /\ Authorising /\ Admitted /\ From(rx', rx, "true")
        /\ From(rx', rx, "subscribed")
    BY <1>2 DEF HandInv
  <2>1. PICK d \in Int : \A i \in 1 .. Len(rx') :
        rx'[i].kind = "true" => i + d \in 1 .. Len(rx) /\ rx'[i] = rx[i + d]
    BY <2>0 DEF From
  <2>2. PICK e \in Int : \A i \in 1 .. Len(rx') :
        rx'[i].kind = "subscribed" => i + e \in 1 .. Len(rx) /\ rx'[i] = rx[i + e]
    BY <2>0 DEF From
  <2>3. /\ None("true") => None("true")'
        /\ One("true") => One("true")'
        /\ None("subscribed") => None("subscribed")'
        /\ One("subscribed") => One("subscribed")'
    BY <2>0, FromNone
  <2>4. Subscribing'
    <3>1. CASE spc \in Main
      BY <2>0, <2>3, <3>1 DEF Subscribing, Main
    <3>2. CASE spc' = spc /\ spc # "subscribed"
      BY <2>0, <2>3, <3>2 DEF Subscribing
    <3>3. CASE spc' = spc /\ spc = "subscribed" /\ retry
      BY <2>0, <2>2, <2>3, <3>3 DEF Subscribing
    <3>4. CASE spc' = spc /\ spc = "subscribed" /\ ~ retry
      BY <2>0, <3>4 DEF Subscribing, One
    <3> QED
      BY <3>1, <3>2, <3>3, <3>4
  <2>5. Authorising'
    <3>1. CASE spc \in Main
      BY <3>1 DEF Authorising, Main
    <3>2. CASE spc' = spc
      BY <2>0, <2>1, <2>3, <3>2 DEF Authorising
    <3> QED
      BY <3>1, <3>2
  <2>6. Admitted'
    BY <2>0, <2>1 DEF Admitted, Main
  <2> QED
    BY <2>4, <2>5, <2>6
<1> QED
  BY <1>1, <1>2 DEF HandInv

(* Lines of the pool while the thread waits for the answer to its first    *)
(* subscription: nothing gets before that answer.                          *)
LEMMA FirstAnswer ==
  ASSUME WireTypes, ConnInv, HandInv, ~ crossed, spc = "subscribed", ~ retry,
         UNCHANGED <<spc, retry, px1>>, link' \in {link, "gone"}, link = "up",
         rx' \in Seq(Lines), One("subscribed")', None("true")',
         \A i \in 1 .. Len(rx') : rx'[i].kind = "subscribed" =>
           i = 1 /\ 1 \in 1 .. Len(rx) /\ rx'[1] = rx[1],
         rx' = <<>> => link' # "up" \/ rx = <<>>,
         rx' # <<>> => \/ rx # <<>> /\ rx'[1] \in {rx[1], Torn}
                       \/ rx = <<>> /\ px1 # 0
  PROVE  Subscribing' /\ Authorising'
<1>1. Subscribing
  BY DEF HandInv
<1>2. Torn.kind = "torn"
  BY DEF Torn, Line
<1>3. \A i \in 1 .. Len(rx') : rx'[i].kind = "subscribed" => rx'[i].val.x1 = px1 /\ i = 1
  BY <1>1 DEF Subscribing
<1>4. IF rx' = <<>> THEN px1 = 0 \/ link' # "up"
      ELSE rx'[1].kind \in {"subscribed", "torn", "error"}
  BY <1>1, <1>2 DEF Subscribing
<1> QED
  BY <1>3, <1>4 DEF Subscribing, Authorising

(* The pool and the network act while the thread waits. *)
LEMMA HandPool ==
  ASSUME WireTypes, ConnInv, HandInv, Pool
  PROVE  ConnInv' /\ HandInv'
<1>0. /\ UNCHANGED <<spc, retry, x1>> /\ Reading
      /\ PoolJob \/ PoolAnnounce \/ PoolExtra \/ Drop \/ Trickle
      /\ rx \in Seq(Lines)
  BY PoolFrame DEF WireTypes
<1>1. spc # "subscribe"
  BY <1>0 DEF Reading
<1>2. UNCHANGED <<px1, pauth, crossed>>
  BY <1>0 DEF PoolJob, PoolAnnounce, PoolExtra, Drop, Trickle
<1>3. From(rx', rx, "true") /\ From(rx', rx, "subscribed") /\ rx' \in Seq(Lines)
  <2>1. CASE PoolJob
    BY <1>0, <2>1, FromSame DEF PoolJob
  <2>2. CASE PoolAnnounce
    <3>1. /\ rx' = Append(rx, Line("notify", pjob)) /\ Line("notify", pjob) \in Lines
          /\ Line("notify", pjob).kind = "notify"
      BY <2>2 DEF PoolAnnounce, WireTypes, Line, Lines
    <3> QED
      BY <1>0, <3>1, FromAppend
  <2>3. CASE PoolExtra \/ Drop \/ Trickle
    BY <2>3, ExtraKept DEF Kept
  <2> QED
    BY <1>0, <2>1, <2>2, <2>3
<1>4. /\ link' = link \/ (link = "up" /\ link' = "gone")
      /\ link = "none" => ~ announced'
      /\ link = "none" => rx' = rx
  <2>1. CASE PoolJob
    BY <2>1 DEF PoolJob
  <2>2. CASE PoolAnnounce \/ PoolExtra \/ Drop
    <3>1. link = "up" /\ link' \in {link, "gone"}
      BY <2>2 DEF PoolAnnounce, PoolExtra, Drop
    <3> QED
      BY <3>1
  <2>3. CASE Trickle
    BY <2>3 DEF Trickle, ConnInv
  <2> QED
    BY <1>0, <2>1, <2>2, <2>3
<1>5. CASE ~ (spc = "subscribed" /\ ~ retry)
  BY <1>0, <1>1, <1>2, <1>3, <1>4, <1>5, HandKept DEF ConnInv
<1>6. CASE spc = "subscribed" /\ ~ retry
  <2>1. ConnInv'
    BY <1>0, <1>4, <1>2, <1>6 DEF ConnInv, Main, Apart, Handshake
  <2>2. CASE crossed
    BY <1>2, <2>1, <2>2 DEF HandInv
  <2>3. CASE ~ crossed
    <3>0. Subscribing /\ Authorising /\ Admitted
      BY <2>3 DEF HandInv
    <3>1. One("subscribed")' /\ None("true")'
      BY <1>3, <1>6, <3>0, FromNone DEF Subscribing, Authorising
    <3>2. Admitted'
      BY <1>0, <1>6 DEF Admitted, Main
    <3>3. CASE PoolJob
      BY <1>0, <1>1, <1>2, <1>3, <1>4, <3>3, HandKept DEF PoolJob, ConnInv
    <3>4. ASSUME NEW l \in Lines, rx' = Append(rx, l), l.kind # "subscribed", link = "up",
                 link' = link, px1 # 0
          PROVE  Subscribing' /\ Authorising'
      <4>1. /\ Len(rx') = Len(rx) + 1 /\ Len(rx) \in Nat
            /\ \A i \in 1 .. Len(rx) : rx'[i] = rx[i]
            /\ rx'[Len(rx) + 1] = l
        BY <1>0, <3>4, FromAppend
      <4>2. rx # <<>>
        BY <1>6, <3>0, <3>4 DEF Subscribing
      <4>3. Len(rx) > 0
        BY <1>0, <4>2
      <4>4. rx'[1] = rx[1] /\ 1 \in 1 .. Len(rx) /\ rx' # <<>>
        BY <1>3, <4>1, <4>3
      <4>5. \A i \in 1 .. Len(rx') : rx'[i].kind = "subscribed" => i = 1
        BY <1>6, <3>0, <3>4, <4>1 DEF Subscribing
      <4> QED
        BY <1>0, <1>2, <1>3, <1>6, <2>3, <3>1, <3>4, <4>2, <4>4, <4>5, FirstAnswer
    <3>5. CASE PoolAnnounce
      <4>1. /\ rx' = Append(rx, Line("notify", pjob)) /\ Line("notify", pjob) \in Lines
            /\ Line("notify", pjob).kind = "notify" /\ link = "up" /\ link' = link /\ px1 # 0
        BY <3>5 DEF PoolAnnounce, WireTypes, Line, Lines
      <4> QED
        BY <3>4, <4>1, <2>1, <3>2, <1>2 DEF HandInv
    <3>6. CASE PoolExtra
      <4>1. \E k \in {"diff", "request", "reconnect"}, v \in {0, 2} :
              /\ rx' = Append(rx, Line(k, v)) /\ Line(k, v) \in Lines
              /\ Line(k, v).kind # "subscribed" /\ link = "up" /\ link' = link /\ px1 # 0
        BY <3>6 DEF PoolExtra, Line, Lines
      <4> QED
        BY <3>4, <4>1, <2>1, <3>2, <1>2 DEF HandInv
    <3>7. CASE Drop
      <4>1. PICK l \in 0 .. Len(rx) : rx' = SubSeq(rx, 1, l)
        BY <3>7 DEF Drop
      <4>2. link = "up" /\ link' = "gone"
        BY <3>7 DEF Drop
      <4>3. Len(rx') = l /\ l <= Len(rx) /\ \A i \in 1 .. l : rx'[i] = rx[i] /\ i \in 1 .. Len(rx)
        BY <1>0, <4>1
      <4>4. \A i \in 1 .. Len(rx') : rx'[i].kind = "subscribed" =>
              i = 1 /\ 1 \in 1 .. Len(rx) /\ rx'[1] = rx[1]
        BY <1>6, <3>0, <4>3 DEF Subscribing
      <4>5. rx' # <<>> => rx # <<>> /\ rx'[1] = rx[1]
        <5>1. rx' # <<>> => 1 \in 1 .. l
          BY <1>3, <4>3
        <5> QED
          BY <1>0, <4>3, <5>1
      <4>6. Subscribing' /\ Authorising'
        BY <1>0, <1>2, <1>3, <1>6, <2>3, <3>1, <4>2, <4>4, <4>5, FirstAnswer
      <4> QED
        BY <4>6, <2>1, <3>2, <1>2 DEF HandInv
    <3>8. CASE Trickle
      <4>1. rx # <<>> /\ rx' = <<Torn, Torn>> \o Tail(rx) /\ link' = link
        BY <3>8 DEF Trickle
      <4>2. /\ rx'[1] = Torn /\ rx' # <<>>
            /\ \A i \in 1 .. Len(rx') : rx'[i].kind = "subscribed" =>
                 i - 1 \in 2 .. Len(rx) /\ rx'[i] = rx[i - 1]
        <5>1. ASSUME NEW k, k # "torn" PROVE TornFirst(rx', rx, k)
          BY <1>0, <4>1, <5>1, FromTrickle
        <5>2. TornFirst(rx', rx, "subscribed")
          BY <5>1
        <5> QED
          BY <5>2 DEF TornFirst
      <4>3. \A i \in 1 .. Len(rx') : rx'[i].kind # "subscribed"
        <5>1. \A i \in 2 .. Len(rx) : i \in 1 .. Len(rx) /\ i # 1
          BY <1>0
        <5> QED
          BY <1>6, <3>0, <4>2, <5>1 DEF Subscribing
      <4>4. Torn.kind = "torn"
        BY DEF Torn, Line
      <4>5. Subscribing'
        BY <1>0, <1>6, <3>1, <4>2, <4>3, <4>4 DEF Subscribing
      <4>6. Authorising'
        BY <1>0, <1>6, <3>1 DEF Authorising
      <4> QED
        BY <4>5, <4>6, <2>1, <3>2, <1>2 DEF HandInv
    <3> QED
      BY <1>0, <3>3, <3>5, <3>6, <3>7, <3>8
  <2> QED
    BY <2>2, <2>3
<1> QED
  BY <1>5, <1>6

(* A share that reaches the pool outside the handshake is answered as a    *)
(* share; one that reaches it during the handshake sets crossed.           *)
LEMMA HandWorkio ==
  ASSUME WireTypes, ConnInv, HandInv, Workio
  PROVE  ConnInv' /\ HandInv'
<1>0. UNCHANGED <<spc, retry, x1>> /\ rx \in Seq(Lines)
  BY WorkioFrame DEF WireTypes
<1>1. CASE UNCHANGED wire
  BY <1>0, <1>1, FromSame, HandKept DEF wire, ConnInv
<1>2. CASE link = "up" /\ link' = link /\ PoolShare(Command)
  <2>1. /\ Accepted \/ Kept
        /\ crossed' = (crossed \/ spc \in Handshake)
        /\ UNCHANGED <<px1, pauth, announced, lost, pjob>>
    BY <1>2, ShareWire
  <2>2. ConnInv'
    BY <1>0, <1>2, <2>1 DEF ConnInv, Main, Apart, Handshake
  <2>3. CASE crossed'
    BY <2>2, <2>3 DEF HandInv
  <2>4. CASE ~ crossed'
    <3>1. ~ crossed /\ spc \notin Handshake
      BY <2>1, <2>4
    <3>2. spc \in Main
      BY <1>2, <3>1 DEF ConnInv, Apart
    <3>3. Subscribing /\ Authorising /\ Admitted
      BY <3>1 DEF HandInv
    <3>4. CASE Kept
      <4>1. From(rx', rx, "true") /\ From(rx', rx, "subscribed")
        BY <3>4 DEF Kept
      <4>2. UNCHANGED <<retry, x1, px1, pauth>> /\ ~ crossed /\ ~ crossed'
        BY <1>0, <2>1, <2>4, <3>1
      <4>3. spc \notin {"subscribe", "subscribed"} /\ link # "none"
        BY <1>2, <3>1 DEF Handshake
      <4> QED
        BY <1>0, <1>2, <4>1, <4>2, <4>3, HandKept
    <3>5. CASE Accepted
      <4>1. /\ rx' = Append(rx, Line("true", "share")) /\ Line("true", "share") \in Lines
            /\ Line("true", "share").kind = "true" /\ Line("true", "share").val = "share"
        BY <3>5 DEF Accepted, Line
      <4>2. /\ Len(rx') = Len(rx) + 1 /\ Len(rx) \in Nat
            /\ \A i \in 1 .. Len(rx) : rx'[i] = rx[i]
            /\ rx'[Len(rx) + 1].val = "share"
            /\ rx'[Len(rx) + 1].kind = "true"
        BY <1>0, <4>1, FromAppend
      <4>3. Subscribing'
        BY <1>0, <3>2, <3>3, <4>2 DEF Subscribing, None, Main
      <4>4. Authorising'
        BY <1>0, <3>2 DEF Authorising, Main
      <4>5. Admitted'
        BY <1>0, <1>2, <2>1, <3>2, <3>3, <4>2 DEF Admitted
      <4> QED
        BY <2>2, <4>3, <4>4, <4>5 DEF HandInv
    <3> QED
      BY <2>1, <3>4, <3>5
  <2> QED
    BY <2>3, <2>4
<1> QED
  BY <1>1, <1>2, WorkioFrame

(* Methods that are handled while the thread waits. *)
LEMMA HandMethod ==
  ASSUME WireTypes, ContextTypes, ConnInv, HandInv, rx # <<>>,
         stratum_handle_method(Head(rx)), spc \in {"authorized", "recv"}, retry' = retry,
         spc' = IF spc = "authorized" THEN spc
                ELSE IF link' = "none" THEN "reset" ELSE "work"
  PROVE  ConnInv' /\ HandInv'
<1>1. CASE TakeLine /\ Kept
  <2>1. UNCHANGED <<link, px1, pauth, crossed, announced>>
    BY <1>1 DEF TakeLine
  <2>2. link # "none"
    BY DEF ConnInv
  <2>3. x1' = x1
    BY MethodWire DEF stratum_notify, Hangup, TakeLine
  <2> QED
    BY <1>1, <2>1, <2>2, <2>3, HandKept DEF Kept, Main
<1>2. CASE Hangup
  <2>1. link' = "none"
    BY <1>2 DEF Hangup
  <2> QED
    BY <1>2, <2>1, HandHangup
<1> QED
  BY <1>1, <1>2, MethodWire

(* The subscription is sent: its answer is the only one under way. *)
LEMMA HandSubscribe ==
  ASSUME WireTypes, ContextTypes, ConnInv, HandInv, stratum_subscribe
  PROVE  ConnInv' /\ HandInv'
<1> DEFINE s == IF retry THEN 0 ELSE session_id
<1>0. /\ spc = "subscribe" /\ spc' = "subscribed" /\ UNCHANGED <<retry, x1, link>>
      /\ rx \in Seq(Lines) /\ link # "none"
      /\ PoolSubscribe(s) \/ PoolIdle
  BY DEF stratum_subscribe, send_line, sctxVars, WireTypes
<1>1. s \in Nat
  BY DEF ContextTypes
<1> HIDE DEF s
<1>2. UNCHANGED <<pauth, crossed>>
  BY <1>0, <1>1, SubscribeWire DEF PoolIdle
<1>3. ConnInv'
  BY <1>0 DEF ConnInv, Main, Apart, Handshake
<1>4. CASE crossed
  BY <1>2, <1>3, <1>4 DEF HandInv
<1>5. CASE ~ crossed
  <2>0. Subscribing /\ Authorising /\ Admitted
    BY <1>5 DEF HandInv
  <2>1. None("subscribed") /\ None("true") /\ (~ retry => rx = <<>> /\ px1 = 0)
    BY <1>0, <2>0 DEF Subscribing, Authorising
  <2>2. Admitted'
    BY <1>0 DEF Admitted, Main
  <2>3. ASSUME NEW l \in Lines, rx' = Append(rx, l), l.kind \in {"subscribed", "error"},
               l.kind = "subscribed" => l.val.x1 = px1'
        PROVE  Subscribing' /\ Authorising'
    <3>1. /\ Len(rx') = Len(rx) + 1 /\ Len(rx) \in Nat
          /\ \A i \in 1 .. Len(rx) : rx'[i] = rx[i]
          /\ rx'[Len(rx) + 1] = l /\ rx' \in Seq(Lines)
      BY <1>0, <2>3, FromAppend
    <3>2. \A i \in 1 .. Len(rx') : i \in 1 .. Len(rx) \/ i = Len(rx) + 1
      BY <3>1
    <3>3. \A i \in 1 .. Len(rx') : rx'[i].kind = "subscribed" => i = Len(rx) + 1
      BY <2>1, <3>1, <3>2 DEF None
    <3>4. \A i \in 1 .. Len(rx') : rx'[i].kind # "true"
      BY <2>1, <2>3, <3>1, <3>2 DEF None
    <3>5. One("subscribed")'
      BY <3>3 DEF One
    <3>6. rx' # <<>> /\ (~ retry => Len(rx) + 1 = 1)
      <4>1. Len(rx') # 0
        BY <3>1
      <4> QED
        BY <2>1, <3>1, <4>1
    <3>7. Subscribing'
      BY <1>0, <2>3, <3>1, <3>3, <3>5, <3>6 DEF Subscribing
    <3>8. Authorising'
      BY <1>0, <3>4 DEF Authorising, None
    <3> QED
      BY <3>7, <3>8
  <2>4. CASE PoolSubscribe(s)
    <3>1. CASE Answered
      <4>1. PICK x \in Nat, sid \in Nat :
              /\ px1' = x /\ rx' = Append(rx, Line("subscribed", [x1 |-> x, sid |-> sid]))
              /\ Line("subscribed", [x1 |-> x, sid |-> sid]) \in Lines
        BY <3>1 DEF Answered
      <4> DEFINE l == Line("subscribed", [x1 |-> x, sid |-> sid])
      <4>2. l \in Lines /\ rx' = Append(rx, l) /\ l.kind = "subscribed" /\ l.val.x1 = px1'
        BY <4>1 DEF Line
      <4> HIDE DEF l
      <4> QED
        BY <1>3, <2>2, <2>3, <4>2 DEF HandInv
    <3>2. CASE rx' = Append(rx, Line("error", 0))
      <4>1. Line("error", 0).kind = "error"
        BY DEF Line
      <4> QED
        BY <1>3, <2>2, <2>3, <3>2, <4>1, ErrorLine DEF HandInv
    <3> QED
      BY <1>1, <2>4, <3>1, <3>2, SubscribeWire
  <2>5. CASE PoolIdle
    <3>1. UNCHANGED <<rx, px1>>
      BY <2>5 DEF PoolIdle
    <3>2. Subscribing'
      BY <1>0, <2>1, <3>1 DEF Subscribing, None, One
    <3>3. Authorising'
      BY <1>0, <2>1, <3>1 DEF Authorising, None
    <3> QED
      BY <1>3, <2>2, <3>2, <3>3 DEF HandInv
  <2> QED
    BY <1>0, <2>4, <2>5
<1> QED
  BY <1>4, <1>5

(* The answer to the subscription is taken, or something else is, and the  *)
(* thread subscribes once more.                                            *)
LEMMA HandSubscribed ==
  ASSUME WireTypes, ConnInv, HandInv, stratum_subscribed \/ stratum_subscribe_again
  PROVE  ConnInv' /\ HandInv'
<1>0. /\ spc = "subscribed" /\ rx # <<>> /\ TakeLine /\ rx \in Seq(Lines)
      /\ spc' \in {"authorize", "subscribe"}
  BY DEF stratum_subscribed, stratum_subscribe_again, WireTypes
<1>1. /\ rx' = Tail(rx) /\ UNCHANGED <<link, px1, pauth, announced, crossed>>
  BY <1>0 DEF TakeLine
<1>2. /\ Len(rx) \in Nat /\ Len(rx) > 0 /\ Head(rx) = rx[1] /\ Len(rx') = Len(rx) - 1
      /\ \A i \in 1 .. Len(rx') : i + 1 \in 1 .. Len(rx) /\ rx'[i] = rx[i + 1]
  BY <1>0, <1>1, FromTail
<1>3. link # "none"
  BY <1>0 DEF ConnInv
<1>4. ConnInv'
  BY <1>0, <1>1, <1>3 DEF ConnInv, Main, Apart, Handshake
<1>5. CASE crossed
  BY <1>1, <1>4, <1>5 DEF HandInv
<1>6. CASE ~ crossed
  <2>0. Subscribing /\ Authorising
    BY <1>6 DEF HandInv
  <2>1. None("true")'
    BY <1>0, <1>2, <2>0 DEF Authorising, None
  <2>2. Authorising'
    BY <1>0, <2>1 DEF Authorising
  <2>3. 1 \in 1 .. Len(rx) /\ \A i \in 1 .. Len(rx') : i + 1 # 1
    BY <1>2
  <2>4. CASE stratum_subscribed
    <3>1. rx[1].kind = "subscribed" /\ x1' = rx[1].val.x1 /\ spc' = "authorize"
      BY <1>2, <2>4 DEF stratum_subscribed
    <3>2. None("subscribed")'
      BY <1>0, <1>2, <2>0, <2>3, <3>1 DEF Subscribing, One, None
    <3>3. Subscribing'
      BY <3>1, <3>2 DEF Subscribing
    <3>4. x1' = px1
      BY <1>0, <2>0, <2>3, <3>1 DEF Subscribing
    <3>5. Admitted'
      BY <1>1, <3>1, <3>4 DEF Admitted, Main
    <3> QED
      BY <1>4, <2>2, <3>3, <3>5 DEF HandInv
  <2>5. CASE stratum_subscribe_again
    <3>1. rx[1].kind # "subscribed" /\ ~ retry /\ retry' = TRUE /\ spc' = "subscribe"
      BY <1>2, <2>5 DEF stratum_subscribe_again
    <3>2. None("subscribed")'
      BY <1>0, <1>2, <2>0, <2>3, <3>1 DEF Subscribing, None
    <3>3. Subscribing'
      BY <3>1, <3>2 DEF Subscribing
    <3>4. Admitted'
      BY <3>1 DEF Admitted, Main
    <3> QED
      BY <1>4, <2>2, <3>3, <3>4 DEF HandInv
  <2> QED
    BY <2>4, <2>5
<1> QED
  BY <1>5, <1>6

(* The request to be authorised is sent, and no acceptance is under way. *)
LEMMA HandAuthorize ==
  ASSUME WireTypes, ConnInv, HandInv, stratum_authorize
  PROVE  ConnInv' /\ HandInv'
<1>0. /\ spc = "authorize" /\ spc' = "authorized" /\ UNCHANGED <<retry, x1, link>>
      /\ rx \in Seq(Lines) /\ link # "none"
      /\ PoolAuthorize \/ PoolIdle
  BY DEF stratum_authorize, send_line, sctxVars, WireTypes
<1>1. UNCHANGED <<px1, crossed, announced>>
  BY <1>0, AuthorizeWire DEF PoolIdle
<1>2. ConnInv'
  BY <1>0 DEF ConnInv, Main, Apart, Handshake
<1>3. CASE crossed
  BY <1>1, <1>2, <1>3 DEF HandInv
<1>4. CASE ~ crossed
  <2>0. Subscribing /\ Authorising /\ Admitted
    BY <1>4 DEF HandInv
  <2>1. None("subscribed") /\ None("true")
    BY <1>0, <2>0 DEF Subscribing, Authorising
  <2>2. Admitted'
    BY <1>0, <1>1, <2>0 DEF Admitted, Main
  <2>3. CASE Authorised
    <3>1. /\ rx' = Append(rx, Line("true", "auth")) /\ Line("true", "auth") \in Lines
          /\ Line("true", "auth").kind = "true" /\ Line("true", "auth").val = "auth"
          /\ pauth' = TRUE
      BY <2>3 DEF Authorised, Line
    <3>2. /\ Len(rx') = Len(rx) + 1 /\ Len(rx) \in Nat
          /\ \A i \in 1 .. Len(rx) : rx'[i] = rx[i]
          /\ rx'[Len(rx) + 1].val = "auth" /\ rx'[Len(rx) + 1].kind = "true"
      BY <1>0, <3>1, FromAppend
    <3>3. \A i \in 1 .. Len(rx') : i \in 1 .. Len(rx) \/ i = Len(rx) + 1
      BY <3>2
    <3>4. \A i \in 1 .. Len(rx') : rx'[i].kind = "true" => i = Len(rx) + 1
      BY <2>1, <3>2, <3>3 DEF None
    <3>5. None("subscribed")'
      BY <2>1, <3>2, <3>3 DEF None
    <3>6. Subscribing'
      BY <1>0, <3>5 DEF Subscribing
    <3>7. One("true")'
      BY <3>4 DEF One
    <3>8. Authorising'
      BY <1>0, <3>1, <3>2, <3>4, <3>7 DEF Authorising
    <3> QED
      BY <1>2, <2>2, <3>6, <3>8 DEF HandInv
  <2>4. CASE From(rx', rx, "true") /\ From(rx', rx, "subscribed")
    <3>1. None("subscribed")' /\ None("true")'
      BY <2>1, <2>4, FromNone
    <3>2. Subscribing' /\ Authorising'
      BY <1>0, <3>1 DEF Subscribing, Authorising, None, One
    <3> QED
      BY <1>2, <2>2, <3>2 DEF HandInv
  <2> QED
    BY <1>0, <2>3, <2>4, AuthorizeWire, FromSame DEF Kept, PoolIdle
<1> QED
  BY <1>3, <1>4

(* The first line that is no method is taken for the answer: it is the     *)
(* answer, since it is the only acceptance under way.                      *)
LEMMA HandAuthorized ==
  ASSUME WireTypes, ConnInv, HandInv, stratum_authorized
  PROVE  ConnInv' /\ HandInv'
<1>0. /\ spc = "authorized" /\ rx # <<>> /\ spc' = "work" /\ retry' = retry
      /\ Granted(Head(rx)) /\ TakeLine /\ Kept /\ x1' = x1 /\ rx \in Seq(Lines)
  BY NotMethodWire DEF stratum_authorized, WireTypes
<1>1. /\ rx' = Tail(rx) /\ UNCHANGED <<link, px1, pauth, announced, crossed>>
  BY <1>0 DEF TakeLine
<1>2. /\ Len(rx) \in Nat /\ Len(rx) > 0 /\ Head(rx) = rx[1] /\ Len(rx') = Len(rx) - 1
      /\ \A i \in 1 .. Len(rx') : i + 1 \in 1 .. Len(rx) /\ rx'[i] = rx[i + 1]
  BY <1>0, <1>1, FromTail
<1>3. link # "none"
  BY <1>0 DEF ConnInv
<1>4. ConnInv'
  BY <1>0, <1>1, <1>3 DEF ConnInv, Main, Apart, Handshake
<1>5. CASE crossed
  BY <1>1, <1>4, <1>5 DEF HandInv
<1>6. CASE ~ crossed
  <2>0. Subscribing /\ Authorising /\ Admitted
    BY <1>6 DEF HandInv
  <2>1. 1 \in 1 .. Len(rx) /\ \A i \in 1 .. Len(rx') : i + 1 # 1
    BY <1>2
  <2>2. rx[1].kind = "true" /\ pauth
    BY <1>0, <1>2, <2>0, <2>1 DEF Granted, Subscribing, Authorising, None
  <2>3. None("true")'
    BY <1>0, <1>2, <2>0, <2>1, <2>2 DEF Authorising, One, None
  <2>4. Subscribing'
    BY <1>0, <2>0, FromNone DEF Subscribing, Kept
  <2>5. Authorising'
    BY <1>0 DEF Authorising
  <2>6. Admitted'
    BY <1>0, <1>1, <2>0, <2>2, <2>3 DEF Admitted, None
  <2> QED
    BY <1>4, <2>4, <2>5, <2>6 DEF HandInv
<1> QED
  BY <1>5, <1>6

(* Every step keeps the pairing of requests and answers. *)
LEMMA HandStep ==
  Types /\ ConnInv /\ HandInv /\ [Next]_vars => ConnInv' /\ HandInv'
<1> SUFFICES ASSUME Types, ConnInv, HandInv, [Next]_vars PROVE ConnInv' /\ HandInv'
  OBVIOUS
<1>0. WireTypes /\ ContextTypes /\ rx \in Seq(Lines)
  BY DEF Types, WireTypes
<1>1. ASSUME UNCHANGED <<wire, retry, x1>>, spc' = spc \/ (spc \in Main /\ spc' \in Main)
      PROVE  ConnInv' /\ HandInv'
  BY <1>0, <1>1, FromSame, HandKept DEF wire, ConnInv
<1>2. CASE UNCHANGED vars
  BY <1>1, <1>2 DEF vars, wire, poolVars, connVars, threadVars, sctxVars
<1>3. CASE Pool
  BY <1>0, <1>3, HandPool
<1>4. CASE Workio
  BY <1>0, <1>4, HandWorkio
<1>5. CASE Tick
  BY <1>1, <1>5, TickFrame
<1>6. ASSUME NEW m \in Miners, Miner(m) PROVE ConnInv' /\ HandInv'
  BY <1>1, <1>6, MinerFrame
<1>7. CASE StratumPop \/ StratumReset
  <2>1. /\ UNCHANGED wire /\ spc \in {"pop", "reset"} /\ spc' \in {"reset", "connect"}
    BY <1>7 DEF StratumPop, StratumReset, wire, poolVars, connVars
  <2>2. ConnInv'
    BY <2>1 DEF ConnInv, Apart, Main, Handshake, wire
  <2>3. HandInv'
    BY <2>1 DEF HandInv, Subscribing, Authorising, Admitted, Main, None, wire
  <2> QED
    BY <2>2, <2>3
<1>8. CASE stratum_connect
  <2>1. /\ spc = "connect" /\ spc' = "subscribe" /\ rx' = <<>> /\ link' = "up" /\ px1' = px1
    BY <1>8 DEF stratum_connect
  <2>2. px1 = 0
    BY <2>1 DEF ConnInv, Apart
  <2>3. ConnInv'
    BY <2>1 DEF ConnInv, Apart, Main, Handshake
  <2>4. HandInv'
    BY <2>1, <2>2 DEF HandInv, Subscribing, Authorising, Admitted, Main, None
  <2> QED
    BY <2>3, <2>4
<1>9. CASE stratum_connect_fails \/ handshake_fails
  <2>1. stratum_disconnect
    BY <1>9 DEF stratum_connect_fails, handshake_fails
  <2> QED
    BY <2>1, DisconnectFrame, HandHangup
<1>10. CASE stratum_authorize_method
  <2>1. /\ rx # <<>> /\ stratum_handle_method(Head(rx)) /\ spc = "authorized"
        /\ spc' = spc /\ retry' = retry
    BY <1>10 DEF stratum_authorize_method, threadVars
  <2> QED
    BY <1>0, <2>1, HandMethod
<1>11. CASE StratumMethod
  <2>1. /\ rx # <<>> /\ stratum_handle_method(Head(rx)) /\ spc = "recv"
        /\ spc' = IF link' = "none" THEN "reset" ELSE "work"
        /\ retry' = retry
    BY <1>11 DEF StratumMethod
  <2> QED
    BY <1>0, <2>1, HandMethod
<1>12. CASE StratumCheck \/ StratumGenerate
  <2>1. UNCHANGED <<wire, retry, x1>> /\ spc \in Main /\ spc' \in Main
    BY <1>12 DEF StratumCheck, StratumGenerate, wire, poolVars, connVars, sctxVars, Main
  <2> QED
    BY <1>1, <2>1
<1>13. CASE stratum_handle_response
  <2>1. /\ spc = "recv" /\ spc' = "work" /\ rx # <<>> /\ not_a_method(Head(rx))
        /\ retry' = retry
    BY <1>13 DEF stratum_handle_response
  <2>2. TakeLine /\ Kept /\ x1' = x1
    BY <1>0, <2>1, NotMethodWire
  <2>3. UNCHANGED <<link, px1, pauth, announced, crossed>>
    BY <2>2 DEF TakeLine
  <2>4. link # "none"
    BY <2>1 DEF ConnInv, Main
  <2> QED
    BY <2>1, <2>2, <2>3, <2>4, HandKept DEF Kept, Main
<1>14. CASE StratumInterrupted
  BY <1>14, HandHangup DEF StratumInterrupted
<1>15. CASE StratumThread
  BY <1>0, <1>7, <1>8, <1>9, <1>10, <1>11, <1>12, <1>13, <1>14, <1>15, HandSubscribe,
     HandSubscribed, HandAuthorize, HandAuthorized DEF StratumThread
<1> QED
  BY <1>2, <1>3, <1>4, <1>5, <1>6, <1>15, Zenon DEF Next

-----------------------------------------------------------------------------
(* The main loop waits for a line only when g_work is made, or being made, *)
(* from the job at hand.                                                   *)
RecvInv == spc = "recv" /\ job.job.id # 0 => gwork.id \in {-1, job.job.id}

(* The stratum thread comes to wait from these two steps only. *)
LEMMA ComesToWait ==
  ASSUME StratumThread, spc' = "recv"
  PROVE  StratumCheck \/ StratumGenerate
<1>1. ~ (StratumPop \/ StratumReset \/ stratum_connect)
  BY DEF StratumPop, StratumReset, stratum_connect
<1>2. ~ (stratum_connect_fails \/ handshake_fails)
  <2>1. stratum_disconnect => spc' \in {"out", "reset"}
    BY DisconnectFrame
  <2> QED
    BY <2>1 DEF stratum_connect_fails, handshake_fails
<1>3. ~ (stratum_subscribe \/ stratum_subscribed \/ stratum_subscribe_again)
  BY DEF stratum_subscribe, stratum_subscribed, stratum_subscribe_again
<1>4. ~ (stratum_authorize \/ stratum_authorize_method \/ stratum_authorized)
  BY DEF stratum_authorize, stratum_authorize_method, stratum_authorized, threadVars
<1>5. ~ (StratumMethod \/ stratum_handle_response \/ StratumInterrupted)
  BY DEF StratumMethod, stratum_handle_response, StratumInterrupted
<1> QED
  BY <1>1, <1>2, <1>3, <1>4, <1>5 DEF StratumThread

(* At the start the thread does not wait for a line. *)
LEMMA RecvInit ==
  ASSUME Init
  PROVE  RecvInv
BY DEF Init, RecvInv

(* Every step keeps RecvInv. *)
LEMMA RecvStep ==
  Types /\ LockInv /\ RecvInv /\ [Next]_vars => RecvInv'
<1> SUFFICES ASSUME Types, LockInv, RecvInv, [Next]_vars PROVE RecvInv'
  OBVIOUS
<1>0. ContextTypes /\ gwork \in Units
  BY DEF Types, WorkTypes
<1>1. CASE UNCHANGED <<spc, job, gwork>>
  BY <1>1 DEF RecvInv
<1>2. CASE StratumThread
  <2>1. CASE StratumCheck
    <3>1. /\ UNCHANGED <<job, gwork>>
          /\ spc' = "recv" => ~ needs_work \/ gwork.id = -1
      BY <2>1 DEF StratumCheck, sctxVars, gVars
    <3> QED
      BY <3>1 DEF needs_work, RecvInv
  <2>2. CASE StratumGenerate
    <3>1. gwork' = gen_unit /\ job' = NextX2(job)
      BY <2>2 DEF StratumGenerate
    <3> QED
      BY <1>0, <3>1, UnitTypes DEF RecvInv
  <2> QED
    BY <1>2, <2>1, <2>2, ComesToWait DEF RecvInv
<1>3. ASSUME NEW m \in Miners, Miner(m) PROVE RecvInv'
  <2>0. spc' = spc
    BY <1>3, MinerFrame
  <2>1. CASE get_work(m) \/ GenTarget(m) \/ TakeWork(m) \/ ScanEnds(m) \/ submit_work(m)
    <3>1. UNCHANGED <<job, gwork>>
      BY <2>1 DEF get_work, GenTarget, TakeWork, ScanEnds, submit_work, gVars
    <3> QED
      BY <1>1, <2>0, <3>1
  <2>2. CASE got_work(m)
    <3>1. pc[m] = "answered"
      BY <2>2 DEF got_work
    <3> QED
      BY <2>0, <3>1 DEF LockInv, RecvInv
  <2>3. CASE GenStart(m)
    <3>1. gwork' = [gwork EXCEPT !.id = -1, !.prev = 0]
      BY <2>3 DEF GenStart
    <3> QED
      BY <1>0, <3>1 DEF RecvInv, Units
  <2>4. CASE GenFill(m)
    <3>1. gwork' = gen_unit /\ job' = NextX2(job)
      BY <2>4 DEF GenFill
    <3> QED
      BY <1>0, <3>1, UnitTypes DEF RecvInv
  <2> QED
    BY <1>3, <2>1, <2>2, <2>3, <2>4 DEF Miner
<1>4. CASE UNCHANGED vars
  BY <1>1, <1>4 DEF vars, threadVars, sctxVars, gVars
<1>5. CASE Pool \/ Workio \/ Tick
  BY <1>1, <1>5, PoolFrame, WorkioFrame, TickFrame
<1> QED
  BY <1>2, <1>3, <1>4, <1>5, Zenon DEF Next

-----------------------------------------------------------------------------
(* The pool has announced its job, and nothing has gone wrong since:       *)
(* either the announcement is under way or it has been handled.            *)
Announced == link = "up" /\ announced /\ ~ crossed /\ ~ lost
Coming    == \E i \in 1 .. Len(rx) : rx[i] = Line("notify", pjob)
Settled   == job.job = pjob /\ job.ses = px1
QuietInv  == Announced => Coming \/ Settled

(* At the start nothing is announced. *)
LEMMA QuietInit ==
  ASSUME Init
  PROVE  QuietInv
BY DEF Init, QuietInv, Announced

(* Neither the announcement nor the job is touched. *)
LEMMA QuietKept ==
  ASSUME QuietInv, Announced' => Announced,
         Announced' => UNCHANGED <<px1, pjob>>,
         Announced' /\ Coming => Coming',
         job'.job = job.job, job'.ses = job.ses
  PROVE  QuietInv'
BY DEF QuietInv, Settled

(* A line is sent behind the others. *)
LEMMA ComingAppend ==
  ASSUME WireTypes, NEW l \in Lines, rx' = Append(rx, l), pjob' = pjob
  PROVE  Coming => Coming'
<1>1. /\ Len(rx') = Len(rx) + 1 /\ Len(rx) \in Nat
      /\ \A i \in 1 .. Len(rx) : rx'[i] = rx[i]
  BY FromAppend DEF WireTypes
<1>2. \A i \in 1 .. Len(rx) : i \in 1 .. Len(rx')
  BY <1>1
<1> QED
  BY <1>1, <1>2 DEF Coming

(* A line is taken that is not the announcement. *)
LEMMA ComingTail ==
  ASSUME WireTypes, rx # <<>>, rx' = Tail(rx), pjob' = pjob, Head(rx) # Line("notify", pjob)
  PROVE  Coming => Coming'
<1>1. /\ Len(rx) \in Nat /\ Len(rx) > 0 /\ Head(rx) = rx[1] /\ Len(rx') = Len(rx) - 1
      /\ \A i \in 1 .. Len(rx') : i + 1 \in 1 .. Len(rx) /\ rx'[i] = rx[i + 1]
  BY FromTail DEF WireTypes
<1>2. ASSUME NEW i \in 1 .. Len(rx), rx[i] = Line("notify", pjob)
      PROVE  i - 1 \in 1 .. Len(rx') /\ rx'[i - 1] = rx[i]
  <2>1. i # 1
    BY <1>1, <1>2
  <2>2. i - 1 \in 1 .. Len(rx') /\ (i - 1) + 1 = i
    BY <1>1, <2>1
  <2> QED
    BY <1>1, <2>2
<1> QED
  BY <1>2 DEF Coming

(* The first line breaks up, and is not a notify. *)
LEMMA ComingTrickle ==
  ASSUME WireTypes, Trickle, Head(rx).kind # "notify"
  PROVE  Coming => Coming'
<1>0. rx \in Seq(Lines) /\ rx # <<>> /\ rx' = <<Torn, Torn>> \o Tail(rx) /\ pjob' = pjob
  BY DEF WireTypes, Trickle
<1>1. /\ Len(rx) \in Nat /\ Len(rx) > 0 /\ Head(rx) = rx[1] /\ Len(Tail(rx)) = Len(rx) - 1
      /\ \A i \in 1 .. Len(Tail(rx)) : i + 1 \in 1 .. Len(rx) /\ Tail(rx)[i] = rx[i + 1]
      /\ Tail(rx) \in Seq(Lines)
  BY <1>0, FromTail
<1>2. Torn \in Lines
  BY DEF Torn, Line, Lines
<1>3. /\ Len(rx') = 2 + Len(Tail(rx))
      /\ \A i \in 3 .. Len(rx') : rx'[i] = Tail(rx)[i - 2]
  BY <1>0, <1>1, <1>2
<1>4. ASSUME NEW i \in 1 .. Len(rx), rx[i] = Line("notify", pjob)
      PROVE  i + 1 \in 1 .. Len(rx') /\ rx'[i + 1] = rx[i]
  <2>1. i # 1
    BY <1>1, <1>4 DEF Line
  <2>2. i - 1 \in 1 .. Len(Tail(rx)) /\ (i - 1) + 1 = i /\ i + 1 \in 3 .. Len(rx')
        /\ (i + 1) - 2 = i - 1 /\ i + 1 \in 1 .. Len(rx')
    BY <1>1, <1>3, <2>1
  <2> QED
    BY <1>1, <1>3, <2>2
<1> QED
  BY <1>0, <1>4 DEF Coming

(* The announcement is sent, or lines come before and behind it. *)
LEMMA QuietPool ==
  ASSUME WireTypes, QuietInv, Pool
  PROVE  QuietInv'
<1>0. /\ job' = job
      /\ PoolJob \/ PoolAnnounce \/ PoolExtra \/ Drop \/ Trickle
  BY PoolFrame
<1>1. CASE PoolJob
  BY <1>1 DEF PoolJob, QuietInv, Announced
<1>2. CASE PoolAnnounce
  <2>1. rx' = Append(rx, Line("notify", pjob)) /\ pjob' = pjob
    BY <1>2 DEF PoolAnnounce
  <2>2. Line("notify", pjob) \in Lines
    BY DEF WireTypes, Line, Lines
  <2>3. /\ Len(rx') = Len(rx) + 1 /\ Len(rx) \in Nat
        /\ rx'[Len(rx) + 1] = Line("notify", pjob)
    BY <2>1, <2>2, FromAppend DEF WireTypes
  <2>4. Len(rx) + 1 \in 1 .. Len(rx')
    BY <2>3
  <2> QED
    BY <2>1, <2>3, <2>4 DEF QuietInv, Coming
<1>3. CASE PoolExtra
  <2>1. \E k \in {"diff", "request", "reconnect"}, v \in {0, 2} :
          rx' = Append(rx, Line(k, v)) /\ Line(k, v) \in Lines
    BY <1>3 DEF PoolExtra, Line, Lines
  <2>2. UNCHANGED <<link, announced, crossed, lost, px1, pjob>>
    BY <1>3 DEF PoolExtra
  <2>3. Coming => Coming'
    BY <2>1, <2>2, ComingAppend
  <2> QED
    BY <1>0, <2>2, <2>3, QuietKept DEF Announced
<1>4. CASE Drop
  BY <1>4 DEF Drop, QuietInv, Announced
<1>5. CASE Trickle
  <2>1. UNCHANGED <<link, announced, crossed, px1, pjob>>
    BY <1>5 DEF Trickle
  <2>2. ~ lost' => ~ lost /\ Head(rx).kind # "notify"
    BY <1>5 DEF Trickle
  <2>3. ~ lost' => (Coming => Coming')
    BY <1>5, <2>2, ComingTrickle
  <2> QED
    BY <1>0, <2>1, <2>2, <2>3, QuietKept DEF Announced
<1> QED
  BY <1>0, <1>1, <1>2, <1>3, <1>4, <1>5

(* A share is answered by one line. *)
LEMMA ShareLine ==
  ASSUME WireTypes, NEW w, PoolShare(w)
  PROVE  \E l \in Lines : rx' = Append(rx, l)
<1>1. Line("true", "share") \in Lines
  BY DEF Line, Lines
<1> QED
  BY <1>1, ErrorLine DEF PoolShare

(* A share is sent while an announcement is under way. *)
LEMMA QuietWorkio ==
  ASSUME WireTypes, QuietInv, Workio
  PROVE  QuietInv'
<1>1. job' = job /\ (UNCHANGED wire \/ (link = "up" /\ link' = link /\ PoolShare(Command)))
  BY WorkioFrame
<1>2. CASE UNCHANGED wire
  BY <1>1, <1>2, QuietKept DEF wire, Announced, Coming
<1>3. CASE link' = link /\ PoolShare(Command)
  <2>1. UNCHANGED <<px1, announced, lost, pjob>> /\ (~ crossed' => ~ crossed)
    BY <1>3 DEF PoolShare
  <2>2. Coming => Coming'
    BY <1>3, <2>1, ShareLine, ComingAppend
  <2> QED
    BY <1>1, <1>3, <2>1, <2>2, QuietKept DEF Announced
<1> QED
  BY <1>1, <1>2, <1>3

(* The next line is taken by the thread and is not a notify. *)
LEMMA QuietTaken ==
  ASSUME WireTypes, QuietInv, rx # <<>>, TakeLine, job' = job,
         ~ crossed => Head(rx).kind # "notify"
  PROVE  QuietInv'
<1>1. rx' = Tail(rx) /\ UNCHANGED <<link, px1, announced, crossed, lost, pjob>>
  BY DEF TakeLine
<1>2. Head(rx).kind # "notify" => Head(rx) # Line("notify", pjob)
  BY DEF Line
<1>3. ~ crossed => (Coming => Coming')
  BY <1>1, <1>2, ComingTail
<1> QED
  BY <1>1, <1>3, QuietKept DEF Announced

(* The next line is a notify and is handled, in the session of the         *)
(* connection.                                                             *)
LEMMA QuietNotified ==
  ASSUME WireTypes, ContextTypes, JobInv, HandInv, QuietInv, rx # <<>>, TakeLine,
         Head(rx).kind = "notify", Head(rx) \in Lines, stratum_notify(Head(rx).val),
         spc \in {"authorized", "recv"}
  PROVE  QuietInv'
<1>1. rx' = Tail(rx) /\ UNCHANGED <<link, px1, announced, crossed, lost, pjob>>
  BY DEF TakeLine
<1>2. SUFFICES ASSUME Announced PROVE Coming' \/ Settled'
  BY <1>1 DEF QuietInv, Announced
<1>3. x1 = px1
  BY <1>2 DEF Announced, HandInv, Admitted, Main
<1>4. Head(rx).val \in Jobs /\ Head(rx) = Line("notify", Head(rx).val)
  BY NotifyLine
<1>5. job'.job = Head(rx).val /\ job'.ses = px1
  BY <1>3, <1>4, NotifyTypes
<1>6. CASE Head(rx) = Line("notify", pjob)
  <2>1. Head(rx).val = pjob
    BY <1>6 DEF Line
  <2> QED
    BY <1>1, <1>5, <2>1 DEF Settled
<1>7. CASE Head(rx) # Line("notify", pjob)
  <2>1. Head(rx) = rx[1] /\ 1 \in 1 .. Len(rx)
    BY FromTail DEF WireTypes
  <2>2. Head(rx).val # pjob
    BY <1>4, <1>7
  <2>3. /\ job.job.id <= Head(rx).val.id /\ Head(rx).val.id <= pjob.id
        /\ Head(rx).val.id # pjob.id
    BY <2>1, <2>2 DEF JobInv, NotifiesInOrder
  <2>4. Head(rx).val.id \in Nat /\ pjob.id \in Nat
    BY <1>4 DEF WireTypes, Jobs
  <2>5. ~ Settled
    BY <2>3, <2>4 DEF Settled
  <2> QED
    BY <1>1, <1>2, <1>7, <2>5, ComingTail DEF QuietInv
<1> QED
  BY <1>6, <1>7

(* A method is handled while an announcement is under way. *)
LEMMA QuietMethod ==
  ASSUME WireTypes, ContextTypes, JobInv, HandInv, QuietInv, rx # <<>>,
         stratum_handle_method(Head(rx)), spc \in {"authorized", "recv"}
  PROVE  QuietInv'
<1>1. CASE /\ Head(rx).kind = "notify" /\ Head(rx) \in Lines
           /\ stratum_notify(Head(rx).val) /\ TakeLine
  BY <1>1, QuietNotified
<1>2. CASE TakeLine /\ Head(rx).kind \in {"diff", "request"} /\ UNCHANGED job
  BY <1>2, QuietTaken
<1>3. CASE Hangup
  BY <1>3 DEF Hangup, QuietInv, Announced
<1> QED
  BY <1>1, <1>2, <1>3, MethodWire

(* Every step of the stratum thread keeps QuietInv. *)
LEMMA QuietThread ==
  ASSUME WireTypes, ContextTypes, JobInv, ConnInv, HandInv, QuietInv, StratumThread
  PROVE  QuietInv'
<1>1. ASSUME UNCHANGED wire, job'.job = job.job, job'.ses = job.ses PROVE QuietInv'
  BY <1>1, QuietKept DEF wire, Announced, Coming
<1>2. ASSUME Hangup PROVE QuietInv'
  BY <1>2 DEF Hangup, QuietInv, Announced
<1>3. CASE StratumPop \/ StratumReset \/ StratumCheck
  BY <1>1, <1>3 DEF StratumPop, StratumReset, StratumCheck, wire, poolVars, connVars, sctxVars
<1>4. CASE stratum_connect
  <2>1. spc = "connect" /\ announced' = announced
    BY <1>4 DEF stratum_connect
  <2>2. ~ announced
    BY <2>1 DEF ConnInv, Apart
  <2> QED
    BY <2>1, <2>2 DEF QuietInv, Announced
<1>5. CASE stratum_connect_fails \/ handshake_fails
  <2>1. stratum_disconnect
    BY <1>5 DEF stratum_connect_fails, handshake_fails
  <2> QED
    BY <1>2, <2>1, DisconnectFrame
<1>6. CASE stratum_subscribe
  <2> DEFINE s == IF retry THEN 0 ELSE session_id
  <2>1. /\ UNCHANGED <<job, link>> /\ (PoolSubscribe(s) \/ PoolIdle)
    BY <1>6 DEF stratum_subscribe, send_line, sctxVars
  <2> HIDE DEF s
  <2>2. CASE PoolSubscribe(s)
    BY <2>2 DEF PoolSubscribe, QuietInv, Announced
  <2>3. CASE PoolIdle
    BY <1>1, <2>1, <2>3 DEF PoolIdle, wire
  <2> QED
    BY <2>1, <2>2, <2>3
<1>7. CASE stratum_subscribed
  BY <1>7, QuietTaken DEF stratum_subscribed
<1>8. CASE stratum_subscribe_again
  <2>1. /\ rx # <<>> /\ TakeLine /\ job' = job /\ spc = "subscribed" /\ ~ retry
        /\ Head(rx) = rx[1]
    BY <1>8 DEF stratum_subscribe_again, sctxVars
  <2>2. ~ crossed => Head(rx).kind # "notify"
    BY <2>1 DEF HandInv, Subscribing
  <2> QED
    BY <2>1, <2>2, QuietTaken
<1>9. CASE stratum_authorize
  <2>1. UNCHANGED <<job, link>> /\ (PoolAuthorize \/ PoolIdle)
    BY <1>9 DEF stratum_authorize, send_line, sctxVars
  <2>2. CASE PoolAuthorize
    <3>1. UNCHANGED <<px1, pjob, announced, crossed, lost>>
      BY <2>2 DEF PoolAuthorize
    <3>2. Line("true", "auth") \in Lines /\ Line("false", "auth") \in Lines
      BY DEF Line, Lines
    <3>3. \E l \in Lines : rx' = Append(rx, l)
      BY <2>2, <3>2 DEF PoolAuthorize
    <3>4. Coming => Coming'
      BY <3>1, <3>3, ComingAppend
    <3> QED
      BY <2>1, <3>1, <3>4, QuietKept DEF Announced
  <2>3. CASE PoolIdle
    BY <1>1, <2>1, <2>3 DEF PoolIdle, wire
  <2> QED
    BY <2>1, <2>2, <2>3
<1>10. CASE stratum_authorize_method \/ StratumMethod
  <2>1. rx # <<>> /\ stratum_handle_method(Head(rx)) /\ spc \in {"authorized", "recv"}
    BY <1>10 DEF stratum_authorize_method, StratumMethod
  <2> QED
    BY <2>1, QuietMethod
<1>11. CASE stratum_authorized \/ stratum_handle_response
  <2>1. rx # <<>> /\ not_a_method(Head(rx))
    BY <1>11 DEF stratum_authorized, stratum_handle_response
  <2> QED
    BY <2>1, NotMethodWire, QuietTaken
<1>12. CASE StratumGenerate
  <2>1. UNCHANGED wire /\ job' = NextX2(job)
    BY <1>12 DEF StratumGenerate, wire, poolVars, connVars
  <2> QED
    BY <1>1, <2>1, UnitTypes
<1>13. CASE StratumInterrupted
  BY <1>2, <1>13 DEF StratumInterrupted
<1> QED
  BY <1>3, <1>4, <1>5, <1>6, <1>7, <1>8, <1>9, <1>10, <1>11, <1>12, <1>13 DEF StratumThread

(* Every step keeps QuietInv. *)
LEMMA QuietStep ==
  Types /\ JobInv /\ ConnInv /\ HandInv /\ QuietInv /\ [Next]_vars => QuietInv'
<1> SUFFICES ASSUME Types, JobInv, ConnInv, HandInv, QuietInv, [Next]_vars PROVE QuietInv'
  OBVIOUS
<1>0. WireTypes /\ ContextTypes
  BY DEF Types
<1>1. ASSUME UNCHANGED wire, job'.job = job.job, job'.ses = job.ses PROVE QuietInv'
  BY <1>1, QuietKept DEF wire, Announced, Coming
<1>2. CASE UNCHANGED vars
  BY <1>1, <1>2 DEF vars, wire, poolVars, connVars, sctxVars
<1>3. CASE Pool
  BY <1>0, <1>3, QuietPool
<1>4. CASE Workio
  BY <1>0, <1>4, QuietWorkio
<1>5. CASE Tick
  BY <1>1, <1>5, TickFrame
<1>6. ASSUME NEW m \in Miners, Miner(m) PROVE QuietInv'
  <2>1. UNCHANGED wire
    BY <1>6, MinerFrame
  <2>2. job' \in {job, NextX2(job)}
    BY <1>6, MinerJob
  <2> QED
    BY <1>0, <1>1, <2>1, <2>2, UnitTypes
<1>7. CASE StratumThread
  BY <1>0, <1>7, QuietThread
<1> QED
  BY <1>2, <1>3, <1>4, <1>5, <1>6, <1>7, Zenon DEF Next

-----------------------------------------------------------------------------
(* The target of g_work may be another than its job asked for.             *)
Waived == RenewalDue \/ (job.again /\ gwork.id = job.job.id)

(* While a miner computes the target, the job still has the difficulty the *)
(* unit asked for, or waives it; and during a handshake, when a notify     *)
(* does not renew g_work, there is no work and nobody computes a target.   *)
(* g_work's job_id is invalid only while a miner fills it under the lock,  *)
(* so a comparison with it is not excused while a target is computed.      *)
TargetInv ==
  /\ TargetOfJob
  /\ \A m \in Miners : pc[m] = "target" => gasked = job.diff \/ Waived
  /\ spc \in {"connect"} \cup Handshake =>
       gtime = "zero" /\ \A m \in Miners : pc[m] \notin {"fill", "target"}
  /\ glock = "free" \/ (\E m \in Miners : pc[m] = "target") => gwork.id # -1

(* At the start there is no work. *)
LEMMA TargetInit ==
  ASSUME Init
  PROVE  TargetInv
BY DEF Init, TargetInv, TargetOfJob, NoUnit, NoJob, Unit, Handshake

(* Time passes, or a miner goes on without a unit. *)
LEMMA TargetKept ==
  ASSUME TargetInv, UNCHANGED <<spc, job, gwork, gdiff, gasked, glock>>,
         gtime' = gtime \/ (gtime = "fresh" /\ gtime' = "old"),
         \A m \in Miners : pc'[m] \in {"fill", "target"} => pc'[m] = pc[m]
  PROVE  TargetInv'
<1>1. (Waived' <=> Waived) /\ (gtime' = "zero" <=> gtime = "zero")
  BY DEF Waived, RenewalDue
<1>2. TargetOfJob'
  BY DEF TargetInv, TargetOfJob, RenewalDue
<1> QED
  BY <1>1, <1>2 DEF TargetInv

(* A notify in the main loop: g_work is of another job, and about to be    *)
(* renewed, or its job was announced again.                                *)
LEMMA TargetNotified ==
  ASSUME TargetInv, UNCHANGED <<gwork, gdiff, gasked, glock, gtime, pc>>, spc' = "work",
         job'.again \/ gwork'.id # job'.job.id
  PROVE  TargetInv'
<1>1. Waived'
  BY DEF Waived, RenewalDue
<1> QED
  BY <1>1 DEF TargetInv, TargetOfJob, Waived, Handshake

(* What the stratum thread does to g_work and its target. *)
LEMMA TargetThread ==
  ASSUME Types, LockInv, JobInv, ConnInv, TargetInv, StratumThread
  PROVE  TargetInv'
<1> DEFINE same == UNCHANGED <<gwork, gdiff, gasked, glock, gtime>>
<1>0. WireTypes /\ ContextTypes /\ WorkTypes
  BY DEF Types
<1>1. pc' = pc
  BY ThreadFrame
<1>2. glock = "free" => \A m \in Miners : pc[m] \notin {"fill", "target"}
  BY StratumAssumption DEF LockInv
<1>3. CASE StratumReset
  <2>1. glock = "free" /\ gtime' = "zero" /\ UNCHANGED <<gwork, glock>>
    BY <1>3 DEF StratumReset
  <2> QED
    BY <1>1, <1>2, <2>1 DEF TargetInv, TargetOfJob
<1>4. CASE StratumGenerate
  <2>1. /\ glock = "free" /\ gwork' = gen_unit /\ gdiff' = job.diff /\ gasked' = job.diff
        /\ glock' = glock /\ spc' = "recv"
    BY <1>4 DEF StratumGenerate
  <2>2. gwork'.id \in Nat
    BY <1>0, <2>1, UnitTypes DEF ContextTypes, Jobs
  <2> QED
    BY <1>1, <1>2, <2>1, <2>2 DEF TargetInv, TargetOfJob, Handshake
<1>5. CASE StratumCheck
  <2>1. /\ spc = "work" /\ same /\ job' = job
        /\ \/ spc' = "generate"
           \/ spc' = "recv" /\ (~ needs_work \/ gwork.id = -1)
    BY <1>5 DEF StratumCheck, sctxVars, gVars
  <2>2. CASE spc' = "generate"
    BY <1>1, <2>1, <2>2 DEF TargetInv, TargetOfJob, Waived, RenewalDue, Handshake
  <2>3. CASE spc' = "recv" /\ gwork.id = -1
    BY <1>1, <2>1, <2>3 DEF TargetInv, TargetOfJob, Handshake
  <2>4. CASE spc' = "recv" /\ ~ needs_work /\ gwork.id # -1
    <3>1. gwork.id = job.job.id
      <4>1. job.job.id \in Nat /\ gwork.id \in Nat /\ gwork.id <= job.job.id
        BY <1>0, <2>4 DEF ContextTypes, WorkTypes, Jobs, Units, JobInv, UnitsBehind, UnitBehind
      <4> QED
        BY <2>4, <4>1 DEF needs_work
    <3> QED
      BY <1>1, <2>1, <2>4, <3>1 DEF TargetInv, TargetOfJob, Waived, RenewalDue, Handshake
  <2> QED
    BY <2>1, <2>2, <2>3, <2>4
<1>6. CASE StratumMethod
  <2>1. /\ spc = "recv" /\ same /\ rx # <<>> /\ stratum_handle_method(Head(rx))
        /\ spc' = IF link' = "none" THEN "reset" ELSE "work"
    BY <1>6 DEF StratumMethod, gVars
  <2>2. CASE /\ Head(rx).kind = "notify" /\ Head(rx) \in Lines
             /\ stratum_notify(Head(rx).val) /\ TakeLine
    <3>1. job'.again \/ gwork'.id # job'.job.id
      BY <2>1, <2>2, NotifiedAgain DEF Notified, TakeLine
    <3>2. spc' = "work"
      BY <2>1, <2>2 DEF TakeLine, ConnInv, Main
    <3> QED
      BY <1>1, <2>1, <3>1, <3>2, TargetNotified
  <2>3. CASE job' = job
    BY <1>1, <2>1, <2>3 DEF TargetInv, TargetOfJob, Waived, RenewalDue, Handshake
  <2> QED
    BY <1>0, <2>1, <2>2, <2>3, MethodWire
<1>7. CASE StratumPop \/ stratum_handle_response \/ StratumInterrupted
  <2>1. /\ same /\ job' = job /\ spc \in {"pop", "recv"} /\ spc' \in {"reset", "work"}
    BY <1>0, <1>7, NotMethodWire
    DEF StratumPop, stratum_handle_response, StratumInterrupted, gVars, sctxVars
  <2> QED
    BY <1>1, <2>1 DEF TargetInv, TargetOfJob, Waived, RenewalDue, Handshake
<1>8. CASE spc \in {"connect"} \cup Handshake
  <2>1. gtime = "zero" /\ \A m \in Miners : pc[m] \notin {"fill", "target"}
    BY <1>8 DEF TargetInv
  <2>2. CASE same
    BY <1>1, <2>1, <2>2 DEF TargetInv, TargetOfJob
  <2>3. same \/ StratumReset \/ StratumGenerate
    BY ThreadFrame
  <2> QED
    BY <1>3, <1>4, <2>2, <2>3
<1> QED
  <2>1. stratum_connect \/ stratum_connect_fails => spc = "connect"
    BY DEF stratum_connect, stratum_connect_fails
  <2>2. stratum_subscribe \/ stratum_subscribed \/ stratum_subscribe_again
          \/ stratum_authorize \/ stratum_authorize_method \/ stratum_authorized
          \/ handshake_fails => spc \in Handshake
    BY DEF stratum_subscribe, stratum_subscribed, stratum_subscribe_again, stratum_authorize,
           stratum_authorize_method, stratum_authorized, handshake_fails, Handshake
  <2> QED
    BY <1>3, <1>4, <1>5, <1>6, <1>7, <1>8, <2>1, <2>2 DEF StratumThread

(* What a miner does to g_work and its target: only the holder of          *)
(* g_work_lock is between drawing a unit and computing its target.         *)
LEMMA TargetMiner ==
  ASSUME Types, LockInv, TargetInv, NEW m \in Miners, Miner(m)
  PROVE  TargetInv'
<1>0. /\ ContextTypes /\ m # "free" /\ spc' = spc
      /\ gwork \in Units
      /\ pc \in [Miners -> {"top", "await", "answered", "fill", "target", "scan"}]
  BY MinerFrame, StratumAssumption DEF Types, WorkTypes
<1>1. \A n \in Miners : glock \in {"free", m} /\ n # m => pc[n] \notin {"fill", "target"}
  BY <1>0, StratumAssumption DEF LockInv
<1>2. CASE get_work(m)
  <2>1. /\ glock = "free" /\ glock' = m /\ pc' = [pc EXCEPT ![m] = "await"]
        /\ UNCHANGED <<job, gwork, gdiff, gasked, gtime>>
    BY <1>2 DEF get_work
  <2>2. \A n \in Miners : pc'[n] \notin {"fill", "target"}
    BY <1>0, <1>1, <2>1
  <2> QED
    BY <1>0, <2>1, <2>2 DEF TargetInv, TargetOfJob
<1>3. CASE got_work(m)
  <2>1. /\ pc[m] = "answered" /\ gwork' = NoUnit /\ gtime' = "zero"
        /\ pc' = [pc EXCEPT ![m] = "top"]
    BY <1>3 DEF got_work
  <2>2. \A n \in Miners : pc'[n] \notin {"fill", "target"}
    BY <1>0, <1>1, <2>1 DEF LockInv
  <2>3. gwork'.id = 0
    BY <2>1 DEF NoUnit, Unit, NoJob
  <2> QED
    BY <1>0, <2>1, <2>2, <2>3 DEF TargetInv, TargetOfJob
<1>4. CASE GenStart(m)
  <2>1. /\ glock = "free" /\ glock' = m /\ pc' = [pc EXCEPT ![m] = "fill"]
        /\ gtime = "fresh" /\ gtime' = gtime
    BY <1>4 DEF GenStart
  <2>2. \A n \in Miners : pc'[n] # "target"
    BY <1>0, <1>1, <2>1
  <2> QED
    BY <1>0, <2>1, <2>2 DEF TargetInv, TargetOfJob
<1>5. CASE GenFill(m)
  <2>1. /\ pc[m] = "fill" /\ pc' = [pc EXCEPT ![m] = "target"] /\ glock' = glock
        /\ gwork' = gen_unit /\ gasked' = job.diff /\ job' = NextX2(job)
    BY <1>5 DEF GenFill
  <2>2. glock = m /\ spc \notin {"connect"} \cup Handshake
    BY <2>1 DEF LockInv, TargetInv
  <2>3. \A n \in Miners : pc'[n] = "target" => n = m
    BY <1>0, <1>1, <2>1, <2>2
  <2>4. gwork'.id \in Nat /\ gasked' = job'.diff
    BY <1>0, <2>1, UnitTypes DEF ContextTypes, Jobs
  <2> QED
    BY <1>0, <2>1, <2>2, <2>3, <2>4 DEF TargetInv, TargetOfJob
<1>6. CASE GenTarget(m)
  <2>1. /\ pc[m] = "target" /\ pc' = [pc EXCEPT ![m] = "scan"] /\ gdiff' = job.diff
        /\ glock' = "free" /\ UNCHANGED <<job, gwork, gasked>>
    BY <1>6 DEF GenTarget, take_over
  <2>2. glock = m /\ gwork.id # -1 /\ spc \notin {"connect"} \cup Handshake
    BY <2>1 DEF LockInv, TargetInv
  <2>3. \A n \in Miners : pc'[n] # "target"
    BY <1>0, <1>1, <2>1, <2>2
  <2>4. gasked = job.diff \/ Waived
    BY <2>1 DEF TargetInv
  <2>5. TargetOfJob'
    BY <1>0, <2>1, <2>4 DEF TargetOfJob, Waived, RenewalDue
  <2> QED
    BY <1>0, <2>1, <2>2, <2>3, <2>5 DEF TargetInv
<1>7. CASE TakeWork(m) \/ ScanEnds(m) \/ submit_work(m)
  <2>1. /\ UNCHANGED <<job, gwork, gdiff, gasked, glock, gtime>>
        /\ \E q \in {"scan", "top"} : pc' = [pc EXCEPT ![m] = q]
    BY <1>7 DEF TakeWork, ScanEnds, submit_work, take_over, gVars
  <2>2. \A n \in Miners : pc'[n] \in {"fill", "target"} => pc'[n] = pc[n]
    BY <1>0, <2>1
  <2> QED
    BY <1>0, <2>1, <2>2, TargetKept
<1> QED
  BY <1>2, <1>3, <1>4, <1>5, <1>6, <1>7 DEF Miner

(* Every step keeps TargetInv. *)
LEMMA TargetStep ==
  Types /\ LockInv /\ JobInv /\ ConnInv /\ TargetInv /\ [Next]_vars => TargetInv'
<1> SUFFICES ASSUME Types, LockInv, JobInv, ConnInv, TargetInv, [Next]_vars PROVE TargetInv'
  OBVIOUS
<1>1. CASE UNCHANGED vars
  BY <1>1, TargetKept DEF vars, threadVars, sctxVars, gVars, minerVars
<1>2. CASE Pool
  BY <1>2, PoolFrame, TargetKept
<1>3. CASE Workio
  <2>1. /\ UNCHANGED <<spc, job, gwork, gdiff, gasked, glock, gtime>>
        /\ \/ pc' = pc
           \/ pc' = [m \in Miners |-> IF pc[m] = "await" THEN "answered" ELSE pc[m]]
    BY <1>3, WorkioFrame
  <2>2. \A m \in Miners : pc'[m] \in {"fill", "target"} => pc'[m] = pc[m]
    BY <2>1
  <2> QED
    BY <2>1, <2>2, TargetKept
<1>4. CASE Tick
  <2>1. gtime = "fresh" /\ gtime' = "old"
    BY <1>4 DEF Tick
  <2> QED
    BY <1>4, <2>1, TickFrame, TargetKept
<1>5. CASE StratumThread
  BY <1>5, TargetThread
<1>6. ASSUME NEW m \in Miners, Miner(m) PROVE TargetInv'
  BY <1>6, TargetMiner
<1> QED
  BY <1>1, <1>2, <1>3, <1>4, <1>5, <1>6, Zenon DEF Next

-----------------------------------------------------------------------------
(* All of it. *)
StratumInv == /\ Types /\ LockInv /\ JobInv /\ ConnInv /\ HandInv
              /\ RecvInv /\ QuietInv /\ TargetInv

(* The parts together are inductive: the order of jobs needs the types;    *)
(* the units of a job need the order and the lock; the quiet state needs   *)
(* the order and the pairing of requests and answers.                      *)
LEMMA StratumInvariant == Spec => []StratumInv
<1>1. Init => StratumInv
  BY TypesInit, LockInit, JobInit, HandInit, RecvInit, QuietInit,
     TargetInit
  DEF StratumInv
<1>2. StratumInv /\ [Next]_vars => StratumInv'
  BY TypesStep, LockStep, JobStep, HandStep, RecvStep, QuietStep,
     TargetStep
  DEF StratumInv
<1> QED
  BY <1>1, <1>2, PTL DEF Spec

(* No two units of work in use have the same coinbase: the extranonce2     *)
(* that stratum_gen_work takes next is beyond that of every unit of the    *)
(* same job and extranonce1, across reconnections and repeated notifies,   *)
(* until it wraps.                                                         *)
THEOREM UnitsAreDistinct == Spec => []UnitsDistinct
<1>1. StratumInv => UnitsDistinct
  BY DEF StratumInv, JobInv, UnitsBehind, UnitBehind, UnitsDistinct, UnitsInUse
<1> QED
  BY <1>1, StratumInvariant, PTL

(* A unit of work that miners can take has the target its job asked for,   *)
(* although stratum_set_difficulty may come at any time and the target is  *)
(* computed after work_lock was released.  After a notify in between, this *)
(* is broken only while the stratum thread is on its way to renew g_work,  *)
(* or when it was the same job that was announced again.                   *)
THEOREM TargetIsOfJob == Spec => []TargetOfJob
<1>1. StratumInv => TargetOfJob
  BY DEF StratumInv, TargetInv
<1> QED
  BY <1>1, StratumInvariant, PTL

(* In its main loop stratum_thread has a connection that the pool has      *)
(* authorised, with the extranonce1 of that connection, although           *)
(* stratum_subscribe and stratum_authorize take whatever line comes next   *)
(* for the answer; provided no share of submit_upstream_work crossed the   *)
(* handshake.                                                              *)
THEOREM HandshakeIsPaired == Spec => []HandshakePaired
<1>1. StratumInv => HandshakePaired
  BY DEF StratumInv, HandInv, Admitted, HandshakePaired, Main
<1> QED
  BY <1>1, StratumInvariant, PTL

(* What stratum_handle_response counts as an accepted share answers a      *)
(* share: the answers to the handshake are all gone by then.               *)
THEOREM OnlySharesCount == Spec => []CountsShares
<1>1. StratumInv => CountsShares
  <2> SUFFICES ASSUME StratumInv, spc = "recv", rx # <<>>, Head(rx).kind = "true", ~ crossed
               PROVE  Head(rx).val = "share"
    BY DEF CountsShares
  <2>1. Head(rx) = rx[1] /\ 1 \in 1 .. Len(rx)
    BY FromTail DEF StratumInv, Types, WireTypes
  <2> QED
    BY <2>1 DEF StratumInv, HandInv, Admitted, Main
<1> QED
  BY <1>1, StratumInvariant, PTL

(* When every line has been handled, stratum_thread's job is the pool's    *)
(* with the extranonce1 of the connection, and g_work is made from it or   *)
(* is being made from it.                                                  *)
THEOREM QuietAgrees == Spec => []AgreesWhenQuiet
<1>1. StratumInv => AgreesWhenQuiet
  <2> SUFFICES ASSUME StratumInv, spc = "recv", link = "up", rx = <<>>, announced,
                      ~ crossed, ~ lost
               PROVE  /\ job.job = pjob /\ job.ses = px1
                      /\ gwork.id \in {-1, pjob.id}
                      /\ job.again \/ gwork.id = -1 \/ gwork.ses = px1
    BY DEF AgreesWhenQuiet
  <2>1. ~ Coming
    BY DEF Coming
  <2>2. job.job = pjob /\ job.ses = px1
    BY <2>1 DEF StratumInv, QuietInv, Announced, Settled
  <2>3. 1 <= pjob.id
    BY DEF StratumInv, JobInv, PoolAhead
  <2>4. gwork.id \in {-1, pjob.id}
    BY <2>2, <2>3 DEF StratumInv, RecvInv
  <2>5. job.again \/ gwork.id = -1 \/ gwork.ses = px1
    BY <2>2, <2>4 DEF StratumInv, JobInv, SessionOfJob
  <2> QED
    BY <2>2, <2>4, <2>5
<1> QED
  BY <1>1, StratumInvariant, PTL
=============================================================================
